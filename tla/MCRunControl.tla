---------------------------- MODULE MCRunControl ----------------------------
(* Managed runs and the lock under them.  A behaviour is one of the lock    *)
(* file, of the POSIX supervisor or of the Windows one: the two supervisors *)
(* are the two implementations of one contract, and both take the lock only *)
(* as the mutual exclusion that FileLock shows it to be.                    *)
EXTENDS FileLock, RunControl, WindowsRun

VARIABLE side

mcVars == <<vars, posixVars, winVars, side>>

(* On Windows, two stop calls, or one and a viewer.                         *)
MCInit ==
  /\ Init /\ PosixInit /\ WinInit /\ side \in {"lock", "posix", "windows"}
  /\ IF side # "windows" THEN viewer.step = "never" /\ \A c \in Callers : caller[c] = "never"
     ELSE \/ viewer.step = "never" /\ \A c \in Callers : caller[c] = "idle"
          \/ viewer.step = "idle" /\ \E c \in Callers : \A d \in Callers : caller[d] = "idle" <=> d = c

Locking(A) == side = "lock" /\ A /\ UNCHANGED <<posixVars, winVars, side>>

Posix(A) == side = "posix" /\ A /\ UNCHANGED <<vars, winVars, side>>

Windows(A) == side = "windows" /\ A /\ UNCHANGED <<vars, posixVars, side>>

MCNext == Locking(Next) \/ Posix(PosixNext) \/ Windows(WinNext)

(* Processes are interchangeable in FileLock, so one stands for all.        *)
Watched == CHOOSE p \in Procs : TRUE

(* Each side with its own fairness.  A lock's contender that lives runs its *)
(* call on, whatever the others do; a supervisor keeps running, its clock   *)
(* goes on, and the POSIX one gets its exit event.  Nothing forces a        *)
(* command to react to a signal, or a holder to leave its critical section. *)
MCSpec ==
  /\ MCInit /\ [][MCNext]_mcVars
  /\ WF_mcVars(Locking(Contend(Watched)) \/ Posix(Monitor) \/ Windows(WinMonitor))
  /\ WF_mcVars(Posix(DeadlinePasses) \/ Windows(BudgetPasses))
  /\ WF_mcVars(Posix(ExitEvent))

(* Nothing that was settled is taken back: a lock is retired only after its *)
(* owner died, and a stop request keeps its answer.                         *)
SettledStays == [][SafeRemoval /\ KeepsAnswer]_mcVars

Awaited ==
  \/ side = "lock" /\ At(Watched, "create")
  \/ side = "posix" /\ Pending
  \/ side = "windows" /\ Unanswered

Answered ==
  \/ side = "lock" /\ pc[Watched] \in {"critical", "idle", "dead"}
  \/ side = "posix" /\ (~Pending \/ sup.step = "dead")
  \/ side = "windows" /\ (~Unanswered \/ watch.step = "dead")

(* Nobody waits for ever: a lock call takes the lock or gives up at its     *)
(* deadline, and a stop request is answered while its supervisor lives,     *)
(* even if the command ignores all it is sent.                              *)
RunsMakeProgress == Awaited ~> Answered
=============================================================================
