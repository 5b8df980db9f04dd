-------------------------- MODULE RunControlProofs --------------------------
(***************************************************************************)
(* Managed runs and the lock under them: exclusion for any number of       *)
(* processes, calls, passes and deaths; on POSIX, what meta.json and       *)
(* stopRun say of a run is so, and a stop request keeps its answer, for    *)
(* any number of stopRun calls and of failed updates, with or without      *)
(* unreadable probes; on Windows, no stop, list or view reports more than  *)
(* is so, for any number of stopRun calls and any length of log.           *)
(***************************************************************************)
EXTENDS FileLock, RunControl, WindowsRun, SequenceTheorems, TLAPS

(***************************************************************************)
(* The lock.                                                               *)
(***************************************************************************)
(***************************************************************************)
(* The inductive invariant.  A creator that has not published yet is alone *)
(* with its empty file, a holder's owner is in the file, the guard admits  *)
(* one contender, a contender past its probe looked at a dead owner, and   *)
(* one about to unlink faces exactly that owner's file.                    *)
(***************************************************************************)
CreatorAlone ==
    /\ \A p \in Procs : pc[p] = "publish" => lock # Absent /\ lock.owner = Empty
    /\ \A p, q \in Procs : pc[p] = "publish" /\ pc[q] = "publish" => p = q

HolderPublished ==
    \A p \in Procs : pc[p] \in Holding => lock # Absent /\ lock.owner = Own(p)

OneGuard ==
    /\ \A p \in Procs : pc[p] \in Guarded => reclaim = "present"
    /\ \A p, q \in Procs : pc[p] \in Guarded /\ pc[q] \in Guarded => p = q

SawDeadOwner ==
    \A p \in Procs : pc[p] \in {"guard"} \cup Guarded => Retirable(raw[p])

UnlinksWhatItSaw ==
    \A p \in Procs : pc[p] = "unlink" => lock # Absent /\ lock.owner = raw[p]

LockInv == TypeOK /\ CreatorAlone /\ HolderPublished /\ OneGuard /\ SawDeadOwner
          /\ UnlinksWhatItSaw /\ OwnershipNeverLost /\ GuardHeld

\* The invariant holds initially: nobody has called yet.
LEMMA InitInv == Init => LockInv
  BY DEF Init, LockInv, TypeOK, CreatorAlone, HolderPublished, OneGuard, SawDeadOwner,
         UnlinksWhatItSaw, OwnershipNeverLost, GuardHeld, Steps, Guarded, Holding

\* Every step preserves the invariant.
LEMMA NextInv == LockInv /\ [Next]_vars => LockInv'
<1> SUFFICES ASSUME LockInv, [Next]_vars PROVE LockInv'
  OBVIOUS
<1> USE MarksAssumption, BoundsAssumption
    DEF LockInv, TypeOK, CreatorAlone, HolderPublished, OneGuard, SawDeadOwner,
        UnlinksWhatItSaw, OwnershipNeverLost, GuardHeld, Steps, Guarded, Holding, Goto, At, Own,
        Dead, Retirable, Owners, LockFiles
<1>1. CASE UNCHANGED vars
  BY <1>1 DEF vars
<1>2. ASSUME NEW p \in Procs, StartCall(p) PROVE LockInv'
  BY <1>2 DEF StartCall
<1>3. ASSUME NEW p \in Procs, Create(p) PROVE LockInv'
  BY <1>3 DEF Create
<1>4. ASSUME NEW p \in Procs, Publish(p) PROVE LockInv'
  BY <1>4 DEF Publish
<1>5. ASSUME NEW p \in Procs, PublishFails(p) PROVE LockInv'
  BY <1>5 DEF PublishFails
<1>6. ASSUME NEW p \in Procs, Stat(p) PROVE LockInv'
  BY <1>6 DEF Stat
<1>7. ASSUME NEW p \in Procs, Read(p) PROVE LockInv'
  BY <1>7 DEF Read
<1>8. ASSUME NEW p \in Procs, Probe(p) PROVE LockInv'
  BY <1>8 DEF Probe
<1>9. ASSUME NEW p \in Procs, Guard(p) PROVE LockInv'
  BY <1>9 DEF Guard
<1>10. ASSUME NEW p \in Procs, Restat(p) PROVE LockInv'
  BY <1>10 DEF Restat
<1>11. ASSUME NEW p \in Procs, Reread(p) PROVE LockInv'
  BY <1>11 DEF Reread
<1>12. ASSUME NEW p \in Procs, Unlink(p) PROVE LockInv'
  BY <1>12 DEF Unlink
<1>13. ASSUME NEW p \in Procs, Unguard(p) PROVE LockInv'
  BY <1>13 DEF Unguard
<1>14. ASSUME NEW p \in Procs, Retry(p) PROVE LockInv'
  BY <1>14 DEF Retry
<1>15. ASSUME NEW p \in Procs, TimeOut(p) PROVE LockInv'
  BY <1>15 DEF TimeOut
<1>16. ASSUME NEW p \in Procs, Verify(p) PROVE LockInv'
  BY <1>16 DEF Verify
<1>17. ASSUME NEW p \in Procs, Release(p) PROVE LockInv'
  BY <1>17 DEF Release
<1>18. ASSUME NEW p \in Procs, Crash(p) PROVE LockInv'
  BY <1>18 DEF Crash
<1> QED
  BY <1>1, <1>2, <1>3, <1>4, <1>5, <1>6, <1>7, <1>8, <1>9, <1>10, <1>11, <1>12, <1>13,
     <1>14, <1>15, <1>16, <1>17, <1>18 DEF Next, Contend

\* The invariant holds throughout every behaviour of the specification.
LEMMA AlwaysInv == Spec => []LockInv
  BY InitInv, NextInv, PTL DEF Spec

\* The types of FileLock's variables: they rest on the whole invariant, since
\* publishing writes into a file that has to be there.
THEOREM TypeCorrect == Spec => []TypeOK
<1>1. LockInv => TypeOK
  BY DEF LockInv
<1> QED
  BY <1>1, AlwaysInv, PTL

\* lockFile admits one live process to the critical section, for any number of
\* contenders and deaths: two holders would both be the owner in one file.
THEOREM Exclusion == Spec => []MutualExclusion
<1>1. LockInv => MutualExclusion
  BY DEF LockInv, HolderPublished, MutualExclusion, Own
<1> QED
  BY <1>1, AlwaysInv, PTL

\* The release function never throws "lock ownership changed": nobody retires
\* the lock of a holder that is still alive.
THEOREM OwnershipKept == Spec => []OwnershipNeverLost
<1>1. LockInv => OwnershipNeverLost
  BY DEF LockInv
<1> QED
  BY <1>1, AlwaysInv, PTL

\* What the callers of lockFile rely on, together: one holder, who keeps the
\* lock, and no guard directory left behind by a reclaimer that lives.
THEOREM LockIsSafe == Spec => []LockSafe
<1>1. LockInv => LockSafe
  BY DEF LockInv, HolderPublished, MutualExclusion, Own, LockSafe
<1> QED
  BY <1>1, AlwaysInv, PTL

\* A lock file disappears only by its holder's release or after its published
\* owner died; in particular a lock without an owner is never retired.
THEOREM RetirementIsSafe == Spec => OnlyDeadRetired
<1>1. LockInv /\ [Next]_vars => [SafeRemoval]_vars
  <2> SUFFICES ASSUME LockInv, [Next]_vars, lock # Absent, lock' = Absent PROVE SafeRemoval
    BY DEF SafeRemoval
  <2> USE DEF SafeRemoval, LockInv, Goto, At
  <2>1. ~UNCHANGED vars
    BY DEF vars
  <2>2. PICK p \in Procs : \/ StartCall(p) \/ Contend(p) \/ PublishFails(p)
                           \/ Verify(p) \/ Release(p) \/ Crash(p)
    BY <2>1 DEF Next
  <2>3. CASE UNCHANGED lock
    BY <2>3
  <2>4. Create(p) \/ Publish(p) \/ Unlink(p) \/ Release(p) \/ UNCHANGED lock
    BY <2>2 DEF Contend, StartCall, PublishFails, Stat, Read, Probe, Guard, Restat,
                Reread, Unguard, Retry, TimeOut, Verify, Crash
  <2>5. ~Create(p) /\ ~Publish(p)
    BY MarksAssumption DEF Create, Publish, TypeOK, CreatorAlone, LockFiles, Owners, Own
  <2>6. CASE Unlink(p)
    BY <2>6 DEF Guarded, Unlink, UnlinksWhatItSaw, SawDeadOwner, Retirable
  <2>7. CASE Release(p)
    BY <2>7 DEF Release, HolderPublished, Holding
  <2> QED
    BY <2>3, <2>4, <2>5, <2>6, <2>7
<1> QED
  BY <1>1, AlwaysInv, PTL DEF Spec, OnlyDeadRetired

-----------------------------------------------------------------------------
(***************************************************************************)
(* The run on POSIX.                                                       *)
(***************************************************************************)
(***************************************************************************)
(* The sets the records are made of, by name: the steps below need to know *)
(* that they are kept, seldom what is in them.                             *)
(***************************************************************************)
Lives == {"absent", "open", "ended"}
Statuses == {"running", "stopped", "exited"}
RootViews == {"unknown", "exited"}
Ids == Clients \cup {None}
Lists == Seq(Attempts)
Results == Successes \cup {"none", "incomplete"}
SupSteps == {"spawn", "publish", "poll", "root", "control", "finish", "enter",
          "intend", "kill", "sent", "end", "final", "fail", "done", "dead"}
Args == Phases \cup Successes \cup {"none"}
Calls == {"idle", "lock", "check", "challenge", "request", "poll", "success", "failure", "dead"}

RequestRecs == [id : Ids, phase : Phases, signals : Lists, result : Results]
MetaRecs == [life : Lives, status : Statuses, root : RootViews,
             probe : Ids, ack : Ids, request : RequestRecs]
SupRecs == [step : SupSteps, request : Ids, arg : Args, delivery : Deliverances]
OsRecs == [root : {"unborn", "alive", "dead"}, kids : {"alive", "gone"}]

Typed ==
    /\ os \in OsRecs /\ outcome \in {"none", "exited"}
    /\ meta \in MetaRecs /\ sup \in SupRecs
    /\ timer \in {"running", "expired"}
    /\ starter \in {"waiting", "started", "failed", "uncertain"}
    /\ client \in [Clients -> Calls] /\ stopLock \in Ids
    /\ failures \in Nat

\* The run is over and the supervisor has seen it: nothing can come back.
Gone == os.root = "dead" /\ os.kids = "gone" /\ outcome = "exited"

SignalsOf(attempts) == [i \in DOMAIN attempts |-> attempts[i].signal]

SentSoFar == SignalsOf(meta.request.signals)

\* What may have been intended before SIGTERM, and with it.
BeforeTerm == {<<>>, <<"SIGINT">>}
WithTerm == {<<"SIGTERM">>, <<"SIGINT", "SIGTERM">>}
WithKill == {<<"SIGTERM", "SIGKILL">>, <<"SIGINT", "SIGTERM", "SIGKILL">>}

\* A command is born once, and dies before its exit is seen.
LifeOfRoot ==
    /\ outcome = "exited" => os.root = "dead"
    /\ InStep("spawn") => os.root = "unborn"
    /\ sup.step \in {"spawn", "publish"} => meta.life = "absent"
    /\ meta.life = "absent" => meta.request = NoRequest /\ \A c \in Clients : client[c] = "idle"
    /\ starter = "failed" => os.root = "unborn" /\ InStep("dead")

\* The request, its status and the close of the run.
RequestKept ==
    /\ meta.request.id = None => meta.request = NoRequest
    /\ meta.request.id # None => meta.status = "stopped"
    /\ meta.status = "exited" => meta.life = "ended"
    /\ meta.life = "ended" => ~Pending

\* Between its decision and its last write the controller works on a request
\* that is still unanswered: only it, and the failure handler after it, answer.
WorksOnPending ==
    sup.step \in {"finish", "enter", "intend", "kill", "sent"} => Pending

\* Whatever is, or is about to be, called a success, and whatever closes the
\* run, has seen the run over.
OverIsGone ==
    /\ InStep("finish") => sup.arg \in Successes \cup {"incomplete"}
    /\ InStep("finish") /\ sup.arg \in Successes => Gone
    /\ InStep("final") => Gone
    /\ meta.request.result \in Successes => Gone
    /\ meta.life = "ended" => Gone
    /\ (\E c \in Clients : client[c] = "success") => Gone

\* Where the escalation stands when the controller is about to enter a phase,
\* to intend its signal, or has intended it.
MidEscalation ==
    /\ sup.step \in {"enter", "intend", "kill", "sent"}
          => sup.arg \in {"cooperative", "term", "kill"}
    /\ sup.step \in {"intend", "kill", "sent"} => meta.request.phase = sup.arg
    /\ sup.step \in {"enter", "intend"} =>
          /\ sup.arg = "cooperative" => SentSoFar = <<>>
          /\ sup.arg = "term" => SentSoFar \in BeforeTerm
          /\ sup.arg = "kill" => SentSoFar \in WithTerm
    /\ sup.step \in {"kill", "sent"} =>
          /\ sup.arg = "cooperative" => SentSoFar = <<"SIGINT">>
          /\ sup.arg = "term" => SentSoFar \in WithTerm
          /\ sup.arg = "kill" => SentSoFar \in WithKill

\* Between rounds of the loop the phase tells what has been intended; SIGTERM is
\* passed over only when there is nobody left to receive it.
BetweenRounds ==
    /\ SentSoFar \in BeforeTerm \cup WithTerm \cup WithKill
    /\ sup.step \in {"poll", "root", "control", "end", "final"} /\ Pending =>
          /\ meta.request.phase = "requested" => SentSoFar = <<>>
          /\ meta.request.phase = "cooperative" => SentSoFar \in BeforeTerm
          /\ meta.request.phase = "term" => SentSoFar \in WithTerm \/ Gone

IInv ==
    /\ Typed /\ LifeOfRoot /\ RequestKept /\ WorksOnPending
    /\ OverIsGone /\ MidEscalation /\ BetweenRounds

-----------------------------------------------------------------------------
(***************************************************************************)
(* The list of signals under an intent and under the record of a delivery. *)
(***************************************************************************)
LEMMA NothingSent == SignalsOf(<<>>) = <<>>
BY DEF SignalsOf

LEMMA IntentAppends ==
    ASSUME NEW attempts \in Seq(Attempts), NEW attempt \in Attempts
    PROVE  /\ Append(attempts, attempt) \in Seq(Attempts)
           /\ SignalsOf(Append(attempts, attempt)) = Append(SignalsOf(attempts), attempt.signal)
BY DEF SignalsOf, Attempts

LEMMA DeliveryKeepsSignals ==
    ASSUME NEW attempts \in Seq(Attempts), NEW attempt \in Attempts,
           NEW after, after = [i \in 1..Len(attempts) |->
               IF attempts[i].signal = attempt.signal THEN attempt ELSE attempts[i]]
    PROVE  /\ after \in Seq(Attempts)
           /\ SignalsOf(after) = SignalsOf(attempts)
<1>1. after \in Seq(Attempts) /\ DOMAIN after = DOMAIN attempts
  OBVIOUS
<1>2. \A i \in DOMAIN attempts : after[i].signal = attempts[i].signal
  OBVIOUS
<1>. QED
  BY <1>1, <1>2 DEF SignalsOf

LEMMA AppendToOne ==
    ASSUME NEW S, NEW x \in S, NEW y \in S
    PROVE  Append(<<x>>, y) = <<x, y>>
<1>1. /\ <<x>> \in Seq(S) /\ Len(<<x>>) = 1 /\ <<x>>[1] = x
      /\ <<x, y>> \in Seq(S) /\ Len(<<x, y>>) = 2 /\ <<x, y>>[1] = x /\ <<x, y>>[2] = y
  OBVIOUS
<1>2. /\ Append(<<x>>, y) \in Seq(S) /\ Len(Append(<<x>>, y)) = 2
      /\ Append(<<x>>, y)[1] = x /\ Append(<<x>>, y)[2] = y
  BY <1>1, AppendProperties
<1>3. \A i \in 1..Len(Append(<<x>>, y)) : Append(<<x>>, y)[i] = <<x, y>>[i]
  BY <1>1, <1>2
<1>. QED
  BY <1>1, <1>2, <1>3, SeqEqual

LEMMA AppendToTwo ==
    ASSUME NEW S, NEW x \in S, NEW y \in S, NEW z \in S
    PROVE  Append(<<x, y>>, z) = <<x, y, z>>
<1>1. /\ <<x, y>> \in Seq(S) /\ Len(<<x, y>>) = 2 /\ <<x, y>>[1] = x /\ <<x, y>>[2] = y
      /\ <<x, y, z>> \in Seq(S) /\ Len(<<x, y, z>>) = 3
      /\ <<x, y, z>>[1] = x /\ <<x, y, z>>[2] = y /\ <<x, y, z>>[3] = z
  OBVIOUS
<1>2. /\ Append(<<x, y>>, z) \in Seq(S) /\ Len(Append(<<x, y>>, z)) = 3
      /\ Append(<<x, y>>, z)[1] = x /\ Append(<<x, y>>, z)[2] = y
      /\ Append(<<x, y>>, z)[3] = z
  BY <1>1, AppendProperties
<1>3. \A i \in 1..Len(Append(<<x, y>>, z)) : Append(<<x, y>>, z)[i] = <<x, y, z>>[i]
  BY <1>1, <1>2
<1>. QED
  BY <1>1, <1>2, <1>3, SeqEqual

LEMMA Escalation ==
    /\ Append(<<>>, "SIGINT") = <<"SIGINT">>
    /\ \A sent \in BeforeTerm : Append(sent, "SIGTERM") \in WithTerm
    /\ \A sent \in WithTerm : Append(sent, "SIGKILL") \in WithKill
<1>1. \A x \in Signals : Append(<<>>, x) = <<x>>
  OBVIOUS
<1>2. \A x, y \in Signals : Append(<<x>>, y) = <<x, y>>
  BY AppendToOne
<1>3. \A x, y, z \in Signals : Append(<<x, y>>, z) = <<x, y, z>>
  BY AppendToTwo
<1>. QED
  BY <1>1, <1>2, <1>3 DEF BeforeTerm, WithTerm, WithKill, Signals

-----------------------------------------------------------------------------
LEMMA TypedIsTypeOK == Typed <=> PosixTypeOK
BY DEF Typed, PosixTypeOK, Requests, Lives, Statuses, RootViews, Ids, Lists, Results, SupSteps, Args,
       Calls, RequestRecs, MetaRecs, SupRecs, OsRecs

LEMMA InitIInv == PosixInit => IInv
<1>. SUFFICES ASSUME PosixInit PROVE IInv
  OBVIOUS
<1>1. SentSoFar = <<>>
  BY NothingSent DEF PosixInit, SentSoFar, NoRequest
<1>2. PosixTypeOK
  BY FaultsAssumption DEF PosixInit, PosixTypeOK, NoRequest, Requests, Phases, Deliverances, Attempts
<1>3. LifeOfRoot /\ RequestKept /\ WorksOnPending /\ OverIsGone
  BY DEF PosixInit, LifeOfRoot, RequestKept, WorksOnPending, OverIsGone, NoRequest, Pending,
         InStep, Successes
<1>4. MidEscalation /\ BetweenRounds
  BY <1>1 DEF PosixInit, MidEscalation, BetweenRounds, BeforeTerm
<1>. QED
  BY <1>2, <1>3, <1>4, TypedIsTypeOK DEF IInv

-----------------------------------------------------------------------------
(***************************************************************************)
(* Every step keeps the invariant.                                         *)
(***************************************************************************)
LEMMA Named ==
    /\ {"open", "ended"} \subseteq Lives
    /\ {"stopped", "exited"} \subseteq Statuses
    /\ "exited" \in RootViews
    /\ {"requested", "cooperative", "term", "kill", "completed", "incomplete"} \subseteq Phases
    /\ Successes \cup {"incomplete", "none"} \subseteq Results
    /\ Successes \cup Phases \subseteq Args
    /\ "none" \notin Successes /\ "incomplete" \notin Successes
    /\ {"uncertain", "sent", "esrch", "error"} = Deliverances
BY DEF Lives, Statuses, RootViews, Phases, Results, Args, Successes, Deliverances

LEMMA StartupKeeps == IInv /\ Startup => IInv'
<1>. SUFFICES ASSUME IInv, Startup PROVE IInv'
  OBVIOUS
<1>. USE Named, FaultsAssumption
     DEF Answer, StepTo, InStep, IInv, Typed, OsRecs, MetaRecs, RequestRecs, SupRecs, SupSteps, LifeOfRoot,
         RequestKept, WorksOnPending, OverIsGone, MidEscalation, BetweenRounds, Gone, SentSoFar, Pending
<1>1. CASE SupSpawn
  BY <1>1 DEF SupSpawn
<1>2. CASE SupSpawnFails
  BY <1>2 DEF SupSpawnFails
<1>3. CASE SupPublish
  <2>1. /\ meta' \in MetaRecs /\ meta'.life = "open" /\ meta'.status = meta.status
        /\ meta'.request = meta.request
    BY <1>3 DEF SupPublish
  <2>2. /\ sup' \in SupRecs /\ sup'.step = "poll"
    BY <1>3 DEF SupPublish
  <2>. HIDE DEF MetaRecs, SupRecs, RequestRecs
  <2>3. Typed'
    BY <1>3, <2>1, <2>2 DEF SupPublish
  <2>4. LifeOfRoot'
    BY <1>3, <2>1, <2>2 DEF SupPublish
  <2>5. RequestKept' /\ WorksOnPending'
    BY <1>3, <2>1, <2>2 DEF SupPublish
  <2>6. OverIsGone'
    BY <1>3, <2>1, <2>2 DEF SupPublish
  <2>7. MidEscalation' /\ BetweenRounds'
    BY <1>3, <2>1, <2>2, NothingSent DEF SupPublish, NoRequest
  <2>. QED
    BY <2>3, <2>4, <2>5, <2>6, <2>7
<1>4. CASE SupPublishFails
  BY <1>4 DEF SupPublishFails
<1>5. CASE HandshakeTimesOut
  BY <1>5 DEF HandshakeTimesOut
<1>. QED
  BY <1>1, <1>2, <1>3, <1>4, <1>5 DEF Startup

LEMMA WorldKeeps == IInv /\ World => IInv'
<1>. SUFFICES ASSUME IInv, World PROVE IInv'
  OBVIOUS
<1>. USE DEF InStep, IInv, Typed, OsRecs, LifeOfRoot, RequestKept, WorksOnPending, OverIsGone,
         MidEscalation, BetweenRounds, Gone, SentSoFar, Pending, SupAlive
<1>1. CASE RootExits
  BY <1>1 DEF RootExits
<1>2. CASE KidsAppear
  BY <1>2 DEF KidsAppear
<1>3. CASE KidsVanish
  BY <1>3 DEF KidsVanish
<1>4. CASE ExitEvent
  BY <1>4 DEF ExitEvent
<1>5. CASE DeadlinePasses
  BY <1>5 DEF DeadlinePasses
<1>. QED
  BY <1>1, <1>2, <1>3, <1>4, <1>5 DEF World

LEMMA LoopKeeps ==
    IInv /\ (SupAcknowledge \/ SupNoteRoot \/ SupEnd \/ SupFinal \/ SupFail \/ SupUpdateThrows \/ SupCrash)
        => IInv'
<1>. SUFFICES ASSUME IInv,
                     SupAcknowledge \/ SupNoteRoot \/ SupEnd \/ SupFinal \/ SupFail
                        \/ SupUpdateThrows \/ SupCrash
              PROVE  IInv'
  OBVIOUS
<1>. USE Named, FaultsAssumption
     DEF StepTo, InStep, IInv, Typed, OsRecs, MetaRecs, RequestRecs, SupRecs, SupSteps, LifeOfRoot,
         RequestKept, WorksOnPending, OverIsGone, MidEscalation, BetweenRounds, Gone, SentSoFar, Pending
<1>1. CASE SupAcknowledge
  BY <1>1 DEF SupAcknowledge
<1>2. CASE SupNoteRoot
  BY <1>2 DEF SupNoteRoot
<1>3. CASE SupEnd
  BY <1>3 DEF SupEnd, ProbeGroup, GroupGone
<1>4. CASE SupFinal
  <2>1. CASE Pending
    BY <1>4, <2>1 DEF SupFinal
  <2>2. CASE ~Pending
    <3>1. /\ meta' \in MetaRecs /\ meta'.life = "ended" /\ meta'.request = meta.request
          /\ meta'.status = IF meta.status = "stopped" THEN "stopped" ELSE "exited"
      BY <1>4, <2>2 DEF SupFinal, Ended
    <3>2. /\ sup' \in SupRecs /\ sup'.step = "done"
      BY <1>4, <2>2 DEF SupFinal
    <3>. HIDE DEF MetaRecs, SupRecs, RequestRecs
    <3>. QED
      BY <1>4, <2>2, <3>1, <3>2 DEF SupFinal
  <2>. QED
    BY <2>1, <2>2
<1>5. CASE SupFail
  <2>1. CASE ~Pending
    BY <1>5, <2>1 DEF SupFail
  <2>2. CASE Pending
    <3>1. /\ meta' \in MetaRecs /\ meta'.life = meta.life /\ meta'.status = meta.status
          /\ meta'.request.id = meta.request.id /\ meta'.request.result = "incomplete"
          /\ meta'.request.signals = meta.request.signals
      BY <1>5, <2>2 DEF SupFail
    <3>2. /\ sup' \in SupRecs /\ sup'.step = "dead"
      BY <1>5, <2>2 DEF SupFail
    <3>. HIDE DEF MetaRecs, SupRecs, RequestRecs
    <3>3. Typed'
      BY <1>5, <2>2, <3>1, <3>2 DEF SupFail
    <3>4. LifeOfRoot'
      BY <1>5, <2>2, <3>1, <3>2 DEF SupFail, NoRequest
    <3>5. RequestKept' /\ WorksOnPending'
      BY <1>5, <2>2, <3>1, <3>2 DEF SupFail
    <3>6. OverIsGone'
      BY <1>5, <2>2, <3>1, <3>2 DEF SupFail
    <3>7. MidEscalation' /\ BetweenRounds'
      BY <1>5, <2>2, <3>1, <3>2 DEF SupFail
    <3>. QED
      BY <3>3, <3>4, <3>5, <3>6, <3>7
  <2>. QED
    BY <2>1, <2>2
<1>6. CASE SupUpdateThrows
  BY <1>6 DEF SupUpdateThrows
<1>7. CASE SupCrash
  BY <1>7 DEF SupCrash, SupAlive
<1>. QED
  BY <1>1, <1>2, <1>3, <1>4, <1>5, <1>6, <1>7

LEMMA ControlKeeps == IInv /\ SupControl => IInv'
<1>. SUFFICES ASSUME IInv, SupControl PROVE IInv'
  OBVIOUS
<1>. USE Named
     DEF StepTo, StepToWith, InStep, IInv, Typed, OsRecs, SupRecs, SupSteps, LifeOfRoot,
         RequestKept, WorksOnPending, OverIsGone, MidEscalation, BetweenRounds, Gone, SentSoFar, Pending
<1>1. CASE ~Pending
  BY <1>1 DEF SupControl
<1>2. CASE Pending
  <2>1. PICK group \in ProbeGroup : ControlAdopt(group) \/ ControlContinue(group)
    BY <1>2 DEF SupControl
  <2>2. UNCHANGED <<os, outcome, meta, timer, starter, client, stopLock, failures>>
    BY DEF SupControl
  <2>3. \A again \in ProbeGroup : (outcome = "exited" /\ again = "gone") => Gone
    BY DEF ProbeGroup, GroupGone
  <2>4. Gone => ProbeGroup \subseteq {"gone", "unknown"}
    BY DEF ProbeGroup, GroupGone
  <2>5. ASSUME NEW request \in {sup.request, meta.request.id}, NEW to, NEW arg,
               sup' = [sup EXCEPT !.request = request, !.step = to, !.arg = arg],
               \/ to = "end" /\ arg = sup.arg
               \/ to = "finish" /\ arg = "incomplete"
               \/ to = "finish" /\ arg \in Successes /\ Gone
               \/ to = "enter" /\ arg = "cooperative" /\ SentSoFar = <<>>
               \/ to = "enter" /\ arg = "term" /\ SentSoFar \in BeforeTerm
               \/ to = "enter" /\ arg = "kill" /\ SentSoFar \in WithTerm
        PROVE  IInv'
    <3>1. /\ sup' \in SupRecs /\ sup'.step = to /\ sup'.arg = arg
      BY <2>5 DEF MetaRecs, RequestRecs
    <3>2. SentSoFar' = SentSoFar /\ Gone' = Gone /\ Pending' = Pending
      BY <2>2
    <3>3. InStep("control")
      BY DEF SupControl
    <3>. HIDE DEF SupRecs, MetaRecs, RequestRecs, Gone, SentSoFar, Pending
    <3>4. Typed' /\ LifeOfRoot' /\ RequestKept' /\ WorksOnPending'
      BY <1>2, <2>2, <2>5, <3>1, <3>2, <3>3
    <3>5. OverIsGone'
      BY <1>2, <2>2, <2>5, <3>1, <3>2
    <3>6. MidEscalation'
      BY <1>2, <2>2, <2>5, <3>1, <3>2
    <3>7. BetweenRounds'
      BY <1>2, <2>2, <2>5, <3>1, <3>2, <3>3
    <3>. QED
      BY <3>4, <3>5, <3>6, <3>7
  <2>6. CASE ControlAdopt(group)
    <3>1. PICK to \in Adopted(group) :
            sup' = [sup EXCEPT !.request = meta.request.id, !.step = to[1], !.arg = to[2]]
      BY <2>6 DEF ControlAdopt
    <3>2. meta.request.phase = "requested" => SentSoFar = <<>>
      BY <1>2 DEF SupControl
    <3>3. to \in {<<"finish", "incomplete">>, <<"finish", "already-ended">>, <<"enter", "term">>, <<"enter", "cooperative">>}
      BY <3>1 DEF Adopted, Confirmed
    <3>4. to = <<"finish", "already-ended">> => Gone
      BY <3>1, <2>3 DEF Adopted, Confirmed, Settled
    <3>5. to[1] = "enter" => SentSoFar = <<>>
      BY <3>1, <3>2 DEF Adopted, Confirmed
    <3>6. /\ "already-ended" \in Successes
          /\ SentSoFar = <<>> => SentSoFar \in BeforeTerm
      BY DEF BeforeTerm, Successes
    <3>7. \/ to[1] = "finish" /\ to[2] = "incomplete"
          \/ to[1] = "finish" /\ to[2] \in Successes /\ Gone
          \/ to[1] = "enter" /\ to[2] = "cooperative" /\ SentSoFar = <<>>
          \/ to[1] = "enter" /\ to[2] = "term" /\ SentSoFar \in BeforeTerm
      BY <3>3, <3>4, <3>5, <3>6
    <3>. QED
      BY <2>5, <3>1, <3>7
  <2>7. CASE ControlContinue(group)
    <3>1. ASSUME NEW to, NEW arg, StepToWith(to, arg)
          PROVE  sup' = [sup EXCEPT !.request = sup.request, !.step = to, !.arg = arg]
      BY <3>1
    <3>2. ASSUME StepTo("end") PROVE IInv'
      <4>1. sup' = [sup EXCEPT !.request = sup.request, !.step = "end", !.arg = sup.arg]
        BY <3>2
      <4>. QED
        BY <4>1, <2>5
    <3>3. ASSUME NEW result \in Successes \cup {"incomplete"}, Finish(result) PROVE IInv'
      <4>1. PICK confirmed \in Confirmed(result) : StepToWith("finish", confirmed)
        BY <3>3 DEF Finish
      <4>2. confirmed = "incomplete" \/ (confirmed \in Successes /\ Gone)
        BY <3>3, <4>1, <2>3 DEF Confirmed, Settled
      <4>3. sup' = [sup EXCEPT !.request = sup.request, !.step = "finish", !.arg = confirmed]
        BY <3>1, <4>1
      <4>. QED
        BY <4>2, <4>3, <2>5
    <3>4. SettledAs \in Successes
      BY DEF SettledAs, Successes
    <3>5. ASSUME ControlEscalate(group), ~Settled(group), group # "unknown" PROVE IInv'
      <4>1. CASE group # "gone" /\ meta.request.phase = "cooperative"
        <5>1. StepToWith("enter", "term")
          BY <4>1, <3>5 DEF ControlEscalate, NextPhase, Enter
        <5>. QED
          BY <5>1, <3>1, <2>5, <1>2, <4>1 DEF SupControl
      <4>2. CASE group # "gone" /\ meta.request.phase = "term"
        <5>1. StepToWith("enter", "kill")
          BY <4>2, <3>5 DEF ControlEscalate, NextPhase, Enter
        <5>2. ~Gone
          BY <4>2, <3>5, <2>4
        <5>. QED
          BY <5>1, <5>2, <3>1, <2>5, <1>2, <4>2 DEF SupControl
      <4>3. CASE group = "gone" \/ meta.request.phase \notin {"cooperative", "term"}
        BY <4>3, <3>5, <3>3 DEF ControlEscalate, NextPhase
      <4>. QED
        BY <4>1, <4>2, <4>3
    <3>. QED
      BY <2>7, <3>2, <3>3, <3>4, <3>5 DEF ControlContinue
  <2>. QED
    BY <2>1, <2>6, <2>7
<1>. QED
  BY <1>1, <1>2

LEMMA FinishKeeps == IInv /\ SupFinish => IInv'
<1>. SUFFICES ASSUME IInv, SupFinish PROVE IInv'
  OBVIOUS
<1>. USE Named
     DEF StepTo, InStep, IInv, Typed, OsRecs, MetaRecs, RequestRecs, SupRecs, SupSteps, LifeOfRoot,
         RequestKept, WorksOnPending, OverIsGone, MidEscalation, BetweenRounds, Gone, SentSoFar, Pending
<1>1. /\ meta' \in MetaRecs /\ meta'.status = meta.status
      /\ meta'.life = IF sup.arg \in Successes THEN "ended" ELSE meta.life
      /\ meta'.request.id = meta.request.id /\ meta'.request.result = sup.arg
      /\ meta'.request.signals = meta.request.signals
  BY DEF SupFinish
<1>2. sup' \in SupRecs /\ sup'.step = "end"
  BY DEF SupFinish
<1>3. Gone' = Gone /\ SentSoFar' = SentSoFar /\ ~Pending'
  BY <1>1 DEF SupFinish
<1>. HIDE DEF MetaRecs, RequestRecs, SupRecs, Gone, SentSoFar
<1>4. Typed' /\ LifeOfRoot'
  BY <1>1, <1>2 DEF SupFinish, NoRequest
<1>5. RequestKept' /\ WorksOnPending'
  BY <1>1, <1>2, <1>3 DEF SupFinish
<1>6. OverIsGone'
  BY <1>1, <1>2, <1>3 DEF SupFinish
<1>7. MidEscalation' /\ BetweenRounds'
  BY <1>1, <1>2, <1>3 DEF SupFinish
<1>. QED
  BY <1>4, <1>5, <1>6, <1>7

LEMMA EnterKeeps == IInv /\ SupEnter => IInv'
<1>. SUFFICES ASSUME IInv, SupEnter PROVE IInv'
  OBVIOUS
<1>. USE Named
     DEF StepTo, InStep, IInv, Typed, OsRecs, MetaRecs, RequestRecs, SupRecs, SupSteps, LifeOfRoot,
         RequestKept, WorksOnPending, OverIsGone, MidEscalation, BetweenRounds, Gone, SentSoFar, Pending
<1>1. /\ meta' \in MetaRecs /\ meta'.status = meta.status /\ meta'.life = meta.life
      /\ meta'.request.id = meta.request.id /\ meta'.request.result = meta.request.result
      /\ meta'.request.signals = meta.request.signals /\ meta'.request.phase = sup.arg
  BY DEF SupEnter
<1>2. sup' \in SupRecs /\ sup'.step = "intend" /\ sup'.arg = sup.arg
  BY DEF SupEnter
<1>3. Gone' = Gone /\ SentSoFar' = SentSoFar /\ Pending'
  BY <1>1 DEF SupEnter
<1>. HIDE DEF MetaRecs, RequestRecs, SupRecs, Gone, SentSoFar
<1>4. Typed' /\ LifeOfRoot'
  BY <1>1, <1>2 DEF SupEnter, NoRequest
<1>5. RequestKept' /\ WorksOnPending'
  BY <1>1, <1>2, <1>3 DEF SupEnter
<1>6. OverIsGone'
  BY <1>1, <1>2, <1>3 DEF SupEnter
<1>7. MidEscalation' /\ BetweenRounds'
  BY <1>1, <1>2, <1>3 DEF SupEnter
<1>. QED
  BY <1>4, <1>5, <1>6, <1>7

LEMMA IntendKeeps == IInv /\ SupIntend => IInv'
<1>. SUFFICES ASSUME IInv, SupIntend PROVE IInv'
  OBVIOUS
<1>. USE Named
     DEF StepTo, InStep, IInv, Typed, OsRecs, MetaRecs, RequestRecs, SupRecs, SupSteps, LifeOfRoot,
         RequestKept, WorksOnPending, OverIsGone, MidEscalation, BetweenRounds, Gone, SentSoFar, Pending
<1>1. PICK group \in ProbeGroup :
        IF Worthwhile(group)
        THEN /\ meta' = [meta EXCEPT !.request.signals = Append(@, Attempt("uncertain"))]
             /\ StepTo("kill")
        ELSE /\ \/ StepTo("fail")
                \/ StepTo("end") /\ (group = "gone" \/ sup.arg = "cooperative")
             /\ UNCHANGED meta
  BY DEF SupIntend, ProbeGroup, Worthwhile
<1>2. UNCHANGED <<os, outcome, timer, starter, client, stopLock, failures>>
  BY DEF SupIntend
<1>3. InStep("intend")
  BY DEF SupIntend
<1>4. CASE Worthwhile(group)
  <2>1. Attempt("uncertain") \in Attempts /\ Attempt("uncertain").signal = SignalOf[sup.arg]
    BY <1>3 DEF Attempt, Attempts, SignalOf, Signals
  <2>2. meta.request.signals \in Seq(Attempts)
    BY DEF Lists
  <2>3. /\ meta'.request.signals = Append(meta.request.signals, Attempt("uncertain"))
        /\ meta'.status = meta.status /\ meta'.life = meta.life
        /\ meta'.request.id = meta.request.id /\ meta'.request.result = meta.request.result
        /\ meta'.request.phase = meta.request.phase
    BY <1>1, <1>4
  <2>4. meta'.request.signals \in Lists /\ SentSoFar' = Append(SentSoFar, SignalOf[sup.arg])
    BY <2>1, <2>2, <2>3, IntentAppends DEF Lists
  <2>5. meta' \in MetaRecs
    <3>1. PICK after \in Lists : meta' = [meta EXCEPT !.request.signals = after]
      BY <1>1, <1>4, <2>3, <2>4
    <3>. QED
      BY <3>1
  <2>6. sup' \in SupRecs /\ sup'.step = "kill" /\ sup'.arg = sup.arg
    BY <1>1, <1>4
  <2>7. Gone' = Gone /\ Pending'
    BY <1>2, <1>3, <2>3
  <2>8. /\ sup.arg = "cooperative" => SentSoFar' = <<"SIGINT">>
        /\ sup.arg = "term" => SentSoFar' \in WithTerm
        /\ sup.arg = "kill" => SentSoFar' \in WithKill
    <3>. HIDE DEF SentSoFar
    <3>1. CASE sup.arg = "cooperative"
      BY <1>3, <2>4, <3>1, Escalation DEF SignalOf
    <3>2. CASE sup.arg = "term"
      BY <1>3, <2>4, <3>2, Escalation DEF SignalOf
    <3>3. CASE sup.arg = "kill"
      BY <1>3, <2>4, <3>3, Escalation DEF SignalOf
    <3>. QED
      BY <1>3, <3>1, <3>2, <3>3
  <2>. HIDE DEF MetaRecs, RequestRecs, SupRecs, Gone, SentSoFar
  <2>9. Typed' /\ LifeOfRoot' /\ RequestKept' /\ WorksOnPending' /\ OverIsGone'
    BY <1>2, <1>3, <2>3, <2>5, <2>6, <2>7 DEF NoRequest
  <2>10. MidEscalation' /\ BetweenRounds'
    BY <1>3, <2>3, <2>6, <2>7, <2>8 DEF BeforeTerm
  <2>. QED
    BY <2>9, <2>10
<1>5. CASE ~Worthwhile(group)
  <2>1. sup' \in SupRecs /\ sup'.step \in {"fail", "end"} /\ sup'.arg = sup.arg
    BY <1>1, <1>5
  <2>2. sup'.step = "end" => sup.arg = "cooperative" \/ Gone
    BY <1>1, <1>5 DEF ProbeGroup, GroupGone
  <2>3. UNCHANGED meta /\ Gone' = Gone /\ SentSoFar' = SentSoFar
    BY <1>1, <1>2, <1>5
  <2>. HIDE DEF MetaRecs, RequestRecs, SupRecs, Gone, SentSoFar
  <2>4. Typed' /\ LifeOfRoot' /\ RequestKept' /\ WorksOnPending' /\ OverIsGone'
    BY <1>2, <1>3, <2>1, <2>3
  <2>5. MidEscalation' /\ BetweenRounds'
    BY <1>3, <2>1, <2>2, <2>3 DEF BeforeTerm
  <2>. QED
    BY <2>4, <2>5
<1>. QED
  BY <1>4, <1>5

LEMMA KillKeeps == IInv /\ SupKill => IInv'
<1>. SUFFICES ASSUME IInv, SupKill PROVE IInv'
  OBVIOUS
<1>. USE Named
     DEF StepTo, InStep, IInv, Typed, OsRecs, MetaRecs, RequestRecs, SupRecs, SupSteps, LifeOfRoot,
         RequestKept, WorksOnPending, OverIsGone, MidEscalation, BetweenRounds, Gone, SentSoFar, Pending
<1>1. \/ \E delivery \in Deliverances : sup' = [sup EXCEPT !.step = "sent", !.delivery = delivery]
      \/ \E step \in {"fail", "end"} : sup' = [sup EXCEPT !.step = step]
  BY DEF SupKill, Deliveries
<1>2. sup' \in SupRecs /\ sup'.step \in {"sent", "fail", "end"} /\ sup'.arg = sup.arg
  <2>1. ASSUME NEW delivery \in Deliverances,
               sup' = [sup EXCEPT !.step = "sent", !.delivery = delivery]
        PROVE  sup' \in SupRecs /\ sup'.step = "sent" /\ sup'.arg = sup.arg
    <3>. HIDE DEF SupSteps
    <3>1. {"sent"} \subseteq SupSteps
      BY DEF SupSteps
    <3>. QED
      BY <2>1, <3>1
  <2>2. ASSUME NEW step \in {"fail", "end"}, sup' = [sup EXCEPT !.step = step]
        PROVE  sup' \in SupRecs /\ sup'.step = step /\ sup'.arg = sup.arg
    BY <2>2
  <2>. QED
    BY <1>1, <2>1, <2>2
<1>3. /\ UNCHANGED <<os, outcome, meta, starter, client, stopLock, failures>>
      /\ InStep("kill") /\ timer' \in {"running", "expired"}
  BY DEF SupKill
<1>4. Gone' = Gone /\ SentSoFar' = SentSoFar /\ Pending' = Pending
  BY <1>3
<1>. HIDE DEF MetaRecs, RequestRecs, SupRecs, Gone, SentSoFar
<1>5. Typed' /\ LifeOfRoot' /\ RequestKept' /\ WorksOnPending' /\ OverIsGone'
  BY <1>2, <1>3, <1>4
<1>6. MidEscalation' /\ BetweenRounds'
  BY <1>2, <1>3, <1>4 DEF BeforeTerm
<1>. QED
  BY <1>5, <1>6

LEMMA DeliveryKeeps == IInv /\ SupRecordDelivery => IInv'
<1>. SUFFICES ASSUME IInv, SupRecordDelivery PROVE IInv'
  OBVIOUS
<1>. USE Named
     DEF StepTo, InStep, IInv, Typed, OsRecs, MetaRecs, RequestRecs, SupRecs, SupSteps, LifeOfRoot,
         RequestKept, WorksOnPending, OverIsGone, MidEscalation, BetweenRounds, Gone, SentSoFar, Pending
<1>1. DEFINE after == [i \in 1..Len(meta.request.signals) |->
                IF meta.request.signals[i].signal = SignalOf[sup.arg]
                THEN Attempt(sup.delivery) ELSE meta.request.signals[i]]
<1>2. meta' = [meta EXCEPT !.request.signals = after]
  BY DEF SupRecordDelivery
<1>3. Attempt(sup.delivery) \in Attempts /\ Attempt(sup.delivery).signal = SignalOf[sup.arg]
  BY DEF SupRecordDelivery, Attempt, Attempts, SignalOf, Signals
<1>4. meta.request.signals \in Seq(Attempts)
  BY DEF Lists
<1>5. after \in Lists /\ SignalsOf(after) = SignalsOf(meta.request.signals)
  <2>1. after = [i \in 1..Len(meta.request.signals) |->
                IF meta.request.signals[i].signal = Attempt(sup.delivery).signal
                THEN Attempt(sup.delivery) ELSE meta.request.signals[i]]
    BY <1>3
  <2>. QED
    BY <1>3, <1>4, <2>1, DeliveryKeepsSignals DEF Lists
<1>. HIDE DEF after
<1>6. /\ meta' \in MetaRecs /\ meta'.status = meta.status /\ meta'.life = meta.life
      /\ meta'.request.id = meta.request.id /\ meta'.request.result = meta.request.result
      /\ meta'.request.phase = meta.request.phase /\ meta'.request.signals = after
  BY <1>2, <1>5
<1>7. sup' \in SupRecs /\ sup'.step \in {"fail", "end"} /\ sup'.arg = sup.arg /\ InStep("sent")
  BY DEF SupRecordDelivery
<1>8. UNCHANGED <<os, outcome, timer, starter, client, stopLock, failures>>
  BY DEF SupRecordDelivery
<1>9. Gone' = Gone /\ SentSoFar' = SentSoFar /\ Pending
  BY <1>5, <1>6, <1>7, <1>8
<1>. HIDE DEF MetaRecs, RequestRecs, SupRecs, Gone, SentSoFar
<1>10. Typed' /\ LifeOfRoot' /\ RequestKept' /\ WorksOnPending' /\ OverIsGone'
  BY <1>6, <1>7, <1>8, <1>9 DEF NoRequest
<1>11. MidEscalation' /\ BetweenRounds'
  BY <1>6, <1>7, <1>8, <1>9 DEF BeforeTerm
<1>. QED
  BY <1>10, <1>11

\* A call that is told "success" is told so of a run that is over.
LEMMA SuccessIsTrue ==
    ASSUME IInv, Completed
    PROVE  CompletedAs \in {"success", "failure"} /\ (CompletedAs = "success" => Gone)
BY DEF IInv, Completed, CompletedAs, RequestKept, NoRequest, OverIsGone

\* The calls move by themselves; of meta.json they change the challenge only,
\* except for the one that files the request.
LEMMA CallMoves ==
    ASSUME IInv, NEW c \in Clients, NEW at \in Calls \ {"idle"}, Become(c, at),
           at = "success" => Gone, client[c] = "idle" => meta.life # "absent",
           stopLock' \in Ids, UNCHANGED <<os, outcome, sup, timer, starter, failures>>,
           UNCHANGED meta \/ meta' = [meta EXCEPT !.probe = c]
    PROVE  IInv'
<1>. USE DEF IInv, Typed, LifeOfRoot, RequestKept, WorksOnPending, OverIsGone, MidEscalation, BetweenRounds
<1>1. /\ meta' \in MetaRecs /\ meta'.life = meta.life /\ meta'.status = meta.status
      /\ meta'.request = meta.request
  BY DEF MetaRecs, Ids
<1>2. /\ client' \in [Clients -> Calls]
      /\ \A d \in Clients : client'[d] = client[d] \/ (d = c /\ client'[d] = at)
  BY DEF Become
<1>3. Gone' = Gone /\ SentSoFar' = SentSoFar /\ Pending' = Pending
  BY <1>1 DEF Gone, SentSoFar, Pending
<1>4. Typed' /\ LifeOfRoot'
  BY <1>1, <1>2 DEF InStep
<1>5. RequestKept' /\ WorksOnPending' /\ MidEscalation' /\ BetweenRounds'
  BY <1>1, <1>3 DEF InStep
<1>6. OverIsGone'
  BY <1>1, <1>2, <1>3 DEF InStep
<1>. QED
  BY <1>4, <1>5, <1>6

LEMMA RequestKeeps == ASSUME NEW c \in Clients PROVE IInv /\ StopRequest(c) => IInv'
<1>. SUFFICES ASSUME IInv, StopRequest(c) PROVE IInv'
  OBVIOUS
<1>. USE DEF IInv
<1>1. CASE meta.life = "ended" \/ meta.request.id # None
  BY <1>1, CallMoves DEF StopRequest, Unlock, Ids, Calls, Typed
<1>2. CASE meta.life # "ended" /\ meta.request.id = None
  <2>1. NoRequest \in RequestRecs /\ [NoRequest EXCEPT !.id = c] \in RequestRecs
    <3>1. <<>> \in Lists
      BY EmptySeq DEF Lists
    <3>. QED
      BY <3>1, Named DEF NoRequest, RequestRecs, Ids
  <2>2. /\ meta' \in MetaRecs /\ meta'.life = meta.life /\ meta'.status = "stopped"
        /\ meta'.request = [NoRequest EXCEPT !.id = c]
    BY <1>2, <2>1, Named DEF StopRequest, Typed, MetaRecs
  <2>3. /\ meta'.request.id = c /\ meta'.request.phase = "requested"
        /\ meta'.request.result = "none" /\ meta'.request.signals = <<>>
    BY <2>2 DEF NoRequest
  <2>4. meta.request = NoRequest /\ SentSoFar' = <<>> /\ SentSoFar = <<>>
    BY <1>2, <2>3, NothingSent DEF RequestKept, SentSoFar, NoRequest
  <2>5. /\ client' \in [Clients -> Calls] /\ stopLock' \in Ids
        /\ \A d \in Clients : client'[d] = client[d] \/ (d = c /\ client'[d] = "poll")
        /\ client[c] = "request"
    BY DEF StopRequest, Become, Unlock, Typed, Calls, Ids
  <2>6. UNCHANGED <<os, outcome, sup, timer, starter, failures>>
    BY DEF StopRequest
  <2>7. Gone' = Gone /\ ~Pending /\ Pending' /\ meta.life # "absent"
    BY <1>2, <2>3, <2>5, <2>6, ClientsAssumption DEF Gone, Pending, LifeOfRoot
  <2>8. Typed' /\ LifeOfRoot'
    BY <1>2, <2>2, <2>5, <2>6, <2>7 DEF Typed, LifeOfRoot, InStep
  <2>9. RequestKept' /\ WorksOnPending'
    BY <1>2, <2>2, <2>3, <2>6, <2>7, ClientsAssumption DEF RequestKept, WorksOnPending
  <2>10. OverIsGone'
    BY <1>2, <2>2, <2>3, <2>5, <2>6, <2>7, Named DEF OverIsGone, InStep
  <2>11. MidEscalation' /\ BetweenRounds'
    BY <2>3, <2>4, <2>6, <2>7 DEF MidEscalation, BetweenRounds, WorksOnPending, BeforeTerm
  <2>. QED
    BY <2>8, <2>9, <2>10, <2>11
<1>. QED
  BY <1>1, <1>2

LEMMA StopKeeps == ASSUME NEW c \in Clients PROVE IInv /\ StopStep(c) => IInv'
<1>. SUFFICES ASSUME IInv, StopStep(c) PROVE IInv'
  OBVIOUS
<1>0. stopLock \in Ids /\ c \in Ids /\ None \in Ids /\ (Unlock(c) => stopLock' \in Ids)
  BY DEF Unlock, IInv, Typed, Ids
<1>. USE <1>0, SuccessIsTrue, CallMoves DEF Calls
<1>1. CASE StopBegin(c)
  BY <1>1 DEF StopBegin
<1>2. CASE StopLock(c)
  BY <1>2 DEF StopLock
<1>3. CASE StopCheck(c)
  BY <1>3 DEF StopCheck
<1>4. CASE StopChallenge(c)
  BY <1>4 DEF StopChallenge
<1>5. CASE StopPoll(c)
  BY <1>5 DEF StopPoll
<1>6. CASE StopCrash(c)
  BY <1>6 DEF StopCrash
<1>. QED
  BY <1>1, <1>2, <1>3, <1>4, <1>5, <1>6, RequestKeeps DEF StopStep

LEMMA NextIInv == IInv /\ [PosixNext]_posixVars => IInv'
<1>. SUFFICES ASSUME IInv, [PosixNext]_posixVars PROVE IInv'
  OBVIOUS
<1>1. CASE UNCHANGED posixVars
  BY <1>1 DEF posixVars, IInv, Typed, LifeOfRoot, RequestKept, WorksOnPending, OverIsGone,
              MidEscalation, BetweenRounds, Gone, SentSoFar, Pending, InStep
<1>2. CASE Monitor
  BY <1>2, LoopKeeps, ControlKeeps, FinishKeeps, EnterKeeps, IntendKeeps, KillKeeps, DeliveryKeeps
     DEF Monitor
<1>. QED
  BY <1>1, <1>2, StartupKeeps, WorldKeeps, LoopKeeps, StopKeeps DEF PosixNext

LEMMA AlwaysIInv == PosixSpec => []IInv
BY InitIInv, NextIInv, PTL DEF PosixSpec

-----------------------------------------------------------------------------
\* What the record and the answers of a run say is so, in every state: a close
\* or an "exited" hides no request, a success is never premature, SIGKILL is
\* never sent before SIGTERM, and a certain failure to start left nothing.
THEOREM StopIsHonest == PosixSpec => []PosixStopHonest
<1>1. IInv => PosixStopHonest
  <2>. SUFFICES ASSUME IInv PROVE PosixStopHonest
    OBVIOUS
  <2>1. PosixTypeOK
    BY TypedIsTypeOK DEF IInv
  <2>2. EndedIsAnswered /\ ExitedWithoutRequest
    BY DEF IInv, RequestKept, EndedIsAnswered, ExitedWithoutRequest
  <2>3. SuccessMeansGone /\ CertainFailureIsClean
    BY DEF IInv, OverIsGone, LifeOfRoot, SuccessMeansGone, CertainFailureIsClean, Gone, GroupGone
  <2>4. SignalsEscalate
    BY DEF IInv, BetweenRounds, SignalsEscalate, SentSoFar, SignalsOf, BeforeTerm, WithTerm, WithKill
  <2>. QED
    BY <2>1, <2>2, <2>3, <2>4 DEF PosixStopHonest
<1>. QED
  BY <1>1, AlwaysIInv, PTL

\* A run takes one stop request and answers it once: the steps that write an
\* answer all find the request unanswered.
THEOREM AnswerIsKept == PosixSpec => [][KeepsAnswer]_posixVars
<1>1. IInv /\ [PosixNext]_posixVars => [KeepsAnswer]_posixVars
  <2>. SUFFICES ASSUME IInv, PosixNext PROVE KeepsAnswer
    BY DEF posixVars, KeepsAnswer
  <2>. USE DEF IInv, Typed, MetaRecs, RequestRecs, RequestKept, KeepsAnswer
  <2>1. CASE UNCHANGED meta
    BY <2>1
  <2>2. CASE SupPublish \/ SupAcknowledge \/ SupNoteRoot \/ SupFinal \/ SupEnter \/ SupIntend
               \/ SupRecordDelivery
    BY <2>2 DEF SupPublish, SupAcknowledge, SupNoteRoot, SupFinal, Ended, SupEnter, SupIntend,
                SupRecordDelivery
  <2>3. CASE SupFinish \/ SupFail
    <3>1. SupFinish => Pending
      BY DEF SupFinish, WorksOnPending, InStep
    <3>2. meta'.request.id = meta.request.id /\ (Pending \/ UNCHANGED meta)
      <4>1. SupFinish => meta'.request.id = meta.request.id
        <5>. HIDE DEF RequestKept, KeepsAnswer
        <5>. QED
          BY DEF SupFinish
      <4>2. SupFail /\ Pending => meta'.request.id = meta.request.id
        <5>. HIDE DEF RequestKept, KeepsAnswer
        <5>. QED
          BY DEF SupFail
      <4>. QED
        BY <2>3, <3>1, <4>1, <4>2 DEF SupFail
    <3>. QED
      BY <3>2 DEF Pending
  <2>4. ASSUME NEW c \in Clients, StopStep(c) PROVE KeepsAnswer
    BY <2>4 DEF StopStep, StopBegin, StopLock, StopCheck, StopChallenge, StopRequest, StopPoll,
                StopCrash, NoRequest
  <2>. QED
    BY <2>1, <2>2, <2>3, <2>4
       DEF PosixNext, Startup, Monitor, World, SupSpawn, SupSpawnFails, SupPublishFails,
           HandshakeTimesOut, SupControl, SupKill, SupEnd, SupUpdateThrows, SupCrash, RootExits,
           KidsAppear, KidsVanish, ExitEvent, DeadlinePasses
<1>. QED
  BY <1>1, AlwaysIInv, PTL DEF PosixSpec

-----------------------------------------------------------------------------
(***************************************************************************)
(* The run on Windows.                                                     *)
(***************************************************************************)
\* The root has exited and the job is empty: nothing can come back.
WinGone == Over(Truth)

(***************************************************************************)
(* The records, by the names of what they are made of.                     *)
(***************************************************************************)
WinIds == Callers \cup {Nobody}
WinAttempts == [action : {"break", "taskkill-tree", "taskkill-tree-force"},
             delivery : {"uncertain", "sent"}, hit : BOOLEAN]
WinLists == Seq(WinAttempts)
WinResults == Stopped \cup {"none", "incomplete"}
WinLives == {"absent", "open", "ended"}
WinStatuses == {"running", "stopped", "exited"}
Views == [root_exited : BOOLEAN, job_empty : BOOLEAN]
Stages == {"launch", "create", "initialize", "read", "challenge", "observe", "note", "control",
           "check", "final", "intend", "act", "receipt", "finish", "refuse", "fail", "noteError",
           "done", "dead"}
Outcomes == WinResults \cup {"hit", "miss"}

StopRecs == [id : WinIds, phase : Phases, actions : WinLists, result : WinResults]
RecordRecs == [life : WinLives, status : WinStatuses, probe : WinIds, ack : WinIds, error : BOOLEAN,
               seen : Views, stop : StopRecs]
WatchRecs == [step : Stages, nonce : WinIds, then : {"observe", "control"}, seen : Views,
              outcome : Outcomes]

WinTyped ==
    /\ job \in [root : {"unborn", "alive", "dead"}, members : BOOLEAN]
    /\ output \in Nat /\ stage \in Nat
    /\ record \in RecordRecs /\ watch \in WatchRecs
    /\ DOMAIN caller = Callers
    /\ viewer \in [step : {"idle", "never", "look", "last", "lost", "shown"}, cursor : Nat]

\* Until the target has been published there is nothing to call about.
Unpublished ==
    /\ watch.step \in {"launch", "create"} => job.root = "unborn" /\ ~job.members
    /\ watch.step \in {"launch", "create", "initialize"} => record.life = "absent"
    /\ record.life = "absent" =>
          /\ watch.step \in {"launch", "create", "initialize", "dead"}
          /\ record.stop.id = Nobody /\ viewer.step \in {"idle", "never"}
          /\ \A c \in Callers : caller[c] \in {"idle", "never"}

\* The request, and who works on it.
WinRequestKept ==
    /\ record.stop.id = Nobody => record.stop = NoStop
    /\ watch.step \in {"intend", "act", "receipt", "finish"} => Unanswered
    /\ record.life = "ended" => ~Unanswered

\* Whoever is about to say, or has said, that the run is over has it from the
\* broker, and it is so for good.
WinOverIsGone ==
    /\ Over(watch.seen) \/ Over(record.seen) => WinGone
    /\ Step("finish") => watch.outcome \in Stopped \cup {"incomplete"}
    /\ Step("finish") /\ watch.outcome \in Stopped => WinGone
    /\ Step("final") => WinGone
    /\ record.stop.result \in Stopped \/ record.life = "ended" => WinGone
    /\ (\E c \in Callers : caller[c] = "success") => WinGone
    /\ viewer.step \in {"last", "shown"} => WinGone
    /\ viewer.step = "shown" => viewer.cursor = output

\* The log of attempts against the broker's count: behind by at most the
\* attempt that is about to be sent.
InStage ==
    /\ Len(Actions) <= 3 /\ stage <= Len(Actions)
    /\ \A i \in 1..Len(Actions) :
          /\ i < Len(Actions) => Actions[i].delivery = "sent"
          /\ Actions[i].delivery = "sent" => i <= stage
    /\ Step("intend") => Len(Actions) < 3 /\ Receipted
    /\ Step("act") => Len(Actions) > 0 /\ stage = Len(Actions) - 1
    /\ Step("receipt") => Len(Actions) > 0 /\ stage = Len(Actions)
    /\ Step("finish") /\ watch.outcome \in Stopped => Receipted
    /\ record.stop.result \in Stopped => Receipted

WInv == WinTyped /\ Unpublished /\ WinRequestKept /\ WinOverIsGone /\ InStage

-----------------------------------------------------------------------------
LEMMA WinNamed ==
    /\ {"open", "ended"} \subseteq WinLives
    /\ {"stopped", "exited"} \subseteq WinStatuses
    /\ Stopped \cup {"incomplete", "none"} \subseteq WinResults
    /\ "none" \notin Stopped /\ "incomplete" \notin Stopped
    /\ WinResults \cup {"hit", "miss"} \subseteq Outcomes
    /\ {"requested", "completed", "incomplete"} \subseteq Phases
BY DEF WinLives, WinStatuses, Stopped, WinResults, Outcomes, Phases

LEMMA InitWInv == WinInit => WInv
<1>. SUFFICES ASSUME WinInit PROVE WInv
  OBVIOUS
<1>1. NoStop \in StopRecs /\ Truth \in Views /\ ~Over(Truth)
  BY EmptySeq, WinNamed DEF WinInit, NoStop, StopRecs, WinIds, WinLists, Truth, Views, Over
<1>2. WinTyped
  BY <1>1, WinNamed DEF WinInit, WinTyped, RecordRecs, WatchRecs, WinIds, Stages, WinLives, WinStatuses
<1>3. Unpublished /\ WinRequestKept
  BY WinNamed DEF WinInit, Unpublished, WinRequestKept, NoStop, Unanswered
<1>4. WinOverIsGone
  BY <1>1, WinNamed DEF WinInit, WinOverIsGone, NoStop, WinGone, Step
<1>5. InStage
  BY WinNamed DEF WinInit, InStage, Actions, NoStop, Step
<1>. QED
  BY <1>2, <1>3, <1>4, <1>5 DEF WInv

LEMMA WinStartupKeeps ==
    WInv /\ (ForkFails \/ LaunchBroker \/ CreateTarget \/ Initialize \/ StartTimesOut) => WInv'
<1>. SUFFICES ASSUME WInv, ForkFails \/ LaunchBroker \/ CreateTarget \/ Initialize \/ StartTimesOut
              PROVE  WInv'
  OBVIOUS
<1>. USE WinNamed DEF WInv, WinTyped, Unpublished, WinRequestKept, WinOverIsGone, InStage, Go, Step, WinGone, Over, Truth,
              RecordRecs, WatchRecs, Stages, Actions, Unanswered, Receipted
<1>1. CASE ForkFails
  BY <1>1 DEF ForkFails
<1>2. CASE LaunchBroker
  BY <1>2 DEF LaunchBroker
<1>3. CASE CreateTarget
  BY <1>3 DEF CreateTarget, Reply, Silence
<1>4. CASE Initialize
  BY <1>4 DEF Initialize
<1>5. CASE StartTimesOut
  BY <1>5 DEF StartTimesOut
<1>. QED
  BY <1>1, <1>2, <1>3, <1>4, <1>5

LEMMA TargetKeeps == WInv /\ (TargetMoves \/ BudgetPasses) => WInv'
<1>. SUFFICES ASSUME WInv, TargetMoves \/ BudgetPasses PROVE WInv'
  OBVIOUS
<1>. USE DEF WInv, WinTyped, Unpublished, WinRequestKept, WinOverIsGone, InStage, Step, WinGone, Over, Truth,
              Actions, Unanswered, Receipted
<1>1. CASE TargetMoves
  <2>1. ~WinGone /\ UNCHANGED <<stage, record, watch, caller, viewer>>
    BY <1>1 DEF TargetMoves
  <2>2. job.root # "unborn" \/ job.members
    BY <1>1 DEF TargetMoves
  <2>3. /\ job' \in [root : {"unborn", "alive", "dead"}, members : BOOLEAN] /\ output' \in Nat
        /\ watch.step \notin {"launch", "create"}
    <3>1. CASE UNCHANGED output
      BY <1>1, <2>2, <3>1 DEF TargetMoves
    <3>2. CASE UNCHANGED job /\ output' = output + 1
      BY <1>1, <2>2, <3>2 DEF TargetMoves
    <3>. QED
      BY <1>1, <3>1, <3>2 DEF TargetMoves
  <2>. HIDE DEF WinGone, Over
  <2>. QED
    BY <2>1, <2>3
<1>2. CASE BudgetPasses
  BY <1>2 DEF BudgetPasses
<1>. QED
  BY <1>1, <1>2

LEMMA ViewerKeeps == WInv /\ (AttachBegins \/ AttachLook \/ AttachLastDrain) => WInv'
<1>. SUFFICES ASSUME WInv, AttachBegins \/ AttachLook \/ AttachLastDrain PROVE WInv'
  OBVIOUS
<1>. USE DEF WInv, WinTyped, Unpublished, WinRequestKept, WinOverIsGone, InStage, Step, WinGone, Over, Truth,
              Actions, Unanswered, Receipted
<1>1. CASE AttachBegins
  BY <1>1 DEF AttachBegins
<1>2. CASE AttachLook
  BY <1>2 DEF AttachLook, complete
<1>3. CASE AttachLastDrain
  BY <1>3 DEF AttachLastDrain
<1>. QED
  BY <1>1, <1>2, <1>3

-----------------------------------------------------------------------------
\* A call that is told "success" is told so of a run that is over.
LEMMA WinSuccessIsTrue ==
    ASSUME WInv, terminal
    PROVE  TerminalAnswer \in {"success", "failure"} /\ (TerminalAnswer = "success" => WinGone)
BY DEF WInv, terminal, complete, TerminalAnswer, WinOverIsGone, WinTyped, RecordRecs, StopRecs, WinResults

\* The calls move by themselves; of meta.json they change the probe only,
\* except for the one that files the request.
LEMMA ViewMoves ==
    ASSUME WInv, NEW c \in Callers, NEW at, Move(c, at),
           at = "success" => WinGone, caller[c] = "idle" => record.life # "absent",
           caller[c] # "never",
           UNCHANGED <<job, output, stage, watch, viewer>>,
           UNCHANGED record \/ record' = [record EXCEPT !.probe = c]
    PROVE  WInv'
<1>. USE DEF WInv, WinTyped, Unpublished, WinRequestKept, WinOverIsGone, InStage, Step
<1>1. /\ record' \in RecordRecs /\ record'.life = record.life /\ record'.stop = record.stop
      /\ record'.seen = record.seen
  BY DEF RecordRecs, WinIds
<1>2. /\ DOMAIN caller' = Callers
      /\ \A d \in Callers : caller'[d] = caller[d] \/ (d = c /\ caller'[d] = at)
  BY DEF Move
<1>3. /\ WinGone' = WinGone /\ Unanswered' = Unanswered /\ Actions' = Actions
      /\ Receipted' = Receipted
  BY <1>1 DEF WinGone, Truth, Unanswered, Actions, Receipted
<1>4. WinTyped' /\ Unpublished'
  BY <1>1, <1>2
<1>5. WinRequestKept' /\ InStage'
  BY <1>1, <1>3
<1>6. WinOverIsGone'
  BY <1>1, <1>2, <1>3
<1>. QED
  BY <1>4, <1>5, <1>6

LEMMA WinRequestKeeps == ASSUME NEW c \in Callers PROVE WInv /\ CallRequests(c) => WInv'
<1>. SUFFICES ASSUME WInv, CallRequests(c) PROVE WInv'
  OBVIOUS
<1>. USE DEF WInv
<1>1. CASE complete \/ record.stop.id # Nobody
  BY <1>1, ViewMoves DEF CallRequests
<1>2. CASE ~complete /\ record.stop.id = Nobody
  <2>1. NoStop \in StopRecs /\ [NoStop EXCEPT !.id = c] \in StopRecs
    <3>1. <<>> \in WinLists
      BY EmptySeq DEF WinLists
    <3>. QED
      BY <3>1, WinNamed DEF NoStop, StopRecs, WinIds
  <2>2. /\ record' \in RecordRecs /\ record'.life = record.life /\ record'.seen = record.seen
        /\ record'.stop = [NoStop EXCEPT !.id = c]
    BY <1>2, <2>1, WinNamed DEF CallRequests, WinTyped, RecordRecs
  <2>3. /\ record'.stop.id = c /\ record'.stop.result = "none" /\ record'.stop.actions = <<>>
        /\ c # Nobody
    BY <2>2, CallersAssumption DEF NoStop
  <2>4. record.stop = NoStop /\ Actions' = Actions
    BY <1>2, <2>3 DEF WinRequestKept, Actions, NoStop
  <2>5. /\ DOMAIN caller' = Callers /\ caller[c] = "request"
        /\ \A d \in Callers : caller'[d] = caller[d] \/ (d = c /\ caller'[d] = "wait")
    BY DEF CallRequests, Move, WinTyped
  <2>6. UNCHANGED <<job, output, stage, watch, viewer>>
    BY DEF CallRequests
  <2>7. /\ WinGone' = WinGone /\ Receipted' = Receipted /\ ~Unanswered
        /\ record.life \notin {"absent", "ended"}
    BY <1>2, <2>4, <2>5, <2>6 DEF WinGone, Truth, Receipted, Unanswered, Unpublished, complete
  <2>8. WinTyped' /\ Unpublished'
    BY <2>2, <2>5, <2>6, <2>7 DEF WinTyped, Unpublished
  <2>9. WinRequestKept'
    BY <2>2, <2>3, <2>6, <2>7 DEF WinRequestKept
  <2>10. WinOverIsGone'
    BY <2>2, <2>3, <2>5, <2>6, <2>7, WinNamed DEF WinOverIsGone, Step
  <2>11. InStage'
    BY <2>3, <2>4, <2>6, <2>7, WinNamed DEF InStage, Step
  <2>. QED
    BY <2>8, <2>9, <2>10, <2>11
<1>. QED
  BY <1>1, <1>2

LEMMA CallKeeps ==
    ASSUME NEW c \in Callers
    PROVE  WInv /\ (CallBegins(c) \/ CallLocks(c) \/ CallChallenges(c) \/ CallProbes(c)
                      \/ CallRequests(c) \/ CallWaits(c) \/ CallDies(c)) => WInv'
<1>. SUFFICES ASSUME WInv, CallBegins(c) \/ CallLocks(c) \/ CallChallenges(c) \/ CallProbes(c)
                             \/ CallWaits(c) \/ CallDies(c)
              PROVE  WInv'
  BY WinRequestKeeps
<1>. USE WinSuccessIsTrue, ViewMoves
<1>1. CASE CallBegins(c)
  BY <1>1 DEF CallBegins
<1>2. CASE CallLocks(c)
  BY <1>2 DEF CallLocks
<1>3. CASE CallChallenges(c)
  BY <1>3 DEF CallChallenges
<1>4. CASE CallProbes(c)
  BY <1>4 DEF CallProbes
<1>5. CASE CallWaits(c)
  BY <1>5 DEF CallWaits
<1>6. CASE CallDies(c)
  BY <1>6 DEF CallDies
<1>. QED
  BY <1>1, <1>2, <1>3, <1>4, <1>5, <1>6

-----------------------------------------------------------------------------
(***************************************************************************)
(* The supervisor.  Most of its steps leave meta.json's request alone.     *)
(***************************************************************************)
LEMMA WatchMoves ==
    ASSUME WInv, watch' \in WatchRecs, record' \in RecordRecs,
           watch'.step \notin {"launch", "create", "initialize", "intend", "act", "receipt", "finish"},
           record.life = "absent" => watch'.step = "dead",
           record'.life = record.life, record'.stop = record.stop,
           Over(watch'.seen) \/ Over(record'.seen) => WinGone,
           watch'.step = "final" => WinGone,
           UNCHANGED <<job, output, stage, caller, viewer>>
    PROVE  WInv'
<1>. USE DEF WInv, WinTyped, Unpublished, WinRequestKept, WinOverIsGone, InStage, Step
<1>1. /\ WinGone' = WinGone /\ Unanswered' = Unanswered /\ Actions' = Actions
      /\ Receipted' = Receipted
  BY DEF WinGone, Truth, Unanswered, Actions, Receipted
<1>. QED
  BY <1>1

LEMMA WinLoopKeeps ==
    WInv /\ (LoopRead \/ Acknowledge \/ Observe \/ NoteObservation \/ LoopCheck \/ NoteError
               \/ SupervisorLost) => WInv'
<1>. SUFFICES ASSUME WInv, LoopRead \/ Acknowledge \/ Observe \/ NoteObservation \/ LoopCheck
                             \/ NoteError \/ SupervisorLost
              PROVE  WInv'
  OBVIOUS
<1>0. /\ watch \in WatchRecs /\ record \in RecordRecs
      /\ Over(watch.seen) \/ Over(record.seen) => WinGone
      /\ watch.step \notin {"launch", "create", "initialize", "dead"} => record.life # "absent"
  BY DEF WInv, WinTyped, WinOverIsGone, Unpublished
<1>1. CASE LoopRead
  BY <1>0, <1>1, WatchMoves DEF LoopRead, Step, Acknowledging, WatchRecs, Stages, RecordRecs
<1>2. CASE Acknowledge
  BY <1>0, <1>2, WatchMoves DEF Acknowledge, Step, Go, WatchRecs, Stages, RecordRecs
<1>3. CASE Observe
  <2>1. Truth \in Views
    BY DEF Truth, Views
  <2>. QED
    BY <1>0, <1>3, <2>1, WatchMoves DEF Observe, Step, Go, WatchRecs, Stages, WinGone
<1>4. CASE NoteObservation
  BY <1>0, <1>4, WatchMoves DEF NoteObservation, Step, Go, Acknowledging, WatchRecs, Stages, RecordRecs
<1>5. CASE LoopCheck
  BY <1>0, <1>5, WatchMoves DEF LoopCheck, Step, Go, WatchRecs, Stages
<1>6. CASE NoteError
  BY <1>0, <1>6, WatchMoves DEF NoteError, Step, Go, WatchRecs, Stages, RecordRecs
<1>7. CASE SupervisorLost
  BY <1>0, <1>7, WatchMoves DEF SupervisorLost, Watching, Go, WatchRecs, Stages
<1>. QED
  BY <1>1, <1>2, <1>3, <1>4, <1>5, <1>6, <1>7

\* A request is answered, or the run is closed: neither touches the attempts.
LEMMA Concludes ==
    ASSUME WInv, watch' \in WatchRecs, record' \in RecordRecs,
           watch'.step \notin {"launch", "create", "initialize", "intend", "act", "receipt", "finish", "final"},
           record.life # "absent", record'.life \in {record.life, "ended"},
           record'.life = "ended" => WinGone /\ (record'.stop.result # "none" \/ record'.stop.id = Nobody),
           record'.stop.id = record.stop.id, record'.stop.actions = record.stop.actions,
           record.stop.id = Nobody => record'.stop = record.stop,
           record'.stop.result \in Stopped => WinGone /\ Receipted,
           record'.seen = record.seen, watch'.seen = watch.seen,
           UNCHANGED <<job, output, stage, caller, viewer>>
    PROVE  WInv'
<1>. USE DEF WInv, WinTyped, Unpublished, WinRequestKept, WinOverIsGone, InStage, Step
<1>1. /\ WinGone' = WinGone /\ Actions' = Actions /\ Receipted' = Receipted
  BY DEF WinGone, Truth, Actions, Receipted
<1>2. Unanswered' <=> record'.stop.id # Nobody /\ record'.stop.result = "none"
  BY DEF Unanswered
<1>. QED
  BY <1>1, <1>2

LEMMA EndKeeps == WInv /\ EndRun => WInv'
<1>. SUFFICES ASSUME WInv, EndRun PROVE WInv'
  OBVIOUS
<1>0. /\ watch \in WatchRecs /\ record \in RecordRecs /\ Step("final") /\ WinGone
      /\ Over(watch.seen) \/ Over(record.seen) => WinGone /\ record.life # "absent"
      /\ UNCHANGED <<job, output, stage, caller, viewer>>
  BY DEF WInv, WinTyped, WinOverIsGone, Unpublished, EndRun, Step
<1>1. CASE UNCHANGED record
  BY <1>0, <1>1, WatchMoves DEF EndRun, Go, WatchRecs, Stages, Step, WInv, Unpublished
<1>2. CASE ~UNCHANGED record
  <2>1. /\ record' \in RecordRecs /\ record'.life = "ended" /\ record'.stop = record.stop
        /\ record'.seen = record.seen /\ ~Unanswered
    BY <1>0, <1>2 DEF EndRun, RecordRecs, WinLives, WinStatuses
  <2>2. watch' \in WatchRecs /\ watch'.step = "done" /\ watch'.seen = watch.seen
    BY <1>0, <1>2 DEF EndRun, Go, WatchRecs, Stages
  <2>3. record.life # "absent" /\ (record.stop.result \in Stopped => Receipted)
    BY <1>0 DEF WInv, Unpublished, InStage, Step
  <2>. QED
    BY <1>0, <2>1, <2>2, <2>3, Concludes DEF Unanswered
<1>. QED
  BY <1>1, <1>2

\* Concluded as a record: the attempts stay, and only a success closes the run.
LEMMA ConcludedIs ==
    ASSUME record \in RecordRecs, NEW how \in Stopped \cup {"incomplete"}
    PROVE  /\ Concluded(how) \in RecordRecs
           /\ Concluded(how).stop.id = record.stop.id
           /\ Concluded(how).stop.actions = record.stop.actions
           /\ Concluded(how).stop.result = how
           /\ Concluded(how).seen = record.seen
           /\ Concluded(how).life = IF how \in Stopped THEN "ended" ELSE record.life
<1>1. /\ (IF how \in Stopped THEN "completed" ELSE "incomplete") \in Phases
      /\ (IF how \in Stopped THEN "ended" ELSE record.life) \in WinLives
      /\ (record.error \/ how = "incomplete") \in BOOLEAN
      /\ how \in WinResults
  BY WinNamed DEF RecordRecs
<1>2. PICK phase \in Phases, life \in WinLives, error \in BOOLEAN :
        /\ life = IF how \in Stopped THEN "ended" ELSE record.life
        /\ Concluded(how) = [record EXCEPT !.stop.result = how, !.stop.phase = phase,
                                               !.life = life, !.error = error]
  BY <1>1, Zenon DEF Concluded
<1>. DEFINE after == [record EXCEPT !.stop.result = how, !.stop.phase = phase,
                                   !.life = life, !.error = error]
<1>3. /\ after \in RecordRecs
      /\ after.stop.id = record.stop.id /\ after.stop.actions = record.stop.actions
      /\ after.stop.result = how /\ after.seen = record.seen /\ after.life = life
  BY <1>1 DEF RecordRecs, StopRecs
<1>4. Concluded(how) = after
  BY <1>2
<1>. HIDE DEF after
<1>. QED
  BY <1>2, <1>3, <1>4

LEMMA AnswerKeeps == WInv /\ (Finished \/ Refuse \/ FailRequest) => WInv'
<1>. SUFFICES ASSUME WInv, Finished \/ Refuse \/ FailRequest PROVE WInv'
  OBVIOUS
<1>0. /\ watch \in WatchRecs /\ record \in RecordRecs
      /\ Over(watch.seen) \/ Over(record.seen) => WinGone
      /\ record.life # "absent" /\ watch.step \in {"finish", "refuse", "fail"}
      /\ UNCHANGED <<job, output, stage, caller, viewer>>
      /\ record.stop.id = Nobody => record.stop = NoStop
      /\ Step("finish") => Unanswered
  BY DEF WInv, WinTyped, WinOverIsGone, Unpublished, WinRequestKept, Finished, Refuse, FailRequest, Step
<1>1. /\ watch' \in WatchRecs /\ watch'.step \in {"check", "refuse", "fail", "noteError", "dead"}
      /\ watch'.seen = watch.seen
  BY <1>0 DEF Finished, Refuse, FailRequest, Go, WatchRecs, Stages
<1>2. CASE UNCHANGED record
  BY <1>0, <1>1, <1>2, WatchMoves
<1>3. ASSUME NEW how \in Stopped \cup {"incomplete"}, Unanswered, record' = Concluded(how),
             how \in Stopped => WinGone /\ Receipted
      PROVE  WInv'
  BY <1>0, <1>1, <1>3, ConcludedIs, Concludes, WinNamed DEF Unanswered, WInv, WinRequestKept
<1>4. CASE Finished /\ ~UNCHANGED record
  BY <1>0, <1>3, <1>4 DEF Finished, WInv, WinOverIsGone, InStage
<1>5. CASE (Refuse \/ FailRequest) /\ ~UNCHANGED record
  BY <1>3, <1>5, WinNamed DEF Refuse, FailRequest, Failing
<1>. QED
  BY <1>2, <1>4, <1>5

-----------------------------------------------------------------------------
(***************************************************************************)
(* The stages.                                                             *)
(***************************************************************************)
\* Whatever was delivered, the result it names is one of the successes.
LEMMA StoppedAsIsStopped == Len(Actions) <= 3 /\ Actions \in WinLists => StoppedAs \in Stopped
<1>. SUFFICES ASSUME Len(Actions) <= 3, Actions \in WinLists PROVE StoppedAs \in Stopped
  OBVIOUS
<1>1. Len(Actions) \in Nat /\ Delivered \subseteq 1..3
  BY DEF Delivered, WinLists
<1>2. CASE Delivered = {}
  BY <1>2 DEF StoppedAs, Stopped
<1>3. CASE Delivered # {}
  <2>1. \E i \in Delivered : \A j \in Delivered : j <= i
    <3>1. CASE 3 \in Delivered
      BY <1>1, <3>1
    <3>2. CASE 3 \notin Delivered /\ 2 \in Delivered
      BY <1>1, <3>2
    <3>3. CASE 3 \notin Delivered /\ 2 \notin Delivered
      <4>1. \A i \in Delivered : i = 1
        BY <1>1, <3>3
      <4>2. PICK i \in Delivered : TRUE
        BY <1>3
      <4>. QED
        BY <4>1, <4>2
    <3>. QED
      BY <3>1, <3>2, <3>3
  <2>2. (CHOOSE i \in Delivered : \A j \in Delivered : j <= i) \in 1..3
    BY <1>1, <2>1
  <2>3. \A i \in 1..3 : OutcomeOf[i] \in Stopped
    BY DEF OutcomeOf, Stopped
  <2>. QED
    BY <1>3, <2>2, <2>3 DEF StoppedAs
<1>. QED
  BY <1>2, <1>3

\* With every receipt in, the broker has reserved as many stages as were
\* intended.
LEMMA ReceiptedIsUpToDate == WInv /\ Receipted => stage = Len(Actions)
<1>. SUFFICES ASSUME WInv, Receipted PROVE stage = Len(Actions)
  OBVIOUS
<1>1. Len(Actions) \in Nat /\ stage \in Nat /\ stage <= Len(Actions)
  BY DEF WInv, WinTyped, InStage, Actions, RecordRecs, StopRecs, WinLists
<1>2. CASE Len(Actions) = 0
  BY <1>1, <1>2
<1>3. CASE Len(Actions) > 0
  <2>1. Len(Actions) \in 1..Len(Actions)
    BY <1>1, <1>3
  <2>2. Len(Actions) <= stage
    BY <2>1 DEF Receipted, WInv, InStage
  <2>. QED
    BY <1>1, <2>2
<1>. QED
  BY <1>1, <1>2, <1>3

\* The controller's decision about a request that is still open.
LEMMA Decides ==
    ASSUME WInv, Unanswered, Receipted, watch' = Decide(Truth),
           Step("control"), UNCHANGED <<job, output, stage, record, caller, viewer>>
    PROVE  WInv'
<1>1. /\ Actions \in WinLists /\ Len(Actions) \in Nat /\ Len(Actions) <= 3
      /\ StoppedAs \in Stopped /\ watch \in WatchRecs
  BY StoppedAsIsStopped DEF WInv, WinTyped, InStage, Actions, RecordRecs, StopRecs, WinLists
<1>2. /\ watch' \in WatchRecs /\ watch'.seen = watch.seen
      /\ \/ watch'.step = "check"
         \/ watch'.step = "finish" /\ watch'.outcome = "incomplete"
         \/ watch'.step = "finish" /\ watch'.outcome \in Stopped /\ WinGone
         \/ watch'.step = "intend" /\ Len(Actions) < 3
  <2>1. ASSUME NEW step \in {"check", "intend"}, watch' = [watch EXCEPT !.step = step]
        PROVE  watch' \in WatchRecs /\ watch'.seen = watch.seen /\ watch'.step = step
    BY <1>1, <2>1 DEF WatchRecs, Stages
  <2>2. ASSUME NEW how \in Outcomes, watch' = [watch EXCEPT !.step = "finish", !.outcome = how]
        PROVE  /\ watch' \in WatchRecs /\ watch'.seen = watch.seen /\ watch'.step = "finish"
               /\ watch'.outcome = how
    <3>1. "finish" \in Stages
      BY DEF Stages
    <3>. QED
      BY <1>1, <2>2, <3>1 DEF WatchRecs
  <2>3. StoppedAs \in Outcomes /\ "incomplete" \in Outcomes
    BY <1>1, WinNamed
  <2>4. CASE Settles(Truth)
    BY <1>1, <2>2, <2>3, <2>4 DEF Decide, Settles, WinGone
  <2>5. CASE ~Settles(Truth)
    <3>1. CASE Len(Actions) > 0 /\ budget = "running"
      <4>1. watch' = [watch EXCEPT !.step = "check"]
        BY <2>5, <3>1 DEF Decide
      <4>. QED
        BY <2>1, <4>1
    <3>2. CASE ~(Len(Actions) > 0 /\ budget = "running") /\ Len(Actions) = 3
      <4>1. watch' = [watch EXCEPT !.step = "finish", !.outcome = "incomplete"]
        BY <2>5, <3>2 DEF Decide
      <4>. QED
        BY <2>2, <2>3, <4>1
    <3>3. CASE ~(Len(Actions) > 0 /\ budget = "running") /\ Len(Actions) # 3
      <4>1. watch' = [watch EXCEPT !.step = "intend"] /\ Len(Actions) < 3
        BY <1>1, <2>5, <3>3 DEF Decide
      <4>. QED
        BY <2>1, <4>1
    <3>. QED
      BY <3>1, <3>2, <3>3
  <2>. QED
    BY <2>4, <2>5
<1>3. /\ WinGone' = WinGone /\ Actions' = Actions /\ Receipted' = Receipted /\ Unanswered' = Unanswered
  BY DEF WinGone, Truth, Actions, Receipted, Unanswered
<1>. QED
  BY <1>1, <1>2, <1>3, WinNamed
     DEF WInv, WinTyped, Unpublished, WinRequestKept, WinOverIsGone, InStage, Step

LEMMA AdvanceKeeps == WInv /\ Advance => WInv'
<1>. SUFFICES ASSUME WInv, Advance PROVE WInv'
  OBVIOUS
<1>0. /\ watch \in WatchRecs /\ record \in RecordRecs
      /\ Over(watch.seen) \/ Over(record.seen) => WinGone
      /\ record.life # "absent" /\ Step("control")
      /\ UNCHANGED <<job, output, stage, record, caller, viewer>>
  BY DEF WInv, WinTyped, WinOverIsGone, Unpublished, Advance, Step
<1>1. CASE \E step \in {"check", "refuse"} : watch' = [watch EXCEPT !.step = step]
  BY <1>0, <1>1, WatchMoves DEF WatchRecs, Stages
<1>2. CASE Unanswered /\ Receipted /\ watch' = Decide(Truth)
  BY <1>0, <1>2, Decides
<1>. QED
  BY <1>1, <1>2 DEF Advance, Go

\* The attempt goes on disk before the broker hears of it.
LEMMA WinIntendKeeps == WInv /\ Intend => WInv'
<1>. SUFFICES ASSUME WInv, Intend PROVE WInv'
  OBVIOUS
<1>0. /\ watch \in WatchRecs /\ record \in RecordRecs
      /\ Over(watch.seen) \/ Over(record.seen) => WinGone
      /\ record.life # "absent" /\ Step("intend")
      /\ UNCHANGED <<job, output, stage, caller, viewer>>
      /\ Unanswered /\ Receipted /\ stage = Len(Actions) /\ Len(Actions) < 3
      /\ Actions \in WinLists /\ Len(Actions) \in Nat
  BY ReceiptedIsUpToDate DEF WInv, WinTyped, WinOverIsGone, Unpublished, InStage, Intend, Step,
     WinRequestKept, Actions, RecordRecs, StopRecs, WinLists
<1>1. CASE UNCHANGED record /\ Go("refuse")
  BY <1>0, <1>1, WatchMoves DEF Go, WatchRecs, Stages, Step
<1>2. CASE Go("act") /\
           record' = [record EXCEPT !.stop.phase = PhaseOf[NextStage],
                !.stop.actions = Append(@, [action |-> WINDOWS_ACTIONS[NextStage],
                                            delivery |-> "uncertain", hit |-> FALSE])]
  <2>. DEFINE attempt == [action |-> WINDOWS_ACTIONS[NextStage], delivery |-> "uncertain", hit |-> FALSE]
              after == Append(Actions, attempt)
  <2>1. attempt \in WinAttempts /\ PhaseOf[NextStage] \in Phases
    BY <1>0 DEF WinAttempts, NextStage, WINDOWS_ACTIONS, PhaseOf, Phases
  <2>2. /\ after \in WinLists /\ Len(after) = Len(Actions) + 1
        /\ \A i \in 1..Len(Actions) : after[i] = Actions[i]
        /\ after[Len(Actions) + 1].delivery = "uncertain"
    BY <1>0, <2>1, AppendProperties DEF WinLists
  <2>3. PICK phase \in Phases :
          record' = [record EXCEPT !.stop.phase = phase, !.stop.actions = after]
    BY <1>0, <1>2, <2>1 DEF Actions, RecordRecs, StopRecs
  <2>. HIDE DEF after
  <2>4. /\ record' \in RecordRecs /\ record'.life = record.life /\ record'.seen = record.seen
        /\ record'.stop.id = record.stop.id /\ record'.stop.result = record.stop.result
        /\ record'.stop.actions = after
    BY <1>0, <2>2, <2>3 DEF RecordRecs, StopRecs
  <2>5. watch' \in WatchRecs /\ watch'.step = "act" /\ watch'.seen = watch.seen
    BY <1>0, <1>2 DEF Go, WatchRecs, Stages
  <2>6. WinGone' = WinGone /\ Unanswered' /\ Actions' = after /\ record.stop.result = "none"
        /\ record.stop.id # Nobody
    BY <1>0, <2>4 DEF WinGone, Truth, Unanswered, Actions
  <2>7. WinTyped' /\ Unpublished' /\ WinRequestKept'
    BY <1>0, <2>4, <2>5, <2>6 DEF WInv, WinTyped, Unpublished, WinRequestKept
  <2>8. WinOverIsGone'
    BY <1>0, <2>4, <2>5, <2>6 DEF WInv, WinOverIsGone, Step
  <2>9. InStage'
    <3>1. Len(after) <= 3 /\ stage <= Len(after) /\ Len(after) > 0 /\ stage = Len(after) - 1
      BY <1>0, <2>2
    <3>2. ASSUME NEW i \in 1..Len(after)
          PROVE  /\ i < Len(after) => after[i].delivery = "sent"
                 /\ after[i].delivery = "sent" => i <= stage
      <4>1. CASE i \in 1..Len(Actions)
        BY <1>0, <2>2, <4>1 DEF Receipted
      <4>2. CASE i = Len(Actions) + 1
        BY <2>2, <4>2
      <4>. QED
        BY <1>0, <2>2, <4>1, <4>2
    <3>. QED
      BY <1>0, <2>4, <2>5, <2>6, <3>1, <3>2, WinNamed DEF InStage, Step
  <2>. QED
    BY <2>7, <2>8, <2>9 DEF WInv
<1>. QED
  BY <1>1, <1>2 DEF Intend

LEMMA ActKeeps == WInv /\ Act => WInv'
<1>. SUFFICES ASSUME WInv, Act PROVE WInv'
  OBVIOUS
<1>0. /\ watch \in WatchRecs /\ record \in RecordRecs
      /\ record.life # "absent" /\ Step("act")
      /\ UNCHANGED <<job, output, record, caller, viewer>>
      /\ Unanswered /\ stage = Len(Actions) - 1 /\ stage \in Nat /\ Len(Actions) \in Nat
      /\ Len(Actions) > 0 /\ stage' \in {stage, stage + 1}
  BY DEF WInv, WinTyped, Unpublished, InStage, Act, Step, WinRequestKept, Actions, RecordRecs, StopRecs, WinLists
<1>1. /\ watch' \in WatchRecs /\ watch'.seen = watch.seen
      /\ \/ watch'.step = "refuse"
         \/ watch'.step = "receipt" /\ stage' = stage + 1
  <2>1. CASE Go("refuse")
    BY <1>0, <2>1 DEF Go, WatchRecs, Stages
  <2>2. CASE /\ stage' = stage + 1
             /\ watch' = [watch EXCEPT !.step = "receipt", !.outcome = IF Reaches THEN "hit" ELSE "miss"]
    <3>1. (IF Reaches THEN "hit" ELSE "miss") \in Outcomes /\ "receipt" \in Stages
      BY WinNamed DEF Stages
    <3>2. PICK how \in Outcomes : watch' = [watch EXCEPT !.step = "receipt", !.outcome = how]
      BY <2>2, <3>1
    <3>. QED
      BY <1>0, <2>2, <3>1, <3>2 DEF WatchRecs
  <2>. QED
    BY <2>1, <2>2 DEF Act
<1>2. /\ WinGone' = WinGone /\ Actions' = Actions /\ Receipted' = Receipted /\ Unanswered' = Unanswered
  BY <1>0 DEF WinGone, Truth, Actions, Receipted, Unanswered
<1>3. WinTyped' /\ Unpublished' /\ WinRequestKept' /\ WinOverIsGone'
  BY <1>0, <1>1, <1>2 DEF WInv, WinTyped, Unpublished, WinRequestKept, WinOverIsGone, Step
<1>4. InStage'
  BY <1>0, <1>1, <1>2, WinNamed DEF WInv, InStage, Step, Unanswered
<1>. QED
  BY <1>3, <1>4 DEF WInv

LEMMA ReceiptKeeps == WInv /\ Receipt => WInv'
<1>. SUFFICES ASSUME WInv, Receipt PROVE WInv'
  OBVIOUS
<1>0. /\ watch \in WatchRecs /\ record \in RecordRecs
      /\ Over(watch.seen) \/ Over(record.seen) => WinGone
      /\ record.life # "absent" /\ Step("receipt")
      /\ UNCHANGED <<job, output, stage, caller, viewer>>
      /\ Unanswered /\ stage = Len(Actions) /\ Len(Actions) \in Nat
      /\ Actions \in WinLists /\ Len(Actions) > 0 /\ Len(Actions) <= 3
  BY DEF WInv, WinTyped, WinOverIsGone, Unpublished, InStage, Receipt, Step, WinRequestKept, Actions,
     RecordRecs, StopRecs, WinLists
<1>1. CASE UNCHANGED record /\ Go("refuse")
  BY <1>0, <1>1, WatchMoves DEF Go, WatchRecs, Stages, Step
<1>2. CASE Go("check") /\
           record' = [record EXCEPT !.stop.actions[Len(Actions)] =
                            [@ EXCEPT !.delivery = "sent", !.hit = watch.outcome = "hit"]]
  <2>. DEFINE attempt == [Actions[Len(Actions)] EXCEPT !.delivery = "sent", !.hit = watch.outcome = "hit"]
              after == [Actions EXCEPT ![Len(Actions)] = attempt]
  <2>1. attempt \in WinAttempts /\ attempt.delivery = "sent"
    <3>1. Actions[Len(Actions)] \in WinAttempts
      BY <1>0 DEF WinLists
    <3>2. PICK hit \in BOOLEAN : attempt = [Actions[Len(Actions)] EXCEPT !.delivery = "sent", !.hit = hit]
      BY Zenon
    <3>. QED
      BY <3>1, <3>2 DEF WinAttempts
  <2>. HIDE DEF attempt
  <2>2. /\ after \in WinLists /\ Len(after) = Len(Actions)
        /\ \A i \in 1..Len(Actions) : after[i] = IF i = Len(Actions) THEN attempt ELSE Actions[i]
    BY <1>0, <2>1, ExceptSeq DEF WinLists
  <2>3. record' = [record EXCEPT !.stop.actions = after]
    BY <1>0, <1>2 DEF Actions, RecordRecs, StopRecs, attempt
  <2>. HIDE DEF after
  <2>4. /\ record' \in RecordRecs /\ record'.life = record.life /\ record'.seen = record.seen
        /\ record'.stop.id = record.stop.id /\ record'.stop.result = record.stop.result
        /\ record'.stop.actions = after
    BY <1>0, <2>2, <2>3 DEF RecordRecs, StopRecs
  <2>5. watch' \in WatchRecs /\ watch'.step = "check" /\ watch'.seen = watch.seen
    BY <1>0, <1>2 DEF Go, WatchRecs, Stages
  <2>6. WinGone' = WinGone /\ Unanswered' /\ Actions' = after /\ record.stop.result = "none"
        /\ record.stop.id # Nobody
    BY <1>0, <2>4 DEF WinGone, Truth, Unanswered, Actions
  <2>7. WinTyped' /\ Unpublished' /\ WinRequestKept'
    BY <1>0, <2>4, <2>5, <2>6 DEF WInv, WinTyped, Unpublished, WinRequestKept
  <2>8. WinOverIsGone'
    BY <1>0, <2>4, <2>5, <2>6 DEF WInv, WinOverIsGone, Step
  <2>9. InStage'
    BY <1>0, <2>1, <2>2, <2>4, <2>5, <2>6, WinNamed DEF WInv, InStage, Step
  <2>. QED
    BY <2>7, <2>8, <2>9 DEF WInv
<1>. QED
  BY <1>1, <1>2 DEF Receipt

-----------------------------------------------------------------------------
LEMMA NextWInv == WInv /\ [WinNext]_winVars => WInv'
<1>. SUFFICES ASSUME WInv, [WinNext]_winVars PROVE WInv'
  OBVIOUS
<1>1. CASE UNCHANGED winVars
  BY <1>1 DEF winVars, WInv, WinTyped, Unpublished, WinRequestKept, WinOverIsGone, InStage, WinGone, Truth,
              Actions, Unanswered, Receipted, Step
<1>2. CASE WinMonitor
  BY <1>2, WinLoopKeeps, EndKeeps, AnswerKeeps, AdvanceKeeps, WinIntendKeeps, ActKeeps, ReceiptKeeps
     DEF WinMonitor
<1>. QED
  BY <1>1, <1>2, WinStartupKeeps, WinLoopKeeps, CallKeeps, ViewerKeeps, TargetKeeps DEF WinNext

LEMMA AlwaysWInv == WinSpec => []WInv
BY InitWInv, NextWInv, PTL DEF WinSpec

\* No stop, list or view on Windows reports more than is so: a success or a
\* closed run is a run whose job is empty, no stage follows one whose receipt is
\* missing, and a view that ended as complete has shown the whole log.
THEOREM WindowsReportsAreHonest == WinSpec => []WindowsHonest
<1>1. WInv => WindowsHonest
  <2>. SUFFICES ASSUME WInv PROVE WindowsHonest
    OBVIOUS
  <2>1. WindowsStopHonest
    BY DEF WInv, WinOverIsGone, WinRequestKept, WindowsStopHonest, ListedGone, complete, WinGone
  <2>2. StagesNeverReplayed
    BY DEF WInv, InStage, StagesNeverReplayed
  <2>3. ViewIsWhole
    BY DEF WInv, WinOverIsGone, ViewIsWhole
  <2>. QED
    BY <2>1, <2>2, <2>3 DEF WindowsHonest
<1>. QED
  BY <1>1, AlwaysWInv, PTL
=============================================================================
