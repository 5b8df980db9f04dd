------------------------------ MODULE FileLock ------------------------------
(***************************************************************************)
(* The exclusive file lock of the run archive (RunStore.lockFile in        *)
(* src/core/run/store.ts), which guards meta transactions, stop requests   *)
(* and launch admission between processes.  up.lock (src/core/hub/         *)
(* rig-lock.ts) follows the same create, inspect, retire protocol, but     *)
(* gives up at once where this one waits.                                  *)
(*                                                                         *)
(* A lock is taken by O_EXCL creation and then published by writing the    *)
(* owner into the file.  A contender may retire a file whose published     *)
(* owner is dead, under a guard directory and after checking again that    *)
(* the file is the one it looked at.  Every system call is an action:      *)
(* another process, or a death, may come between any two of them.          *)
(*                                                                         *)
(* An owner is <<process, call>>: the pid and the fresh random token.      *)
(* Inode numbers are reused once a file is gone.                           *)
(***************************************************************************)
EXTENDS Naturals

CONSTANTS Procs,       \* processes that contend for one lock
          Inodes,      \* inode numbers of the file system
          Absent,      \* there is no lock file
          Empty,       \* a created lock file without its owner
          MaxCalls,    \* lock calls of one process
          MaxTries,    \* passes of one call before its deadline
          MaxCrashes   \* processes that die

Owners == Procs \X Nat

LockFiles == [ino : Inodes, owner : Owners \cup {Empty}]

ASSUME MarksAssumption == Absent \notin LockFiles /\ Empty \notin Owners
ASSUME BoundsAssumption == MaxCalls \in Nat /\ MaxTries \in Nat /\ MaxCrashes \in Nat

VARIABLES
    lock,     \* the lock file, or Absent
    reclaim,  \* the guard directory <file>.reclaim: "absent" or "present"
    pc,       \* where each process is
    call,     \* its number of lock calls: the token of the current one
    tries,    \* passes left before the deadline of the call
    seen,     \* the inode its lstat saw
    raw,      \* the owner its readFile saw
    crashes   \* processes that have died

vars == <<lock, reclaim, pc, call, tries, seen, raw, crashes>>

Dead(p) == pc[p] = "dead"

Own(p) == <<p, call[p]>>

Init ==
    /\ lock = Absent
    /\ reclaim = "absent"
    /\ pc = [p \in Procs |-> "idle"]
    /\ call = [p \in Procs |-> 0]
    /\ tries = [p \in Procs |-> 0]
    /\ seen = [p \in Procs |-> Empty]
    /\ raw = [p \in Procs |-> Empty]
    /\ crashes = 0

Goto(p, at) == pc' = [pc EXCEPT ![p] = at]

At(p, at) == pc[p] = at

-----------------------------------------------------------------------------
(***************************************************************************)
(* Taking the lock: open O_EXCL, write the owner.                          *)
(***************************************************************************)
StartCall(p) ==
    /\ At(p, "idle") /\ call[p] < MaxCalls
    /\ call' = [call EXCEPT ![p] = @ + 1]
    /\ tries' = [tries EXCEPT ![p] = MaxTries]
    /\ Goto(p, "create")
    /\ UNCHANGED <<lock, reclaim, seen, raw, crashes>>

Create(p) ==
    /\ At(p, "create")
    /\ IF lock = Absent
       THEN /\ \E i \in Inodes : lock' = [ino |-> i, owner |-> Empty]
            /\ Goto(p, "publish")
       ELSE Goto(p, "stat") /\ UNCHANGED lock
    /\ UNCHANGED <<reclaim, call, tries, seen, raw, crashes>>

Publish(p) ==
    /\ At(p, "publish")
    /\ lock' = [lock EXCEPT !.owner = Own(p)]
    /\ Goto(p, "critical")
    /\ UNCHANGED <<reclaim, call, tries, seen, raw, crashes>>

\* writeFileSync throws: the call fails and the empty file stays.
PublishFails(p) ==
    /\ At(p, "publish")
    /\ Goto(p, "idle")
    /\ UNCHANGED <<lock, reclaim, call, tries, seen, raw, crashes>>

-----------------------------------------------------------------------------
(***************************************************************************)
(* Inspecting a lock that exists: lstat, readFile, probe the owner.        *)
(***************************************************************************)
Stat(p) ==
    /\ At(p, "stat")
    /\ IF lock = Absent
       THEN Goto(p, "wait") /\ UNCHANGED seen
       ELSE Goto(p, "read") /\ seen' = [seen EXCEPT ![p] = lock.ino]
    /\ UNCHANGED <<lock, reclaim, call, tries, raw, crashes>>

Read(p) ==
    /\ At(p, "read")
    /\ IF lock = Absent
       THEN Goto(p, "wait") /\ UNCHANGED raw
       ELSE Goto(p, "probe") /\ raw' = [raw EXCEPT ![p] = lock.owner]
    /\ UNCHANGED <<lock, reclaim, call, tries, seen, crashes>>

\* Only a published owner can be known to be dead (ESRCH).
Retirable(owner) == owner \in Owners /\ Dead(owner[1])

Probe(p) ==
    /\ At(p, "probe")
    /\ IF Retirable(raw[p]) THEN Goto(p, "guard") ELSE Goto(p, "wait")
    /\ UNCHANGED <<lock, reclaim, call, tries, seen, raw, crashes>>

-----------------------------------------------------------------------------
(***************************************************************************)
(* Retiring a dead owner's lock: mkdir the guard, lstat and readFile once  *)
(* more, unlink, rmdir.                                                    *)
(***************************************************************************)
Guard(p) ==
    /\ At(p, "guard")
    /\ IF reclaim = "present" THEN Goto(p, "wait") ELSE Goto(p, "restat")
    /\ reclaim' = "present"
    /\ UNCHANGED <<lock, call, tries, seen, raw, crashes>>

\* Mutant: a changed inode ends the pass without removing the guard.
Restat_KeepsGuard(p) ==
    /\ At(p, "restat")
    /\ IF lock # Absent /\ lock.ino = seen[p] THEN Goto(p, "reread") ELSE Goto(p, "wait")
    /\ UNCHANGED <<lock, reclaim, call, tries, seen, raw, crashes>>

Restat(p) ==
    /\ At(p, "restat")
    /\ IF lock # Absent /\ lock.ino = seen[p] THEN Goto(p, "reread") ELSE Goto(p, "unguard")
    /\ UNCHANGED <<lock, reclaim, call, tries, seen, raw, crashes>>

Reread(p) ==
    /\ At(p, "reread")
    /\ IF lock # Absent /\ lock.owner = raw[p] THEN Goto(p, "unlink") ELSE Goto(p, "unguard")
    /\ UNCHANGED <<lock, reclaim, call, tries, seen, raw, crashes>>

Unlink(p) ==
    /\ At(p, "unlink")
    /\ lock' = Absent
    /\ Goto(p, "unguard")
    /\ UNCHANGED <<reclaim, call, tries, seen, raw, crashes>>

Unguard(p) ==
    /\ At(p, "unguard")
    /\ reclaim' = "absent"
    /\ Goto(p, "wait")
    /\ UNCHANGED <<lock, call, tries, seen, raw, crashes>>

-----------------------------------------------------------------------------
(***************************************************************************)
(* The end of a pass: wait 20 ms and go round, or the deadline is over.    *)
(***************************************************************************)
Retry(p) ==
    /\ At(p, "wait") /\ tries[p] > 0
    /\ tries' = [tries EXCEPT ![p] = @ - 1]
    /\ Goto(p, "create")
    /\ UNCHANGED <<lock, reclaim, call, seen, raw, crashes>>

TimeOut(p) ==
    /\ At(p, "wait")
    /\ Goto(p, "idle")
    /\ UNCHANGED <<lock, reclaim, call, tries, seen, raw, crashes>>

(***************************************************************************)
(* The release function: the owner is read back, then the file unlinked.   *)
(* Anything but the own owner throws.                                      *)
(***************************************************************************)
Verify(p) ==
    /\ At(p, "critical")
    /\ IF lock # Absent /\ lock.owner = Own(p) THEN Goto(p, "release") ELSE Goto(p, "lost")
    /\ UNCHANGED <<lock, reclaim, call, tries, seen, raw, crashes>>

Release(p) ==
    /\ At(p, "release")
    /\ lock' = Absent
    /\ Goto(p, "idle")
    /\ UNCHANGED <<reclaim, call, tries, seen, raw, crashes>>

\* The process dies; its pid is not in use again while others probe it.
Crash(p) ==
    /\ ~Dead(p) /\ crashes < MaxCrashes
    /\ Goto(p, "dead")
    /\ crashes' = crashes + 1
    /\ UNCHANGED <<lock, reclaim, call, tries, seen, raw>>

-----------------------------------------------------------------------------
\* The steps of one lock call, up to taking the lock or giving up.
Contend(p) ==
    \/ Create(p) \/ Publish(p)
    \/ Stat(p) \/ Read(p) \/ Probe(p)
    \/ Guard(p) \/ Restat(p) \/ Reread(p) \/ Unlink(p) \/ Unguard(p)
    \/ Retry(p) \/ TimeOut(p)

Next == \E p \in Procs :
    \/ StartCall(p) \/ Contend(p) \/ PublishFails(p)
    \/ Verify(p) \/ Release(p)
    \/ Crash(p)

Spec == Init /\ [][Next]_vars

-----------------------------------------------------------------------------
Holding == {"critical", "release"}

Guarded == {"restat", "reread", "unlink", "unguard"}

Steps == {"idle", "create", "publish", "stat", "read", "probe", "guard", "wait",
          "lost", "dead"} \cup Guarded \cup Holding

\* Every variable has its type.
TypeOK ==
    /\ lock \in LockFiles \cup {Absent}
    /\ reclaim \in {"absent", "present"}
    /\ pc \in [Procs -> Steps]
    /\ call \in [Procs -> Nat]
    /\ tries \in [Procs -> Nat]
    /\ seen \in [Procs -> Inodes \cup {Empty}]
    /\ raw \in [Procs -> Owners \cup {Empty}]
    /\ crashes \in Nat

\* No two live processes are in the critical section, whatever died in between
\* and however many contenders retire the same dead owner's lock.
MutualExclusion == \A p, q \in Procs : pc[p] \in Holding /\ pc[q] \in Holding => p = q

\* The release function never finds its lock gone or owned by another
\* ("lock ownership changed").
OwnershipNeverLost == \A p \in Procs : pc[p] # "lost"

\* A guard directory belongs to a reclaimer at work, or was left by one that
\* died besides the owner it was to retire: a live one removes it whatever it
\* found under it (the finally block), for a guard that stays stops all later
\* retirements.
GuardHeld ==
    reclaim = "present" => \/ \E p \in Procs : pc[p] \in Guarded
                           \/ \E p, q \in Procs : p # q /\ Dead(p) /\ Dead(q)

\* The lock does what its holders rely on: it is one's own, alone, until the
\* release, and a dead owner's can be retired.
LockSafe == MutualExclusion /\ OwnershipNeverLost /\ GuardHeld

SafeRemoval ==
    (lock # Absent /\ lock' = Absent) =>
        \/ \E q \in Procs : At(q, "release") /\ lock.owner = Own(q)
        \/ lock.owner \in Owners /\ Dead(lock.owner[1])

\* A lock file only disappears when its own holder releases it or after its
\* published owner died; a file without owner is left alone for ever.
OnlyDeadRetired == [][SafeRemoval]_vars
=============================================================================
