----------------------- MODULE HeadlessLaunchProofs -----------------------
(***************************************************************************)
(* Admission lets one run of a task in, on a verdict that holds of one     *)
(* version of its log, marks every generation once and leaves the seat     *)
(* with the run that is up, for any number of launches at any of the three *)
(* doors, any log and any number of faults and restarts.                   *)
(***************************************************************************)
EXTENDS HeadlessLaunch, SequenceTheorems, NaturalsInduction, WellFoundedInduction, TLAPS

\* What the provers need to know of the two functions.
Shape ==
    /\ DOMAIN life = Attempts
    /\ DOMAIN door = Attempts
    /\ \A a \in Attempts : "step" \in DOMAIN door[a]

\* A door inside the critical section holds the lock.
HolderIsInside == \A a \in Attempts : door[a].step \in InLock => lock = a

\* A resume scans the archive before its marker and forks after it; nothing
\* comes into the archive in between.
ScanStillHolds ==
    \A a \in Attempts :
        (At(a, "fork") \/ (At(a, "checked") /\ a \in Resumes)) => taskOccupants = {}

OneOccupant == \A a, b \in taskOccupants : a = b

\* The inductive invariant.
AInv == Shape /\ HolderIsInside /\ ScanStillHolds /\ OneOccupant

-----------------------------------------------------------------------------
LEMMA InitAInv == Init => AInv
BY DEF Init, AInv, Shape, HolderIsInside, ScanStillHolds, OneOccupant, taskOccupants,
       PendingIntent, Blank, InLock, At

\* Steps that move no door and leave the lock and the archive alone.
LEMMA Quiet ==
    ASSUME AInv, UNCHANGED <<life, lock, door>>
    PROVE  AInv'
BY DEF AInv, Shape, HolderIsInside, ScanStillHolds, OneOccupant, taskOccupants, PendingIntent, At

\* A door goes to a step from which it does not fork; nobody else moves.
LEMMA Moves ==
    ASSUME AInv, NEW a \in Attempts,
           DOMAIN door' = Attempts, "step" \in DOMAIN door'[a],
           \A b \in Attempts \ {a} : door'[b] = door[b],
           UNCHANGED <<life, lock>>,
           door'[a].step \in InLock => lock = a,
           (door'[a].step = "fork" \/ (door'[a].step = "checked" /\ a \in Resumes))
              => taskOccupants = {}
    PROVE  AInv'
BY DEF AInv, Shape, HolderIsInside, ScanStillHolds, OneOccupant, taskOccupants, PendingIntent, At

\* The holder leaves the critical section; the archive gains nothing.
LEMMA Leaves ==
    ASSUME AInv, NEW a \in Attempts, door[a].step \in InLock,
           DOMAIN door' = Attempts, "step" \in DOMAIN door'[a],
           \A b \in Attempts \ {a} : door'[b] = door[b],
           door'[a].step \notin InLock,
           DOMAIN life' = Attempts, taskOccupants' \subseteq taskOccupants
    PROVE  AInv'
<1>1. \A b \in Attempts : b # a => door[b].step \notin InLock
  BY DEF AInv, HolderIsInside
<1>2. \A b \in Attempts : door'[b].step \notin InLock
  BY <1>1
<1>. QED
  BY <1>2 DEF AInv, Shape, HolderIsInside, ScanStillHolds, OneOccupant, At, InLock

LEMMA RefuseKeeps ==
    ASSUME AInv, NEW a \in Attempts, NEW outcome \in Ended,
           door[a].step \in InLock, Refuse(a, outcome)
    PROVE  AInv'
<1>1. /\ DOMAIN door' = Attempts /\ "step" \in DOMAIN door'[a]
      /\ \A b \in Attempts \ {a} : door'[b] = door[b]
      /\ door'[a].step \notin InLock
  BY DEF Refuse, End, Blank, AInv, Shape, Ended, InLock
<1>2. DOMAIN life' = Attempts /\ taskOccupants' \subseteq taskOccupants
  BY DEF Refuse, AInv, Shape, taskOccupants, PendingIntent
<1>. QED
  BY <1>1, <1>2, Leaves

\* The one step by which a run comes into the archive.
LEMMA ForkKeeps ==
    ASSUME AInv, NEW a \in Attempts, door[a].step \in InLock,
           taskOccupants = {}, Fork(a)
    PROVE  AInv'
<1>1. lock' = a /\ \A b \in Attempts : b # a => door[b].step \notin InLock
  BY DEF AInv, HolderIsInside, Fork
<1>2. /\ Shape' /\ door'[a].step = "handshake"
      /\ \A b \in Attempts : b # a => door'[b] = door[b]
  BY DEF AInv, Shape, Fork, Forget, Blank
<1>3. HolderIsInside' /\ ScanStillHolds'
  BY <1>1, <1>2 DEF HolderIsInside, ScanStillHolds, At, InLock
<1>4. taskOccupants' = {a}
  BY DEF AInv, Shape, Fork, taskOccupants, PendingIntent
<1>. QED
  BY <1>2, <1>3, <1>4 DEF AInv, OneOccupant

\* The doors up to the lock.
LEMMA OutsideKeeps ==
    ASSUME AInv, NEW a \in Attempts,
           \/ StartNextBegins(a) \/ PollLaunch(a) \/ ResumeBegins(a)
           \/ Plan(a) \/ Mark(a) \/ Launch(a)
           \/ PlanFails(a) \/ MarkUnanswered(a) \/ LockTimesOut(a)
    PROVE  AInv'
<1>1. /\ DOMAIN door' = Attempts /\ "step" \in DOMAIN door'[a]
      /\ \A b \in Attempts \ {a} : door'[b] = door[b]
      /\ UNCHANGED <<life, lock>>
      /\ door'[a].step \notin InLock
  <2>1. CASE StartNextBegins(a)
    BY <2>1 DEF StartNextBegins, Begin, AInv, Shape, InLock
  <2>2. CASE PollLaunch(a)
    BY <2>2 DEF PollLaunch, Begin, AInv, Shape, InLock
  <2>3. CASE ResumeBegins(a)
    BY <2>3 DEF ResumeBegins, AInv, Shape, InLock
  <2>4. CASE Plan(a)
    BY <2>4 DEF Plan, End, Blank, AInv, Shape, InLock
  <2>5. CASE Mark(a)
    <3>1. PICK step \in {"marked", "lock", "skipped", "failed"} : Forget(a, step) \/ End(a, step)
      BY <2>5 DEF Mark
    <3>2. UNCHANGED <<life, lock>>
      BY <2>5 DEF Mark
    <3>. QED
      BY <3>1, <3>2 DEF End, Forget, Blank, AInv, Shape, InLock
  <2>6. CASE Launch(a)
    BY <2>6 DEF Launch, Goto, AInv, Shape, InLock
  <2>7. CASE PlanFails(a)
    BY <2>7 DEF PlanFails, End, Blank, AInv, Shape, InLock
  <2>8. CASE MarkUnanswered(a)
    BY <2>8 DEF MarkUnanswered, End, Blank, AInv, Shape, InLock
  <2>9. CASE LockTimesOut(a)
    BY <2>9 DEF LockTimesOut, End, Blank, AInv, Shape, InLock
  <2>. QED
    BY <2>1, <2>2, <2>3, <2>4, <2>5, <2>6, <2>7, <2>8, <2>9
<1>. QED
  BY <1>1, Moves DEF InLock

LEMMA AcquireKeeps ==
    ASSUME AInv, NEW a \in Attempts, Acquire(a)
    PROVE  AInv'
<1>1. \A b \in Attempts : door[b].step \notin InLock
  BY DoorsAssumption DEF AInv, HolderIsInside, Acquire
<1>2. /\ Shape' /\ lock' = a /\ door'[a].step = "state"
      /\ \A b \in Attempts : b # a => door'[b] = door[b]
  BY DEF AInv, Shape, Acquire, Goto
<1>3. OneOccupant'
  BY DEF AInv, OneOccupant, Acquire, taskOccupants, PendingIntent
<1>. QED
  BY <1>1, <1>2, <1>3 DEF AInv, HolderIsInside, ScanStillHolds, At, InLock

\* The gates, and the steps by which the holder goes on inside.
LEMMA InsideKeeps ==
    ASSUME AInv, NEW a \in Attempts,
           \/ GateState(a) \/ revalidate(a) \/ ResumeGate(a) \/ ResumeMark(a)
           \/ GateFails(a) \/ Admit(a) \/ ResumeFork(a)
    PROVE  AInv'
<1>1. ASSUME door[a].step \in InLock, Again(a) PROVE AInv'
  <2>1. /\ DOMAIN door' = Attempts /\ "step" \in DOMAIN door'[a]
        /\ \A b \in Attempts \ {a} : door'[b] = door[b]
        /\ UNCHANGED <<life, lock>>
        /\ door'[a].step = "state"
    BY <1>1 DEF Again, AInv, Shape
  <2>2. lock = a
    BY <1>1 DEF AInv, HolderIsInside
  <2>. QED
    BY <2>1, <2>2, Moves
<1>2. ASSUME door[a].step \in InLock, Pass(a), a \in Resumes => taskOccupants = {} PROVE AInv'
  <2>1. /\ DOMAIN door' = Attempts /\ "step" \in DOMAIN door'[a]
        /\ \A b \in Attempts \ {a} : door'[b] = door[b]
        /\ UNCHANGED <<life, lock>>
        /\ door'[a].step = "checked"
    BY <1>2 DEF Pass, AInv, Shape
  <2>2. lock = a
    BY <1>2 DEF AInv, HolderIsInside
  <2>. QED
    BY <1>2, <2>1, <2>2, Moves
<1>3. CASE GateState(a)
  <2>1. door[a].step \in InLock
    BY <1>3 DEF GateState, At, InLock
  <2>2. CASE Refuse(a, "skipped")
    BY <2>1, <2>2, RefuseKeeps DEF Ended
  <2>3. CASE ~Refuse(a, "skipped")
    <3>1. /\ DOMAIN door' = Attempts /\ "step" \in DOMAIN door'[a]
          /\ \A b \in Attempts \ {a} : door'[b] = door[b]
          /\ UNCHANGED <<life, lock>>
          /\ door'[a].step = "log"
      BY <1>3, <2>3 DEF GateState, AInv, Shape
    <3>2. lock = a
      BY <2>1 DEF AInv, HolderIsInside
    <3>. QED
      BY <3>1, <3>2, Moves
  <2>. QED
    BY <2>2, <2>3
<1>4. CASE revalidate(a)
  <2>1. door[a].step \in InLock /\ a \notin Resumes
    BY <1>4 DEF revalidate, At, InLock
  <2>2. Again(a) \/ Pass(a) \/ Refuse(a, "skipped")
    BY <1>4 DEF revalidate
  <2>. QED
    BY <1>1, <1>2, <2>1, <2>2, RefuseKeeps DEF Ended
<1>5. CASE ResumeGate(a)
  <2>1. door[a].step \in InLock
    BY <1>5 DEF ResumeGate, At, InLock
  <2>2. Again(a) \/ (taskOccupants = {} /\ Pass(a)) \/ Refuse(a, "failed")
    BY <1>5 DEF ResumeGate
  <2>. QED
    BY <1>1, <1>2, <2>1, <2>2, RefuseKeeps DEF Ended
<1>6. CASE ResumeMark(a)
  <2>1. door[a].step \in InLock /\ taskOccupants = {}
    BY <1>6 DEF ResumeMark, At, InLock, AInv, ScanStillHolds
  <2>2. CASE Again(a)
    BY <1>1, <2>1, <2>2
  <2>3. CASE Refuse(a, "failed")
    BY <2>1, <2>3, RefuseKeeps DEF Ended
  <2>4. CASE ~Again(a) /\ ~Refuse(a, "failed")
    <3>1. /\ DOMAIN door' = Attempts /\ "step" \in DOMAIN door'[a]
          /\ \A b \in Attempts \ {a} : door'[b] = door[b]
          /\ UNCHANGED <<life, lock>>
          /\ door'[a].step = "fork"
      BY <1>6, <2>4 DEF ResumeMark, Forget, Blank, AInv, Shape
    <3>2. lock = a
      BY <2>1 DEF AInv, HolderIsInside
    <3>. QED
      BY <2>1, <3>1, <3>2, Moves
  <2>. QED
    BY <2>2, <2>3, <2>4
<1>7. CASE GateFails(a)
  <2>1. door[a].step \in InLock /\ (Refuse(a, "failed") \/ Refuse(a, "skipped"))
    BY <1>7 DEF GateFails, At, InLock
  <2>. QED
    BY <2>1, RefuseKeeps DEF Ended
<1>8. CASE Admit(a)
  <2>1. door[a].step \in InLock
    BY <1>8 DEF Admit, At, InLock
  <2>2. (taskOccupants = {} /\ Fork(a)) \/ Refuse(a, "skipped")
    BY <1>8 DEF Admit
  <2>. QED
    BY <2>1, <2>2, ForkKeeps, RefuseKeeps DEF Ended
<1>9. CASE ResumeFork(a)
  <2>1. door[a].step \in InLock /\ taskOccupants = {} /\ Fork(a)
    BY <1>9 DEF ResumeFork, At, InLock, AInv, ScanStillHolds
  <2>. QED
    BY <2>1, ForkKeeps
<1>. QED
  BY <1>3, <1>4, <1>5, <1>6, <1>7, <1>8, <1>9

\* The handshake's answers, and the lost marker of a resume.
LEMMA EndKeeps ==
    ASSUME AInv, NEW a \in Attempts,
           \/ Started(a) \/ StartFailed(a) \/ SupervisorExits(a)
           \/ HandshakeTimesOut(a) \/ ResumeMarkUnanswered(a)
    PROVE  AInv'
<1>1. PICK outcome \in {"launched", "failed", "uncertain"} : End(a, outcome)
  BY DEF Started, StartFailed, SupervisorExits, HandshakeTimesOut, Unconfirmed,
         ResumeMarkUnanswered
<1>2. door[a].step \in InLock
  BY DEF Started, StartFailed, SupervisorExits, HandshakeTimesOut, ResumeMarkUnanswered,
         At, InLock
<1>3. /\ DOMAIN door' = Attempts /\ "step" \in DOMAIN door'[a]
      /\ \A b \in Attempts \ {a} : door'[b] = door[b]
      /\ door'[a].step \notin InLock
  BY <1>1 DEF End, Blank, AInv, Shape, InLock
<1>4. \/ life' = life
      \/ life' = [life EXCEPT ![a] = "failed"]
      \/ life[a] = "failing" /\ life' = [life EXCEPT ![a] = "lost"]
  BY DEF Started, StartFailed, SupervisorExits, HandshakeTimesOut, Unconfirmed,
         ResumeMarkUnanswered
<1>5. DOMAIN life' = Attempts /\ taskOccupants' \subseteq taskOccupants
  BY <1>4 DEF AInv, Shape, taskOccupants, PendingIntent
<1>. QED
  BY <1>2, <1>3, <1>5, Leaves

\* The supervisor only moves a run that occupies the task already.
LEMMA RunKeeps ==
    ASSUME AInv, NEW a \in Attempts,
           Publish(a) \/ SpawnFails(a) \/ SupervisorDies(a) \/ RunEnds(a)
    PROVE  AInv'
<1>1. /\ a \in taskOccupants /\ UNCHANGED <<lock, door>>
      /\ DOMAIN life' = Attempts /\ \A b \in Attempts \ {a} : life'[b] = life[b]
  BY DEF Publish, SpawnFails, SupervisorDies, RunEnds, Become, AInv, Shape,
         taskOccupants, PendingIntent
<1>2. taskOccupants' \subseteq taskOccupants
  BY <1>1 DEF taskOccupants, PendingIntent
<1>. QED
  BY <1>1, <1>2 DEF AInv, Shape, HolderIsInside, ScanStillHolds, OneOccupant, At

LEMMA DieKeeps ==
    ASSUME AInv, NEW as \in SUBSET Attempts, Die(as)
    PROVE  AInv'
<1> DEFINE gone == {a \in as : door[a].step \notin Ended \cup {"idle"}}
<1>1. /\ Shape'
      /\ \A a \in Attempts : a \in gone => door'[a].step = "dead"
      /\ \A a \in Attempts : a \notin gone => door'[a] = door[a]
      /\ lock' = IF lock \in gone THEN None ELSE lock
  BY DEF Die, AInv, Shape, Blank
<1>2. HolderIsInside'
  BY <1>1 DEF AInv, HolderIsInside, InLock
<1>3. \A a \in Attempts : life'[a] = life[a] \/ (life[a] = "failing" /\ life'[a] = "lost")
  BY DEF Die
<1>4. taskOccupants' \subseteq taskOccupants
  BY <1>3 DEF taskOccupants, PendingIntent
<1>. QED
  BY <1>1, <1>2, <1>4 DEF AInv, ScanStillHolds, OneOccupant, At

-----------------------------------------------------------------------------
LEMMA NextAInv == AInv /\ [Next]_vars => AInv'
<1> SUFFICES ASSUME AInv, [Next]_vars PROVE AInv'
  OBVIOUS
<1>1. CASE UNCHANGED vars
  BY <1>1, Quiet DEF vars
<1>2. CASE OthersPublish \/ CloseStop
  BY <1>2, Quiet DEF OthersPublish, CloseStop
<1>3. CASE PollFetch \/ PollObserve \/ PollClose \/ PollLaunched \/ PollQuiet
  BY <1>3, Quiet DEF PollFetch, PollObserve, PollClose, PollLaunched, PollQuiet
<1>4. CASE NotifierCrashes
  BY <1>4, DieKeeps DEF NotifierCrashes, Attempts
<1>5. ASSUME NEW a \in Attempts, DoorCrashes(a) PROVE AInv'
  BY <1>5, DieKeeps DEF DoorCrashes
<1>6. ASSUME NEW a \in Attempts, DoorStep(a) PROVE AInv'
  BY <1>6, OutsideKeeps, AcquireKeeps, InsideKeeps, EndKeeps
     DEF DoorStep, PlanStep, ResumeStep, HandshakeStep
<1>7. ASSUME NEW a \in Attempts, DoorFault(a) PROVE AInv'
  BY <1>7, OutsideKeeps, InsideKeeps, EndKeeps, RunKeeps DEF DoorFault
<1>8. CASE World
  BY <1>2, <1>4, <1>5, <1>8, OutsideKeeps DEF World, Attempts
<1>9. CASE PollStep
  BY <1>3, <1>9, OutsideKeeps DEF PollStep, Attempts
<1>. QED
  BY <1>1, <1>2, <1>6, <1>7, <1>8, <1>9, RunKeeps DEF Next

LEMMA AInvImplies == AInv => OneRunPerTask
BY DEF AInv, OneOccupant, OneRunPerTask, taskOccupants, PendingIntent

LEMMA Invariance == Spec => []AInv
BY InitAInv, NextAInv, PTL DEF Spec

\* At most one run of a task is up or may still come up, however many launches
\* race at the doors, whatever crashes or times out and whatever others publish:
\* the archive is scanned and the intent written under admission.lock.
THEOREM Admission == Spec => []OneRunPerTask
BY Invariance, AInvImplies, PTL

\* Inside the admission lock a door is alone (withAdmissionLock), and what a
\* resume found in the archive before its marker still holds when it forks.
THEOREM VerdictStands == Spec => [](HolderIsInside /\ ScanStillHolds)
<1>1. AInv => HolderIsInside /\ ScanStillHolds
  BY DEF AInv
<1>. QED
  BY <1>1, Invariance, PTL

-----------------------------------------------------------------------------
(***************************************************************************)
(* Natural numbers and maxima.                                             *)
(***************************************************************************)

\* Induction over the natural numbers, as a set.
LEMMA Induction ==
    ASSUME NEW S, 0 \in S, \A n \in Nat : n \in S => n + 1 \in S
    PROVE  Nat \subseteq S
<1> DEFINE R == {ss \in Nat \X Nat : ss[1] < ss[2]}
           T == Nat \ S
<1>1. IsWellFoundedOn(R, Nat)
  BY NatLessThanWellFounded DEF OpToRel
<1> HIDE DEF R
<1>2. SUFFICES ASSUME T # {} PROVE FALSE
  OBVIOUS
<1>3. PICK n \in T : \A y \in T : ~(<<y, n>> \in R)
  BY <1>1, <1>2, WFMin
<1>4. n \in Nat /\ n # 0
  OBVIOUS
<1>5. n - 1 \in Nat /\ <<n - 1, n>> \in R
  BY <1>4 DEF R
<1>6. (n - 1) + 1 = n
  BY <1>4
<1> QED
  BY <1>3, <1>4, <1>5, <1>6

\* The greatest element of a non-empty set of positions.
LEMMA MaxIs ==
    ASSUME NEW v \in Nat, NEW S \in SUBSET (1..v), S # {}
    PROVE  Max(S) \in S /\ \A x \in S : x <= Max(S)
<1> DEFINE T == {n \in Nat : \A s \in SUBSET (1..n) : s # {} => \E m \in s : \A x \in s : m >= x}
<1>1. 0 \in T
  <2>1. 1..0 = {}
    OBVIOUS
  <2>. QED
    BY <2>1
<1>2. ASSUME NEW n \in Nat, n \in T PROVE n + 1 \in T
  <2>1. SUFFICES ASSUME NEW s \in SUBSET (1..(n + 1)), s # {}
                 PROVE  \E m \in s : \A x \in s : m >= x
    OBVIOUS
  <2>2. CASE n + 1 \in s
    BY <2>2
  <2>3. CASE n + 1 \notin s
    <3>1. s \in SUBSET (1..n)
      BY <2>3
    <3>. QED
      BY <1>2, <2>1, <3>1
  <2>. QED
    BY <2>2, <2>3
<1>3. v \in T
  <2> HIDE DEF T
  <2>. QED
    BY <1>1, <1>2, Induction
<1>4. \E m \in S : \A x \in S : m >= x
  BY <1>3
<1>5. Max(S) \in S /\ \A x \in S : Max(S) >= x
  BY <1>4 DEF Max
<1>6. \A x \in S : x \in Int
  OBVIOUS
<1>. QED
  BY <1>5, <1>6

-----------------------------------------------------------------------------
(***************************************************************************)
(* The types of the state.                                                 *)
(***************************************************************************)

EntryRecs == [kind : {"content", "close", "note", "marker"},
              role : Roles \cup {Human, None}, attempt : Attempts \cup {None}]

DoorSteps == Waits \cup Ended \cup {"idle", "seen", "planned", "marked"}

DoorRecs == [step : DoorSteps, role : Roles \cup {None}, force : BOOLEAN, wake : Nat,
             seen : Nat, read : Nat, tries : 0..2]

NotifierRecs == [step : {"idle", "fetched", "observed", "launching"}, seen : Nat,
                 snapshot : {"none", "open", "closed"}, closing : Attempts \cup {None}]

SeatRecs == [attempt : Attempts \cup {None}, starting : BOOLEAN,
             run : Attempts \cup {None}, intentOnly : BOOLEAN, at : Nat]

FaultRecs == [restarts : 0..MaxRestarts, others : 0..MaxFaults]

Typed ==
    /\ log \in Seq(EntryRecs)
    /\ life \in [Attempts -> Lives]
    /\ stop \subseteq Attempts
    /\ archive \in Seq(Attempts)
    /\ lock \in Attempts \cup {None}
    /\ door \in [Attempts -> DoorRecs]
    /\ notifier \in NotifierRecs
    /\ seat \in SeatRecs
    /\ faults \in FaultRecs

\* The named record sets are those of the type invariant.
LEMMA TypedIsTypeOK == Typed <=> TypeOK
BY DEF Typed, TypeOK, EntryRecs, DoorRecs, DoorSteps, NotifierRecs, FaultRecs, SeatRecs

\* The doors' steps and the runs' lives, one by one.
LEMMA Steps ==
    /\ \A s \in {"idle", "seen", "planned", "marked", "lock", "state", "log", "checked", "fork",
                 "handshake", "launched", "skipped", "failed", "uncertain", "dead"} : s \in DoorSteps
    /\ \A l \in {"none", "starting", "failing", "lost", "failed", "running", "complete"} : l \in Lives
BY DEF DoorSteps, Waits, Ended, Lives

\* The initial state has its types.
LEMMA InitTyped == Init => Typed
<1> SUFFICES ASSUME Init PROVE Typed
  OBVIOUS
<1>1. log \in Seq(EntryRecs)
  <2>1. PICK r \in Roles : log = <<Content(r)>>
    BY DEF Init
  <2>2. Content(r) \in EntryRecs
    BY DEF Content, EntryRecs
  <2> QED
    BY <2>1, <2>2
<1>2. Blank \in DoorRecs
  BY Steps DEF Blank, DoorRecs
<1>3. notifier \in NotifierRecs /\ seat \in SeatRecs /\ faults \in FaultRecs
  BY BoundsAssumption DEF Init, Booted, NotifierRecs, NoSeat, Seat, SeatRecs, FaultRecs
<1>4. life \in [Attempts -> Lives] /\ door \in [Attempts -> DoorRecs]
  BY <1>2, Steps DEF Init
<1>5. stop \subseteq Attempts /\ archive \in Seq(Attempts) /\ lock \in Attempts \cup {None}
  BY DEF Init
<1> QED
  BY <1>1, <1>3, <1>4, <1>5 DEF Typed

\* The ways in which a door's record changes.
LEMMA DoorShapes ==
    ASSUME NEW d \in DoorRecs
    PROVE  /\ \A s \in DoorSteps : [Blank EXCEPT !.step = s] \in DoorRecs
           /\ \A s \in DoorSteps : [Blank EXCEPT !.step = s, !.role = d.role] \in DoorRecs
           /\ \A s \in DoorSteps : [d EXCEPT !.step = s] \in DoorRecs
           /\ \A s \in DoorSteps, r \in Roles : [d EXCEPT !.step = s, !.role = r] \in DoorRecs
           /\ \A s \in DoorSteps, v \in Nat : [d EXCEPT !.step = s, !.read = v] \in DoorRecs
           /\ \A s \in DoorSteps, v \in Nat : [d EXCEPT !.step = s, !.seen = v] \in DoorRecs
           /\ \A s \in DoorSteps, v \in Nat : [d EXCEPT !.step = s, !.seen = 0, !.read = v] \in DoorRecs
           /\ \A s \in DoorSteps : d.tries # 2 =>
                 [d EXCEPT !.step = s, !.seen = 0, !.read = 0, !.tries = @ + 1] \in DoorRecs
           /\ \A s \in DoorSteps, r \in Roles, v, w \in Nat, f \in BOOLEAN :
                 [d EXCEPT !.step = s, !.role = r, !.seen = v, !.wake = w, !.force = f] \in DoorRecs
<1>1. Blank \in DoorRecs /\ d.role \in Roles \cup {None} /\ d.tries \in 0..2
  BY Steps DEF Blank, DoorRecs
<1>2. \A e \in DoorRecs, s \in DoorSteps : [e EXCEPT !.step = s] \in DoorRecs
  BY DEF DoorRecs
<1>3. \A e \in DoorRecs, s \in DoorSteps, r \in Roles \cup {None} :
         [e EXCEPT !.step = s, !.role = r] \in DoorRecs
  BY DEF DoorRecs
<1>4. \A s \in DoorSteps, v \in Nat : [d EXCEPT !.step = s, !.read = v] \in DoorRecs
  BY DEF DoorRecs
<1>5. \A s \in DoorSteps, v \in Nat : [d EXCEPT !.step = s, !.seen = v] \in DoorRecs
  BY DEF DoorRecs
<1>6. \A s \in DoorSteps, v \in Nat :
          [d EXCEPT !.step = s, !.seen = 0, !.read = v] \in DoorRecs
  BY DEF DoorRecs
<1>7. \A s \in DoorSteps : d.tries # 2 =>
          [d EXCEPT !.step = s, !.seen = 0, !.read = 0, !.tries = @ + 1] \in DoorRecs
  <2>1. \A s \in DoorSteps, t \in 0..2 :
          [d EXCEPT !.step = s, !.seen = 0, !.read = 0, !.tries = t] \in DoorRecs
    BY DEF DoorRecs
  <2>2. d.tries # 2 => d.tries + 1 \in 0..2
    BY <1>1
  <2> QED
    BY <2>1, <2>2
<1>8. \A s \in DoorSteps, r \in Roles, v, w \in Nat, f \in BOOLEAN :
          [d EXCEPT !.step = s, !.role = r, !.seen = v, !.wake = w, !.force = f] \in DoorRecs
  BY DEF DoorRecs
<1> QED
  BY <1>1, <1>2, <1>3, <1>4, <1>5, <1>6, <1>7, <1>8

\* A version is a natural number.
LEMMA Lengths ==
    ASSUME Typed
    PROVE  Version \in Nat
BY LenProperties DEF Typed, Version

\* A step of a door leaves it with a well-formed record.
LEMMA DoorTyped ==
    ASSUME Typed, [Next]_vars
    PROVE  door' \in [Attempts -> DoorRecs]
<1>1. /\ door \in [Attempts -> DoorRecs] /\ notifier.seen \in Nat
      /\ \A a \in Attempts : door[a] \in DoorRecs
  BY DEF Typed, NotifierRecs
<1>2. Version \in Nat
  BY Lengths
<1>3. CASE door' = door
  BY <1>1, <1>3
<1>4. ASSUME NEW a \in Attempts, NEW s \in DoorSteps, Goto(a, s) \/ Forget(a, s) \/ End(a, s)
      PROVE  door' \in [Attempts -> DoorRecs]
  <2>1. /\ [door[a] EXCEPT !.step = s] \in DoorRecs
        /\ [Blank EXCEPT !.step = s, !.role = door[a].role] \in DoorRecs
        /\ [Blank EXCEPT !.step = s] \in DoorRecs
    BY <1>1, DoorShapes
  <2> QED
    BY <1>1, <1>4, <2>1 DEF Goto, Forget, End
<1>5. ASSUME NEW a \in Attempts, NEW seen \in Nat, NEW wake \in Nat, NEW force \in BOOLEAN,
             Begin(a, seen, wake, force)
      PROVE  door' \in [Attempts -> DoorRecs]
  <2>1. [door[a] EXCEPT !.step = "seen", !.role = Waiting(seen), !.seen = seen,
                        !.wake = wake, !.force = force] \in DoorRecs
    BY <1>1, <1>5, DoorShapes, Steps DEF Begin
  <2> QED
    BY <1>1, <1>5, <2>1 DEF Begin
<1>6. ASSUME NEW a \in Attempts, Again(a), door[a].tries # 2
      PROVE  door' \in [Attempts -> DoorRecs]
  <2>1. [door[a] EXCEPT !.step = "state", !.seen = 0, !.read = 0, !.tries = @ + 1] \in DoorRecs
    BY <1>1, <1>6, DoorShapes, Steps
  <2> QED
    BY <1>1, <1>6, <2>1 DEF Again
<1>7. ASSUME NEW a \in Attempts, Pass(a)
      PROVE  door' \in [Attempts -> DoorRecs]
  <2>1. [door[a] EXCEPT !.step = "checked", !.seen = 0, !.read = Version] \in DoorRecs
    BY <1>1, <1>2, <1>7, DoorShapes, Steps
  <2> QED
    BY <1>1, <1>7, <2>1 DEF Pass
<1>8. ASSUME NEW as \in SUBSET Attempts, Die(as)
      PROVE  door' \in [Attempts -> DoorRecs]
  <2>1. [Blank EXCEPT !.step = "dead"] \in DoorRecs
    <3>1. Blank \in DoorRecs
      BY Steps DEF Blank, DoorRecs
    <3> QED
      BY <3>1, DoorShapes, Steps
  <2> QED
    BY <1>1, <1>8, <2>1 DEF Die
<1>9. ASSUME NEW a \in Attempts, DoorStep(a)
      PROVE  door' \in [Attempts -> DoorRecs]
  <2>1. CASE Plan(a)
    <3>1. CASE door' = [door EXCEPT ![a].step = "planned", ![a].read = Version]
      <4>1. [door[a] EXCEPT !.step = "planned", !.read = Version] \in DoorRecs
        BY <1>1, <1>2, DoorShapes, Steps
      <4> QED
        BY <1>1, <3>1, <4>1
    <3> QED
      BY <2>1, <3>1, <1>4, Steps DEF Plan
  <2>2. CASE GateState(a)
    <3>1. CASE door' = [door EXCEPT ![a].step = "log", ![a].seen = Version]
      <4>1. [door[a] EXCEPT !.step = "log", !.seen = Version] \in DoorRecs
        BY <1>1, <1>2, DoorShapes, Steps
      <4> QED
        BY <1>1, <3>1, <4>1
    <3> QED
      BY <2>2, <3>1, <1>4, Steps DEF GateState, Refuse
  <2>3. CASE Mark(a)
    BY <2>3, <1>4, Steps DEF Mark
  <2>4. CASE Launch(a) \/ Acquire(a)
    BY <2>4, <1>4, Steps DEF Launch, Acquire
  <2>5. CASE revalidate(a)
    <3>1. (Again(a) /\ door[a].tries = 0) \/ Pass(a) \/ Refuse(a, "skipped")
      BY <2>5 DEF revalidate
    <3> QED
      BY <3>1, <1>4, <1>6, <1>7, Steps DEF Refuse
  <2>6. CASE Admit(a) \/ ResumeFork(a)
    <3>1. Fork(a) \/ Refuse(a, "skipped")
      BY <2>6 DEF Admit, ResumeFork
    <3> QED
      BY <3>1, <1>4, Steps DEF Fork, Refuse
  <2>7. CASE ResumeGate(a)
    <3>1. (Again(a) /\ door[a].tries < 2) \/ Pass(a) \/ Refuse(a, "failed")
      BY <2>7 DEF ResumeGate
    <3>2. door[a].tries < 2 => door[a].tries # 2
      BY <1>1 DEF DoorRecs
    <3> QED
      BY <3>1, <3>2, <1>4, <1>6, <1>7, Steps DEF Refuse
  <2>8. CASE ResumeMark(a)
    <3>1. (Again(a) /\ door[a].tries < 2) \/ Forget(a, "fork") \/ Refuse(a, "failed")
      BY <2>8 DEF ResumeMark
    <3>2. door[a].tries < 2 => door[a].tries # 2
      BY <1>1 DEF DoorRecs
    <3> QED
      BY <3>1, <3>2, <1>4, <1>6, Steps DEF Refuse
  <2>9. CASE Started(a) \/ StartFailed(a) \/ SupervisorExits(a)
    BY <2>9, <1>4, Steps DEF Started, StartFailed, SupervisorExits, Unconfirmed
  <2> QED
    BY <1>9, <2>1, <2>2, <2>3, <2>4, <2>5, <2>6, <2>7, <2>8, <2>9
       DEF DoorStep, PlanStep, ResumeStep, HandshakeStep
<1>10. ASSUME NEW a \in Attempts, DoorFault(a)
       PROVE  door' \in [Attempts -> DoorRecs]
  <2>1. CASE SpawnFails(a) \/ SupervisorDies(a)
    BY <2>1, <1>3 DEF SpawnFails, SupervisorDies, Become
  <2>2. CASE ~(SpawnFails(a) \/ SupervisorDies(a))
    <3>1. End(a, "failed") \/ End(a, "uncertain") \/ End(a, "skipped")
      BY <1>10, <2>2 DEF DoorFault, PlanFails, MarkUnanswered, LockTimesOut, GateFails, Refuse,
           ResumeMarkUnanswered, HandshakeTimesOut, Unconfirmed
    <3> QED
      BY <3>1, <1>4, Steps
  <2> QED
    BY <2>1, <2>2
<1>11. CASE World
  <2>1. ASSUME NEW a \in StartNexts, StartNextBegins(a) PROVE door' \in [Attempts -> DoorRecs]
    BY <2>1, <1>2, <1>5 DEF StartNextBegins, Attempts
  <2>2. ASSUME NEW a \in Resumes, ResumeBegins(a) PROVE door' \in [Attempts -> DoorRecs]
    <3>1. PICK r \in Roles : door' = [door EXCEPT ![a].step = "lock", ![a].role = r]
      BY <2>2 DEF ResumeBegins
    <3>2. a \in Attempts /\ [door[a] EXCEPT !.step = "lock", !.role = r] \in DoorRecs
      BY <1>1, DoorShapes, Steps DEF Attempts
    <3> QED
      BY <1>1, <3>1, <3>2
  <2>3. ASSUME NEW a \in StartNexts \cup Resumes, DoorCrashes(a)
        PROVE  door' \in [Attempts -> DoorRecs]
    BY <2>3, <1>8 DEF DoorCrashes, Attempts
  <2>4. CASE OthersPublish
    BY <2>4, <1>3 DEF OthersPublish
  <2>5. CASE NotifierCrashes
    BY <2>5, <1>8 DEF NotifierCrashes, Attempts
  <2> QED
    BY <1>11, <2>1, <2>2, <2>3, <2>4, <2>5 DEF World
<1>12. CASE PollStep \/ CloseStop
  <2>1. ASSUME NEW a \in Autos, PollLaunch(a) PROVE door' \in [Attempts -> DoorRecs]
    <3>1. PICK wake \in {0} \cup {i \in 1..notifier.seen : log[i].kind = "note"} :
             Begin(a, notifier.seen, wake, FALSE)
      BY <2>1 DEF PollLaunch
    <3>2. a \in Attempts /\ wake \in Nat
      BY <1>1 DEF Attempts
    <3> QED
      BY <1>1, <1>5, <3>1, <3>2
  <2> QED
    BY <1>3, <1>12, <2>1 DEF PollStep, PollFetch, PollObserve, PollClose, PollLaunched, PollQuiet,
         CloseStop
<1>13. ASSUME NEW a \in Attempts, Publish(a) \/ RunEnds(a) PROVE door' = door
  BY <1>13 DEF Publish, RunEnds, Become
<1>14. CASE UNCHANGED vars
  BY <1>3, <1>14 DEF vars
<1> QED
  BY <1>3, <1>9, <1>10, <1>11, <1>12, <1>13, <1>14 DEF Next

\* A marker is a log entry.
LEMMA MarkerTyped ==
    ASSUME Typed, NEW a \in Attempts
    PROVE  Marker(a) \in EntryRecs
<1>1. door[a].role \in Roles \cup {None}
  BY DEF Typed, DoorRecs
<1> QED
  BY <1>1 DEF Marker, EntryRecs

\* The log only grows, by one record at a time.
LEMMA LogGrows ==
    ASSUME Typed, [Next]_vars
    PROVE  log' = log \/ \E x \in EntryRecs : log' = Append(log, x)
<1>1. ASSUME NEW a \in Attempts, DoorStep(a) \/ DoorFault(a)
      PROVE  log' = log \/ log' = Append(log, Marker(a))
  BY <1>1 DEF DoorStep, PlanStep, ResumeStep, HandshakeStep, DoorFault,
     Plan, Mark, Launch, revalidate, Admit, ResumeGate, ResumeMark, ResumeFork, Started,
     StartFailed, SupervisorExits, Acquire, GateState, PlanFails, MarkUnanswered, LockTimesOut,
     GateFails, ResumeMarkUnanswered, HandshakeTimesOut, SpawnFails, SupervisorDies, Unconfirmed,
     Become, Refuse, Again, Pass, Fork
<1>2. CASE OthersPublish
  <2>1. PICK x \in {Content(r) : r \in Roles \cup {Human}} \cup {Note, Close} : log' = Append(log, x)
    BY <1>2 DEF OthersPublish
  <2>2. x \in EntryRecs
    BY DEF Content, Note, Close, EntryRecs
  <2> QED
    BY <2>1, <2>2
<1>3. CASE World \/ PollStep \/ CloseStop
  BY <1>2, <1>3 DEF World, StartNextBegins, ResumeBegins, DoorCrashes, NotifierCrashes,
     PollStep, PollFetch, PollObserve, PollClose, PollLaunch, PollLaunched, PollQuiet, CloseStop
<1>4. ASSUME NEW a \in Attempts, Publish(a) \/ RunEnds(a) PROVE log' = log
  BY <1>4 DEF Publish, RunEnds, Become
<1> QED
  BY <1>1, <1>3, <1>4, MarkerTyped DEF Next, vars

\* What was logged stays.
Grown ==
    /\ Len(log) <= Len(log')
    /\ \A i \in 1..Len(log) : log'[i] = log[i]

\* The log keeps its type, and what was logged stays.
LEMMA LogTyped ==
    ASSUME Typed, [Next]_vars
    PROVE  log' \in Seq(EntryRecs) /\ Grown
<1>1. log \in Seq(EntryRecs) /\ Len(log) \in Nat
  BY LenProperties DEF Typed
<1>2. CASE log' = log
  BY <1>1, <1>2 DEF Grown
<1>3. CASE log' # log
  <2>1. PICK x \in EntryRecs : log' = Append(log, x)
    BY <1>3, LogGrows
  <2>2. /\ Append(log, x) \in Seq(EntryRecs) /\ Len(Append(log, x)) = Len(log) + 1
        /\ \A i \in 1..Len(log) : Append(log, x)[i] = log[i]
    BY <1>1, AppendProperties
  <2> QED
    BY <1>1, <2>1, <2>2 DEF Grown
<1> QED
  BY <1>2, <1>3

-----------------------------------------------------------------------------
(***************************************************************************)
(* The archive and the seat.  syncNew folds the run directories into the   *)
(* seat, one after the other.                                              *)
(***************************************************************************)

\* The successive seats of syncNew.
IsFold(f, s) ==
    f = [i \in 0..Len(archive) |-> IF i = 0 THEN s ELSE SyncRun(f[i - 1], archive[i])]

\* The fold over the run directories exists, whatever their number.
LEMMA FoldExists ==
    ASSUME NEW s, archive \in Seq(Attempts)
    PROVE  \E f : IsFold(f, s)
<1> DEFINE F(f, n) == f = [i \in 0..n |-> IF i = 0 THEN s ELSE SyncRun(f[i - 1], archive[i])]
           T == {n \in Nat : \E f : F(f, n)}
<1>1. 0 \in T
  <2>1. F([i \in 0..0 |-> s], 0)
    OBVIOUS
  <2>. QED
    BY <2>1
<1>2. ASSUME NEW n \in Nat, n \in T PROVE n + 1 \in T
  <2>1. PICK g : F(g, n)
    BY <1>2
  <2> DEFINE h == [i \in 0..(n + 1) |-> IF i = n + 1 THEN SyncRun(g[n], archive[n + 1]) ELSE g[i]]
  <2>2. h[0] = s
    BY <2>1
  <2>3. ASSUME NEW i \in 1..(n + 1) PROVE h[i] = SyncRun(h[i - 1], archive[i])
    <3>1. i - 1 \in 0..n /\ i - 1 # n + 1 /\ i - 1 \in 0..(n + 1)
      OBVIOUS
    <3>2. h[i - 1] = g[i - 1]
      BY <3>1
    <3>3. CASE i = n + 1
      <4>1. i - 1 = n
        BY <3>3
      <4>. QED
        BY <3>2, <3>3, <4>1
    <3>4. CASE i # n + 1
      <4>1. i \in 0..n /\ i # 0 /\ i \in 0..(n + 1)
        BY <3>4
      <4>2. g[i] = SyncRun(g[i - 1], archive[i])
        BY <2>1, <4>1
      <4>. QED
        BY <3>2, <3>4, <4>1, <4>2
    <3>. QED
      BY <3>3, <3>4
  <2>4. h = [i \in 0..(n + 1) |-> IF i = 0 THEN s ELSE SyncRun(h[i - 1], archive[i])]
    <3> DEFINE k == [i \in 0..(n + 1) |-> IF i = 0 THEN s ELSE SyncRun(h[i - 1], archive[i])]
    <3>1. ASSUME NEW i \in 0..(n + 1) PROVE h[i] = k[i]
      <4>1. CASE i = 0
        BY <4>1, <2>2
      <4>2. CASE i # 0
        <5>1. i \in 1..(n + 1)
          BY <4>2
        <5>. HIDE DEF h
        <5>. QED
          BY <4>2, <5>1, <2>3
      <4>. QED
        BY <4>1, <4>2
    <3>2. DOMAIN h = 0..(n + 1) /\ DOMAIN k = 0..(n + 1) /\ h = [i \in DOMAIN h |-> h[i]] /\ k = [i \in DOMAIN k |-> k[i]]
      OBVIOUS
    <3> HIDE DEF h, k
    <3>3. h = k
      BY <3>1, <3>2
    <3>. QED
      BY <3>3 DEF k
  <2>5. n + 1 \in Nat
    OBVIOUS
  <2> HIDE DEF h
  <2>. QED
    BY <2>4, <2>5
<1>3. Len(archive) \in Nat
  BY LenProperties
<1>4. Len(archive) \in T
  <2> HIDE DEF T
  <2>. QED
    BY <1>1, <1>2, <1>3, Induction
<1>. QED
  BY <1>4 DEF IsFold

\* syncNew is the last seat of the fold.
LEMMA SyncIsFold ==
    ASSUME NEW s, archive \in Seq(Attempts)
    PROVE  \E f : IsFold(f, s) /\ syncNew(s) = f[Len(archive)]
BY FoldExists DEF syncNew, IsFold

\* The run directories: one per attempt that was let in, made before its run.
Archived(a) == \E i \in DOMAIN archive : archive[i] = a

Before == {"idle", "seen", "planned", "marked", "lock", "state", "log", "checked", "fork"}

ArchivedOnce ==
    /\ \A i, j \in DOMAIN archive : archive[i] = archive[j] => i = j
    /\ \A a \in Attempts : Archived(a) <=> life[a] # "none"
    /\ \A a \in Attempts : door[a].step \in Before => life[a] = "none"

\* The run that occupies the task is the newest of the archive.
OccupantIsLast ==
    \A a \in taskOccupants : archive # <<>> /\ archive[Len(archive)] = a

\* A seat that shows a run shows it as its attempt, and one that is as new as
\* the archive shows the newest run.
SeatWell(s) ==
    /\ s.at <= Len(archive)
    /\ archive # <<>> /\ s.at = Len(archive) => s.attempt = archive[Len(archive)]
    /\ s.run # None => s.run = s.attempt

\* Where a run stands in the archive.
LEMMA StartedAtIs ==
    ASSUME Typed, NEW a \in Attempts
    PROVE  /\ StartedAt(a) \in Nat /\ StartedAt(a) <= Len(archive)
           /\ archive # <<>> /\ StartedAt(a) = Len(archive) => archive[Len(archive)] = a
<1>1. Len(archive) \in Nat /\ DOMAIN archive = 1..Len(archive) /\ (archive # <<>> => Len(archive) # 0)
  BY LenProperties, EmptySeq DEF Typed
<1>2. CASE \E i \in DOMAIN archive : archive[i] = a
  <2>1. StartedAt(a) \in DOMAIN archive /\ archive[StartedAt(a)] = a
    BY <1>2 DEF StartedAt
  <2> QED
    BY <1>1, <2>1
<1>3. CASE ~\E i \in DOMAIN archive : archive[i] = a
  BY <1>1, <1>3 DEF StartedAt
<1> QED
  BY <1>2, <1>3

\* One run directory leaves a seat in order.
LEMMA SyncRunWell ==
    ASSUME Typed, NEW s \in SeatRecs, SeatWell(s), NEW a \in Attempts
    PROVE  SyncRun(s, a) \in SeatRecs /\ SeatWell(SyncRun(s, a))
<1>1. Len(archive) \in Nat /\ (archive # <<>> => Len(archive) # 0)
  BY LenProperties, EmptySeq DEF Typed
<1>2. SyncRun(s, a) \in {Seat(a, FALSE, a, TRUE, 0), NoSeat, Seat(a, FALSE, a, FALSE, StartedAt(a)), s}
  BY DEF SyncRun
<1>3. /\ Seat(a, FALSE, a, TRUE, 0) \in SeatRecs /\ SeatWell(Seat(a, FALSE, a, TRUE, 0))
      /\ NoSeat \in SeatRecs /\ SeatWell(NoSeat)
  BY <1>1 DEF Seat, NoSeat, SeatRecs, SeatWell
<1>4. Seat(a, FALSE, a, FALSE, StartedAt(a)) \in SeatRecs /\ SeatWell(Seat(a, FALSE, a, FALSE, StartedAt(a)))
  BY StartedAtIs DEF Seat, SeatRecs, SeatWell
<1> QED
  BY <1>2, <1>3, <1>4

\* So do all of them,
LEMMA FoldWell ==
    ASSUME Typed, NEW s \in SeatRecs, SeatWell(s), NEW f, IsFold(f, s)
    PROVE  \A i \in 0..Len(archive) : f[i] \in SeatRecs /\ SeatWell(f[i])
<1> DEFINE T == {n \in Nat : n <= Len(archive) => f[n] \in SeatRecs /\ SeatWell(f[n])}
<1>1. Len(archive) \in Nat /\ \A i \in 1..Len(archive) : archive[i] \in Attempts
  BY LenProperties, ElementOfSeq DEF Typed
<1>2. 0 \in T
  BY <1>1 DEF IsFold
<1>3. ASSUME NEW n \in Nat, n \in T PROVE n + 1 \in T
  <2>1. SUFFICES ASSUME n + 1 <= Len(archive)
                 PROVE  f[n + 1] \in SeatRecs /\ SeatWell(f[n + 1])
    OBVIOUS
  <2>2. f[n] \in SeatRecs /\ SeatWell(f[n]) /\ archive[n + 1] \in Attempts
    BY <1>1, <1>3, <2>1
  <2>3. n + 1 \in 0..Len(archive) /\ n + 1 # 0 /\ (n + 1) - 1 = n
    BY <1>1, <2>1
  <2>4. f[n + 1] = SyncRun(f[n], archive[n + 1])
    BY <2>3 DEF IsFold
  <2> QED
    BY <2>2, <2>4, SyncRunWell
<1>4. Nat \subseteq T
  <2> HIDE DEF T
  <2> QED
    BY <1>2, <1>3, Induction
<1> QED
  BY <1>1, <1>4

\* hence syncNew,
LEMMA SyncWell ==
    ASSUME Typed, NEW s \in SeatRecs, SeatWell(s)
    PROVE  syncNew(s) \in SeatRecs /\ SeatWell(syncNew(s))
<1>1. PICK f : IsFold(f, s) /\ syncNew(s) = f[Len(archive)]
  BY SyncIsFold DEF Typed
<1>2. Len(archive) \in 0..Len(archive)
  BY LenProperties DEF Typed
<1> QED
  BY <1>1, <1>2, FoldWell

\* What an observation makes of a seat.
LEMMA ObserveShape ==
    ASSUME NEW s \in SeatRecs
    PROVE  \/ observe(s) = s
           \/ s.run # None /\ life[s.run] = "complete" /\ observe(s) = NoSeat
           \/ /\ s.run # None
              /\ observe(s) = [s EXCEPT !.intentOnly = FALSE, !.at = StartedAt(s.run)]
<1>1. s.starting \in BOOLEAN /\ s.intentOnly \in BOOLEAN
  BY DEF SeatRecs
<1>2. CASE s.run = None \/ s.starting
  BY <1>1, <1>2 DEF observe
<1>3. CASE ~(s.run = None \/ s.starting) /\ life[s.run] = "complete"
  BY <1>1, <1>3 DEF observe
<1>4. CASE /\ ~(s.run = None \/ s.starting) /\ life[s.run] # "complete"
           /\ life[s.run] = "running" /\ s.intentOnly
  BY <1>1, <1>4 DEF observe
<1>5. CASE /\ ~(s.run = None \/ s.starting) /\ life[s.run] # "complete"
           /\ ~(life[s.run] = "running" /\ s.intentOnly)
  BY <1>1, <1>5 DEF observe
<1> QED
  BY <1>1, <1>2, <1>3, <1>4, <1>5

\* and an observation.
LEMMA ObserveWell ==
    ASSUME Typed, NEW s \in SeatRecs, SeatWell(s)
    PROVE  observe(s) \in SeatRecs /\ SeatWell(observe(s))
<1> DEFINE up == [s EXCEPT !.intentOnly = FALSE, !.at = StartedAt(s.run)]
<1>1. Len(archive) \in Nat /\ (archive # <<>> => Len(archive) # 0)
  BY LenProperties, EmptySeq DEF Typed
<1>2. NoSeat \in SeatRecs /\ SeatWell(NoSeat)
  BY <1>1 DEF Seat, NoSeat, SeatRecs, SeatWell
<1>3. s.run # None => s.run \in Attempts /\ s.run = s.attempt
  BY DEF SeatRecs, SeatWell
<1>4. s.run # None => up \in SeatRecs /\ SeatWell(up)
  <2>1. SUFFICES ASSUME s.run # None PROVE up \in SeatRecs /\ SeatWell(up)
    OBVIOUS
  <2>2. /\ StartedAt(s.run) \in Nat /\ StartedAt(s.run) <= Len(archive)
        /\ archive # <<>> /\ StartedAt(s.run) = Len(archive) => archive[Len(archive)] = s.run
    BY <1>3, <2>1, StartedAtIs
  <2>3. \A n \in Nat : [s EXCEPT !.intentOnly = FALSE, !.at = n] \in SeatRecs
    BY DEF SeatRecs
  <2>4. up.at = StartedAt(s.run) /\ up.run = s.run /\ up.attempt = s.attempt
    BY DEF SeatRecs
  <2> QED
    BY <1>3, <2>1, <2>2, <2>3, <2>4 DEF SeatWell
<1>5. observe(s) = s \/ observe(s) = NoSeat \/ (s.run # None /\ observe(s) = up)
  BY ObserveShape
<1> HIDE DEF up
<1> QED
  BY <1>2, <1>4, <1>5

\* After an observation the run that is up has the seat.
LEMMA ObserveFollows ==
    ASSUME Typed, ArchivedOnce, OccupantIsLast, SeatWell(seat),
           NEW a \in Attempts, life[a] = "running"
    PROVE  observe(syncNew(seat)).attempt = a
<1> DEFINE N == Len(archive)
<1>1. a \in taskOccupants
  BY DEF taskOccupants
<1>2. archive # <<>> /\ archive[N] = a /\ N \in Nat /\ DOMAIN archive = 1..N /\ N # 0
  BY <1>1, LenProperties, EmptySeq DEF Typed, OccupantIsLast
<1>3. StartedAt(a) = N
  <2>1. N \in DOMAIN archive
    BY <1>2
  <2>2. StartedAt(a) \in DOMAIN archive /\ archive[StartedAt(a)] = a
    BY <1>2, <2>1 DEF StartedAt
  <2> QED
    BY <1>2, <2>1, <2>2 DEF ArchivedOnce
<1>4. PICK f : IsFold(f, seat) /\ syncNew(seat) = f[N]
  BY SyncIsFold DEF Typed
<1> DEFINE s == f[N - 1]
<1>5. s \in SeatRecs /\ SeatWell(s)
  <2>1. N - 1 \in 0..N /\ seat \in SeatRecs
    BY <1>2 DEF Typed
  <2> QED
    BY <1>4, <2>1, FoldWell
<1>6. syncNew(seat) = SyncRun(s, a)
  BY <1>2, <1>4 DEF IsFold
<1> DEFINE t == SyncRun(s, a)
<1>7. t \in SeatRecs /\ SeatWell(t)
  BY <1>5, SyncRunWell
<1>8. t.attempt = a
  <2>1. CASE s.attempt = a
    BY <2>1 DEF SyncRun, PendingIntent
  <2>2. CASE s.attempt # a
    <3>1. s.at < StartedAt(a)
      BY <1>2, <1>3, <1>5, <2>2 DEF SeatWell, SeatRecs
    <3>2. t = Seat(a, FALSE, a, FALSE, StartedAt(a))
      BY <2>2, <3>1 DEF SyncRun, PendingIntent
    <3> QED
      BY <3>2 DEF Seat
  <2> QED
    BY <2>1, <2>2
<1> HIDE DEF t, s
<1>9. observe(t).attempt = a
  <2>1. t.run # None => t.run = a
    BY <1>7, <1>8 DEF SeatWell
  <2>2. \/ observe(t) = t
        \/ observe(t) = [t EXCEPT !.intentOnly = FALSE, !.at = StartedAt(t.run)]
    BY <1>7, <2>1, ObserveShape
  <2> QED
    BY <1>7, <1>8, <2>2 DEF SeatRecs
<1> QED
  BY <1>6, <1>9 DEF t

-----------------------------------------------------------------------------
(***************************************************************************)
(* The steps of the seat, the Notifier and the archive.                    *)
(***************************************************************************)

\* The seat's steps.
LEMMA SeatTyped ==
    ASSUME Typed, SeatWell(seat), [Next]_vars
    PROVE  seat' \in SeatRecs /\ (archive' = archive => SeatWell(seat)')
<1>1. seat \in SeatRecs /\ Len(archive) \in Nat /\ (archive # <<>> => Len(archive) # 0)
  BY LenProperties, EmptySeq DEF Typed
<1>2. \A a \in Attempts : /\ Seat(a, TRUE, None, FALSE, 0) \in SeatRecs
                          /\ SeatWell(Seat(a, TRUE, None, FALSE, 0))
  BY <1>1 DEF Seat, SeatRecs, SeatWell
<1>3. NoSeat \in SeatRecs /\ SeatWell(NoSeat)
  BY <1>1 DEF NoSeat, Seat, SeatRecs, SeatWell
<1>4. [seat EXCEPT !.starting = FALSE] \in SeatRecs /\ SeatWell([seat EXCEPT !.starting = FALSE])
  BY <1>1 DEF SeatRecs, SeatWell
<1>5. \A a \in Attempts : Handshaking(seat, a) =>
         /\ [seat EXCEPT !.starting = FALSE, !.run = a] \in SeatRecs
         /\ SeatWell([seat EXCEPT !.starting = FALSE, !.run = a])
  BY <1>1 DEF SeatRecs, SeatWell, Handshaking
<1>6. /\ syncNew(seat) \in SeatRecs /\ SeatWell(syncNew(seat))
      /\ observe(syncNew(seat)) \in SeatRecs /\ SeatWell(observe(syncNew(seat)))
  BY <1>1, SyncWell, ObserveWell
<1> DEFINE good == {s \in SeatRecs : SeatWell(s)}
<1>7. seat' \in good
  <2>1. seat \in good
    BY <1>1
  <2>2. ASSUME NEW a \in Attempts, ReleaseSeat(a) \/ SeatRun(a) PROVE seat' \in good
    BY <1>1, <1>3, <1>5, <2>2 DEF ReleaseSeat, SeatRun
  <2>3. ASSUME NEW a \in Attempts, DoorStep(a) PROVE seat' \in good
    <3>1. CASE Launch(a)
      BY <1>2, <3>1 DEF Launch
    <3>2. CASE ~Launch(a)
      <4>1. seat' = seat \/ ReleaseSeat(a) \/ SeatRun(a)
        BY <2>3, <3>2 DEF DoorStep, PlanStep, ResumeStep, HandshakeStep, Plan, Mark, revalidate,
           Admit, ResumeGate, ResumeMark, ResumeFork, Started, StartFailed, SupervisorExits, Acquire,
           GateState, Unconfirmed, Refuse, Again, Pass, Fork
      <4> QED
        BY <2>1, <2>2, <4>1
    <3> QED
      BY <3>1, <3>2
  <2>4. ASSUME NEW a \in Attempts, DoorFault(a) PROVE seat' \in good
    <3>1. \/ seat' = seat \/ seat' = [seat EXCEPT !.starting = FALSE] \/ ReleaseSeat(a) \/ SeatRun(a)
      BY <2>4 DEF DoorFault, PlanFails, MarkUnanswered, LockTimesOut, GateFails, Refuse,
         ResumeMarkUnanswered, HandshakeTimesOut, Unconfirmed, SpawnFails, SupervisorDies, Become
    <3> QED
      BY <1>4, <2>1, <2>2, <3>1
  <2>5. CASE World
    BY <1>3, <2>1, <2>5 DEF World, OthersPublish, NotifierCrashes, StartNextBegins, ResumeBegins,
       DoorCrashes
  <2>6. CASE PollStep \/ CloseStop
    BY <1>6, <2>1, <2>6 DEF PollStep, PollFetch, PollObserve, PollClose, PollLaunch, PollLaunched,
       PollQuiet, CloseStop
  <2>7. ASSUME NEW a \in Attempts, Publish(a) \/ RunEnds(a) PROVE seat' \in good
    BY <2>1, <2>7 DEF Publish, RunEnds, Become
  <2> HIDE DEF good
  <2> QED
    BY <2>1, <2>3, <2>4, <2>5, <2>6, <2>7 DEF Next, vars
<1>8. archive' = archive => SeatWell(seat)'
  BY <1>7 DEF SeatWell
<1> QED
  BY <1>7, <1>8

\* The Notifier's poll keeps its type.
LEMMA NotifierTyped ==
    ASSUME Typed, [Next]_vars
    PROVE  notifier' \in NotifierRecs
<1>1. notifier \in NotifierRecs /\ Version \in Nat /\ seat.attempt \in Attempts \cup {None}
  BY Lengths DEF Typed, SeatRecs
<1>2. Booted \in NotifierRecs
  BY DEF Booted, NotifierRecs
<1>3. /\ [notifier EXCEPT !.step = "fetched", !.seen = Version] \in NotifierRecs
      /\ [notifier EXCEPT !.step = "observed"] \in NotifierRecs
      /\ [notifier EXCEPT !.step = "idle"] \in NotifierRecs
      /\ [notifier EXCEPT !.closing = None] \in NotifierRecs
  BY <1>1 DEF NotifierRecs
<1>4. \A s \in {"open", "closed"} :
         [notifier EXCEPT !.step = "idle", !.seen = 0, !.snapshot = s] \in NotifierRecs
  BY <1>1 DEF NotifierRecs
<1>5. PollEnd \in NotifierRecs
  BY <1>4 DEF PollEnd
<1>6. [PollEnd EXCEPT !.step = "launching"] \in NotifierRecs
      /\ \A a \in Attempts \cup {None} : [PollEnd EXCEPT !.closing = a] \in NotifierRecs
  BY <1>5 DEF NotifierRecs
<1>7. ASSUME NEW a \in Attempts, DoorStep(a) \/ DoorFault(a) PROVE notifier' = notifier
  BY <1>7 DEF DoorStep, PlanStep, ResumeStep, HandshakeStep, DoorFault,
     Plan, Mark, Launch, revalidate, Admit, ResumeGate, ResumeMark, ResumeFork, Started,
     StartFailed, SupervisorExits, Acquire, GateState, PlanFails, MarkUnanswered, LockTimesOut,
     GateFails, ResumeMarkUnanswered, HandshakeTimesOut, SpawnFails, SupervisorDies, Unconfirmed,
     Become, Refuse, Again, Pass, Fork
<1>8. CASE World
  BY <1>1, <1>2, <1>8 DEF World, OthersPublish, NotifierCrashes, StartNextBegins, ResumeBegins,
     DoorCrashes
<1>9. CASE PollStep \/ CloseStop
  BY <1>1, <1>3, <1>5, <1>6, <1>9 DEF PollStep, PollFetch, PollObserve, PollClose, PollLaunch,
     PollLaunched, PollQuiet, CloseStop
<1>10. ASSUME NEW a \in Attempts, Publish(a) \/ RunEnds(a) PROVE notifier' = notifier
  BY <1>10 DEF Publish, RunEnds, Become
<1> QED
  BY <1>1, <1>7, <1>8, <1>9, <1>10 DEF Next, vars

\* What a step does to the archive: a door in its lock reserves a directory,
\* or a run that is in the archive goes on.
LEMMA ArchiveMoves ==
    ASSUME Typed, [Next]_vars
    PROVE  \/ /\ archive' = archive /\ life' \in [Attempts -> Lives]
              /\ \A a \in Attempts : (life[a] = "none") <=> (life'[a] = "none")
              /\ taskOccupants' \subseteq taskOccupants
           \/ \E a \in Attempts : Fork(a) /\ (ResumeFork(a) \/ Admit(a))
<1> DEFINE GoesOn == /\ archive' = archive /\ life' \in [Attempts -> Lives]
                     /\ \A a \in Attempts : (life[a] = "none") <=> (life'[a] = "none")
                     /\ taskOccupants' \subseteq taskOccupants
<1>1. life \in [Attempts -> Lives]
  BY DEF Typed
<1>2. ASSUME NEW a \in taskOccupants, NEW to \in Lives, to # "none",
             archive' = archive, life' = [life EXCEPT ![a] = to]
      PROVE  GoesOn
  BY <1>1, <1>2 DEF taskOccupants, PendingIntent
<1>3. ASSUME archive' = archive, life' = life PROVE GoesOn
  BY <1>1, <1>3 DEF taskOccupants, PendingIntent
<1>4. ASSUME NEW a \in Attempts, DoorStep(a), ~Fork(a)
      PROVE  /\ archive' = archive
             /\ \/ life' = life
                \/ a \in taskOccupants /\ \E to \in {"failed", "lost"} : life' = [life EXCEPT ![a] = to]
  BY <1>4 DEF DoorStep, PlanStep, ResumeStep, HandshakeStep, Plan, Mark, Launch, revalidate,
       Admit, ResumeGate, ResumeMark, ResumeFork, Started, StartFailed, SupervisorExits, Acquire,
       GateState, Unconfirmed, Refuse, Again, Pass, taskOccupants, PendingIntent
<1>5. ASSUME NEW a \in Attempts, DoorStep(a), Fork(a)
      PROVE  ResumeFork(a) \/ Admit(a)
  <2>1. archive' # archive
    <3>1. archive \in Seq(Attempts)
      BY DEF Typed
    <3>2. Len(Append(archive, a)) = Len(archive) + 1 /\ Len(archive) \in Nat
      BY <3>1, AppendProperties, LenProperties
    <3> QED
      BY <1>5, <3>2 DEF Fork
  <2> QED
    BY <1>5, <2>1 DEF DoorStep, PlanStep, ResumeStep, HandshakeStep, Plan, Mark, Launch, revalidate,
       Admit, ResumeGate, ResumeMark, ResumeFork, Started, StartFailed, SupervisorExits, Acquire,
       GateState, Unconfirmed, Refuse, Again, Pass
<1>6. ASSUME NEW a \in Attempts, DoorFault(a) \/ Publish(a) \/ RunEnds(a)
      PROVE  /\ archive' = archive
             /\ \/ life' = life
                \/ a \in taskOccupants /\ \E to \in {"failing", "lost", "running", "complete"} :
                                             life' = [life EXCEPT ![a] = to]
  BY <1>6 DEF DoorFault, PlanFails, MarkUnanswered, LockTimesOut, GateFails, Refuse,
     ResumeMarkUnanswered, HandshakeTimesOut, Unconfirmed, SpawnFails, SupervisorDies, Become,
     Publish, RunEnds, taskOccupants, PendingIntent
<1>7. ASSUME NEW as \in SUBSET Attempts, Die(as), archive' = archive
      PROVE  GoesOn
  BY <1>1, <1>7, Steps DEF Die, taskOccupants, PendingIntent
<1>8. CASE World
  <2>1. ASSUME NotifierCrashes PROVE GoesOn
    BY <2>1, <1>7 DEF NotifierCrashes, Attempts
  <2>2. ASSUME NEW a \in StartNexts \cup Resumes, DoorCrashes(a) PROVE GoesOn
    BY <2>2, <1>7 DEF DoorCrashes, Attempts
  <2>3. ASSUME ~NotifierCrashes, ~\E a \in StartNexts \cup Resumes : DoorCrashes(a)
        PROVE  GoesOn
    BY <1>3, <1>8, <2>3 DEF World, OthersPublish, StartNextBegins, ResumeBegins
  <2> HIDE DEF GoesOn
  <2>4. GoesOn
    BY <2>1, <2>2, <2>3
  <2> QED
    BY <2>4 DEF GoesOn
<1>9. CASE PollStep \/ CloseStop \/ UNCHANGED vars
  BY <1>3, <1>9 DEF PollStep, PollFetch, PollObserve, PollClose, PollLaunch, PollLaunched, PollQuiet,
     CloseStop, vars
<1>10. ASSUME NEW a \in Attempts, DoorStep(a) \/ DoorFault(a) \/ Publish(a) \/ RunEnds(a)
       PROVE  GoesOn \/ (Fork(a) /\ (ResumeFork(a) \/ Admit(a)))
  <2> HIDE DEF GoesOn
  <2>1. archive' = archive /\ life' = life => GoesOn
    BY <1>3 DEF GoesOn
  <2>2. \A to \in {"failed", "failing", "lost", "running", "complete"} : to \in Lives /\ to # "none"
    BY Steps
  <2> QED
    BY <1>2, <1>4, <1>5, <1>6, <1>10, <2>1, <2>2
<1> QED
  BY <1>8, <1>9, <1>10 DEF Next

\* So does the rest of the state.
LEMMA RestTyped ==
    ASSUME Typed, [Next]_vars
    PROVE  /\ stop' \subseteq Attempts /\ lock' \in Attempts \cup {None}
           /\ faults' \in FaultRecs
           /\ life' \in [Attempts -> Lives] /\ archive' \in Seq(Attempts)
<1>1. faults \in FaultRecs /\ faults.others \in 0..MaxFaults /\ faults.restarts \in 0..MaxRestarts
  BY DEF Typed, FaultRecs
<1>2. faults.others < MaxFaults => [faults EXCEPT !.others = @ + 1] \in FaultRecs
  <2>1. \A n \in 0..MaxFaults : [faults EXCEPT !.others = n] \in FaultRecs
    BY <1>1 DEF FaultRecs
  <2>2. faults.others < MaxFaults => faults.others + 1 \in 0..MaxFaults
    BY <1>1, BoundsAssumption
  <2> QED
    BY <2>1, <2>2
<1>3. faults.restarts < MaxRestarts => [faults EXCEPT !.restarts = @ + 1] \in FaultRecs
  <2>1. \A n \in 0..MaxRestarts : [faults EXCEPT !.restarts = n] \in FaultRecs
    BY <1>1 DEF FaultRecs
  <2>2. faults.restarts < MaxRestarts => faults.restarts + 1 \in 0..MaxRestarts
    BY <1>1, BoundsAssumption
  <2> QED
    BY <2>1, <2>2
<1>4. Fault \/ faults' = faults \/ NotifierCrashes
  BY DEF Next, World, PollStep, CloseStop, OthersPublish, StartNextBegins, ResumeBegins,
     DoorCrashes, PollFetch, PollObserve, PollClose, PollLaunch, PollLaunched, PollQuiet,
     DoorStep, PlanStep, ResumeStep, HandshakeStep, DoorFault, Publish, RunEnds, Become, vars,
     Plan, Mark, Launch, revalidate, Admit, ResumeGate, ResumeMark, ResumeFork, Started,
     StartFailed, SupervisorExits, Acquire, GateState, PlanFails, MarkUnanswered, LockTimesOut,
     GateFails, ResumeMarkUnanswered, HandshakeTimesOut, SpawnFails, SupervisorDies
<1>5. faults' \in FaultRecs
  BY <1>1, <1>2, <1>3, <1>4 DEF Fault, NotifierCrashes
<1>6. stop' \subseteq Attempts
  BY DEF Typed, Next, World, PollStep, CloseStop, OthersPublish, NotifierCrashes, StartNextBegins,
     ResumeBegins, DoorCrashes, PollFetch, PollObserve, PollClose, PollLaunch, PollLaunched,
     PollQuiet, DoorStep, PlanStep, ResumeStep, HandshakeStep, DoorFault, Publish, RunEnds, Become,
     Plan, Mark, Launch, revalidate, Admit, ResumeGate, ResumeMark, ResumeFork, Started, vars,
     StartFailed, SupervisorExits, Acquire, GateState, PlanFails, MarkUnanswered, LockTimesOut,
     GateFails, ResumeMarkUnanswered, HandshakeTimesOut, SpawnFails, SupervisorDies, Unconfirmed,
     Refuse, Again, Pass, Fork
<1>7. lock' \in Attempts \cup {None}
  <2>1. ASSUME NEW a \in Attempts, DoorStep(a) \/ DoorFault(a) \/ Publish(a) \/ RunEnds(a)
        PROVE  lock' \in {lock, None, a}
    BY <2>1 DEF DoorStep, PlanStep, ResumeStep, HandshakeStep, DoorFault, Publish, RunEnds, Become,
     Plan, Mark, Launch, revalidate, Admit, ResumeGate, ResumeMark, ResumeFork, Started,
     StartFailed, SupervisorExits, Acquire, GateState, PlanFails, MarkUnanswered, LockTimesOut,
     GateFails, ResumeMarkUnanswered, HandshakeTimesOut, SpawnFails, SupervisorDies, Unconfirmed,
     Refuse, Again, Pass, Fork
  <2>2. CASE World \/ PollStep \/ CloseStop \/ UNCHANGED vars
    BY <2>2 DEF Typed, World, PollStep, CloseStop, OthersPublish, NotifierCrashes, StartNextBegins,
       ResumeBegins, DoorCrashes, PollFetch, PollObserve, PollClose, PollLaunch, PollLaunched,
       PollQuiet, Die, vars
  <2> QED
    BY <2>1, <2>2 DEF Next, Typed
<1>8. life' \in [Attempts -> Lives] /\ archive' \in Seq(Attempts)
  <2>1. CASE archive' = archive /\ life' \in [Attempts -> Lives]
    BY <2>1 DEF Typed
  <2>2. ASSUME NEW a \in Attempts, Fork(a) PROVE life' \in [Attempts -> Lives] /\ archive' \in Seq(Attempts)
    BY <2>2, AppendProperties, Steps DEF Fork, Typed
  <2> QED
    BY <2>1, <2>2, ArchiveMoves
<1> QED
  BY <1>5, <1>6, <1>7, <1>8

\* Every step keeps the types.
LEMMA NextTyped ==
    ASSUME Typed, SeatWell(seat), [Next]_vars
    PROVE  Typed'
BY LogTyped, DoorTyped, SeatTyped, NotifierTyped, RestTyped DEF Typed

\* Only a door that had not forked yet is before its fork.
LEMMA NobodyReturns ==
    ASSUME Typed, [Next]_vars, NEW a \in Attempts, door'[a].step \in Before
    PROVE  door[a].step \in Before
<1>1. /\ door \in [Attempts -> DoorRecs]
      /\ \A b \in Attempts : door[b] \in DoorRecs
  BY DEF Typed
<1>2. CASE door' = door
  BY <1>2
<1>3. ASSUME NEW b \in Attempts, NEW s \in DoorSteps,
             Goto(b, s) \/ Forget(b, s) \/ End(b, s), s \in Before => door[b].step \in Before
      PROVE  door[a].step \in Before
  <2>1. /\ \A e \in Attempts \ {b} : door'[e] = door[e]
        /\ door'[b].step = s
    BY <1>1, <1>3 DEF Goto, Forget, End, Blank, DoorRecs
  <2> QED
    BY <1>3, <2>1
<1>4. ASSUME NEW b \in Attempts, door[b].step \in Before,
             \A e \in Attempts \ {b} : door'[e] = door[e]
      PROVE  door[a].step \in Before
  BY <1>4
<1>5. ASSUME NEW as \in SUBSET Attempts, Die(as)
      PROVE  door[a].step \in Before
  BY <1>1, <1>5 DEF Die, Blank, Before
<1>6. ASSUME NEW b \in Attempts, DoorStep(b) \/ DoorFault(b)
      PROVE  door[a].step \in Before
  <2>1. CASE door[b].step \in Before
    <3>1. \A e \in Attempts \ {b} : door'[e] = door[e]
      BY <1>1, <1>6 DEF DoorStep, PlanStep, ResumeStep, HandshakeStep, DoorFault,
         Plan, Mark, Launch, revalidate, Admit, ResumeGate, ResumeMark, ResumeFork, Started,
         StartFailed, SupervisorExits, Acquire, GateState, PlanFails, MarkUnanswered, LockTimesOut,
         GateFails, ResumeMarkUnanswered, HandshakeTimesOut, SpawnFails, SupervisorDies, Unconfirmed,
         Become, Refuse, Again, Pass, Fork, Goto, Forget, End
    <3> QED
      BY <2>1, <3>1
  <2>2. CASE door[b].step \notin Before
    <3>1. \/ door' = door \/ End(b, "launched") \/ End(b, "failed") \/ End(b, "uncertain")
      BY <1>6, <2>2 DEF Before, At, DoorStep, PlanStep, ResumeStep, HandshakeStep, DoorFault,
         Plan, Mark, Launch, revalidate, Admit, ResumeGate, ResumeMark, ResumeFork, Started,
         StartFailed, SupervisorExits, Acquire, GateState, PlanFails, MarkUnanswered, LockTimesOut,
         GateFails, ResumeMarkUnanswered, HandshakeTimesOut, SpawnFails, SupervisorDies, Unconfirmed,
         Become
    <3>2. "launched" \notin Before /\ "failed" \notin Before /\ "uncertain" \notin Before
      BY DEF Before
    <3> QED
      BY <1>2, <1>3, <3>1, <3>2, Steps
  <2> QED
    BY <2>1, <2>2
<1>7. CASE World \/ PollStep \/ CloseStop
  <2>1. ASSUME NEW b \in Attempts, StartNextBegins(b) \/ ResumeBegins(b) \/ PollLaunch(b)
        PROVE  door[a].step \in Before
    <3>1. door[b].step \in Before /\ \A e \in Attempts \ {b} : door'[e] = door[e]
      BY <1>1, <2>1 DEF StartNextBegins, ResumeBegins, PollLaunch, Begin, At, Before
    <3> QED
      BY <1>4, <3>1
  <2>2. CASE NotifierCrashes
    BY <2>2, <1>5 DEF NotifierCrashes, Attempts
  <2>3. ASSUME NEW b \in Attempts, DoorCrashes(b) PROVE door[a].step \in Before
    BY <2>3, <1>5 DEF DoorCrashes
  <2> QED
    BY <1>2, <1>7, <2>1, <2>2, <2>3 DEF World, PollStep, OthersPublish, PollFetch, PollObserve,
       PollClose, PollLaunched, PollQuiet, CloseStop, Attempts
<1>8. CASE (\E b \in Attempts : Publish(b) \/ RunEnds(b)) \/ UNCHANGED vars
  BY <1>2, <1>8 DEF Publish, RunEnds, Become, vars
<1> QED
  BY <1>6, <1>7, <1>8 DEF Next

Registry == ArchivedOnce /\ OccupantIsLast /\ SeatWell(seat)

\* An empty archive and an empty seat.
LEMMA InitRegistry == Init => Registry
BY DEF Init, Registry, ArchivedOnce, OccupantIsLast, SeatWell, Archived, taskOccupants, PendingIntent,
   NoSeat, Seat

\* Every step keeps the archive and the seat in order.
LEMMA NextRegistry ==
    ASSUME Typed, AInv, Registry, [Next]_vars
    PROVE  Registry'
<1>1. /\ Len(archive) \in Nat /\ DOMAIN archive = 1..Len(archive)
      /\ archive \in Seq(Attempts) /\ life \in [Attempts -> Lives]
      /\ seat \in SeatRecs
  BY LenProperties DEF Typed
<1>2. CASE /\ archive' = archive /\ life' \in [Attempts -> Lives]
           /\ \A a \in Attempts : (life[a] = "none") <=> (life'[a] = "none")
           /\ taskOccupants' \subseteq taskOccupants
  <2>1. SeatWell(seat)'
    BY <1>2, SeatTyped DEF Registry
  <2>2. OccupantIsLast'
    BY <1>2 DEF Registry, OccupantIsLast
  <2>3. ArchivedOnce'
    BY <1>2, NobodyReturns DEF Registry, ArchivedOnce, Archived
  <2> QED
    BY <2>1, <2>2, <2>3 DEF Registry
<1>3. ASSUME NEW a \in Attempts, Fork(a), ResumeFork(a) \/ Admit(a)
      PROVE  Registry'
  <2>1. taskOccupants = {} /\ door[a].step \in Before
    <3>1. CASE Admit(a)
      <4>1. taskOccupants = {} \/ lock' = None
        BY <3>1 DEF Admit, Refuse
      <4>2. lock' = a
        BY <1>3, <3>1 DEF Fork, Admit, At, AInv, HolderIsInside, InLock
      <4> QED
        BY <3>1, <4>1, <4>2, DoorsAssumption DEF Admit, At, Before
    <3>2. CASE ResumeFork(a)
      BY <3>2 DEF ResumeFork, At, AInv, ScanStillHolds, Before
    <3> QED
      BY <1>3, <3>1, <3>2
  <2>2. archive' = Append(archive, a) /\ life' = [life EXCEPT ![a] = "starting"] /\ seat' = seat
    BY <1>3 DEF Fork
  <2>3. /\ Len(archive') = Len(archive) + 1 /\ DOMAIN archive' = 1..(Len(archive) + 1)
        /\ archive'[Len(archive) + 1] = a
        /\ \A i \in 1..Len(archive) : archive'[i] = archive[i]
        /\ archive' # <<>>
    <3>1. archive' \in Seq(Attempts) /\ Len(archive') = Len(archive) + 1
      BY <1>1, <2>2, AppendProperties
    <3>2. Len(<<>>) = 0
      OBVIOUS
    <3> QED
      BY <1>1, <2>2, <3>1, <3>2, AppendProperties, LenProperties
  <2>4. life[a] = "none" /\ \A i \in DOMAIN archive : archive[i] # a
    BY <2>1 DEF Registry, ArchivedOnce, Archived
  <2>5. SeatWell(seat)'
    <3>1. seat.at <= Len(archive) /\ seat.at \in Nat /\ (seat.run # None => seat.run = seat.attempt)
      BY <1>1 DEF Registry, SeatWell, SeatRecs
    <3>2. seat.at <= Len(archive) + 1 /\ seat.at # Len(archive) + 1
      BY <1>1, <3>1
    <3> QED
      BY <2>2, <2>3, <3>1, <3>2 DEF SeatWell
  <2>6. OccupantIsLast'
    <3>1. \A b \in Attempts : b # a => b \notin taskOccupants'
      BY <1>1, <2>1, <2>2 DEF taskOccupants, PendingIntent
    <3>2. \A b \in taskOccupants' : b = a
      BY <3>1 DEF taskOccupants
    <3> QED
      BY <2>3, <3>2 DEF OccupantIsLast
  <2>7. \A i, j \in DOMAIN archive' : archive'[i] = archive'[j] => i = j
    BY <1>1, <2>3, <2>4 DEF Registry, ArchivedOnce
  <2>8. \A b \in Attempts : (\E i \in DOMAIN archive' : archive'[i] = b) <=> life'[b] # "none"
    <3>1. \A b \in Attempts : (\E i \in DOMAIN archive : archive[i] = b) <=> life[b] # "none"
      BY DEF Registry, ArchivedOnce, Archived
    <3>2. \A b \in Attempts : (\E i \in DOMAIN archive' : archive'[i] = b)
                                <=> (b = a \/ \E i \in DOMAIN archive : archive[i] = b)
      BY <1>1, <2>3
    <3> QED
      BY <1>1, <2>2, <3>1, <3>2
  <2>9. \A b \in Attempts : door'[b].step \in Before => life'[b] = "none"
    <3>1. door'[a].step = "handshake"
      BY <1>3 DEF Fork, Forget, Blank, Typed
    <3>2. \A b \in Attempts : door[b].step \in Before => life[b] = "none"
      BY DEF Registry, ArchivedOnce
    <3> QED
      BY <1>1, <2>2, <3>1, <3>2, NobodyReturns DEF Before
  <2>10. ArchivedOnce'
    BY <2>7, <2>8, <2>9 DEF ArchivedOnce, Archived
  <2> QED
    BY <2>5, <2>6, <2>10 DEF Registry
<1> QED
  BY <1>2, <1>3, ArchiveMoves

-----------------------------------------------------------------------------
(***************************************************************************)
(* What the doors know of the log.                                         *)
(***************************************************************************)

\* At version v the task waits for role r: the last content record says so and
\* nothing closed the task.
WaitsFor(l, r, v) ==
    /\ \A i \in 1..v : l[i].kind # "close"
    /\ \E c \in 1..v : /\ l[c].kind = "content" /\ l[c].role = r
                       /\ \A i \in (c + 1)..v : l[i].kind # "content"

\* At version v the role's latest marker, if there is one, is the attempt's.
Owns(l, a, r, v) ==
    \/ \A i \in 1..v : ~(l[i].kind = "marker" /\ l[i].role = r)
    \/ \E m \in 1..v :
          /\ l[m].kind = "marker" /\ l[m].role = r /\ l[m].attempt = a
          /\ \A i \in (m + 1)..v : ~(l[i].kind = "marker" /\ l[i].role = r)

\* Every marker of the role is older than a content record or the wake note.
Unspent(l, r, v, wake) ==
    \A j \in 1..v : l[j].kind = "marker" /\ l[j].role = r
        => j <= wake \/ \E k \in j..v : l[k].kind = "content"

Working == {"seen", "planned", "marked", "lock"} \cup InLock

\* What a door knows of the log when it goes on.
Knows(a) ==
    LET d == door[a]
    IN  /\ d.step \in Working => d.role \in Roles
        /\ d.step \in {"seen", "planned"} =>
              /\ d.seen \in 1..Version /\ WaitsFor(log, d.role, d.seen)
              /\ d.wake <= d.seen
              /\ d.wake # 0 => a \in Autos /\ log[d.wake].kind = "note"
        /\ d.step = "planned" =>
              d.read = d.seen /\ (~d.force => Unspent(log, d.role, d.read, d.wake))
        /\ d.step = "log" =>
              d.seen \in 1..Version /\ (a \notin Resumes => WaitsFor(log, d.role, d.seen))
        /\ d.step = "checked" =>
              /\ d.read \in 1..Version /\ WaitsFor(log, d.role, d.read)
              /\ a \notin Resumes => Owns(log, a, d.role, d.read)

Opened == Version # 0 /\ log[1].kind = "content"

\* The Notifier's poll acts on a version of the log.
Fetched == notifier.step \in {"fetched", "observed"} => notifier.seen \in 1..Version

Known == Opened /\ Fetched /\ \A a \in Attempts : Knows(a)

-----------------------------------------------------------------------------
\* LastContent is the last content record or close.
LEMMA LastIs ==
    ASSUME Typed, Opened, NEW v \in 1..Version
    PROVE  /\ LastContent(v) \in 1..v /\ log[LastContent(v)].kind \in {"content", "close"}
           /\ \A i \in 1..v : log[i].kind \in {"content", "close"} => i <= LastContent(v)
<1> DEFINE S == {i \in 1..v : log[i].kind \in {"content", "close"}}
<1>1. v \in Nat /\ 1 \in 1..v
  BY Lengths
<1>2. S \in SUBSET (1..v) /\ S # {}
  BY <1>1 DEF Opened
<1>3. LastContent(v) = Max(S)
  BY DEF LastContent
<1>4. Max(S) \in S /\ \A x \in S : x <= Max(S)
  <2> HIDE DEF S
  <2> QED
    BY <1>1, <1>2, MaxIs
<1> QED
  BY <1>3, <1>4

\* What Waiting says of a version, without its maximum.
LEMMA WaitingIs ==
    ASSUME Typed, Opened, NEW v \in 1..Version, NEW r
    PROVE  /\ r \in Roles /\ Waiting(v) = r => WaitsFor(log, r, v)
           /\ WaitsFor(log, r, v) => Waiting(v) = r /\ ~Closed(v)
<1> DEFINE c == LastContent(v)
<1>1. /\ c \in 1..v /\ log[c].kind \in {"content", "close"}
      /\ \A i \in 1..v : log[i].kind \in {"content", "close"} => i <= c
  BY LastIs
<1>2. Waiting(v) = IF Closed(v) THEN None ELSE log[c].role
  BY DEF Waiting
<1> HIDE DEF c
<1>3. v \in Nat /\ c \in Nat
  BY <1>1, Lengths
<1>4. ASSUME r \in Roles, Waiting(v) = r PROVE WaitsFor(log, r, v)
  <2>1. ~Closed(v) /\ log[c].role = r
    BY <1>2, <1>4, RolesAssumption
  <2>2. \A i \in 1..v : log[i].kind # "close"
    BY <2>1 DEF Closed
  <2>3. \A i \in (c + 1)..v : i \in 1..v /\ ~(i <= c)
    BY <1>3
  <2>4. \A i \in (c + 1)..v : log[i].kind # "content"
    BY <1>1, <2>3
  <2> QED
    BY <1>1, <2>1, <2>2, <2>4 DEF WaitsFor
<1>5. ASSUME WaitsFor(log, r, v) PROVE Waiting(v) = r /\ ~Closed(v)
  <2>1. ~Closed(v)
    BY <1>5 DEF WaitsFor, Closed
  <2>2. PICK d \in 1..v : /\ log[d].kind = "content" /\ log[d].role = r
                          /\ \A i \in (d + 1)..v : log[i].kind # "content"
    BY <1>5 DEF WaitsFor
  <2>3. log[c].kind = "content"
    BY <1>1, <1>5 DEF WaitsFor
  <2>4. d <= c /\ c \notin (d + 1)..v
    BY <1>1, <2>2, <2>3
  <2>5. d = c
    BY <1>1, <1>3, <2>4
  <2> QED
    BY <1>2, <2>1, <2>2, <2>5
<1> QED
  BY <1>4, <1>5

\* What OwnsGeneration says of a version, without its maximum.
LEMMA OwnsIs ==
    ASSUME Typed, NEW v \in 1..Version, NEW a \in Attempts
    PROVE  OwnsGeneration(a, v) <=> Owns(log, a, door[a].role, v)
<1> DEFINE S == MarkersOf(door[a].role, v)
           m == Max(S)
<1>1. v \in Nat
  BY Lengths
<1>2. /\ S \in SUBSET (1..v)
      /\ \A i \in 1..v : i \in S <=> log[i].kind = "marker" /\ log[i].role = door[a].role
  BY DEF MarkersOf
<1>3. OwnsGeneration(a, v) <=> S = {} \/ log[m].attempt = a
  BY DEF OwnsGeneration
<1> HIDE DEF S
<1>4. CASE S = {}
  BY <1>2, <1>3, <1>4 DEF Owns
<1>5. CASE S # {}
  <2>1. m \in S /\ \A x \in S : x <= m
    BY <1>1, <1>2, <1>5, MaxIs
  <2> HIDE DEF m
  <2>2. m \in 1..v /\ \A i \in (m + 1)..v : i \in 1..v /\ ~(i <= m)
    BY <1>1, <1>2, <2>1
  <2>3. \A i \in (m + 1)..v : i \notin S
    BY <2>1, <2>2
  <2>4. ASSUME NEW n \in S, \A i \in (n + 1)..v : i \notin S PROVE n = m
    <3>1. n \in 1..v /\ n <= m
      BY <1>2, <2>1
    <3>2. ~(m > n)
      BY <1>1, <2>1, <2>2, <2>4, <3>1
    <3> QED
      BY <2>2, <3>1, <3>2
  <2>5. Owns(log, a, door[a].role, v) <=> \E n \in S : log[n].attempt = a /\ \A i \in (n + 1)..v : i \notin S
    <3>1. \A n \in S : \A i \in (n + 1)..v : i \in 1..v
      BY <1>1, <1>2
    <3> QED
      BY <1>2, <1>5, <3>1 DEF Owns
  <2> QED
    BY <1>3, <1>5, <2>1, <2>3, <2>4, <2>5
<1> QED
  BY <1>4, <1>5

\* A role that is not blocked has no marker that is not spent.
LEMMA UnblockedIs ==
    ASSUME Typed, Opened, NEW v \in 1..Version, NEW r, NEW wake \in Nat, NEW w \in Roles,
           WaitsFor(log, w, v), ~launchBlocked(v, r, wake)
    PROVE  Unspent(log, r, v, wake)
<1>1. /\ LastContent(v) \in 1..v /\ log[LastContent(v)].kind \in {"content", "close"}
  BY LastIs
<1>2. log[LastContent(v)].kind = "content"
  BY <1>1 DEF WaitsFor
<1> DEFINE c == LastContent(v)
<1>3. \A m \in 1..v : log[m].kind = "marker" /\ log[m].role = r => ~(m > c) \/ ~(m > wake)
  BY DEF launchBlocked, MarkersOf
<1>4. c \in 1..v /\ log[c].kind = "content" /\ v \in Nat
  BY <1>1, <1>2, Lengths
<1> HIDE DEF c
<1>5. \A j \in 1..v : ~(j > c) => c \in j..v
  BY <1>4
<1>6. \A j \in 1..v : ~(j > wake) => j <= wake
  BY <1>4
<1> QED
  BY <1>3, <1>4, <1>5, <1>6 DEF Unspent

-----------------------------------------------------------------------------
\* What a door knows of a version stays true of it.
LEMMA KnowledgeStays ==
    ASSUME NEW l, NEW m, NEW v \in Nat, \A i \in 1..v : m[i] = l[i]
    PROVE  /\ \A r : WaitsFor(l, r, v) => WaitsFor(m, r, v)
           /\ \A a, r : Owns(l, a, r, v) => Owns(m, a, r, v)
           /\ \A r, wake : Unspent(l, r, v, wake) => Unspent(m, r, v, wake)
<1>1. ASSUME NEW r, WaitsFor(l, r, v) PROVE WaitsFor(m, r, v)
  BY <1>1 DEF WaitsFor
<1>2. ASSUME NEW a, NEW r, Owns(l, a, r, v) PROVE Owns(m, a, r, v)
  BY <1>2 DEF Owns
<1>3. ASSUME NEW r, NEW wake, Unspent(l, r, v, wake) PROVE Unspent(m, r, v, wake)
  BY <1>3 DEF Unspent
<1> QED
  BY <1>1, <1>2, <1>3

\* A door that does not move knows what it knew.
LEMMA KnowsStays ==
    ASSUME Typed, Grown, NEW a \in Attempts, Knows(a), door'[a] = door[a]
    PROVE  Knows(a)'
<1>1. /\ Len(log) \in Nat /\ Len(log) <= Len(log')
      /\ \A i \in 1..Len(log) : log'[i] = log[i]
      /\ door[a].seen \in Nat /\ door[a].read \in Nat /\ door[a].wake \in Nat
  BY LenProperties DEF Typed, Grown, DoorRecs
<1>2. \A v \in 1..Version : /\ v \in 1..Version' /\ log'[v] = log[v]
                            /\ \A r : WaitsFor(log, r, v) => WaitsFor(log', r, v)
                            /\ \A r : Owns(log, a, r, v) => Owns(log', a, r, v)
                            /\ \A r, wake : Unspent(log, r, v, wake) => Unspent(log', r, v, wake)
  <2> TAKE v \in 1..Version
  <2>1. v \in Nat /\ \A i \in 1..v : log'[i] = log[i]
    BY <1>1 DEF Version
  <2>2. v \in 1..Version' /\ log'[v] = log[v]
    BY <1>1 DEF Version
  <2> QED
    BY <2>1, <2>2, KnowledgeStays
<1>3. door[a].wake # 0 /\ door[a].wake <= door[a].seen /\ door[a].seen \in 1..Version
        => door[a].wake \in 1..Version
  BY <1>1, Lengths
<1> QED
  BY <1>2, <1>3 DEF Knows

\* At first no door knows anything.
LEMMA InitKnown == Init => Known
<1> SUFFICES ASSUME Init PROVE Known
  OBVIOUS
<1>1. PICK r \in Roles : log = <<Content(r)>>
  BY DEF Init
<1>2. Opened
  BY <1>1 DEF Opened, Version, Content
<1>3. Fetched /\ \A a \in Attempts : Knows(a)
  BY DEF Init, Booted, Blank, Fetched, Knows, Working, InLock
<1> QED
  BY <1>2, <1>3 DEF Known

\* A door that is at rest knows nothing, one that has its verdict behind it
\* only the role.
LEMMA KnowsRole ==
    ASSUME NEW a \in Attempts,
           \/ door'[a].step \notin Working
           \/ /\ door'[a].step \in {"marked", "lock", "state", "fork", "handshake"}
              /\ door'[a].role \in Roles
    PROVE  Knows(a)'
BY DEF Knows, Working, InLock

\* The step of one door.
LEMMA KnownMoves ==
    ASSUME Typed, Known, Grown, NEW a \in Attempts,
           \A b \in Attempts \ {a} : door'[b] = door[b],
           door'[a] = door[a] \/ Knows(a)',
           notifier' = notifier \/ Fetched'
    PROVE  Known'
<1>1. Len(log) \in Nat /\ Len(log) <= Len(log') /\ \A i \in 1..Len(log) : log'[i] = log[i]
  BY LenProperties DEF Typed, Grown
<1>2. Opened'
  BY <1>1 DEF Known, Opened, Version
<1>3. Fetched'
  BY <1>1 DEF Known, Fetched, Version
<1>4. \A b \in Attempts : Knows(b)'
  BY KnowsStays DEF Known
<1> QED
  BY <1>2, <1>3, <1>4 DEF Known

\* The door of a pass that is over.
LEMMA AgainIs ==
    ASSUME Typed, NEW a \in Attempts, Again(a)
    PROVE  door'[a].step = "state" /\ door'[a].role = door[a].role
<1>1. door \in [Attempts -> DoorRecs] /\ door[a] \in DoorRecs
  BY DEF Typed
<1>2. door'[a] = [door[a] EXCEPT !.step = "state", !.seen = 0, !.read = 0, !.tries = @ + 1]
  BY <1>1 DEF Again
<1> QED
  BY <1>1, <1>2 DEF DoorRecs

\* A door that has its verdict neither goes back nor ends.
LEMMA Passes ==
    ASSUME Typed, NEW a \in Attempts, door'[a].step = "checked"
    PROVE  ~Again(a) /\ ~Refuse(a, "skipped") /\ ~Refuse(a, "failed")
<1>1. \A s : End(a, s) => door'[a].step = s
  BY DEF End, Blank, Typed
<1> QED
  BY <1>1, AgainIs DEF Refuse

\* One door goes on.
LEMMA StepKnown ==
    ASSUME Typed, Known, Grown, NEW a \in Attempts, DoorStep(a) \/ DoorFault(a)
    PROVE  Known'
<1>1. /\ door \in [Attempts -> DoorRecs] /\ door[a] \in DoorRecs /\ Knows(a)
      /\ Version \in Nat /\ Version # 0 /\ Opened
  BY Lengths DEF Typed, Known, Opened
<1>2. notifier' = notifier
  BY DEF DoorStep, PlanStep, ResumeStep, HandshakeStep, DoorFault,
     Plan, Mark, Launch, revalidate, Admit, ResumeGate, ResumeMark, ResumeFork, Started,
     StartFailed, SupervisorExits, Acquire, GateState, PlanFails, MarkUnanswered, LockTimesOut,
     GateFails, ResumeMarkUnanswered, HandshakeTimesOut, SpawnFails, SupervisorDies, Unconfirmed,
     Become, Refuse, Again, Pass, Fork
<1>3. \A b \in Attempts \ {a} : door'[b] = door[b]
  BY <1>1 DEF DoorStep, PlanStep, ResumeStep, HandshakeStep, DoorFault,
     Plan, Mark, Launch, revalidate, Admit, ResumeGate, ResumeMark, ResumeFork, Started,
     StartFailed, SupervisorExits, Acquire, GateState, PlanFails, MarkUnanswered, LockTimesOut,
     GateFails, ResumeMarkUnanswered, HandshakeTimesOut, SpawnFails, SupervisorDies, Unconfirmed,
     Become, Refuse, Again, Pass, Fork, Goto, Forget, End
<1>4. ASSUME NEW s \in Ended, End(a, s) PROVE Knows(a)'
  <2>1. door'[a].step \notin Working
    BY <1>1, <1>4 DEF End, Blank, Ended, Working, InLock
  <2> QED
    BY <2>1, KnowsRole
<1>5. ASSUME NEW s \in {"marked", "lock", "state", "fork", "handshake"},
             Forget(a, s) \/ Goto(a, s) \/ (Again(a) /\ s = "state"),
             door[a].step \in Working
      PROVE  Knows(a)'
  <2>1. door[a].role \in Roles
    BY <1>1, <1>5 DEF Knows
  <2>2. door'[a].step = s /\ door'[a].role = door[a].role
    <3>1. CASE Forget(a, s)
      BY <1>1, <3>1 DEF Forget, Blank
    <3>2. CASE Goto(a, s)
      BY <1>1, <3>2 DEF Goto, DoorRecs
    <3>3. CASE Again(a) /\ s = "state"
      BY <1>1, <3>3, AgainIs
    <3> QED
      BY <1>5, <3>1, <3>2, <3>3
  <2> QED
    BY <2>1, <2>2, KnowsRole
<1>6. CASE Plan(a)
  <2>1. CASE door' = [door EXCEPT ![a].step = "planned", ![a].read = Version]
    <3>1. /\ door'[a].step = "planned" /\ door'[a].read = Version
          /\ door'[a].role = door[a].role /\ door'[a].seen = door[a].seen
          /\ door'[a].wake = door[a].wake /\ door'[a].force = door[a].force
      BY <1>1, <2>1 DEF DoorRecs
    <3>2. /\ log' = log /\ door[a].step = "seen" /\ door[a].wake \in Nat
          /\ door[a].force \in BOOLEAN
      BY <1>1, <1>6 DEF Plan, At, DoorRecs
    <3>3. door[a].role \in Roles /\ WaitsFor(log, door[a].role, door[a].seen)
      BY <1>1, <3>2 DEF Knows, Working
    <3>4. /\ door[a].seen = Version
          /\ ~door[a].force => ~launchBlocked(Version, door[a].role, door[a].wake)
      <4>1. door'[a].step # "skipped" /\ door'[a].step # "failed"
        BY <3>1
      <4>2. ~End(a, "skipped") /\ ~End(a, "failed")
        BY <1>1, <4>1 DEF End, Blank
      <4> QED
        BY <1>6, <4>2, <3>2 DEF Plan
    <3>5. ~door[a].force => Unspent(log, door[a].role, Version, door[a].wake)
      <4>1. Version \in 1..Version
        BY <1>1
      <4> QED
        BY <1>1, <3>2, <3>3, <3>4, <4>1, UnblockedIs
    <3> QED
      <4>1. /\ door'[a].seen \in 1..Version' /\ WaitsFor(log', door'[a].role, door'[a].seen)
            /\ door'[a].role \in Roles /\ door'[a].read = door'[a].seen
        BY <1>1, <3>1, <3>2, <3>3, <3>4 DEF Version
      <4>2. /\ door'[a].wake <= door'[a].seen
            /\ door'[a].wake # 0 => a \in Autos /\ log'[door'[a].wake].kind = "note"
        BY <1>1, <3>1, <3>2 DEF Knows
      <4>3. ~door'[a].force => Unspent(log', door'[a].role, door'[a].read, door'[a].wake)
        BY <3>1, <3>2, <3>5
      <4>4. Knows(a)'
        BY <3>1, <4>1, <4>2, <4>3 DEF Knows
      <4> QED
        BY <1>2, <1>3, <4>4, KnownMoves
  <2> QED
    BY <1>2, <1>3, <1>4, <1>6, <2>1, KnownMoves DEF Plan, Ended
<1>7. CASE GateState(a)
  <2>1. CASE /\ a \in Resumes \/ Waiting(Version) = door[a].role
             /\ door' = [door EXCEPT ![a].step = "log", ![a].seen = Version]
    <3>1. /\ door'[a].step = "log" /\ door'[a].seen = Version
          /\ door'[a].role = door[a].role
      BY <1>1, <2>1 DEF DoorRecs
    <3>2. log' = log /\ door[a].step = "state"
      BY <1>7, <2>1 DEF GateState, Refuse, At
    <3>3. door[a].role \in Roles
      BY <1>1, <3>2 DEF Knows, Working, InLock
    <3>4. Version \in 1..Version
      BY <1>1
    <3>5. a \notin Resumes => WaitsFor(log, door[a].role, Version)
      BY <1>1, <2>1, <3>3, <3>4, WaitingIs
    <3>6. Knows(a)'
      BY <3>1, <3>2, <3>3, <3>4, <3>5 DEF Knows, Working, Version
    <3> QED
      BY <1>2, <1>3, <3>6, KnownMoves
  <2> QED
    BY <1>2, <1>3, <1>4, <1>7, <2>1, KnownMoves DEF GateState, Ended, Refuse
<1>8. ASSUME Pass(a), At(a, "log"),
             WaitsFor(log, door[a].role, Version),
             a \notin Resumes => Owns(log, a, door[a].role, Version)
      PROVE  Knows(a)'
  <2>1. /\ door'[a].step = "checked" /\ door'[a].read = Version
        /\ door'[a].role = door[a].role /\ log' = log
    BY <1>1, <1>8 DEF DoorRecs, Pass
  <2>2. door[a].role \in Roles /\ Version \in 1..Version
    BY <1>1, <1>8 DEF Knows, Working, InLock, At
  <2> QED
    BY <1>8, <2>1, <2>2 DEF Knows, Working, Version
<1>9. CASE revalidate(a)
  <2>1. /\ At(a, "log") /\ a \notin Resumes
        /\ door[a].seen \in 1..Version /\ WaitsFor(log, door[a].role, door[a].seen)
        /\ door[a].step \in Working
    BY <1>1, <1>9 DEF revalidate, At, Knows, Working, InLock
  <2>2. CASE Pass(a)
    <3>1. ~(Version > door[a].seen) /\ OwnsGeneration(a, Version)
      <4>1. door'[a].step = "checked"
        BY <1>1, <2>2 DEF Pass
      <4>2. ~Again(a) /\ ~Refuse(a, "skipped")
        BY <1>1, <4>1, Passes
      <4> QED
        BY <1>9, <4>2 DEF revalidate
    <3>2. door[a].seen = Version /\ Version \in 1..Version
      BY <1>1, <2>1, <3>1
    <3>3. Owns(log, a, door[a].role, Version)
      BY <3>1, <3>2, OwnsIs
    <3> QED
      BY <1>2, <1>3, <1>8, <2>1, <2>2, <3>2, <3>3, KnownMoves
  <2>3. CASE ~Pass(a)
    <3>1. Again(a) \/ End(a, "skipped")
      BY <1>9, <2>3 DEF revalidate, Refuse
    <3> QED
      BY <1>2, <1>3, <1>4, <1>5, <2>1, <3>1, KnownMoves DEF Ended
  <2> QED
    BY <2>2, <2>3
<1>10. CASE ResumeGate(a)
  <2>1. /\ At(a, "log") /\ a \in Resumes /\ door[a].seen \in 1..Version
        /\ door[a].step \in Working /\ door[a].role \in Roles
    BY <1>1, <1>10 DEF ResumeGate, At, Knows, Working, InLock
  <2>2. CASE Pass(a)
    <3>1. ~(Version > door[a].seen) /\ verifyManagedGate(a)
      <4>1. door'[a].step = "checked"
        BY <1>1, <2>2 DEF Pass
      <4>2. ~Again(a) /\ ~Refuse(a, "failed")
        BY <1>1, <4>1, Passes
      <4> QED
        BY <1>10, <4>2 DEF ResumeGate
    <3>2. door[a].seen = Version /\ Version \in 1..Version
      BY <1>1, <2>1, <3>1
    <3>3. Waiting(Version) = door[a].role
      BY <3>1, <3>2 DEF verifyManagedGate
    <3>4. WaitsFor(log, door[a].role, Version)
      BY <1>1, <2>1, <3>2, <3>3, WaitingIs
    <3> QED
      BY <1>2, <1>3, <1>8, <2>1, <2>2, <3>4, KnownMoves
  <2>3. CASE ~Pass(a)
    <3>1. Again(a) \/ End(a, "failed")
      BY <1>10, <2>3 DEF ResumeGate, Refuse
    <3> QED
      BY <1>2, <1>3, <1>4, <1>5, <2>1, <3>1, KnownMoves DEF Ended
  <2> QED
    BY <2>2, <2>3
<1>11. CASE Mark(a) \/ Launch(a) \/ Acquire(a) \/ Admit(a) \/ ResumeMark(a) \/ ResumeFork(a)
  <2>1. door[a].step \in Working
    BY <1>11 DEF Mark, Launch, Acquire, Admit, ResumeMark, ResumeFork, At, Working, InLock
  <2>2. \/ \E s \in Ended : End(a, s)
        \/ \E s \in {"marked", "lock", "state", "fork", "handshake"} :
              Forget(a, s) \/ Goto(a, s) \/ (Again(a) /\ s = "state")
    BY <1>11 DEF Mark, Launch, Acquire, Admit, ResumeMark, ResumeFork, Refuse, Fork, Ended
  <2> QED
    BY <1>2, <1>3, <1>4, <1>5, <2>1, <2>2, KnownMoves
<1>12. CASE HandshakeStep(a)
  <2>1. \E s \in Ended : End(a, s)
    BY <1>12 DEF HandshakeStep, Started, StartFailed, SupervisorExits, Unconfirmed, Ended
  <2> QED
    BY <1>2, <1>3, <1>4, <2>1, KnownMoves
<1>13. CASE DoorFault(a)
  <2>1. door' = door \/ \E s \in Ended : End(a, s)
    BY <1>13 DEF DoorFault, PlanFails, MarkUnanswered, LockTimesOut, GateFails, Refuse,
       ResumeMarkUnanswered, HandshakeTimesOut, Unconfirmed, SpawnFails, SupervisorDies, Become, Ended
  <2> QED
    BY <1>2, <1>3, <1>4, <2>1, KnownMoves
<1> QED
  BY <1>6, <1>7, <1>9, <1>10, <1>11, <1>12, <1>13 DEF DoorStep, PlanStep, ResumeStep

\* A planning door begins with a version that waits for its role.
LEMMA BeginKnown ==
    ASSUME Typed, Known, Grown, NEW a \in Attempts, NEW seen \in 1..Version, NEW wake \in Nat,
           NEW force \in BOOLEAN, Begin(a, seen, wake, force), log' = log,
           wake <= seen, wake # 0 => a \in Autos /\ log[wake].kind = "note"
    PROVE  Knows(a)' /\ \A b \in Attempts \ {a} : door'[b] = door[b]
<1>1. door \in [Attempts -> DoorRecs] /\ door[a] \in DoorRecs /\ Opened
  BY DEF Typed, Known
<1>2. /\ door'[a].step = "seen" /\ door'[a].role = Waiting(seen) /\ door'[a].seen = seen
      /\ door'[a].wake = wake
      /\ \A b \in Attempts \ {a} : door'[b] = door[b]
  BY <1>1 DEF Begin, DoorRecs
<1>3. Waiting(seen) \in Roles /\ WaitsFor(log, Waiting(seen), seen)
  BY <1>1, WaitingIs DEF Begin
<1> QED
  BY <1>2, <1>3 DEF Knows, Working, Version

\* Every step keeps what the doors know.
LEMMA NextKnown ==
    ASSUME Typed, Known, [Next]_vars
    PROVE  Known'
<1>1. /\ Grown /\ Version \in Nat /\ Version # 0 /\ Opened
      /\ door \in [Attempts -> DoorRecs] /\ notifier \in NotifierRecs
  BY LogTyped, Lengths DEF Typed, Known, Opened
<1>2. ASSUME door' = door, notifier' = notifier \/ Fetched' PROVE Known'
  <2>1. CASE Attempts = {}
    <3>1. Len(log) \in Nat /\ Len(log) <= Len(log') /\ \A i \in 1..Len(log) : log'[i] = log[i]
      BY LenProperties, <1>1 DEF Typed, Grown
    <3>2. Opened'
      BY <3>1 DEF Known, Opened, Version
    <3>3. Fetched'
      BY <3>1, <1>2 DEF Known, Fetched, Version
    <3> QED
      BY <2>1, <3>2, <3>3 DEF Known
  <2>2. CASE Attempts # {}
    <3>1. PICK a \in Attempts : TRUE
      BY <2>2
    <3> QED
      BY <1>1, <1>2, KnownMoves
  <2> QED
    BY <2>1, <2>2
<1>3. ASSUME NEW as \in SUBSET Attempts, Die(as), notifier' = notifier \/ Fetched', log' = log
      PROVE  Known'
  <2>1. Opened' /\ Fetched'
    BY <1>3 DEF Known, Opened, Fetched, Version
  <2>2. ASSUME NEW a \in Attempts PROVE Knows(a)'
    <3>1. door'[a] = door[a] \/ door'[a].step = "dead"
      BY <1>1, <1>3 DEF Die, Blank
    <3>2. "dead" \notin Working
      BY DEF Working, InLock
    <3> QED
      BY <1>1, <3>1, <3>2, KnowsRole, KnowsStays DEF Known
  <2> QED
    BY <2>1, <2>2 DEF Known
<1>4. ASSUME NEW a \in Attempts, DoorStep(a) \/ DoorFault(a) PROVE Known'
  BY <1>1, <1>4, StepKnown
<1>5. CASE World
  <2>1. ASSUME NEW a \in StartNexts, StartNextBegins(a) PROVE Known'
    <3>1. PICK force \in BOOLEAN : Begin(a, Version, 0, force)
      BY <2>1 DEF StartNextBegins
    <3>2. a \in Attempts /\ notifier' = notifier /\ log' = log /\ Version \in 1..Version /\ 0 <= Version
      BY <1>1, <2>1 DEF StartNextBegins, Attempts
    <3> QED
      BY <1>1, <3>1, <3>2, BeginKnown, KnownMoves
  <2>2. ASSUME NEW a \in Resumes, ResumeBegins(a) PROVE Known'
    <3>1. PICK r \in Roles : door' = [door EXCEPT ![a].step = "lock", ![a].role = r]
      BY <2>2 DEF ResumeBegins
    <3>2. a \in Attempts /\ notifier' = notifier
      BY <2>2 DEF ResumeBegins, Attempts
    <3>3. /\ door'[a].step = "lock" /\ door'[a].role = r
          /\ \A b \in Attempts \ {a} : door'[b] = door[b]
      BY <1>1, <3>1, <3>2 DEF DoorRecs
    <3> QED
      BY <1>1, <3>2, <3>3, KnowsRole, KnownMoves
  <2>3. CASE NotifierCrashes
    <3>1. Fetched'
      BY <2>3 DEF NotifierCrashes, Booted, Fetched
    <3> QED
      BY <1>3, <2>3, <3>1 DEF NotifierCrashes, Attempts
  <2>4. ASSUME NEW a \in Attempts, DoorCrashes(a) PROVE Known'
    BY <1>3, <2>4 DEF DoorCrashes
  <2>5. CASE OthersPublish
    BY <1>2, <2>5 DEF OthersPublish
  <2> QED
    BY <1>5, <2>1, <2>2, <2>3, <2>4, <2>5 DEF World, Attempts
<1>6. CASE PollStep \/ CloseStop
  <2>1. CASE PollFetch
    <3>1. Fetched'
      BY <1>1, <2>1 DEF PollFetch, Fetched, NotifierRecs, Version
    <3> QED
      BY <1>2, <2>1, <3>1 DEF PollFetch
  <2>2. CASE PollObserve
    <3>1. Fetched'
      BY <1>1, <2>2 DEF PollObserve, Fetched, NotifierRecs, Version, Known
    <3> QED
      BY <1>2, <2>2, <3>1 DEF PollObserve
  <2>3. CASE PollClose \/ PollQuiet \/ PollLaunched \/ CloseStop
    <3>1. door' = door /\ log' = log
      BY <2>3 DEF PollClose, PollQuiet, PollLaunched, CloseStop
    <3>2. Fetched'
      BY <1>1, <2>3, <3>1 DEF PollClose, PollQuiet, PollLaunched, CloseStop, PollEnd, Fetched,
         NotifierRecs, Version, Known
    <3> QED
      BY <1>2, <3>1, <3>2
  <2>4. ASSUME NEW a \in Autos, PollLaunch(a) PROVE Known'
    <3>1. PICK wake \in {0} \cup {i \in 1..notifier.seen : log[i].kind = "note"} :
             Begin(a, notifier.seen, wake, FALSE)
      BY <2>4 DEF PollLaunch
    <3>2. /\ notifier.seen \in 1..Version /\ log' = log /\ a \in Attempts
      BY <2>4 DEF PollLaunch, Known, Fetched, Attempts
    <3>3. notifier'.step = "launching"
      BY <1>1, <2>4 DEF PollLaunch, PollEnd, NotifierRecs
    <3>4. Fetched'
      BY <3>3 DEF Fetched
    <3>5. /\ wake \in Nat /\ wake <= notifier.seen
          /\ wake # 0 => a \in Autos /\ log[wake].kind = "note"
      BY <1>1, <3>2
    <3> QED
      BY <1>1, <3>1, <3>2, <3>4, <3>5, BeginKnown, KnownMoves
  <2> QED
    BY <1>6, <2>1, <2>2, <2>3, <2>4 DEF PollStep
<1>7. ASSUME NEW a \in Attempts, Publish(a) \/ RunEnds(a) PROVE Known'
  BY <1>2, <1>7 DEF Publish, RunEnds, Become
<1>8. CASE UNCHANGED vars
  BY <1>2, <1>8 DEF vars
<1> QED
  BY <1>4, <1>5, <1>6, <1>7, <1>8 DEF Next

-----------------------------------------------------------------------------
(***************************************************************************)
(* The theorems.                                                           *)
(***************************************************************************)

\* The inductive invariant of admission, its verdicts and its traces.
DoorsInv == AInv /\ Typed /\ Registry /\ Known

\* The invariant holds.
LEMMA DoorsHold == Spec => []DoorsInv
<1>1. Init => DoorsInv
  BY InitAInv, InitTyped, InitRegistry, InitKnown DEF DoorsInv
<1>2. DoorsInv /\ [Next]_vars => DoorsInv'
  <2> SUFFICES ASSUME DoorsInv, [Next]_vars PROVE DoorsInv'
    OBVIOUS
  <2>1. AInv /\ Typed /\ Registry /\ Known /\ SeatWell(seat)
    BY DEF DoorsInv, Registry
  <2>2. AInv'
    BY <2>1, NextAInv
  <2>3. Typed'
    BY <2>1, NextTyped
  <2>4. Registry'
    BY <2>1, NextRegistry
  <2>5. Known'
    BY <2>1, NextKnown
  <2> QED
    BY <2>2, <2>3, <2>4, <2>5 DEF DoorsInv
<1> QED
  BY <1>1, <1>2, PTL DEF Spec

\* A run is admitted on a verdict that held of one version of the task,
\* although /state and the log are two reads (revalidate, verifyManagedGate),
\* and the doors keep their state in order.
THEOREM AdmissionIsSound == Spec => []AdmissionSound
<1>1. DoorsInv => AdmissionSound
  <2> SUFFICES ASSUME DoorsInv PROVE AdmissionSound
    OBVIOUS
  <2>1. Typed /\ Opened /\ \A a \in Attempts : Knows(a)
    BY DEF DoorsInv, Known
  <2>2. ASSUME NEW a \in Attempts, At(a, "checked")
        PROVE  /\ Waiting(door[a].read) = door[a].role
               /\ a \notin Resumes => OwnsGeneration(a, door[a].read)
    <3>1. /\ door[a].read \in 1..Version /\ WaitsFor(log, door[a].role, door[a].read)
          /\ a \notin Resumes => Owns(log, a, door[a].role, door[a].read)
      BY <2>1, <2>2 DEF Knows, At
    <3> QED
      BY <2>1, <3>1, WaitingIs, OwnsIs
  <2> QED
    BY <2>1, <2>2, TypedIsTypeOK DEF AdmissionSound, AdmittedAtOneVersion
<1> QED
  BY <1>1, DoorsHold, PTL

\* A step appends one record.
LEMMA SameRecord ==
    ASSUME Typed, NEW x, NEW y \in EntryRecs, log' = Append(log, x), log' = Append(log, y),
           x \in EntryRecs
    PROVE  x = y
<1>1. log \in Seq(EntryRecs)
  BY DEF Typed
<1>2. Append(log, x)[Len(log) + 1] = x /\ Append(log, y)[Len(log) + 1] = y
  BY <1>1, AppendProperties
<1> QED
  BY <1>2

\* Only the door itself appends its marker, and against the version it read.
LEMMA MarkerIsOwn ==
    ASSUME Typed, [Next]_vars, NEW a \in Attempts, At(a, "planned"), log' = Append(log, Marker(a))
    PROVE  Version = door[a].read
<1>1. log' # log
  <2>1. log \in Seq(EntryRecs) /\ Marker(a) \in EntryRecs
    BY MarkerTyped DEF Typed
  <2>2. Len(Append(log, Marker(a))) = Len(log) + 1 /\ Len(log) \in Nat
    BY <2>1, AppendProperties, LenProperties
  <2> QED
    BY <2>2
<1>2. ASSUME OthersPublish PROVE FALSE
  <2>1. PICK x \in {Content(r) : r \in Roles \cup {Human}} \cup {Note, Close} : log' = Append(log, x)
    BY <1>2 DEF OthersPublish
  <2>2. x \in EntryRecs /\ x.kind # "marker"
    BY <2>1 DEF Content, Note, Close, EntryRecs
  <2>3. x = Marker(a)
    BY <2>1, <2>2, MarkerTyped, SameRecord
  <2> QED
    BY <2>2, <2>3 DEF Marker
<1>3. ASSUME NEW b \in Attempts, log' = Append(log, Marker(b)) PROVE b = a
  <2>1. Marker(b) = Marker(a)
    BY <1>3, MarkerTyped, SameRecord
  <2> QED
    BY <2>1 DEF Marker
<1>4. CASE World \/ PollStep \/ CloseStop \/ UNCHANGED vars
  BY <1>1, <1>2, <1>4 DEF World, StartNextBegins, ResumeBegins, DoorCrashes, NotifierCrashes,
     PollStep, PollFetch, PollObserve, PollClose, PollLaunch, PollLaunched, PollQuiet, CloseStop, vars
<1>5. ASSUME NEW b \in Attempts, DoorStep(b) \/ DoorFault(b) PROVE Version = door[a].read
  <2>1. \/ Mark(b) /\ Version = door[b].read /\ log' = Append(log, Marker(b))
        \/ MarkUnanswered(b) \/ ResumeMark(b) \/ ResumeMarkUnanswered(b)
    BY <1>1, <1>5 DEF DoorStep, PlanStep, ResumeStep, HandshakeStep, DoorFault,
       Plan, Mark, Launch, revalidate, Admit, ResumeGate, ResumeFork, Started,
       StartFailed, SupervisorExits, Acquire, GateState, PlanFails, LockTimesOut,
       GateFails, HandshakeTimesOut, SpawnFails, SupervisorDies, Unconfirmed,
       Become, Refuse, Again, Pass, Fork
  <2>2. CASE ResumeMark(b) \/ ResumeMarkUnanswered(b)
    <3>1. log' = Append(log, Marker(b)) /\ door[b].step = "checked"
      BY <1>1, <2>2 DEF ResumeMark, ResumeMarkUnanswered, Again, Refuse, At
    <3> QED
      BY <1>3, <3>1 DEF At
  <2>3. CASE MarkUnanswered(b)
    BY <1>3, <2>3 DEF MarkUnanswered
  <2> QED
    BY <1>3, <2>1, <2>2, <2>3
<1>6. ASSUME NEW b \in Attempts, Publish(b) \/ RunEnds(b) PROVE FALSE
  BY <1>1, <1>6 DEF Publish, RunEnds, Become
<1> QED
  BY <1>4, <1>5, <1>6 DEF Next

\* What a launch leaves behind, whatever races it: a plan that is not forced
\* marks its generation once (launchBlocked and the expected version), and an
\* observation leaves the seat with the run that is up (syncNew).
THEOREM TracesAreRight == Spec => TracesRight
<1>1. ASSUME DoorsInv, [Next]_vars PROVE OneMarkerPerGeneration
  <2> SUFFICES ASSUME NEW a \in Attempts, At(a, "planned"), ~door[a].force,
                      log' = Append(log, Marker(a)),
                      NEW j \in MarkersOf(door[a].role, Version)
               PROVE  \E k \in j..Version : \/ log[k].kind = "content"
                                            \/ log[k].kind = "note" /\ a \in Autos
    BY DEF OneMarkerPerGeneration
  <2>1. Typed /\ Knows(a) /\ Version = door[a].read
    BY <1>1, MarkerIsOwn DEF DoorsInv, Known
  <2> DEFINE wake == door[a].wake
  <2>2. /\ Unspent(log, door[a].role, Version, wake) /\ wake <= Version
        /\ wake # 0 => a \in Autos /\ log[wake].kind = "note"
    BY <2>1 DEF Knows, At
  <2>3. j \in 1..Version /\ log[j].kind = "marker" /\ log[j].role = door[a].role
    BY DEF MarkersOf
  <2>4. wake \in Nat /\ Version \in Nat
    BY <2>1, Lengths DEF Typed, DoorRecs
  <2> HIDE DEF wake
  <2>5. CASE j <= wake
    <3>1. wake \in j..Version /\ wake # 0
      BY <2>2, <2>3, <2>4, <2>5
    <3> QED
      BY <2>2, <3>1
  <2>6. CASE \E k \in j..Version : log[k].kind = "content"
    BY <2>6
  <2> QED
    BY <2>2, <2>3, <2>5, <2>6 DEF Unspent
<1>2. ASSUME DoorsInv, [Next]_vars PROVE SeatFollowsRun
  <2> SUFFICES ASSUME PollObserve, NEW a \in Attempts, life[a] = "running"
               PROVE  seat'.attempt = a
    BY DEF SeatFollowsRun
  <2> QED
    BY <1>2, ObserveFollows DEF PollObserve, DoorsInv, Registry
<1>3. DoorsInv /\ [Next]_vars => [OneMarkerPerGeneration /\ SeatFollowsRun]_vars
  BY <1>1, <1>2
<1> QED
  BY <1>3, DoorsHold, PTL DEF Spec, TracesRight
=============================================================================
