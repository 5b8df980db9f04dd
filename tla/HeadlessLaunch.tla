--------------------------- MODULE HeadlessLaunch ---------------------------
(***************************************************************************)
(* Three doors launch a detached run for a task: the Notifier's auto       *)
(* launch, `tut start-next` and `tut resume` of a managed run.  They are   *)
(* separate processes that share the task log (launch markers appended     *)
(* against an expected version), the run archive (startup intents and      *)
(* meta.json) and the rig-wide admission lock.  The Notifier also keeps,   *)
(* in memory, the seat of the task: the run it believes to occupy it.      *)
(*                                                                         *)
(* One task.  An attempt is one launch: its plan, its marker and, if it is *)
(* admitted, its run.  Logs only grow, so what a read returned is the      *)
(* version it returned.  Every await that leaves the process ends an       *)
(* action.                                                                 *)
(***************************************************************************)
EXTENDS Integers, Sequences, FiniteSets, FiniteSetsExt

CONSTANTS Autos, StartNexts, Resumes, \* the attempts of each door
          Roles,                    \* roles that agents play
          Human,                    \* waits for a person: approval, attention
          None,
          MaxRecords,               \* records others publish
          MaxRestarts,              \* crashes of the Notifier
          MaxFaults                 \* doors that crash, startups and calls that fail

Attempts == Autos \cup StartNexts \cup Resumes

ASSUME DoorsAssumption ==
    /\ Autos \cap StartNexts = {} /\ Autos \cap Resumes = {} /\ StartNexts \cap Resumes = {}
    /\ None \notin Attempts
ASSUME RolesAssumption == Roles # {} /\ Human \notin Roles /\ None \notin Roles
ASSUME BoundsAssumption == MaxRecords \in Nat /\ MaxRestarts \in Nat /\ MaxFaults \in Nat

VARIABLES
    log,       \* the task's records
    life,      \* what each attempt's run archive and processes are
    stop,      \* attempts whose run carries a stop request
    archive,   \* run directories, oldest first
    lock,      \* holder of admission.lock
    door,      \* each attempt's launch
    notifier,  \* the poll in progress, the snapshot, the close being consumed
    seat,      \* the Notifier's occupancy of the task
    faults     \* faults so far

vars == <<log, life, stop, archive, lock, door, notifier, seat, faults>>

-----------------------------------------------------------------------------
(***************************************************************************)
(* The task log.  A content record says who is waited for next.            *)
(***************************************************************************)
Content(r) == [kind |-> "content", role |-> r, attempt |-> None]

Close == [kind |-> "close", role |-> None, attempt |-> None]

Note == [kind |-> "note", role |-> None, attempt |-> None]

Marker(a) == [kind |-> "marker", role |-> door[a].role, attempt |-> a]

Version == Len(log)

Closed(v) == \E i \in 1..v : log[i].kind = "close"

LastContent(v) == Max({i \in 1..v : log[i].kind \in {"content", "close"}})

Waiting(v) == IF Closed(v) THEN None ELSE log[LastContent(v)].role

MarkersOf(r, v) == {i \in 1..v : log[i].kind = "marker" /\ log[i].role = r}

\* The role was launched since the last content record and the wake note.
launchBlocked(v, r, wake) ==
    \E m \in MarkersOf(r, v) : m > LastContent(v) /\ m > wake

-----------------------------------------------------------------------------
(***************************************************************************)
(* The run archive.  "starting": the intent is pending and the supervisor  *)
(* has not published meta.json.  "failing": it has reported that nothing   *)
(* was spawned.  "lost": the intent is pending and nobody will change it.  *)
(***************************************************************************)
Lives == {"none", "starting", "failing", "lost", "failed", "running", "complete"}

PendingIntent(a) == life[a] \in {"starting", "failing", "lost"}

\* Incomplete runs and pending intents of the task, any role.
taskOccupants == {a \in Attempts : PendingIntent(a) \/ life[a] = "running"}

StartedAt(a) == IF \E i \in DOMAIN archive : archive[i] = a
                THEN CHOOSE i \in DOMAIN archive : archive[i] = a ELSE 0

-----------------------------------------------------------------------------
(***************************************************************************)
(* The seat.                                                               *)
(***************************************************************************)
Seat(a, starting, run, intentOnly, at) ==
    [attempt |-> a, starting |-> starting, run |-> run, intentOnly |-> intentOnly, at |-> at]

NoSeat == Seat(None, FALSE, None, FALSE, 0)

\* A local handshake of this very attempt is left alone.
Handshaking(s, a) == s.starting /\ s.attempt = a

\* An intent takes an empty seat, a candidate without a run, a complete run.
Replaceable(s) == s.run = None \/ life[s.run] = "complete"

\* syncNew for one run directory.
SyncRun(s, a) ==
    CASE PendingIntent(a) /\ ~Handshaking(s, a) /\ s.run # a /\ Replaceable(s) ->
            Seat(a, FALSE, a, TRUE, 0)
      [] life[a] = "failed" /\ ~Handshaking(s, a) /\ s.run = a -> NoSeat
      [] life[a] = "running" /\ s.attempt # a /\ s.at < StartedAt(a) ->
            Seat(a, FALSE, a, FALSE, StartedAt(a))
      [] OTHER -> s

\* syncNew: the run directories in order.
syncNew(s) ==
    LET after[i \in 0..Len(archive)] ==
          IF i = 0 THEN s ELSE SyncRun(after[i - 1], archive[i])
    IN  after[Len(archive)]

\* A complete run gives its seat up; a reservation whose run came up is one
\* no longer.
observe(s) ==
    IF s.run = None \/ s.starting THEN s
    ELSE CASE life[s.run] = "complete" -> NoSeat
           [] life[s.run] = "running" /\ s.intentOnly ->
                 [s EXCEPT !.intentOnly = FALSE, !.at = StartedAt(s.run)]
           [] OTHER -> s

-----------------------------------------------------------------------------
Waits == {"lock", "state", "log", "checked", "fork", "handshake"}

InLock == {"state", "log", "checked", "fork", "handshake"}

Ended == {"launched", "skipped", "failed", "uncertain", "dead"}

\* What a door remembers: --force, the wake note, the /state version, the log version, the passes.
Blank == [step |-> "idle", role |-> None, force |-> FALSE, wake |-> 0,
          seen |-> 0, read |-> 0, tries |-> 0]

Booted == [step |-> "idle", seen |-> 0, snapshot |-> "none", closing |-> None]

Init ==
    /\ \E r \in Roles : log = <<Content(r)>>
    /\ life = [a \in Attempts |-> "none"]
    /\ stop = {}
    /\ archive = <<>>
    /\ lock = None
    /\ door = [a \in Attempts |-> Blank]
    /\ notifier = Booted
    /\ seat = NoSeat
    /\ faults = [restarts |-> 0, others |-> 0]

At(a, step) == door[a].step = step

Goto(a, step) == door' = [door EXCEPT ![a].step = step]

\* Go on, or end, with nothing but the role in hand.
Forget(a, step) == door' = [door EXCEPT ![a] = [Blank EXCEPT !.step = step, !.role = door[a].role]]

End(a, outcome) == door' = [door EXCEPT ![a] = [Blank EXCEPT !.step = outcome]]

Fault ==
    /\ faults.others < MaxFaults
    /\ faults' = [faults EXCEPT !.others = @ + 1]

\* start()'s catch for AdmissionCovered and AdmissionStale: only the own
\* candidate is released.
ReleaseSeat(a) == seat' = IF a \in Autos /\ Handshaking(seat, a) THEN NoSeat ELSE seat

\* The attempt ends inside the lock and spawned nothing.
Refuse(a, outcome) ==
    /\ End(a, outcome)
    /\ lock' = None
    /\ ReleaseSeat(a)
    /\ UNCHANGED <<log, life, stop, archive, notifier>>

-----------------------------------------------------------------------------
(***************************************************************************)
(* Planning doors: `tut start-next` and the auto launch.                   *)
(***************************************************************************)
\* Both decide on a /state entry that waits for an agent's role.
Begin(a, seen, wake, force) ==
    /\ At(a, "idle") /\ Waiting(seen) \in Roles
    /\ door' = [door EXCEPT ![a] = [@ EXCEPT !.step = "seen", !.role = Waiting(seen),
                                            !.seen = seen, !.wake = wake, !.force = force]]

StartNextBegins(a) ==
    /\ \E force \in BOOLEAN : Begin(a, Version, 0, force)
    /\ UNCHANGED <<log, life, stop, archive, lock, notifier, seat, faults>>

\* Read the log, drop a round that was launched, refuse a log that is not the
\* one the /state entry was folded from.
Plan(a) ==
    /\ At(a, "seen")
    /\ LET blocked == ~door[a].force /\ launchBlocked(Version, door[a].role, door[a].wake)
       IN  \/ blocked /\ End(a, "skipped")
           \/ ~blocked /\ Version # door[a].seen /\ End(a, "failed")
           \/ /\ ~blocked /\ Version = door[a].seen
              /\ door' = [door EXCEPT ![a].step = "planned", ![a].read = Version]
    /\ UNCHANGED <<log, life, stop, archive, lock, notifier, seat, faults>>

\* Mutant: the marker is appended whatever the log has become.
Mark_Unconditional(a) ==
    /\ At(a, "planned")
    /\ log' = Append(log, Marker(a))
    /\ Forget(a, IF a \in Autos THEN "marked" ELSE "lock")
    /\ UNCHANGED <<life, stop, archive, lock, notifier, seat, faults>>

\* The marker is appended against the version the plan was made from.  After
\* a conflict the log is read again, to say why; nothing is retried.
Mark(a) ==
    /\ At(a, "planned")
    /\ \/ /\ Version = door[a].read
          /\ log' = Append(log, Marker(a))
          /\ Forget(a, IF a \in Autos THEN "marked" ELSE "lock")
       \/ /\ Version # door[a].read
          /\ End(a, IF launchBlocked(Version, door[a].role, door[a].wake)
                    THEN "skipped" ELSE "failed")
          /\ log' = log
    /\ UNCHANGED <<life, stop, archive, lock, notifier, seat, faults>>

\* The Hub or the plan fails before the marker.
PlanFails(a) ==
    /\ Fault /\ door[a].step \in {"seen", "planned"}
    /\ End(a, "failed")
    /\ UNCHANGED <<log, life, stop, archive, lock, notifier, seat>>

\* The answer is lost: the marker stays behind, nothing is launched.
MarkUnanswered(a) ==
    /\ Fault /\ At(a, "planned") /\ Version = door[a].read
    /\ log' = Append(log, Marker(a))
    /\ End(a, "failed")
    /\ UNCHANGED <<life, stop, archive, lock, notifier, seat>>

\* launch(): the seat is taken before the lock is asked for.
Launch(a) ==
    /\ At(a, "marked")
    /\ Goto(a, "lock")
    /\ seat' = Seat(a, TRUE, None, FALSE, 0)
    /\ UNCHANGED <<log, life, stop, archive, lock, notifier, faults>>

-----------------------------------------------------------------------------
(***************************************************************************)
(* `tut resume` of a managed run goes to the lock at once, for the role of *)
(* the run it continues.                                                   *)
(***************************************************************************)
ResumeBegins(a) ==
    /\ At(a, "idle")
    /\ \E r \in Roles : door' = [door EXCEPT ![a].step = "lock", ![a].role = r]
    /\ UNCHANGED <<log, life, stop, archive, lock, notifier, seat, faults>>

-----------------------------------------------------------------------------
(***************************************************************************)
(* Admission: verify, reserve and spawn under the lock.                    *)
(***************************************************************************)
Acquire(a) ==
    /\ At(a, "lock") /\ lock = None
    /\ lock' = a
    /\ Goto(a, "state")
    /\ UNCHANGED <<log, life, stop, archive, notifier, seat, faults>>

\* Not an admission verdict: the Notifier keeps the seat, without a run.
LockTimesOut(a) ==
    /\ Fault /\ At(a, "lock") /\ lock # None
    /\ End(a, "failed")
    /\ seat' = IF a \in Autos /\ Handshaking(seat, a)
               THEN [seat EXCEPT !.starting = FALSE] ELSE seat
    /\ UNCHANGED <<log, life, stop, archive, lock, notifier>>

\* The /state half of the gate.  Revalidation judges it at once, a resume
\* together with the log.
GateState(a) ==
    /\ At(a, "state")
    /\ IF a \in Resumes \/ Waiting(Version) = door[a].role
       THEN /\ door' = [door EXCEPT ![a].step = "log", ![a].seen = Version]
            /\ UNCHANGED <<log, life, stop, archive, lock, notifier, seat>>
       ELSE Refuse(a, "skipped")
    /\ UNCHANGED faults

\* A pass is over: the door goes back for a fresh state.
Again(a) ==
    /\ door' = [door EXCEPT ![a].step = "state", ![a].seen = 0, ![a].read = 0, ![a].tries = @ + 1]
    /\ UNCHANGED <<log, life, stop, archive, lock, notifier, seat>>

Pass(a) ==
    /\ door' = [door EXCEPT ![a].step = "checked", ![a].seen = 0, ![a].read = Version]
    /\ UNCHANGED <<log, life, stop, archive, lock, notifier, seat>>

\* The generation belongs to the attempt whose marker is the role's latest.
OwnsGeneration(a, v) ==
    LET markers == MarkersOf(door[a].role, v)
    IN  markers = {} \/ log[Max(markers)].attempt = a

\* Mutant: the log may be newer than the state it is judged with.
revalidate_NoRefresh(a) ==
    /\ At(a, "log") /\ a \notin Resumes
    /\ IF ~Closed(Version) /\ OwnsGeneration(a, Version) THEN Pass(a) ELSE Refuse(a, "skipped")
    /\ UNCHANGED faults

\* A log that is newer than the fold is gated again, once.
revalidate(a) ==
    /\ At(a, "log") /\ a \notin Resumes
    /\ LET newer == Version > door[a].seen
           fresh == ~newer /\ ~Closed(Version) /\ OwnsGeneration(a, Version)
       IN  \/ newer /\ door[a].tries = 0 /\ Again(a)
           \/ fresh /\ Pass(a)
           \/ ~(newer /\ door[a].tries = 0) /\ ~fresh /\ Refuse(a, "skipped")
    /\ UNCHANGED faults

\* /state and the log must both allow the resume.
verifyManagedGate(a) ==
    Waiting(door[a].seen) = door[a].role /\ Waiting(Version) \notin {Human, None}

\* They must also be of one version, and the task free.
ResumeGate(a) ==
    /\ At(a, "log") /\ a \in Resumes
    /\ LET newer == Version > door[a].seen
           retry == verifyManagedGate(a) /\ newer /\ door[a].tries < 2
           fresh == verifyManagedGate(a) /\ ~newer /\ taskOccupants = {}
       IN  \/ retry /\ Again(a)
           \/ fresh /\ Pass(a)
           \/ ~retry /\ ~fresh /\ Refuse(a, "failed")
    /\ UNCHANGED faults

\* A conflict is gated again under the same lock.
ResumeMark(a) ==
    /\ At(a, "checked") /\ a \in Resumes
    /\ \/ /\ Version = door[a].read
          /\ log' = Append(log, Marker(a))
          /\ Forget(a, "fork")
          /\ UNCHANGED <<life, stop, archive, lock, notifier, seat>>
       \/ Version # door[a].read /\ door[a].tries < 2 /\ Again(a)
       \/ Version # door[a].read /\ door[a].tries = 2 /\ Refuse(a, "failed")
    /\ UNCHANGED faults

\* A read under the lock fails: that is no permission.
GateFails(a) ==
    /\ Fault
    /\ door[a].step \in {"state", "log"} \/ (At(a, "checked") /\ a \in Resumes)
    /\ Refuse(a, IF a \in Resumes THEN "failed" ELSE "skipped")

ResumeMarkUnanswered(a) ==
    /\ Fault /\ At(a, "checked") /\ a \in Resumes /\ Version = door[a].read
    /\ log' = Append(log, Marker(a))
    /\ End(a, "failed") /\ lock' = None
    /\ UNCHANGED <<life, stop, archive, notifier, seat>>

\* startRun up to the fork: the run directory and the pending intent come
\* before the supervisor.
Fork(a) ==
    /\ archive' = Append(archive, a)
    /\ life' = [life EXCEPT ![a] = "starting"]
    /\ Forget(a, "handshake")
    /\ UNCHANGED <<log, stop, lock, notifier, seat>>

\* Mutant: the lock and the markers are trusted, the archive is not read.
Admit_Unchecked(a) ==
    /\ At(a, "checked") /\ a \notin Resumes
    /\ Fork(a)
    /\ UNCHANGED faults

Admit(a) ==
    /\ At(a, "checked") /\ a \notin Resumes
    /\ \/ taskOccupants = {} /\ Fork(a)
       \/ taskOccupants # {} /\ Refuse(a, "skipped")
    /\ UNCHANGED faults

ResumeFork(a) == At(a, "fork") /\ Fork(a) /\ UNCHANGED faults

\* What the seat learns when start() ends with a run id.
SeatRun(a) ==
    seat' = IF a \in Autos /\ Handshaking(seat, a)
            THEN [seat EXCEPT !.starting = FALSE, !.run = a] ELSE seat

Started(a) ==
    /\ At(a, "handshake") /\ life[a] \in {"running", "complete"}
    /\ End(a, "launched") /\ lock' = None /\ SeatRun(a)
    /\ UNCHANGED <<log, life, stop, archive, notifier, faults>>

\* Nothing was spawned: the intent is rewritten, the seat given up.
StartFailed(a) ==
    /\ At(a, "handshake") /\ life[a] = "failing"
    /\ life' = [life EXCEPT ![a] = "failed"]
    /\ End(a, "failed") /\ lock' = None /\ ReleaseSeat(a)
    /\ UNCHANGED <<log, stop, archive, notifier, faults>>

\* The intent stays pending and the seat taken.
Unconfirmed(a) ==
    /\ life' = IF life[a] = "failing" THEN [life EXCEPT ![a] = "lost"] ELSE life
    /\ End(a, "uncertain") /\ lock' = None /\ SeatRun(a)
    /\ UNCHANGED <<log, stop, archive, notifier>>

\* The supervisor exits without an answer, or does not answer in time.
SupervisorExits(a) ==
    At(a, "handshake") /\ life[a] = "lost" /\ Unconfirmed(a) /\ UNCHANGED faults

HandshakeTimesOut(a) ==
    Fault /\ At(a, "handshake") /\ life[a] \in {"starting", "failing"} /\ Unconfirmed(a)

-----------------------------------------------------------------------------
(***************************************************************************)
(* The supervisor (RunControl) as the doors see it.                        *)
(***************************************************************************)
Become(a, from, to) ==
    /\ life[a] = from
    /\ life' = [life EXCEPT ![a] = to]
    /\ UNCHANGED <<log, stop, archive, lock, door, notifier, seat>>

Publish(a) == Become(a, "starting", "running") /\ UNCHANGED faults

SpawnFails(a) == Fault /\ Become(a, "starting", "failing")

SupervisorDies(a) == Fault /\ Become(a, "starting", "lost")

RunEnds(a) == Become(a, "running", "complete") /\ UNCHANGED faults

-----------------------------------------------------------------------------
(***************************************************************************)
(* The Notifier: fetch /state, observe the runs, then act on the edge.     *)
(***************************************************************************)
PollFetch ==
    /\ notifier.step = "idle"
    /\ notifier' = [notifier EXCEPT !.step = "fetched", !.seen = Version]
    /\ UNCHANGED <<log, life, stop, archive, lock, door, seat, faults>>

PollObserve ==
    /\ notifier.step = "fetched"
    /\ notifier' = [notifier EXCEPT !.step = "observed"]
    /\ seat' = observe(syncNew(seat))
    /\ UNCHANGED <<log, life, stop, archive, lock, door, faults>>

\* The first poll only sets the baseline.
CloseEdge == notifier.snapshot = "open" /\ Closed(notifier.seen)

PollEnd == [notifier EXCEPT !.step = "idle", !.seen = 0,
                            !.snapshot = IF Closed(notifier.seen) THEN "closed" ELSE "open"]

\* The close is consumed outside the compare queue, if the task has a seat.
PollClose ==
    /\ notifier.step = "observed" /\ CloseEdge
    /\ notifier' = [PollEnd EXCEPT !.closing = seat.attempt]
    /\ UNCHANGED <<log, life, stop, archive, lock, door, seat, faults>>

\* An edge, a wake note, a parked candidate or the startup catchup launches,
\* unless the task is busy.  Which of them is left open here.
PollLaunch(a) ==
    /\ notifier.step = "observed" /\ ~CloseEdge /\ seat.attempt = None
    /\ \E wake \in {0} \cup {i \in 1..notifier.seen : log[i].kind = "note"} :
          Begin(a, notifier.seen, wake, FALSE)
    /\ notifier' = [PollEnd EXCEPT !.step = "launching"]
    /\ UNCHANGED <<log, life, stop, archive, lock, seat, faults>>

\* Planning and marking stay on the compare queue, the launch does not.
PollLaunched ==
    /\ notifier.step = "launching"
    /\ \A a \in Autos : door[a].step \notin {"seen", "planned", "marked"}
    /\ notifier' = [notifier EXCEPT !.step = "idle"]
    /\ UNCHANGED <<log, life, stop, archive, lock, door, seat, faults>>

PollQuiet ==
    /\ notifier.step = "observed" /\ ~CloseEdge
    /\ notifier' = PollEnd
    /\ UNCHANGED <<log, life, stop, archive, lock, door, seat, faults>>

\* The run closeTask stops: the seat's after a fresh sync, else the one it
\* had when the close was seen.
CloseTarget(s) == IF s.attempt # None THEN s.run ELSE notifier.closing

\* Mutant: the close does not wait for the startup in flight.
CloseStop_Impatient ==
    /\ notifier.closing # None
    /\ seat' = syncNew(seat)
    /\ stop' = stop \cup {a \in Attempts : a = CloseTarget(seat') /\ life[a] = "running"}
    /\ notifier' = [notifier EXCEPT !.closing = None]
    /\ UNCHANGED <<log, life, archive, lock, door, faults>>

\* closeTask after the close: wait for the startups of this process, then ask
\* the run to stop.  Without a readable meta.json stopRun throws, once.
CloseStop ==
    /\ notifier.closing # None
    /\ \A a \in Autos : door[a].step \notin Waits
    /\ seat' = syncNew(seat)
    /\ stop' = stop \cup {a \in Attempts : a = CloseTarget(seat') /\ life[a] = "running"}
    /\ notifier' = [notifier EXCEPT !.closing = None]
    /\ UNCHANGED <<log, life, archive, lock, door, faults>>

-----------------------------------------------------------------------------
(***************************************************************************)
(* The world: other writers of the task, and crashes.                      *)
(***************************************************************************)
OthersPublish ==
    /\ ~Closed(Version)
    /\ Cardinality({i \in 1..Version : log[i].kind # "marker"}) <= MaxRecords
    /\ \E rec \in {Content(r) : r \in Roles \cup {Human}} \cup {Note, Close} :
          log' = Append(log, rec)
    /\ UNCHANGED <<life, stop, archive, lock, door, notifier, seat, faults>>

\* The processes of these attempts die: the lock of a dead owner is free
\* (FileLock), an answer nobody hears leaves the intent pending.
Die(as) ==
    LET gone == {a \in as : door[a].step \notin Ended \cup {"idle"}}
    IN  /\ door' = [a \in Attempts |-> IF a \in gone THEN [Blank EXCEPT !.step = "dead"]
                                                    ELSE door[a]]
        /\ life' = [a \in Attempts |-> IF a \in gone /\ life[a] = "failing" THEN "lost"
                                                                          ELSE life[a]]
        /\ lock' = IF lock \in gone THEN None ELSE lock

DoorCrashes(a) ==
    /\ Fault /\ door[a].step \notin Ended \cup {"idle"}
    /\ Die({a})
    /\ UNCHANGED <<log, stop, archive, notifier, seat>>

NotifierCrashes ==
    /\ faults.restarts < MaxRestarts
    /\ faults' = [faults EXCEPT !.restarts = @ + 1]
    /\ Die(Autos)
    /\ notifier' = Booted
    /\ seat' = NoSeat
    /\ UNCHANGED <<log, stop, archive>>

-----------------------------------------------------------------------------
\* What a planning door does next, and what a resume does.
PlanStep(a) ==
    Plan(a) \/ Mark(a) \/ Launch(a) \/ revalidate(a) \/ Admit(a)

ResumeStep(a) == ResumeGate(a) \/ ResumeMark(a) \/ ResumeFork(a)

HandshakeStep(a) == Started(a) \/ StartFailed(a) \/ SupervisorExits(a)

DoorStep(a) ==
    PlanStep(a) \/ Acquire(a) \/ GateState(a) \/ ResumeStep(a) \/ HandshakeStep(a)

DoorFault(a) ==
    \/ PlanFails(a) \/ MarkUnanswered(a) \/ LockTimesOut(a) \/ GateFails(a)
    \/ ResumeMarkUnanswered(a) \/ HandshakeTimesOut(a) \/ SpawnFails(a) \/ SupervisorDies(a)

PollStep ==
    PollFetch \/ PollObserve \/ PollClose \/ PollLaunched \/ PollQuiet
    \/ \E a \in Autos : PollLaunch(a)

World ==
    \/ OthersPublish \/ NotifierCrashes
    \/ \E a \in StartNexts : StartNextBegins(a)
    \/ \E a \in Resumes : ResumeBegins(a)
    \/ \E a \in StartNexts \cup Resumes : DoorCrashes(a)

Next ==
    \/ World \/ PollStep \/ CloseStop
    \/ \E a \in Attempts : DoorStep(a) \/ DoorFault(a) \/ Publish(a) \/ RunEnds(a)

Spec == Init /\ [][Next]_vars

(***************************************************************************)
(* Programs that have not crashed go on, the Notifier keeps polling and a  *)
(* supervisor publishes its run.  Nobody has to publish, to start anything *)
(* or to end a run, not even one that was asked to stop.                   *)
(***************************************************************************)
FairSpec ==
    /\ Spec
    /\ WF_vars(PollStep)
    /\ WF_vars(CloseStop)
    /\ \A a \in Attempts :
          /\ WF_vars(DoorStep(a)) /\ SF_vars(Acquire(a))
          /\ WF_vars(Publish(a))

-----------------------------------------------------------------------------
TypeOK ==
    /\ log \in Seq([kind : {"content", "close", "note", "marker"},
                    role : Roles \cup {Human, None}, attempt : Attempts \cup {None}])
    /\ life \in [Attempts -> Lives]
    /\ stop \subseteq Attempts
    /\ archive \in Seq(Attempts)
    /\ lock \in Attempts \cup {None}
    /\ door \in [Attempts -> [step : Waits \cup Ended \cup {"idle", "seen", "planned", "marked"},
                              role : Roles \cup {None}, force : BOOLEAN, wake : Nat,
                              seen : Nat, read : Nat, tries : 0..2]]
    /\ notifier \in [step : {"idle", "fetched", "observed", "launching"},
                     seen : Nat, snapshot : {"none", "open", "closed"}, closing : Attempts \cup {None}]
    /\ seat \in [attempt : Attempts \cup {None}, starting : BOOLEAN,
                 run : Attempts \cup {None}, intentOnly : BOOLEAN, at : Nat]
    /\ faults \in [restarts : 0..MaxRestarts, others : 0..MaxFaults]

\* Whatever the doors race, crash or time out on, at most one run of the task
\* is incomplete or may still come up (taskOccupants under admission.lock).
OneRunPerTask ==
    \A a, b \in Attempts :
        (life[a] \in {"starting", "running"} /\ life[b] \in {"starting", "lost", "running"})
        => a = b

\* A plan that is not forced leaves no second marker in a generation: since
\* the role's last marker a content record landed or, for the auto door, a note
\* (launchBlocked, and the expected version the marker is appended against).
OneMarkerPerGeneration ==
    \A a \in Attempts :
        (At(a, "planned") /\ ~door[a].force /\ log' = Append(log, Marker(a)))
        => \A j \in MarkersOf(door[a].role, Version) :
              \E k \in j..Version : \/ log[k].kind = "content"
                                    \/ log[k].kind = "note" /\ a \in Autos

\* The verdict that admits a run holds of one version of the task, although
\* /state and the log are two reads: at that version the task waited for the
\* role and was open, and a plan's marker was the role's latest.
AdmittedAtOneVersion ==
    \A a \in Attempts : At(a, "checked") =>
        /\ Waiting(door[a].read) = door[a].role
        /\ a \notin Resumes => OwnsGeneration(a, door[a].read)

\* The doors keep their state in order, and admit on a verdict that holds.
AdmissionSound == TypeOK /\ AdmittedAtOneVersion

\* An observation leaves the seat with the run that is up, whatever it held
\* before: a candidate, a reservation, the run of an earlier launch (syncNew).
SeatFollowsRun ==
    PollObserve => \A a \in Attempts : life[a] = "running" => seat'.attempt = a

\* What a launch leaves behind, step by step: one marker per generation, and a
\* seat that shows the run.
TracesRight == [][OneMarkerPerGeneration /\ SeatFollowsRun]_vars

\* No path through admission keeps the lock.
LockReleased == []<>(lock = None)

\* When the Notifier observes the close, the run that is up, or the startup of
\* its own that holds the seat, is stopped or ends, unless its handshake stays
\* unanswered or the Notifier restarts (closeTask).
CloseStopsRun ==
    \A a \in Attempts, k \in 0..MaxRestarts :
        (/\ notifier.step = "fetched" /\ CloseEdge /\ faults.restarts = k
         /\ life[a] = "running" \/ (a \in Autos /\ door[a].step \in Waits /\ seat.attempt = a))
        ~> (\/ a \in stop \/ door[a].step = "uncertain" \/ faults.restarts > k
            \/ (door[a].step \in Ended /\ a \notin taskOccupants))

\* What is begun ends: the lock is given back, and a close stops its run.
LaunchesEnd == LockReleased /\ CloseStopsRun
=============================================================================
