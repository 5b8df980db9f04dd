------------------------------ MODULE Notifier ------------------------------
(***************************************************************************)
(* The Notifier's compare rounds for one task in detached launch mode:     *)
(* engine.ts (snapshots, edges, auto launch), log-cache.ts (the merged     *)
(* task log), notifications.ts (approval, degraded, vanished and stall     *)
(* alerts), detached-lane.ts (parked candidates, online instructions, stop *)
(* boundaries) and launch-catchup.ts.  Rounds run one after the other      *)
(* (requestCompare); within a round an action ends where the engine awaits *)
(* the Hub, so records land, runs end and stops are requested in between.  *)
(*                                                                         *)
(* A record is its version, its kind, whom a content record makes the task *)
(* wait for (or whom a marker launches) and the time of its arrival, which *)
(* is its identity.  Whether admission lets a launch through is left open  *)
(* here (StartSettles): HeadlessLaunch is about that.                      *)
(***************************************************************************)
EXTENDS Integers, FiniteSets, FiniteSetsExt

CONSTANTS Agents,        \* roles the launch whitelist names
          Outsiders,     \* roles it does not name
          NoteKinds,     \* notes that arrive: human, worker
          Catchup,       \* launch.catchup is on
          Unwatched,     \* a foreign change may be followed up before a poll sees it
          Crowded,       \* one poll may find both a hand-over and a note of a worker
          StallRounds,   \* rounds without progress until the stall alert
          MaxClock,      \* records that arrive in all
          MaxEvents      \* stops, mode switches, failed reads, restarts, foreign changes

Roles == Agents \cup Outsiders

ASSUME RolesAssumption ==
    Agents # {} /\ Agents \cap Outsiders = {} /\ {"human", "none"} \cap Roles = {}
ASSUME BoundsAssumption ==
    MaxClock \in Nat /\ MaxEvents \in Nat /\ StallRounds \in Nat \ {0}
ASSUME NotesAssumption == NoteKinds \subseteq {"human", "worker"}

VARIABLES
    hub,     \* the task's records, where its directory is, flow_mode, updated_at
    run,     \* the seat of HeadlessRuntime and what is behind it
    snap,    \* the last snapshot
    round,   \* the round in progress
    cache,   \* the log cache entry
    lane,    \* pendingNoteScans, humanWakeVersions, headlessPending, stop boundary
    alerts,  \* the alert bookkeeping and the stall clock
    past,    \* history: what the finished rounds owed and did
    left     \* events that may still happen

vars == <<hub, run, snap, round, cache, lane, alerts, past, left>>

-----------------------------------------------------------------------------
(***************************************************************************)
(* The task as GET /state shows it.                                        *)
(***************************************************************************)
Absent == [version |-> 0, to |-> "none", attn |-> FALSE, upd |-> 0]

latestRecordVersion(rs) == Max({0} \cup {r.v : r \in rs})

Latest(rs, S) == CHOOSE r \in {x \in rs : x.kind \in S} :
                    \A x \in rs : x.kind \in S => x.v < r.v \/ (x.v = r.v /\ x.at <= r.at)

\* a repeated version is an anomaly until a later record acknowledges it
NeedsAttention(rs) ==
    \E x, y \in rs : /\ x # y /\ x.v = y.v
                     /\ ~\E a \in rs : a.kind = "ack" /\ a.v > x.v

Entry == [version |-> latestRecordVersion(hub.log),
          to |-> Latest(hub.log, {"work"}).to,
          attn |-> NeedsAttention(hub.log),
          upd |-> hub.upd]

stateTaskSig(e) == <<e.to, e.attn, e.upd>>

Pending(e) == e.to = "human"

-----------------------------------------------------------------------------
(***************************************************************************)
(* What is remembered.                                                     *)
(***************************************************************************)
NoCache == [version |-> -1, records |-> {}, sig |-> <<>>]

NoScan == [version |-> -1, to |-> "none"]

NoPending == [role |-> "none", human |-> -1]

\* noteWake is undefined; humanWakeVersions has no entry (an entry may be 0)
NoWake == -1

FreshLane == [scan |-> NoScan, human |-> NoWake, pending |-> NoPending, boundary |-> 0]

FreshAlerts == [approval |-> FALSE, degraded |-> FALSE, vanished |-> FALSE,
                upd |-> 0, age |-> 0, stalled |-> FALSE]

Idle == [step |-> "idle", state |-> Absent, place |-> "tasks", auto |-> TRUE, prev |-> Absent,
         truth |-> {}, recovered |-> FALSE, wake |-> NoWake, base |-> 0, human |-> 0]

FreshRun == [seat |-> "free", done |-> FALSE, stop |-> 0, stopSeen |-> FALSE]

NoneSoFar == [edge |-> FALSE, instruction |-> FALSE, did |-> "nothing",
              announced |-> FALSE, quiet |-> FALSE, stays |-> 0, alarms |-> 0, still |-> 0,
              reads |-> TRUE, hidden |-> FALSE, forgot |-> FALSE, upto |-> 0]

Init ==
    /\ \E to \in Roles : hub = [log |-> {[v |-> 1, kind |-> "work", to |-> to, at |-> 1]},
                                place |-> "tasks", auto |-> TRUE, upd |-> 1, clock |-> 1]
    /\ run = FreshRun
    /\ snap = [baseline |-> FALSE, entry |-> Absent, place |-> "gone"]
    /\ round = Idle /\ cache = NoCache /\ lane = FreshLane /\ alerts = FreshAlerts
    /\ past = NoneSoFar
    /\ left = MaxEvents

-----------------------------------------------------------------------------
(***************************************************************************)
(* Reading the task log through the cache.                                 *)
(***************************************************************************)
\* nothing new according to the /state entry: served from memory
Quiet(e) == cache # NoCache /\ cache.version >= e.version /\ cache.sig = stateTaskSig(e)

\* since_version is the first version the cache does not have
Pulled == IF cache = NoCache THEN hub.log ELSE {r \in hub.log : r.v > cache.version}

fullLog(e) == IF Quiet(e) THEN cache.records
              ELSE (IF cache = NoCache THEN {} ELSE cache.records) \cup Pulled

Remembered(e) ==
    IF Quiet(e) THEN cache
    ELSE [version |-> Max({IF cache = NoCache THEN 0 ELSE cache.version} \cup {r.v : r \in Pulled}),
          records |-> fullLog(e), sig |-> stateTaskSig(e)]

\* Mutant: a history that went back keeps the entry.
Evicted_RewindKept(e, prev, known) ==
    ~known \/ (e # Absent /\ prev.attn /\ ~e.attn)
           \/ (e # Absent /\ cache.version = e.version /\ cache.sig # stateTaskSig(e))

\* entries a later snapshot no longer supports are dropped
Evicted(e, prev, known) ==
    \/ ~known
    \/ e # Absent /\ cache.version > e.version
    \/ e # Absent /\ prev.attn /\ ~e.attn
    \/ e # Absent /\ cache.version = e.version /\ cache.sig # stateTaskSig(e)

reconcileLogCache(e, prev, known) ==
    IF cache # NoCache /\ Evicted(e, prev, known) THEN NoCache ELSE cache

-----------------------------------------------------------------------------
(***************************************************************************)
(* Deciding whether a role has been launched in the current generation.    *)
(***************************************************************************)
IsHuman(r) == r.kind = "human"

isWakeNote(r) == r.kind \in {"human", "worker"}

\* a marker of the role above the last content record and above the wake
launchBlocked(rs, role, wake) ==
    LET candidates == {r \in rs : r.v = wake}
        boundary == Max({0} \cup {r.v : r \in {x \in rs : x.kind = "work"}}
                            \cup {r.v : r \in {x \in candidates :
                                               Cardinality(candidates) = 1 /\ isWakeNote(x)}})
    IN \E m \in rs : m.kind = "marker" /\ m.to = role /\ m.v > boundary

\* only an instruction seen online opens a generation of its own
headlessGeneration(rs, role, human) ==
    launchBlocked(rs, role, IF \E r \in rs : r.v = human /\ IsHuman(r) THEN human ELSE NoWake)

autoGateReason(e) == e.attn \/ e.to \notin Roles

Launchable(e) == ~autoGateReason(e) /\ e.to \in Agents

-----------------------------------------------------------------------------
(***************************************************************************)
(* One round: fetch, observe.                                              *)
(***************************************************************************)
Fetch ==
    /\ round.step = "idle"
    /\ round' = [Idle EXCEPT !.step = "observe",
                    !.state = IF hub.place = "tasks" THEN Entry ELSE Absent,
                    !.place = hub.place, !.auto = hub.auto, !.truth = hub.log]
    /\ past' = [past EXCEPT !.did = "nothing", !.edge = FALSE, !.instruction = FALSE,
                            !.hidden = @ /\ hub.place # "tasks"]
    /\ UNCHANGED <<hub, run, snap, cache, lane, alerts, left>>

\* HeadlessRuntime.observe: a complete run gives up its seat
SeatObserved ==
    [run EXCEPT !.stopSeen = @ \/ (run.seat = "held" /\ run.stop > 0),
                !.seat = IF @ = "held" /\ run.done THEN "free" ELSE @]

\* a stop seen for the first time cancels what was waiting
StopObserved == run.seat = "held" /\ run.stop > 0 /\ ~run.stopSeen

\* Mutant: the parked candidate outlives the stop.
LaneAfterStop_CandidateKept ==
    IF StopObserved THEN [lane EXCEPT !.boundary = run.stop] ELSE lane

LaneAfterStop ==
    IF StopObserved THEN [lane EXCEPT !.pending = NoPending, !.human = NoWake, !.boundary = run.stop]
    ELSE lane

\* an absent task loses its online wake permission; a scan does not outlive its turn
ReconciledLane(l) ==
    LET e == round.state
        keep == /\ round.auto /\ ~e.attn /\ e.to = l.scan.to /\ e.to \in Agents
                /\ e.version >= IF snap.entry # Absent THEN snap.entry.version ELSE l.scan.version
        m == IF e = Absent THEN [l EXCEPT !.pending = NoPending, !.human = NoWake, !.boundary = 0]
             ELSE l
    IN IF m.scan # NoScan /\ ~keep THEN [m EXCEPT !.scan = NoScan] ELSE m

\* diffDegraded: the task is back in tasks[] after a degraded or vanished stay
Recovered == round.place = "tasks" /\ (alerts.degraded \/ alerts.vanished)

WasKnown == snap.baseline /\ snap.place # "gone"

\* Mutant: the approval edge outlives the task's absence.
AlertsObserved_EdgeKept ==
    [alerts EXCEPT !.degraded = (round.place = "degraded"),
                   !.vanished = (round.place = "gone") /\ (@ \/ WasKnown),
                   !.age = IF @ < StallRounds THEN @ + 1 ELSE @]

\* presence alerts, once per stay, and the approval edge of a task that left
AlertsObserved ==
    [alerts EXCEPT
        !.degraded = (round.place = "degraded"),
        !.vanished = (round.place = "gone") /\ (@ \/ WasKnown),
        !.approval = @ /\ round.state # Absent,
        !.age = IF @ < StallRounds THEN @ + 1 ELSE @]

NewAlarms ==
    (IF round.place = "degraded" /\ ~alerts.degraded THEN 1 ELSE 0)
  + (IF round.place = "gone" /\ ~alerts.vanished /\ WasKnown THEN 1 ELSE 0)

\* baseline: the stall clock starts, an approval found pending is not announced
AlertsAtBaseline ==
    IF round.state = Absent THEN AlertsObserved
    ELSE [AlertsObserved EXCEPT !.upd = round.state.upd, !.age = 0, !.approval = Pending(round.state)]

Observe ==
    /\ round.step = "observe"
    /\ run' = SeatObserved
    /\ lane' = ReconciledLane(LaneAfterStop)
    /\ cache' = reconcileLogCache(round.state, snap.entry, round.place # "gone")
    /\ snap' = [baseline |-> TRUE, entry |-> round.state, place |-> round.place]
    /\ alerts' = IF snap.baseline THEN AlertsObserved ELSE AlertsAtBaseline
    /\ round' = [round EXCEPT !.prev = snap.entry, !.recovered = snap.baseline /\ Recovered,
                    !.step = IF snap.baseline THEN "decide"
                             ELSE IF Catchup /\ round.auto /\ Launchable(round.state)
                             THEN "catchup" ELSE "idle"]
    /\ past' = [past EXCEPT !.stays = IF round.place # snap.place /\ round.place # "tasks"
                                         /\ (round.place = "degraded" \/ WasKnown)
                                      THEN @ + 1 ELSE @,
                            !.alarms = @ + NewAlarms,
                            !.announced = Pending(round.state) /\ (@ \/ ~snap.baseline),
                            !.still = IF snap.baseline /\ round.place = "tasks"
                                         /\ snap.entry.upd = round.state.upd
                                         /\ round.state.to \in Roles
                                      THEN IF @ < StallRounds THEN @ + 1 ELSE @
                                      ELSE 0,
                            !.forgot = /\ cache' # NoCache /\ ~round.state.attn
                                       /\ @ \/ (snap.entry.attn /\ round.state = Absent),
                            !.upto = IF ~snap.baseline \/ round.state.version < snap.entry.version
                                     THEN round.state.version
                                     ELSE IF lane.scan # NoScan /\ lane'.scan = NoScan
                                     THEN snap.entry.version ELSE @]
    /\ UNCHANGED <<hub, left>>

-----------------------------------------------------------------------------
(***************************************************************************)
(* Decide: the auto-decision scan, then diffTask up to the launch.         *)
(***************************************************************************)
\* Mutant: a failed scan is not taken up again.
ScanFrom_Snapshot == round.prev.version

ScanFrom == IF lane.scan # NoScan THEN lane.scan.version ELSE round.prev.version

Scans == ~round.recovered /\ (lane.scan # NoScan \/ round.prev # Absent)
         /\ round.state.version > ScanFrom

InScan(r) == r.v > ScanFrom /\ r.v <= round.state.version

\* an instruction issued before the stop was requested does not count
HumanScanned(rs) ==
    Max({0} \cup {r.v : r \in {x \in rs : InScan(x) /\ IsHuman(x) /\ x.at >= lane.boundary}})

NoteWakeOf(rs) ==
    LET notes == {r.v : r \in {x \in rs : InScan(x) /\ isWakeNote(x)}}
    IN IF notes = {} THEN NoWake ELSE Max(notes)

\* scanHumanWake
LaneScanned(rs) ==
    [lane EXCEPT !.scan = NoScan,
                 !.human = IF ~Scans THEN @
                           ELSE IF HumanScanned(rs) > 0 THEN HumanScanned(rs)
                           ELSE IF lane.pending = NoPending THEN NoWake ELSE @]

\* filterStoppedWakes
WakeKept(l, w) == IF l.boundary > 0 /\ l.human = NoWake THEN NoWake ELSE w

\* takeReadyWake: a parked candidate whose run is over rides along
PendingKept(l) ==
    IF round.auto /\ ~round.state.attn /\ round.state.to = l.pending.role /\ round.state.to \in Agents
    THEN l ELSE [l EXCEPT !.pending = NoPending]

Ready(l) == PendingKept(l).pending # NoPending /\ run.seat = "free"

LaneReady(l) ==
    IF Ready(l) THEN [l EXCEPT !.human = Max({@, l.pending.human}), !.pending = NoPending]
    ELSE PendingKept(l)

WakeReady(l, w) == IF w = NoWake /\ Ready(l) THEN l.pending.human ELSE w

WfChanged == round.prev.to # round.state.to

AttentionRising == round.state.attn /\ ~round.prev.attn

ApprovalEntering == Pending(round.state) /\ ~alerts.approval

\* coalesceBusy: with a seat taken, the candidate is parked (a note that is
\* nobody's instruction is not)
Parked(l, w) == w = NoWake \/ l.human # NoWake \/ l.pending # NoPending

onlineHumanVersion(l) == Max({0, l.human})

Candidate(l) == [role |-> round.state.to, human |-> onlineHumanVersion(l)]

\* what diffTask does with the task, in the order of its early returns
Verdict(l, w) ==
    IF AttentionRising \/ ApprovalEntering THEN "told"
    ELSE IF (~WfChanged /\ w = NoWake) \/ round.state.to = "none" THEN "nothing"
    ELSE IF ~round.auto \/ ~Launchable(round.state) THEN "told"
    ELSE IF run.seat = "free" THEN "launch"
    ELSE IF Parked(l, w) THEN "parked" ELSE "nothing"

\* Mutant: the stall clock of a recovered task runs on.
Watched_ClockKept(e) ==
    IF e = Absent THEN alerts
    ELSE IF alerts.upd # e.upd \/ e.to \notin Roles
    THEN [alerts EXCEPT !.upd = e.upd, !.age = 0, !.stalled = FALSE]
    ELSE [alerts EXCEPT !.stalled = @ \/ alerts.age >= StallRounds]

\* checkStalls, and the restarted clock of a recovered task
Watched(e) ==
    IF e = Absent THEN alerts
    ELSE IF alerts.upd # e.upd \/ e.to \notin Roles \/ round.recovered
    THEN [alerts EXCEPT !.upd = e.upd, !.age = 0, !.stalled = FALSE]
    ELSE [alerts EXCEPT !.stalled = @ \/ alerts.age >= StallRounds]

\* a hand-over to a whitelisted role, or a parked one whose seat has come free
DueEdge(l) == ~round.recovered /\ ((WfChanged /\ round.auto /\ Launchable(round.state)) \/ Ready(l))

\* an instruction no earlier round has dealt with, issued after the last stop
DueInstruction ==
    /\ ~round.recovered /\ round.prev # Absent /\ round.auto /\ Launchable(round.state)
    /\ \E r \in round.truth \cap hub.log : IsHuman(r) /\ r.v > past.upto /\ r.at >= run.stop

Finish(l, w, readable) ==
    LET after == IF round.recovered \/ round.state = Absent THEN l ELSE LaneReady(l)
        wake == IF round.recovered THEN NoWake ELSE WakeReady(l, w)
        does == IF round.recovered \/ round.state = Absent THEN "nothing" ELSE Verdict(after, wake)
    IN /\ lane' = IF does = "parked"
                  THEN [after EXCEPT !.pending = Candidate(after)]
                  ELSE IF round.state.to = "none" /\ round.prev.to # "none" /\ round.prev # Absent
                  THEN [after EXCEPT !.pending = NoPending]
                  ELSE after
       /\ alerts' = [Watched(round.state) EXCEPT
                        !.approval = IF round.recovered \/ round.state = Absent THEN @
                                     ELSE Pending(round.state)]
       /\ round' = IF does = "launch" THEN [round EXCEPT !.step = "launch", !.wake = wake]
                   ELSE Idle
       /\ past' = [past EXCEPT !.did = does, !.edge = DueEdge(l), !.instruction = readable /\ DueInstruction,
                               !.upto = IF readable \/ round.recovered \/ round.prev = Absent
                                        THEN round.state.version ELSE @,
                               !.announced = @ \/ (~round.recovered /\ ApprovalEntering),
                               !.quiet = round.recovered]

\* /state says a launch is conceivable, so the log is read
Reads == round.auto /\ Launchable(round.state)

Decide ==
    /\ round.step = "decide"
    /\ Reads
    /\ LET rs == fullLog(round.state)
           l == LaneScanned(rs)
       IN /\ Finish(l, IF Scans THEN WakeKept(l, NoteWakeOf(rs)) ELSE NoWake, TRUE)
          /\ cache' = Remembered(round.state)
    /\ UNCHANGED <<hub, run, snap, left>>

DecideUnread ==
    /\ round.step = "decide"
    /\ ~Reads
    /\ Finish(lane, NoWake, TRUE)
    /\ UNCHANGED <<hub, run, snap, cache, left>>

\* the read failed: the scan's lower bound is kept for the next poll
DecideReadFails ==
    /\ round.step = "decide" /\ Reads /\ left > 0
    /\ LET l == IF Scans THEN [lane EXCEPT !.scan = [version |-> ScanFrom, to |-> round.state.to]]
                ELSE lane
       IN Finish(l, NoWake, FALSE)
    /\ left' = left - 1
    /\ UNCHANGED <<hub, run, snap, cache>>

\* runLaunchCatchup at the tail of the baseline poll
CatchupDecides ==
    /\ round.step = "catchup"
    /\ cache' = Remembered(round.state)
    /\ IF launchBlocked(fullLog(round.state), round.state.to, NoWake)
       THEN round' = Idle /\ past' = past
       ELSE IF run.seat = "free"
       THEN round' = [round EXCEPT !.step = "launch"] /\ past' = past
       ELSE round' = Idle /\ past' = [past EXCEPT !.did = "parked"]
    /\ lane' = IF round'.step = "idle" /\ past'.did = "parked"
               THEN [lane EXCEPT !.pending = Candidate(lane)]
               ELSE lane
    /\ UNCHANGED <<hub, run, snap, alerts, left>>

-----------------------------------------------------------------------------
(***************************************************************************)
(* Launch: autoLaunch in detached mode, then autoLaunchHeadless.           *)
(***************************************************************************)
Told(what) == past' = [past EXCEPT !.did = what]

\* a bare note edge without an online instruction launches nothing
Disallowed == round.wake # NoWake /\ lane.human = NoWake

LaunchDropped ==
    /\ round.step = "launch" /\ Disallowed
    /\ round' = Idle /\ Told("nothing")
    /\ UNCHANGED <<hub, run, snap, cache, lane, alerts, left>>

Planned(rs) == [ok |-> ~headlessGeneration(rs, round.state.to, onlineHumanVersion(lane))
                       /\ latestRecordVersion(rs) = round.state.version,
                base |-> latestRecordVersion(rs)]

\* every record the snapshot was derived from is there, and nothing else but newer ones
WholeLog(rs) == round.truth \cap hub.log \subseteq rs /\ rs \subseteq round.truth \cup hub.log

LaunchPlans ==
    /\ round.step = "launch" /\ ~Disallowed
    /\ LET rs == fullLog(round.state)
       IN /\ cache' = Remembered(round.state)
          /\ past' = [past EXCEPT !.did = IF Planned(rs).ok THEN @ ELSE "told",
                                  !.reads = @ /\ (past.hidden \/ past.forgot \/ WholeLog(rs))]
          /\ round' = IF Planned(rs).ok
                      THEN [round EXCEPT !.step = "mark", !.base = Planned(rs).base,
                                           !.human = onlineHumanVersion(lane)]
                      ELSE Idle
    /\ UNCHANGED <<hub, run, snap, lane, alerts, left>>

LaunchReadFails ==
    /\ round.step = "launch" /\ ~Disallowed /\ left > 0
    /\ round' = Idle /\ Told("told")
    /\ left' = left - 1
    /\ UNCHANGED <<hub, run, snap, cache, lane, alerts>>

Record(v, kind, to) == [v |-> v, kind |-> kind, to |-> to, at |-> hub.clock + 1]

\* the marker lands on the version the plan was made for; the seat is taken at once
MarkLands ==
    /\ round.step = "mark" /\ hub.clock < MaxClock
    /\ latestRecordVersion(hub.log) = round.base
    /\ hub' = [hub EXCEPT !.log = @ \cup {Record(round.base + 1, "marker", round.state.to)},
                          !.upd = @ + 1, !.clock = @ + 1]
    /\ run' = [FreshRun EXCEPT !.seat = "starting"]
    /\ lane' = [lane EXCEPT !.human = NoWake, !.boundary = 0]
    /\ round' = Idle /\ Told("launched")
    /\ UNCHANGED <<snap, cache, alerts, left>>

\* VERSION_CONFLICT: covered by another marker or not, the human is told
MarkConflicts ==
    /\ round.step = "mark"
    /\ latestRecordVersion(hub.log) # round.base
    /\ round' = Idle /\ Told("told")
    /\ UNCHANGED <<hub, run, snap, cache, lane, alerts, left>>

-----------------------------------------------------------------------------
(***************************************************************************)
(* Runs, stops, records, the store's directory, the mode, restarts.        *)
(***************************************************************************)
\* HeadlessRuntime.start: admitted and spawned, or given up
StartSettles ==
    /\ run.seat = "starting"
    /\ run' \in {[run EXCEPT !.seat = "held"], FreshRun}
    /\ UNCHANGED <<hub, snap, round, cache, lane, alerts, past, left>>

RunEnds ==
    /\ run.seat = "held" /\ ~run.done
    /\ run' = [run EXCEPT !.done = TRUE]
    /\ UNCHANGED <<hub, snap, round, cache, lane, alerts, past, left>>

\* records that carry a time from now on were issued after the stop
StopRequested ==
    /\ run.seat = "held" /\ run.stop = 0 /\ ~run.done /\ left > 0
    /\ run' = [run EXCEPT !.stop = hub.clock + 1]
    /\ left' = left - 1
    /\ UNCHANGED <<hub, snap, round, cache, lane, alerts, past>>

Closed == Entry.to = "none"

\* the newest snapshot, and what came after it
Seen == IF round.step = "observe" THEN round.state ELSE snap.entry

Unseen(kind) == \E r \in hub.log : r.kind = kind /\ r.v > Seen.version

Apart(kind) == /\ kind = "worker" => ~Unseen("work")
               /\ kind = "work" => ~Unseen("worker")

Append(kind, to) ==
    /\ hub.place = "tasks" /\ hub.clock < MaxClock
    /\ Unwatched \/ ~past.hidden
    /\ Crowded \/ Seen = Absent \/ Apart(kind)
    /\ hub' = [hub EXCEPT !.log = @ \cup {Record(Entry.version + 1, kind, to)},
                          !.upd = @ + 1, !.clock = @ + 1]

Publish ==
    /\ \/ ~Closed /\ \E to \in Roles \cup {"human", "none"} : Append("work", to)
       \/ \E kind \in NoteKinds : Append(kind, "none")
       \/ Entry.attn /\ Append("ack", "none")
    /\ UNCHANGED <<run, snap, round, cache, lane, alerts, past, left>>

\* a file with a version already taken, above every acknowledgement
ForeignDuplicate ==
    /\ left > 0 /\ hub.clock < MaxClock
    /\ \E r \in hub.log, kind \in {"human", "marker"}, to \in Agents :
          /\ ~\E a \in hub.log : a.kind = "ack" /\ a.v > r.v
          /\ hub' = [hub EXCEPT !.log = @ \cup {Record(r.v, kind, to)}, !.clock = @ + 1]
    /\ left' = left - 1
    /\ past' = [past EXCEPT !.hidden = TRUE]
    /\ UNCHANGED <<run, snap, round, cache, lane, alerts>>

\* the newest record is taken back behind the store's back
ForeignRewind ==
    /\ left > 0
    /\ Entry.version > 1
    /\ hub' = [hub EXCEPT !.log = {r \in @ : r.v < Entry.version}]
    /\ left' = left - 1
    /\ past' = [past EXCEPT !.hidden = TRUE]
    /\ UNCHANGED <<run, snap, round, cache, lane, alerts>>

PlaceChanges ==
    /\ left > 0
    /\ \E p \in {"tasks", "degraded", "gone"} \ {hub.place} : hub' = [hub EXCEPT !.place = p]
    /\ left' = left - 1
    /\ UNCHANGED <<run, snap, round, cache, lane, alerts, past>>

ModeSwitches ==
    /\ left > 0
    /\ hub' = [hub EXCEPT !.auto = ~@]
    /\ left' = left - 1
    /\ UNCHANGED <<run, snap, round, cache, lane, alerts, past>>

\* a new process knows nothing; the run and the directory live on
Restart ==
    /\ left > 0
    /\ left' = left - 1
    /\ run' = [run EXCEPT !.stopSeen = run.stop > 0, !.seat = IF @ = "starting" THEN "held" ELSE @]
    /\ snap' = [baseline |-> FALSE, entry |-> Absent, place |-> "gone"]
    /\ round' = Idle /\ cache' = NoCache /\ lane' = FreshLane /\ alerts' = FreshAlerts
    /\ past' = [NoneSoFar EXCEPT !.hidden = past.hidden, !.reads = past.reads]
    /\ UNCHANGED hub

Round == Fetch \/ Observe \/ Decide \/ DecideUnread \/ CatchupDecides
         \/ LaunchDropped \/ LaunchPlans \/ MarkLands \/ MarkConflicts

Next ==
    \/ Round \/ DecideReadFails \/ LaunchReadFails
    \/ StartSettles \/ RunEnds \/ StopRequested \/ Publish
    \/ ForeignDuplicate \/ ForeignRewind \/ PlaceChanges \/ ModeSwitches \/ Restart

Spec == Init /\ [][Next]_vars

-----------------------------------------------------------------------------
(***************************************************************************)
(* Properties.                                                             *)
(***************************************************************************)
(* Every turn a round saw arrive is answered in that round: the next role   *)
(* of a whitelisted hand-over, a candidate that was parked until the seat   *)
(* came free, and a human instruction issued after the last stop, are       *)
(* launched, parked behind the run that still holds the seat, or reported   *)
(* to the human (engine.ts diffTask, autoLaunch; detached-lane.ts           *)
(* takeReadyWake).                                                          *)
TurnAnswered ==
    round.step = "idle" /\ (past.edge \/ past.instruction) => past.did # "nothing"

(* The launch gate judges the whole log: through evictions, increments and  *)
(* quiet rounds the merged log it reads has every record the snapshot was   *)
(* derived from and none that is gone (log-cache.ts fullLog,                *)
(* reconcileLogCache), if no foreign change is still unseen and no degraded *)
(* stay has made the Notifier forget that it had seen one.                  *)
GateReadsWholeLog == past.reads

(* A stop stays a stop: no launch follows it in that process unless the     *)
(* stopped run or somebody else handed the task over since the markers of   *)
(* the role from before the stop, or a human asked for work after it was    *)
(* requested (detached-lane.ts observe, scanHumanWake, filterStoppedWakes), *)
(* foreign changes that no poll has seen aside.                             *)
StopSticks ==
    [][run.stop > 0 /\ run'.seat = "starting" /\ ~past.hidden /\ ~past.forgot =>
          \E r \in hub.log : \/ IsHuman(r) /\ r.at >= run.stop
                             \/ /\ r.kind = "work"
                                /\ \A m \in hub.log : m.kind = "marker" /\ m.to = round.state.to
                                                         /\ m.at < run.stop => m.v <= r.v]_vars

(* Alerts follow what the polls saw: one alarm per stay in the degraded     *)
(* list or away from /state, and an approval that is pending has been       *)
(* announced since it was last seen not pending, at the latest one round    *)
(* after a recovery (notifications.ts diffDegraded,                         *)
(* updatePendingApprovalEdge).                                              *)
AlertsOncePerStay ==
    round.step = "idle" =>
        /\ past.alarms = past.stays
        /\ snap.baseline /\ Pending(snap.entry) /\ ~past.quiet => past.announced

(* A stall is reported only after the threshold of rounds in a row in which *)
(* the task was visible, waited for an agent and did not move: a clock from *)
(* before a degraded or vanished stay never fires (notifications.ts         *)
(* checkStalls, recovered).                                                 *)
StallIsReal ==
    [][~alerts.stalled /\ alerts'.stalled => past.still >= StallRounds]_vars

=============================================================================
