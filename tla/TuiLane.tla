------------------------------ MODULE TuiLane ------------------------------
(***************************************************************************)
(* The herdr lane of the Notifier (herdr/notifier/tui-lane.ts) for one     *)
(* task: the compare round that plans a launch and writes its marker, the  *)
(* launcher children chained per role outside the round, the working fuse, *)
(* the signals that beat the launcher's return, and the done sweep whose   *)
(* barrier a launch waits for because the launcher reaps the panes.        *)
(*                                                                         *)
(* An action ends where the code awaits the Hub, a child, a pane or a      *)
(* timer.  Signals carry the pane's role, never the launch they belong to. *)
(* Pressing Enter again after a give-up is PromptDelivery's subject.       *)
(***************************************************************************)
EXTENDS Integers, FiniteSets, Sequences

CONSTANTS Roles,        \* roles the task waits for in turn
          MaxLaunches,  \* launcher children in all
          MaxContent,   \* content records published in all
          MaxNotes,     \* wake notes published in all
          MaxDone,      \* done events in all
          ReadsFail,    \* a log read of the lane may fail
          MayClose      \* the Notifier may be shut down

ASSUME RolesAssumption == Roles # {} /\ "none" \notin Roles
ASSUME BoundsAssumption ==
    {MaxLaunches, MaxContent, MaxNotes, MaxDone} \subseteq Nat /\ {ReadsFail, MayClose} \subseteq BOOLEAN

Launches == 1..MaxLaunches
NoLaunch == 0
NoSweep == 0
Signals == {"working", "giveup"}

VARIABLES
    hub,     \* the task's log: newest version, last content record, wake note, markers, whose turn
    snap,    \* the Notifier's snapshot of it
    round,   \* the compare round in progress
    kid,     \* launches: their marker's version and how far their child is
    chain,   \* per role, the launches whose run is not over, oldest first
    lane,    \* workingWatches, inFlightLaunches, earlyWorkingSignals, earlyGiveUps, closed
    sweeps,  \* done sweeps: how many, which are running, the registered barrier
    dones,   \* done handlers past their sweep
    calls,   \* signal handlers that wait for a log read
    past     \* history: launches alarmed in their own turn, no wake note in it (plain), launches
             \* whose own signal was handled, no other launch's fuse in its way (told)

vars == <<hub, snap, round, kid, chain, lane, sweeps, dones, calls, past>>

-----------------------------------------------------------------------------
FreshKid == [role |-> "none", v |-> 0, phase |-> "none", owed |-> NoSweep, archived |-> TRUE,
             sent |-> {}]

IdleRound == [step |-> "idle", role |-> "none", wake |-> 0, base |-> 0,
              awaits |-> NoSweep, owed |-> NoSweep, key |-> "none", seen |-> NoLaunch]

Init ==
    /\ \E r \in Roles : hub = [to |-> r, ver |-> 1, content |-> 1, note |-> 0, marks |-> {},
                               contents |-> 0, notes |-> 0]
    /\ snap = [to |-> "none", ver |-> 0]
    /\ round = IdleRound
    /\ kid = [n \in Launches |-> FreshKid]
    /\ chain = [r \in Roles |-> <<>>]
    /\ lane = [watch |-> [r \in Roles |-> NoLaunch], inflight |-> [r \in Roles |-> NoLaunch],
               working |-> {}, giveup |-> {}, closed |-> FALSE]
    /\ sweeps = [last |-> NoSweep, running |-> {}, barrier |-> NoSweep]
    /\ dones = {} /\ calls = {}
    /\ past = [told |-> {}, plain |-> {}]

-----------------------------------------------------------------------------
(***************************************************************************)
(* The Hub, as the lane sees it: the role whose turn it is publishes and   *)
(* the turn passes on; a human writes a wake note.                         *)
(***************************************************************************)
Publish ==
    /\ hub.contents < MaxContent /\ ~lane.closed
    /\ \E r \in Roles \ {hub.to} :
         hub' = [hub EXCEPT !.to = r, !.ver = @ + 1, !.content = hub.ver + 1, !.contents = @ + 1]
    /\ UNCHANGED <<snap, round, kid, chain, lane, sweeps, dones, calls, past>>

WakeNote ==
    /\ hub.notes < MaxNotes /\ ~lane.closed
    /\ hub' = [hub EXCEPT !.ver = @ + 1, !.note = hub.ver + 1, !.notes = @ + 1]
    /\ UNCHANGED <<snap, round, kid, chain, lane, sweeps, dones, calls, past>>

\* a content record above the launch's marker: the round of that launch is over
launchGenerationSuperseded(n) == hub.content > kid[n].v

\* a marker of the role above the last content record and above the wake note
launchBlocked(role, wake) ==
    \E m \in hub.marks : m.role = role /\ m.v > hub.content /\ m.v > wake

-----------------------------------------------------------------------------
(***************************************************************************)
(* A compare round.  Watches of a role whose turn is over are dropped at   *)
(* once; a version above the launch needs a look at the log first.         *)
(***************************************************************************)
ToRead(watch, s) == {r \in Roles : /\ watch[r] # NoLaunch /\ r = s.to
                                   /\ s.ver > kid[watch[r]].v}

StartCompare ==
    /\ round.step = "idle" /\ ~lane.closed
    /\ LET s == [to |-> hub.to, ver |-> hub.ver]
           kept == [r \in Roles |-> IF r = s.to THEN lane.watch[r] ELSE NoLaunch]
           look == ToRead(kept, s)
           edge == snap.to # s.to
           woken == snap.to # "none" /\ hub.note > snap.ver
       IN /\ snap' = s
          /\ lane' = [lane EXCEPT !.watch = kept]
          /\ round' = [IdleRound EXCEPT
                         !.step = IF look = {} THEN "diff" ELSE "retire",
                         !.key = IF look = {} THEN "none" ELSE s.to,
                         !.seen = IF look = {} THEN NoLaunch ELSE kept[s.to],
                         !.role = IF snap.to # "none" /\ (edge \/ woken) THEN s.to ELSE "none",
                         !.wake = IF woken THEN hub.note ELSE 0,
                         !.base = s.ver]
    /\ \E expired \in SUBSET {d \in dones : d.stage = "timer"} :
         dones' = {[d EXCEPT !.stage = IF @ = "asked" THEN "carried"
                                       ELSE IF d \in expired THEN "carried again" ELSE @] : d \in dones}
    /\ UNCHANGED <<hub, kid, chain, sweeps, calls, past>>

\* the read is over: clearWorkingWatch(key) takes what the key holds by now
retireObsoleteWorkingWatches ==
    /\ round.step = "retire"
    /\ \E ok \in {TRUE, ~ReadsFail} :
         lane' = IF ok /\ launchGenerationSuperseded(round.seen)
                 THEN [lane EXCEPT !.watch[round.key] = NoLaunch] ELSE lane
    /\ round' = [round EXCEPT !.step = "diff"]
    /\ UNCHANGED <<hub, snap, kid, chain, sweeps, dones, calls, past>>

\* compares that done handlers asked for are over with the round
EndRound(ds) ==
    /\ round' = IdleRound
    /\ dones' = {d \in {IF x.stage = "carried" THEN [x EXCEPT !.stage = IF snap.to = x.wf THEN "timer" ELSE "over"]
                        ELSE IF x.stage = "carried again" THEN [x EXCEPT !.stage = "over"]
                        ELSE x : x \in ds} : d.stage # "over" /\ (d.stage = "timer" => ~lane.closed)}

Diff ==
    /\ round.step = "diff"
    /\ \/ round.role = "none" /\ EndRound(dones)
       \/ round.role # "none"
          /\ round' = [round EXCEPT !.step = "entry", !.awaits = sweeps.barrier]
          /\ UNCHANGED dones
    /\ UNCHANGED <<hub, snap, kid, chain, lane, sweeps, calls, past>>

awaitSweepBarrier == round.awaits \notin sweeps.running

\* autoLaunch up to the lane: barrier 1, the log, dedup, the base version
EnterLaunch ==
    /\ round.step = "entry" /\ awaitSweepBarrier
    /\ IF launchBlocked(round.role, round.wake) \/ hub.ver # round.base \/ lane.closed
       THEN EndRound(dones)
       ELSE round' = [round EXCEPT !.step = "plan"] /\ UNCHANGED dones
    /\ UNCHANGED <<hub, snap, kid, chain, lane, sweeps, calls, past>>

\* context, workspace, birth anchor, target and invocation: any of them may fail
PlanLaunch ==
    /\ round.step = "plan"
    /\ \/ EndRound(dones)
       \/ round' = [round EXCEPT !.step = "mark", !.awaits = sweeps.barrier] /\ UNCHANGED dones
    /\ UNCHANGED <<hub, snap, kid, chain, lane, sweeps, calls, past>>

Used == {n \in Launches : kid[n].phase # "none"}

\* barrier 2 and markLaunched: the call is one continuation with the barrier
MarkLaunch ==
    /\ round.step = "mark" /\ awaitSweepBarrier
    /\ IF lane.closed \/ hub.ver # round.base
       THEN EndRound(dones) /\ UNCHANGED hub
       ELSE /\ hub' = [hub EXCEPT !.ver = @ + 1, !.marks = @ \cup {[role |-> round.role, v |-> hub.ver + 1]}]
            /\ round' = [round EXCEPT !.step = "spawn", !.base = hub.ver + 1,
                                      !.owed = sweeps.last, !.awaits = sweeps.barrier]
            /\ UNCHANGED dones
    /\ UNCHANGED <<snap, kid, chain, lane, sweeps, calls, past>>

\* barrier 3, then the child is chained outside the round
spawnTrackedLaunch ==
    /\ round.step = "spawn" /\ awaitSweepBarrier
    /\ Used # Launches
    /\ LET n == Cardinality(Used) + 1 IN
         IF lane.closed THEN UNCHANGED <<kid, chain>>
         ELSE /\ kid' = [kid EXCEPT ![n] = [role |-> round.role, v |-> round.base, phase |-> "queued",
                                            owed |-> round.owed, archived |-> TRUE, sent |-> {}]]
              /\ chain' = [chain EXCEPT ![round.role] = Append(@, n)]
    /\ EndRound(dones)
    /\ UNCHANGED <<hub, snap, lane, sweeps, calls, past>>

-----------------------------------------------------------------------------
(***************************************************************************)
(* One launcher child (runLaunchChild).                                    *)
(***************************************************************************)
Unchain(n) == chain' = [chain EXCEPT ![kid[n].role] = Tail(@)]

\* Mutant: a child does not wait for the one before it.
PreviousOver_Skipped(n) == TRUE

PreviousOver(n) == Head(chain[kid[n].role]) = n

\* the child reaps the task's panes: what the sweeps owed must be archived
StartChild(n) ==
    /\ kid[n].phase = "queued" /\ PreviousOver(n)
    /\ IF lane.closed
       THEN kid' = [kid EXCEPT ![n].phase = "over"] /\ Unchain(n) /\ UNCHANGED lane
       ELSE /\ kid' = [kid EXCEPT ![n].phase = "running",
                          ![n].archived = kid[n].owed = NoSweep
                                          \/ (kid[n].owed..sweeps.last) \ sweeps.running # {}]
            /\ lane' = [lane EXCEPT !.inflight[kid[n].role] = n]
            /\ UNCHANGED chain
    /\ UNCHANGED <<hub, snap, round, sweeps, dones, calls, past>>

\* Mutant: the fuse is armed even when the lane is closed.
armWorkingWatch_Closed(r, n) == IF r \in lane.giveup THEN lane.watch[r] ELSE n

\* a give-up that beat the return replaces the fuse; a new fuse replaces an old one
armWorkingWatch(r, n) == IF lane.closed \/ r \in lane.giveup THEN lane.watch[r] ELSE n

ChildReturns(n) ==
    LET r == kid[n].role IN
    /\ kid[n].phase = "running"
    /\ kid' = [kid EXCEPT ![n].phase = "returned"]
    /\ lane' = [lane EXCEPT !.inflight[r] = NoLaunch, !.giveup = @ \ {r},
                            !.watch[r] = armWorkingWatch(r, n)]
    /\ UNCHANGED <<hub, snap, round, chain, sweeps, dones, calls, past>>

ChildFails(n) ==
    LET r == kid[n].role IN
    /\ kid[n].phase = "running"
    /\ kid' = [kid EXCEPT ![n].phase = "over"]
    /\ lane' = [lane EXCEPT !.inflight[r] = NoLaunch, !.giveup = @ \ {r}, !.working = @ \ {r}]
    /\ Unchain(n)
    /\ UNCHANGED <<hub, snap, round, sweeps, dones, calls, past>>

\* the announcement is out; a working signal that beat the return is handled now
AnnounceChild(n) ==
    LET r == kid[n].role
        w == lane.watch[r] IN
    /\ kid[n].phase = "returned"
    /\ kid' = [kid EXCEPT ![n].phase = "over"]
    /\ Unchain(n)
    /\ \E ok \in {TRUE, ~ReadsFail} :
         lane' = IF r \in lane.working /\ w # NoLaunch /\ snap.to = r
                    /\ (snap.ver > kid[w].v => ok /\ ~launchGenerationSuperseded(w))
                 THEN [lane EXCEPT !.working = @ \ {r}, !.watch[r] = NoLaunch]
                 ELSE [lane EXCEPT !.working = @ \ {r}]
    /\ UNCHANGED <<hub, snap, round, sweeps, dones, calls, past>>

-----------------------------------------------------------------------------
(***************************************************************************)
(* Signals.  A handler looks for a watch of the role, then for a launch in *)
(* flight; a version above the launch makes it read the log in between.    *)
(***************************************************************************)
HitWatch(r) == [lane EXCEPT !.watch[r] = NoLaunch]

\* recorded against the launch in flight, for its return to consume
HitInFlight(c) ==
    IF c.sig = "working" THEN [lane EXCEPT !.working = @ \cup {c.role}]
    ELSE [lane EXCEPT !.giveup = @ \cup {c.role}]

\* the handler of c is done and leaves l
Over(rest, c, l) ==
    /\ calls' = rest /\ lane' = l
    /\ past' = [past EXCEPT !.told = @ \cup (IF c.counts THEN {c.of} ELSE {})]

\* suspended on a log read about launch n
Reads(rest, c, where, n) ==
    calls' = rest \cup {[c EXCEPT !.at = where, !.seen = n]} /\ UNCHANGED <<lane, past>>

\* Mutant: a give-up is not recorded against the launch in flight.
inFlightLaunchForEvent_WorkingOnly(rest, c) ==
    LET m == lane.inflight[c.role] IN
    IF m = NoLaunch \/ snap.to # c.role \/ c.sig = "giveup" THEN Over(rest, c, lane)
    ELSE IF snap.ver > kid[m].v THEN Reads(rest, c, "inflight", m)
    ELSE Over(rest, c, HitInFlight(c))

inFlightLaunchForEvent(rest, c) ==
    LET m == lane.inflight[c.role] IN
    IF m = NoLaunch \/ snap.to # c.role THEN Over(rest, c, lane)
    ELSE IF snap.ver > kid[m].v THEN Reads(rest, c, "inflight", m)
    ELSE Over(rest, c, HitInFlight(c))

workingWatchForEvent(rest, c) ==
    LET w == lane.watch[c.role] IN
    IF w = NoLaunch \/ snap.to # c.role THEN inFlightLaunchForEvent(rest, c)
    ELSE IF snap.ver > kid[w].v THEN Reads(rest, c, "watch", w)
    ELSE Over(rest, c, HitWatch(c.role))

\* working or delivery_giveup from the pane of launch n arrives
receiveSignal(n, sig) ==
    LET r == kid[n].role IN
    /\ kid[n].phase \in {"running", "returned", "over"} /\ sig \notin kid[n].sent
    /\ ~lane.closed
    /\ kid' = [kid EXCEPT ![n].sent = @ \cup {sig}]
    /\ workingWatchForEvent(calls, [sig |-> sig, of |-> n, role |-> r, at |-> "new", seen |-> NoLaunch,
                                    counts |-> /\ snap.to = r /\ ~launchGenerationSuperseded(n)
                                               /\ n \in {lane.watch[r], lane.inflight[r]}
                                               /\ lane.watch[r] \in {NoLaunch, n}])
    /\ UNCHANGED <<hub, snap, round, chain, sweeps, dones>>

\* the read is over; an unreadable generation counts as stale
SignalRead(c) ==
    /\ \E ok \in {TRUE, ~ReadsFail} :
         LET rest == calls \ {c}
             on == [c EXCEPT !.counts = @ /\ ok]
             held == (IF c.at = "watch" THEN lane.watch ELSE lane.inflight)[c.role] = c.seen
         IN IF ok /\ held /\ ~launchGenerationSuperseded(c.seen)
            THEN Over(rest, on, IF c.at = "watch" THEN HitWatch(c.role) ELSE HitInFlight(c))
            ELSE IF c.at = "watch" THEN inFlightLaunchForEvent(rest, on) ELSE Over(rest, on, lane)
    /\ UNCHANGED <<hub, snap, round, kid, chain, sweeps, dones>>

\* the fuse is minutes; a log read and an announcement are over long before it
WorkingTimeout(r) ==
    LET n == lane.watch[r] IN
    /\ n # NoLaunch
    /\ calls = {} /\ \A k \in Launches : kid[k].phase # "returned"
    /\ lane' = [lane EXCEPT !.watch[r] = NoLaunch]
    /\ past' = [past EXCEPT !.plain = @ \cup (IF snap.to = r /\ hub.note < hub.content /\ ~launchGenerationSuperseded(n)
                                              THEN {n} ELSE {})]
    /\ UNCHANGED <<hub, snap, round, kid, chain, sweeps, dones, calls>>

-----------------------------------------------------------------------------
(***************************************************************************)
(* done: the sweep registers its barrier before its first await, then a    *)
(* compare, and after one interval another one before the alert (the timer *)
(* expires where a later round carries it).                                *)
(***************************************************************************)
handleDone ==
    /\ ~lane.closed /\ snap.to # "none" /\ sweeps.last < MaxDone
    /\ sweeps' = [last |-> sweeps.last + 1, running |-> sweeps.running \cup {sweeps.last + 1},
                  barrier |-> sweeps.last + 1]
    /\ dones' = dones \cup {[id |-> sweeps.last + 1, wf |-> snap.to, stage |-> "sweep"]}
    /\ UNCHANGED <<hub, snap, round, kid, chain, lane, calls, past>>

\* Mutant: a sweep that ends takes the barrier of a later one with it.
BarrierAfter_AnySweep(k) == NoSweep

\* only the sweep that is registered unregisters
BarrierAfter(k) == IF sweeps.barrier = k THEN NoSweep ELSE sweeps.barrier

\* panes archived, or the failure logged: either way the sweep settles
runDoneSweep(d) ==
    /\ d.stage = "sweep"
    /\ sweeps' = [sweeps EXCEPT !.running = @ \ {d.id},
                                !.barrier = IF lane.closed THEN NoSweep ELSE BarrierAfter(d.id)]
    /\ dones' = (dones \ {d}) \cup (IF lane.closed THEN {} ELSE {[d EXCEPT !.stage = "asked", !.id = NoSweep]})
    /\ UNCHANGED <<hub, snap, round, kid, chain, lane, calls, past>>

\* every map and every timer is cleared; what awaits finds closed set
Close ==
    /\ MayClose /\ ~lane.closed
    /\ lane' = [watch |-> [r \in Roles |-> NoLaunch], inflight |-> [r \in Roles |-> NoLaunch],
                working |-> {}, giveup |-> {}, closed |-> TRUE]
    /\ sweeps' = [sweeps EXCEPT !.barrier = NoSweep]
    /\ dones' = {d \in dones : d.stage # "timer"}
    /\ UNCHANGED <<hub, snap, round, kid, chain, calls, past>>

-----------------------------------------------------------------------------
Round == \/ StartCompare \/ retireObsoleteWorkingWatches \/ Diff \/ EnterLaunch
         \/ PlanLaunch \/ MarkLaunch \/ spawnTrackedLaunch

Child(n) == StartChild(n) \/ ChildReturns(n) \/ ChildFails(n) \/ AnnounceChild(n)

Next ==
    \/ Publish \/ WakeNote
    \/ Round
    \/ \E n \in Launches : Child(n) \/ \E sig \in Signals : receiveSignal(n, sig)
    \/ \E c \in calls : SignalRead(c)
    \/ \E r \in Roles : WorkingTimeout(r)
    \/ handleDone
    \/ \E d \in dones : runDoneSweep(d)
    \/ Close

Spec == Init /\ [][Next]_vars

-----------------------------------------------------------------------------
(***************************************************************************)
(* A done event that arrived before the launch marker was written has had  *)
(* a sweep begun no earlier than it and finished by the time the launcher  *)
(* child starts and reaps the panes (the three barriers of autoLaunch).    *)
(***************************************************************************)
ArchivedBeforeReap == \A n \in Launches : kid[n].archived

(***************************************************************************)
(* Two launcher children of the same task and role never run at once, and  *)
(* a later round's child never overtakes an earlier one (launchChains).    *)
(***************************************************************************)
ChildrenInOrder ==
    \A m, n \in Launches : m < n /\ kid[m].role = kid[n].role /\ kid[n].phase \in {"running", "returned"}
                             => kid[m].phase = "over"

(***************************************************************************)
(* In the turn of a launch, as long as no wake note has interrupted it, the *)
(* no-working-signal alarm is never raised about the launch once its own   *)
(* working or give-up signal was handled while it was in flight or watched *)
(* and the role had no fuse of an earlier launch left.                     *)
(***************************************************************************)
FuseTruthful == past.plain \cap past.told = {}

(***************************************************************************)
(* Once the lane is closed, no continuation arms a fuse or a recheck.      *)
(***************************************************************************)
QuietAfterClose ==
    lane.closed => /\ \A r \in Roles : lane.watch[r] = NoLaunch
                   /\ \A d \in dones : d.stage # "timer"

=============================================================================
