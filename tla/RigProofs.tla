----------------------------- MODULE RigProofs -----------------------------
(***************************************************************************)
(* Proofs about the rig of a workspace: the herdr lane of its Notifier     *)
(* (first part) and its power, `tut up` and `tut down` (second part), for  *)
(* any values of their constants.  The lane's invariant has four parts     *)
(* besides the types: the launches of a role form one chain in the order   *)
(* of their numbers, of which only the head has a child (ChainWell); the   *)
(* barrier a launch awaits is the last sweep registered before it          *)
(* (SweepsWell); while a launch's turn runs undisturbed its marker is the  *)
(* newest record (LogWell); and what is still armed, in flight or being    *)
(* handled is about a launch in that turn only if that launch was not told *)
(* of yet (FuseWell).                                                      *)
(***************************************************************************)
EXTENDS TuiLane, Power, SequenceTheorems, FiniteSetTheorems, TLAPS

(***************************************************************************)
(* The records, by the names of what they are made of.                     *)
(***************************************************************************)
MaybeRole == Roles \cup {"none"}
MaybeLaunch == Launches \cup {NoLaunch}
Phases == {"none", "queued", "running", "returned", "over"}
RoundSteps == {"idle", "diff", "retire", "entry", "plan", "mark", "spawn"}
DoneStages == {"sweep", "asked", "carried", "carried again", "timer", "over"}

HubRecs == [to : Roles, ver : Nat, content : Nat, note : Nat, marks : SUBSET [role : Roles, v : Nat],
            contents : Nat, notes : Nat]
SnapRecs == [to : MaybeRole, ver : Nat]
RoundRecs == [step : RoundSteps, role : MaybeRole, wake : Nat, base : Nat, awaits : Nat, owed : Nat,
              key : MaybeRole, seen : MaybeLaunch]
KidRecs == [role : MaybeRole, v : Nat, phase : Phases, owed : Nat, archived : BOOLEAN, sent : SUBSET Signals]
Fuses == [Roles -> MaybeLaunch]
LaneRecs == [watch : Fuses, inflight : Fuses, working : SUBSET Roles, giveup : SUBSET Roles, closed : BOOLEAN]
SweepRecs == [last : Nat, running : SUBSET Nat, barrier : Nat]
DoneRecs == [id : Nat, wf : MaybeRole, stage : DoneStages]
CallRecs == [sig : Signals, of : Launches, role : Roles, at : {"new", "watch", "inflight"},
             seen : MaybeLaunch, counts : BOOLEAN]
PastRecs == [told : SUBSET Launches, plain : SUBSET Launches]

Typed ==
    /\ hub \in HubRecs /\ snap \in SnapRecs /\ round \in RoundRecs
    /\ kid \in [Launches -> KidRecs]
    /\ chain \in [Roles -> Seq(Launches)]
    /\ lane \in LaneRecs /\ sweeps \in SweepRecs
    /\ dones \subseteq DoneRecs /\ calls \subseteq CallRecs
    /\ past \in PastRecs

\* A round that has a launch in hand knows whose it is.
Planning == round.step \in {"entry", "plan", "mark", "spawn"} => round.role \in Roles

-----------------------------------------------------------------------------
LEMMA Named ==
    /\ Roles \subseteq MaybeRole /\ "none" \in MaybeRole /\ Launches \subseteq MaybeLaunch
    /\ NoLaunch \in MaybeLaunch /\ NoLaunch \notin Launches /\ "none" \notin Roles
    /\ MaxLaunches \in Nat /\ MaxDone \in Nat /\ Launches \subseteq Nat
    /\ NoSweep = 0 /\ NoLaunch = 0 /\ NoSweep \in Nat
    /\ {"none", "queued", "running", "returned", "over"} \subseteq Phases
    /\ {"idle", "diff", "retire", "entry", "plan", "mark", "spawn"} \subseteq RoundSteps
    /\ {"sweep", "asked", "carried", "carried again", "timer", "over"} \subseteq DoneStages
BY RolesAssumption, BoundsAssumption DEF MaybeRole, MaybeLaunch, Launches, NoLaunch, NoSweep, Phases,
     RoundSteps, DoneStages

LEMMA Numbers == MaxLaunches \in Nat /\ \A n \in Launches : n \in Nat /\ n # 0
BY Named, BoundsAssumption DEF Launches

LEMMA InitTyped == Init => Typed /\ Planning
<1> SUFFICES ASSUME Init PROVE Typed /\ Planning
  OBVIOUS
<1> USE DEF Init
<1>1. hub \in HubRecs /\ snap \in SnapRecs
  <2>1. PICK r \in Roles : hub = [to |-> r, ver |-> 1, content |-> 1, note |-> 0, marks |-> {},
                                 contents |-> 0, notes |-> 0]
    OBVIOUS
  <2>2. hub \in HubRecs
    <3>1. {} \in SUBSET [role : Roles, v : Nat] /\ 0 \in Nat /\ 1 \in Nat
      OBVIOUS
    <3> QED
      BY <2>1, <3>1 DEF HubRecs
  <2> QED
    BY <2>2, Named DEF SnapRecs
<1>2. round \in RoundRecs /\ round.step = "idle"
  BY Named DEF IdleRound, RoundRecs
<1>3. kid \in [Launches -> KidRecs]
  BY Named DEF FreshKid, KidRecs
<1>4. chain \in [Roles -> Seq(Launches)]
  BY EmptySeq
<1>5. lane \in LaneRecs /\ sweeps \in SweepRecs
  BY Named DEF LaneRecs, Fuses, SweepRecs
<1>6. dones \subseteq DoneRecs /\ calls \subseteq CallRecs /\ past \in PastRecs
  BY DEF PastRecs
<1> QED
  BY <1>1, <1>2, <1>3, <1>4, <1>5, <1>6 DEF Typed, Planning

LEMMA HubTyped == Typed /\ Planning /\ Next => hub' \in HubRecs
<1> SUFFICES ASSUME Typed, Planning, Next PROVE hub' \in HubRecs
  OBVIOUS
<1>0. /\ hub \in HubRecs /\ hub.ver \in Nat /\ hub.ver + 1 \in Nat /\ hub.contents + 1 \in Nat
      /\ hub.notes + 1 \in Nat /\ hub.marks \in SUBSET [role : Roles, v : Nat]
  BY DEF Typed, HubRecs
<1>1. CASE Publish
  BY <1>0, <1>1 DEF Publish, HubRecs
<1>2. CASE WakeNote
  BY <1>0, <1>2 DEF WakeNote, HubRecs
<1>3. CASE MarkLaunch
  <2>1. round.role \in Roles
    BY <1>3 DEF MarkLaunch, Planning
  <2>2. hub.marks \cup {[role |-> round.role, v |-> hub.ver + 1]} \in SUBSET [role : Roles, v : Nat]
    BY <1>0, <2>1
  <2>3. \A m \in SUBSET [role : Roles, v : Nat] :
           [hub EXCEPT !.ver = hub.ver + 1, !.marks = m] \in HubRecs
    BY <1>0 DEF HubRecs
  <2>4. \/ UNCHANGED hub
        \/ hub' = [hub EXCEPT !.ver = hub.ver + 1, !.marks = hub.marks \cup {[role |-> round.role, v |-> hub.ver + 1]}]
    BY <1>3 DEF MarkLaunch
  <2> QED
    BY <1>0, <2>2, <2>3, <2>4
<1>4. CASE UNCHANGED hub
  BY <1>0, <1>4
<1> QED
  BY <1>1, <1>2, <1>3, <1>4 DEF Next, Round, StartCompare, retireObsoleteWorkingWatches, Diff, EnterLaunch,
     PlanLaunch, spawnTrackedLaunch, Child, StartChild, ChildReturns, ChildFails, AnnounceChild, receiveSignal,
     SignalRead, WorkingTimeout, handleDone, runDoneSweep, Close

LEMMA SnapTyped == Typed /\ Next => snap' \in SnapRecs
<1> SUFFICES ASSUME Typed, Next PROVE snap' \in SnapRecs
  OBVIOUS
<1>1. CASE StartCompare
  BY <1>1, Named DEF StartCompare, Typed, HubRecs, SnapRecs
<1>2. CASE UNCHANGED snap
  BY <1>2 DEF Typed
<1> QED
  BY <1>1, <1>2 DEF Next, Round, Publish, WakeNote, retireObsoleteWorkingWatches, Diff, EnterLaunch,
     PlanLaunch, MarkLaunch, spawnTrackedLaunch, Child, StartChild, ChildReturns, ChildFails, AnnounceChild,
     receiveSignal, SignalRead, WorkingTimeout, handleDone, runDoneSweep, Close

\* The end of a round.
LEMMA EndWell ==
    ASSUME Typed, NEW ds, ds \subseteq DoneRecs, EndRound(ds)
    PROVE  /\ round' \in RoundRecs /\ Planning'
           /\ dones' \subseteq DoneRecs
           /\ lane.closed => \A d \in dones' : d.stage # "timer"
<1>1. round' \in RoundRecs /\ Planning'
  BY Named DEF EndRound, IdleRound, RoundRecs, Planning
<1> DEFINE after(x) == IF x.stage = "carried" THEN [x EXCEPT !.stage = IF snap.to = x.wf THEN "timer" ELSE "over"]
                       ELSE IF x.stage = "carried again" THEN [x EXCEPT !.stage = "over"] ELSE x
<1>2. dones' = {d \in {after(x) : x \in ds} : d.stage # "over" /\ (d.stage = "timer" => ~lane.closed)}
  BY DEF EndRound
<1>3. \A x \in ds : after(x) \in DoneRecs
  BY Named DEF DoneRecs
<1> HIDE DEF after
<1> QED
  BY <1>1, <1>2, <1>3

LEMMA RoundTyped == Typed /\ Planning /\ Next => round' \in RoundRecs /\ Planning'
<1> SUFFICES ASSUME Typed, Planning, Next PROVE round' \in RoundRecs /\ Planning'
  OBVIOUS
<1>0. /\ round \in RoundRecs /\ hub \in HubRecs /\ sweeps \in SweepRecs /\ lane \in LaneRecs /\ dones \subseteq DoneRecs
      /\ sweeps.barrier \in Nat /\ sweeps.last \in Nat /\ hub.ver \in Nat /\ hub.ver + 1 \in Nat /\ hub.note \in Nat
      /\ hub.to \in Roles /\ lane.watch \in Fuses
  BY DEF Typed, SweepRecs, HubRecs, LaneRecs
<1>1. CASE UNCHANGED round
  BY <1>0, <1>1 DEF Planning
<1>2. CASE EndRound(dones)
  BY <1>0, <1>2, EndWell
<1>3. CASE StartCompare
  <2> DEFINE s == [to |-> hub.to, ver |-> hub.ver]
             kept == [r \in Roles |-> IF r = s.to THEN lane.watch[r] ELSE NoLaunch]
             look == ToRead(kept, s)
             edge == snap.to # s.to
             woken == snap.to # "none" /\ hub.note > snap.ver
             step == IF look = {} THEN "diff" ELSE "retire"
             key == IF look = {} THEN "none" ELSE s.to
             seen == IF look = {} THEN NoLaunch ELSE kept[s.to]
             role == IF snap.to # "none" /\ (edge \/ woken) THEN s.to ELSE "none"
             wake == IF woken THEN hub.note ELSE 0
             base == s.ver
  <2>1. round' = [IdleRound EXCEPT !.step = step, !.key = key, !.seen = seen, !.role = role,
                                   !.wake = wake, !.base = base]
    BY <1>3, Zenon DEF StartCompare
  <2>2. kept \in Fuses
    BY <1>0, Named DEF Fuses
  <2>3. /\ step \in {"diff", "retire"} /\ key \in MaybeRole /\ seen \in MaybeLaunch
        /\ role \in MaybeRole /\ wake \in Nat /\ base \in Nat
    <3>1. s.to \in Roles /\ s.ver \in Nat /\ kept[s.to] \in MaybeLaunch
      BY <1>0, <2>2 DEF Fuses
    <3> HIDE DEF s, kept, look, edge, woken
    <3> QED
      BY <1>0, <3>1, Named
  <2> HIDE DEF s, kept, look, edge, step, key, seen, woken, role, wake, base
  <2> QED
    BY <1>0, <2>1, <2>3, Named DEF IdleRound, RoundRecs, Planning
<1>4. CASE retireObsoleteWorkingWatches
  BY <1>0, <1>4, Named DEF retireObsoleteWorkingWatches, RoundRecs, Planning
<1>5. CASE Diff
  BY <1>0, <1>2, <1>5, Named DEF Diff, RoundRecs, Planning, MaybeRole
<1>6. CASE EnterLaunch
  BY <1>0, <1>2, <1>6, Named DEF EnterLaunch, RoundRecs, Planning
<1>7. CASE PlanLaunch
  BY <1>0, <1>2, <1>7, Named DEF PlanLaunch, RoundRecs, Planning
<1>8. CASE MarkLaunch
  BY <1>0, <1>2, <1>8, Named DEF MarkLaunch, RoundRecs, Planning
<1>9. CASE spawnTrackedLaunch
  BY <1>2, <1>9 DEF spawnTrackedLaunch
<1> QED
  BY <1>1, <1>3, <1>4, <1>5, <1>6, <1>7, <1>8, <1>9 DEF Next, Round, Publish, WakeNote, Child, StartChild,
     ChildReturns, ChildFails, AnnounceChild, receiveSignal, SignalRead, WorkingTimeout, handleDone,
     runDoneSweep, Close
-----------------------------------------------------------------------------
(***************************************************************************)
(* The chains.  k and c stand for kid and chain, before or after a step.   *)
(***************************************************************************)
Waiting == {"queued", "running", "returned"}
Kids == [Launches -> KidRecs]
Chains == [Roles -> Seq(Launches)]

UsedIn(k) == {n \in Launches : k[n].phase # "none"}
Numbered(k) == \E last \in 0..MaxLaunches : UsedIn(k) = 1..last
Seated(k) == \A n \in UsedIn(k) : k[n].role \in Roles

LineUp(k, c) ==
    \A r \in Roles :
      /\ \A i \in 1..Len(c[r]) : /\ k[c[r][i]].role = r /\ k[c[r][i]].phase \in Waiting
                                 /\ i # 1 => k[c[r][i]].phase = "queued"
      /\ \A i, j \in 1..Len(c[r]) : i < j => c[r][i] < c[r][j]

InLine(k, c) == \A n \in Launches : k[n].phase \in Waiting =>
                    \E i \in 1..Len(c[k[n].role]) : c[k[n].role][i] = n

ChainWell(k, c) == Numbered(k) /\ Seated(k) /\ LineUp(k, c) /\ InLine(k, c)

\* A launch that is past its queue is at the head of its chain.
LEMMA HeadIsUp ==
    ASSUME NEW k \in Kids, NEW c \in Chains, ChainWell(k, c), NEW n \in Launches,
           k[n].phase \in {"running", "returned"}
    PROVE  /\ k[n].role \in Roles /\ c[k[n].role] # <<>> /\ Head(c[k[n].role]) = n
<1> DEFINE r == k[n].role
<1>1. r \in Roles
  BY DEF ChainWell, Seated, UsedIn, Kids
<1>2. c[r] \in Seq(Launches)
  BY <1>1 DEF Chains
<1>3. PICK i \in 1..Len(c[r]) : c[r][i] = n
  BY DEF ChainWell, InLine, Waiting
<1>4. i = 1
  BY <1>1, <1>3 DEF ChainWell, LineUp
<1> QED
  BY <1>1, <1>2, <1>3, <1>4, EmptySeq, HeadTailProperties

\* A launch is only in phase none or over, or waits, and nothing else.
LEMMA PhaseKinds == ASSUME NEW k \in Kids, NEW n \in Launches
                    PROVE  k[n].phase \in {"none", "over"} \cup Waiting
BY DEF Kids, KidRecs, Phases, Waiting

\* One launch changes its phase within the line.
LEMMA PhaseWell ==
    ASSUME NEW k \in Kids, NEW c \in Chains, ChainWell(k, c), NEW n \in Launches, NEW k2 \in Kids,
           k[n].phase \in Waiting, Head(c[k[n].role]) = n, c[k[n].role] # <<>>,
           \A m \in Launches : k2[m].role = k[m].role /\ (m # n => k2[m].phase = k[m].phase),
           k2[n].phase \in Waiting
    PROVE  ChainWell(k2, c)
<1> DEFINE r == k[n].role
<1>0. n \in UsedIn(k) /\ r \in Roles
  BY DEF ChainWell, Seated, UsedIn, Waiting
<1>1. UsedIn(k2) = UsedIn(k)
  BY DEF UsedIn, Waiting
<1>2. c[r] \in Seq(Launches) /\ c[r][1] = n /\ Len(c[r]) \in Nat
  BY <1>0, HeadTailProperties, LenProperties DEF Chains
<1>3. ASSUME NEW q \in Roles, NEW i \in 1..Len(c[q])
      PROVE  c[q][i] \in Launches
  BY <1>3, ElementOfSeq DEF Chains
<1>4. LineUp(k2, c)
  <2> SUFFICES ASSUME NEW q \in Roles, NEW i \in 1..Len(c[q])
               PROVE  /\ k2[c[q][i]].role = q /\ k2[c[q][i]].phase \in Waiting
                      /\ i # 1 => k2[c[q][i]].phase = "queued"
    BY DEF ChainWell, LineUp
  <2>1. c[q][i] \in Launches /\ k[c[q][i]].role = q /\ k[c[q][i]].phase \in Waiting
        /\ (i # 1 => k[c[q][i]].phase = "queued")
    BY <1>3 DEF ChainWell, LineUp
  <2>2. CASE c[q][i] # n
    BY <2>1, <2>2
  <2>3. CASE c[q][i] = n
    <3>1. q = r
      BY <2>1, <2>3
    <3>2. i \in Nat /\ 1 \in 1..Len(c[r]) /\ (1 < i => c[r][1] < c[r][i])
      BY <3>1, <1>0, <1>2 DEF ChainWell, LineUp
    <3>3. i = 1
      BY <3>1, <3>2, <1>2, <2>3, Numbers
    <3> QED
      BY <2>1, <2>3, <3>3
  <2> QED
    BY <2>2, <2>3
<1>5. InLine(k2, c)
  BY DEF ChainWell, InLine
<1> QED
  <2>1. Numbered(k2)
    BY <1>1 DEF ChainWell, Numbered
  <2>2. Seated(k2)
    BY <1>1 DEF ChainWell, Seated, UsedIn
  <2> QED
    BY <1>4, <1>5, <2>1, <2>2 DEF ChainWell

\* The head leaves the line.
LEMMA TailWell ==
    ASSUME NEW k \in Kids, NEW c \in Chains, ChainWell(k, c), NEW n \in Launches, NEW k2 \in Kids,
           k[n].phase \in Waiting, Head(c[k[n].role]) = n, c[k[n].role] # <<>>,
           \A m \in Launches : k2[m].role = k[m].role /\ (m # n => k2[m].phase = k[m].phase),
           k2[n].phase = "over"
    PROVE  LET c2 == [c EXCEPT ![k[n].role] = Tail(c[k[n].role])]
           IN  c2 \in Chains /\ ChainWell(k2, c2)
<1> DEFINE r == k[n].role
           c2 == [c EXCEPT ![r] = Tail(c[r])]
<1>0. n \in UsedIn(k) /\ r \in Roles
  BY DEF ChainWell, Seated, UsedIn, Waiting
<1>1. UsedIn(k2) = UsedIn(k)
  BY DEF UsedIn, Waiting
<1>2. /\ c[r] \in Seq(Launches) /\ c[r][1] = n /\ Len(c[r]) \in Nat /\ Len(c[r]) > 0
      /\ Tail(c[r]) \in Seq(Launches) /\ Len(Tail(c[r])) = Len(c[r]) - 1
      /\ \A i \in 1..Len(c[r]) - 1 : Tail(c[r])[i] = c[r][i + 1]
  BY <1>0, HeadTailProperties, LenProperties, EmptySeq DEF Chains
<1>3. c2 \in Chains /\ c2[r] = Tail(c[r]) /\ \A q \in Roles : q # r => c2[q] = c[q]
  BY <1>0, <1>2 DEF Chains
<1> HIDE DEF c2
<1>4. \A q \in Roles : \A i \in 1..Len(c2[q]) :
         \E j \in 1..Len(c[q]) : /\ c2[q][i] = c[q][j] /\ c[q][j] \in Launches /\ c[q][j] # n
                                 /\ j = IF q = r THEN i + 1 ELSE i
  <2> SUFFICES ASSUME NEW q \in Roles, NEW i \in 1..Len(c2[q])
               PROVE  \E j \in 1..Len(c[q]) : /\ c2[q][i] = c[q][j] /\ c[q][j] \in Launches /\ c[q][j] # n
                                              /\ j = IF q = r THEN i + 1 ELSE i
    OBVIOUS
  <2>1. CASE q = r
    <3>1. i + 1 \in 1..Len(c[r]) /\ c2[r][i] = c[r][i + 1] /\ 1 < i + 1 /\ 1 \in 1..Len(c[r])
      <4>1. i \in 1..(Len(c[r]) - 1)
        BY <1>2, <1>3, <2>1
      <4>2. c2[r][i] = c[r][i + 1]
        BY <1>2, <1>3, <4>1
      <4> QED
        BY <1>2, <4>1, <4>2
    <3>2. c[r][1] < c[r][i + 1]
      BY <1>0, <3>1 DEF ChainWell, LineUp
    <3>3. c[r][i + 1] \in Launches
      BY <1>2, <3>1, ElementOfSeq
    <3> QED
      <4>1. c[r][i + 1] # n
        BY <1>2, <3>2, Numbers
      <4> QED
        BY <2>1, <3>1, <3>3, <4>1
  <2>2. CASE q # r
    <3>1. c2[q] = c[q] /\ k[c[q][i]].role = q /\ c[q][i] \in Launches
      BY <1>3, <2>2, ElementOfSeq DEF ChainWell, LineUp, Chains
    <3> QED
      BY <2>2, <3>1
  <2> QED
    BY <2>1, <2>2
<1>5. LineUp(k2, c2)
  <2> SUFFICES ASSUME NEW q \in Roles
               PROVE  /\ \A i \in 1..Len(c2[q]) : /\ k2[c2[q][i]].role = q /\ k2[c2[q][i]].phase \in Waiting
                                                  /\ i # 1 => k2[c2[q][i]].phase = "queued"
                      /\ \A i, j \in 1..Len(c2[q]) : i < j => c2[q][i] < c2[q][j]
    BY DEF LineUp
  <2>1. ASSUME NEW i \in 1..Len(c2[q])
        PROVE  /\ k2[c2[q][i]].role = q /\ k2[c2[q][i]].phase \in Waiting
               /\ i # 1 => k2[c2[q][i]].phase = "queued"
    <3>1. PICK j \in 1..Len(c[q]) : /\ c2[q][i] = c[q][j] /\ c[q][j] \in Launches /\ c[q][j] # n
                                    /\ j = IF q = r THEN i + 1 ELSE i
      BY <1>4
    <3>2. i # 1 => j # 1
      BY <3>1, <1>3, <1>2, LenProperties DEF Chains
    <3> QED
      BY <3>1, <3>2 DEF ChainWell, LineUp
  <2>2. ASSUME NEW i \in 1..Len(c2[q]), NEW j \in 1..Len(c2[q]), i < j
        PROVE  c2[q][i] < c2[q][j]
    <3>1. PICK a \in 1..Len(c[q]) : c2[q][i] = c[q][a] /\ a = IF q = r THEN i + 1 ELSE i
      BY <1>4
    <3>2. PICK b \in 1..Len(c[q]) : c2[q][j] = c[q][b] /\ b = IF q = r THEN j + 1 ELSE j
      BY <1>4
    <3>3. a < b
      BY <2>2, <3>1, <3>2
    <3> QED
      BY <3>1, <3>2, <3>3 DEF ChainWell, LineUp
  <2> QED
    BY <2>1, <2>2
<1>6. InLine(k2, c2)
  <2> SUFFICES ASSUME NEW m \in Launches, k2[m].phase \in Waiting
               PROVE  \E i \in 1..Len(c2[k2[m].role]) : c2[k2[m].role][i] = m
    BY DEF InLine
  <2>1. m # n /\ k[m].phase \in Waiting /\ k2[m].role = k[m].role /\ k[m].role \in Roles
    BY DEF Waiting, ChainWell, Seated, UsedIn
  <2>2. PICK i \in 1..Len(c[k[m].role]) : c[k[m].role][i] = m
    BY <2>1 DEF ChainWell, InLine
  <2>3. CASE k[m].role # r
    BY <1>3, <2>1, <2>2, <2>3
  <2>4. CASE k[m].role = r
    <3>1. i # 1
      BY <1>2, <2>1, <2>2, <2>4
    <3>2. i - 1 \in 1..Len(c[r]) - 1 /\ (i - 1) + 1 = i
      BY <3>1, <2>2, <2>4, <1>2
    <3>3. c2[r][i - 1] = m /\ i - 1 \in 1..Len(c2[r])
      BY <1>2, <1>3, <2>2, <2>4, <3>2
    <3> QED
      BY <3>3, <2>1, <2>4
  <2> QED
    BY <2>3, <2>4
<1>7. ChainWell(k2, c2)
  <2>1. Numbered(k2)
    BY <1>1 DEF ChainWell, Numbered
  <2>2. Seated(k2)
    BY <1>1 DEF ChainWell, Seated, UsedIn
  <2> QED
    BY <1>5, <1>6, <2>1, <2>2 DEF ChainWell
<1> QED
  BY <1>3, <1>7 DEF c2

\* A new launch goes to the end.
LEMMA AppendWell ==
    ASSUME NEW k \in Kids, NEW c \in Chains, ChainWell(k, c), UsedIn(k) # Launches,
           NEW rec \in KidRecs, rec.phase = "queued", rec.role \in Roles,
           NEW n, n = Cardinality(UsedIn(k)) + 1
    PROVE  LET k2 == [k EXCEPT ![n] = rec]
               c2 == [c EXCEPT ![rec.role] = Append(c[rec.role], n)]
           IN  /\ n \in Launches /\ k[n].phase = "none"
               /\ k2 \in Kids /\ c2 \in Chains /\ ChainWell(k2, c2)
<1> DEFINE k2 == [k EXCEPT ![n] = rec]
           r == rec.role
           c2 == [c EXCEPT ![r] = Append(c[r], n)]
<1>1. PICK last \in 0..MaxLaunches : UsedIn(k) = 1..last
  BY DEF ChainWell, Numbered
<1>2. n = last + 1
  <2>1. Cardinality(1..last) = last
    <3>1. 1 \in Int /\ last \in Int /\ last \in Nat
      BY <1>1, Numbers
    <3>2. Cardinality(1..last) = IF 1 > last THEN 0 ELSE last - 1 + 1
      BY <3>1, FS_Interval
    <3> QED
      BY <3>1, <3>2
  <2> QED
    BY <1>1, <2>1
<1>3. n \in Launches /\ last + 1 \in 0..MaxLaunches /\ last \in Nat
  <2>1. last # MaxLaunches
    BY <1>1 DEF Launches
  <2> QED
    BY <1>1, <1>2, <2>1, Numbers DEF Launches
<1>4. n \notin UsedIn(k) /\ k[n].phase = "none"
  <2>1. n \notin UsedIn(k)
    BY <1>1, <1>2, <1>3
  <2> QED
    BY <1>3, <2>1 DEF UsedIn
<1>5. k2 \in Kids /\ k2[n] = rec /\ \A m \in Launches : m # n => k2[m] = k[m]
  BY <1>3 DEF Kids
<1>6. /\ c[r] \in Seq(Launches) /\ Len(c[r]) \in Nat
      /\ Append(c[r], n) \in Seq(Launches) /\ Len(Append(c[r], n)) = Len(c[r]) + 1
      /\ Append(c[r], n)[Len(c[r]) + 1] = n
      /\ \A i \in 1..Len(c[r]) : Append(c[r], n)[i] = c[r][i]
  BY <1>3, AppendProperties, LenProperties DEF Chains
<1>7. c2 \in Chains /\ c2[r] = Append(c[r], n) /\ \A q \in Roles : q # r => c2[q] = c[q]
  BY <1>6 DEF Chains
<1> HIDE DEF k2, c2
<1>8. UsedIn(k2) = UsedIn(k) \cup {n}
  BY <1>3, <1>5 DEF UsedIn
<1>9. Numbered(k2)
  <2>1. UsedIn(k2) = 1..(last + 1)
    BY <1>1, <1>2, <1>3, <1>8
  <2> QED
    BY <1>3, <2>1 DEF Numbered
<1>10. Seated(k2)
  BY <1>3, <1>4, <1>5, <1>8 DEF ChainWell, Seated, UsedIn
<1>11. \A q \in Roles : \A i \in 1..Len(c[q]) :
          c[q][i] \in Launches /\ c[q][i] # n /\ c[q][i] < n /\ k2[c[q][i]] = k[c[q][i]]
  <2> SUFFICES ASSUME NEW q \in Roles, NEW i \in 1..Len(c[q])
               PROVE  c[q][i] \in Launches /\ c[q][i] # n /\ c[q][i] < n /\ k2[c[q][i]] = k[c[q][i]]
    OBVIOUS
  <2>1. c[q][i] \in Launches
    BY ElementOfSeq DEF Chains
  <2>2. c[q][i] \in UsedIn(k)
    BY <2>1 DEF ChainWell, LineUp, UsedIn, Waiting
  <2>3. c[q][i] \in Nat /\ c[q][i] < n
    BY <1>1, <1>2, <1>3, <2>2
  <2> QED
    BY <1>4, <1>5, <2>1, <2>2, <2>3
<1>12. LineUp(k2, c2)
  <2> SUFFICES ASSUME NEW q \in Roles
               PROVE  /\ \A i \in 1..Len(c2[q]) : /\ k2[c2[q][i]].role = q /\ k2[c2[q][i]].phase \in Waiting
                                                  /\ i # 1 => k2[c2[q][i]].phase = "queued"
                      /\ \A i, j \in 1..Len(c2[q]) : i < j => c2[q][i] < c2[q][j]
    BY DEF LineUp
  <2>1. CASE q # r
    <3>1. c2[q] = c[q]
      BY <1>7, <2>1
    <3> QED
      BY <3>1, <1>11 DEF ChainWell, LineUp
  <2>2. CASE q = r
    <3>1. ASSUME NEW i \in 1..Len(c2[r])
          PROVE  (i \in 1..Len(c[r]) /\ c2[r][i] = c[r][i]) \/ (i = Len(c[r]) + 1 /\ c2[r][i] = n)
      BY <1>6, <1>7
    <3>2. ASSUME NEW i \in 1..Len(c2[r])
          PROVE  /\ k2[c2[r][i]].role = r /\ k2[c2[r][i]].phase \in Waiting
                 /\ i # 1 => k2[c2[r][i]].phase = "queued"
      <4>1. CASE i \in 1..Len(c[r]) /\ c2[r][i] = c[r][i]
        BY <1>11, <4>1 DEF ChainWell, LineUp
      <4>2. CASE c2[r][i] = n
        BY <1>5, <4>2 DEF Waiting
      <4> QED
        BY <3>1, <4>1, <4>2
    <3>3. ASSUME NEW i \in 1..Len(c2[r]), NEW j \in 1..Len(c2[r]), i < j
          PROVE  c2[r][i] < c2[r][j]
      <4>1. i \in 1..Len(c[r]) /\ c2[r][i] = c[r][i]
        BY <3>1, <3>3, <1>6, <1>7
      <4>2. CASE j \in 1..Len(c[r]) /\ c2[r][j] = c[r][j]
        BY <3>3, <4>1, <4>2 DEF ChainWell, LineUp
      <4>3. CASE c2[r][j] = n
        BY <4>1, <4>3, <1>11
      <4> QED
        BY <3>1, <4>2, <4>3
    <3> QED
      BY <2>2, <3>2, <3>3
  <2> QED
    BY <2>1, <2>2
<1>13. InLine(k2, c2)
  <2> SUFFICES ASSUME NEW m \in Launches, k2[m].phase \in Waiting
               PROVE  \E i \in 1..Len(c2[k2[m].role]) : c2[k2[m].role][i] = m
    BY DEF InLine
  <2>1. CASE m = n
    <3>1. Len(c[r]) + 1 \in 1..Len(c2[r]) /\ c2[r][Len(c[r]) + 1] = n /\ k2[m].role = r
      BY <1>5, <1>6, <1>7, <2>1
    <3> QED
      BY <2>1, <3>1
  <2>2. CASE m # n
    <3>1. k2[m] = k[m] /\ k[m].role \in Roles
      BY <1>5, <2>2 DEF Waiting, ChainWell, Seated, UsedIn
    <3>2. PICK i \in 1..Len(c[k[m].role]) : c[k[m].role][i] = m
      BY <3>1 DEF ChainWell, InLine
    <3>3. CASE k[m].role # r
      BY <1>7, <3>1, <3>2, <3>3
    <3>4. CASE k[m].role = r
      <4>1. i \in 1..Len(c2[r]) /\ c2[r][i] = m
        BY <1>6, <1>7, <3>2, <3>4
      <4> QED
        BY <3>1, <3>4, <4>1
    <3> QED
      BY <3>3, <3>4
  <2> QED
    BY <2>1, <2>2
<1>14. ChainWell(k2, c2)
  BY <1>9, <1>10, <1>12, <1>13 DEF ChainWell
<1> QED
  BY <1>3, <1>4, <1>5, <1>7, <1>14 DEF k2, c2

\* Who is in order: the property from the chains.
LEMMA OrderFollows == ASSUME kid \in Kids, chain \in Chains, ChainWell(kid, chain) PROVE ChildrenInOrder
<1> SUFFICES ASSUME NEW m \in Launches, NEW n \in Launches, m < n, kid[m].role = kid[n].role,
                    kid[n].phase \in {"running", "returned"}
             PROVE  kid[m].phase = "over"
  BY DEF ChildrenInOrder
<1> DEFINE r == kid[n].role
<1>1. r \in Roles /\ chain[r] # <<>> /\ Head(chain[r]) = n
  BY HeadIsUp
<1>2. chain[r] \in Seq(Launches) /\ Len(chain[r]) \in Nat /\ Len(chain[r]) > 0 /\ chain[r][1] = n
  BY <1>1, HeadTailProperties, LenProperties, EmptySeq DEF Chains
<1>3. kid[m].phase # "none"
  <2>1. PICK last \in 0..MaxLaunches : UsedIn(kid) = 1..last
    BY DEF ChainWell, Numbered
  <2>2. n \in 1..last
    BY <2>1 DEF UsedIn
  <2>3. m \in 1..last
    <3>1. m \in Nat /\ m # 0 /\ n \in Nat /\ last \in Nat
      BY <2>1, Numbers
    <3> QED
      BY <2>2, <3>1
  <2> QED
    BY <2>1, <2>3 DEF UsedIn
<1>4. kid[m].phase \notin Waiting
  <2> SUFFICES ASSUME kid[m].phase \in Waiting PROVE FALSE
    OBVIOUS
  <2>1. PICK i \in 1..Len(chain[r]) : chain[r][i] = m
    BY DEF ChainWell, InLine
  <2>2. i # 1 /\ 1 < i /\ 1 \in 1..Len(chain[r])
    BY <2>1, <1>2, Numbers
  <2>3. chain[r][1] < chain[r][i]
    BY <1>1, <2>1, <2>2 DEF ChainWell, LineUp
  <2> QED
    BY <1>2, <2>1, <2>3, Numbers
<1> QED
  BY <1>3, <1>4, PhaseKinds
-----------------------------------------------------------------------------
\* What a step does to a launch that is there: who it is stays, and what it is queued behind.
KidsKeep == \A m \in Launches : /\ kid'[m].role = kid[m].role /\ kid'[m].v = kid[m].v
                                /\ kid'[m].owed = kid[m].owed

LEMMA ReturnMoves ==
    ASSUME kid \in Kids, NEW n \in Launches, NEW p \in Phases, kid' = [kid EXCEPT ![n].phase = p]
    PROVE  /\ kid' \in Kids /\ KidsKeep /\ kid'[n].phase = p /\ kid'[n].archived = kid[n].archived
           /\ \A m \in Launches : m # n => kid'[m] = kid[m]
<1>1. \A k \in KidRecs : /\ [k EXCEPT !.phase = p] \in KidRecs /\ [k EXCEPT !.phase = p].phase = p
                         /\ [k EXCEPT !.phase = p].role = k.role /\ [k EXCEPT !.phase = p].v = k.v
                         /\ [k EXCEPT !.phase = p].owed = k.owed /\ [k EXCEPT !.phase = p].archived = k.archived
  BY DEF KidRecs
<1>2. kid' \in [Launches -> KidRecs] /\ kid'[n] = [kid[n] EXCEPT !.phase = p]
      /\ \A m \in Launches : m # n => kid'[m] = kid[m]
  BY <1>1 DEF Kids
<1>3. kid[n] \in KidRecs
  BY DEF Kids
<1>4. /\ kid'[n].phase = p /\ kid'[n].archived = kid[n].archived
      /\ kid'[n].role = kid[n].role /\ kid'[n].v = kid[n].v /\ kid'[n].owed = kid[n].owed
  BY <1>1, <1>2, <1>3
<1>5. KidsKeep
  <2> SUFFICES ASSUME NEW m \in Launches
               PROVE  kid'[m].role = kid[m].role /\ kid'[m].v = kid[m].v /\ kid'[m].owed = kid[m].owed
    BY DEF KidsKeep
  <2> QED
    BY <1>2, <1>4
<1> QED
  BY <1>2, <1>4, <1>5 DEF Kids

LEMMA StartMoves ==
    ASSUME kid \in Kids, NEW n \in Launches, StartChild(n)
    PROVE  /\ kid[n].phase = "queued" /\ Head(chain[kid[n].role]) = n
           /\ kid' \in Kids /\ KidsKeep
           /\ \A m \in Launches : m # n => kid'[m] = kid[m]
           /\ \/ kid'[n].phase = "over" /\ Unchain(n) /\ lane.closed /\ UNCHANGED lane /\ kid'[n].archived = kid[n].archived
              \/ /\ kid'[n].phase = "running" /\ UNCHANGED chain /\ ~lane.closed
                 /\ lane' = [lane EXCEPT !.inflight[kid[n].role] = n]
                 /\ kid'[n].archived = (kid[n].owed = NoSweep \/ (kid[n].owed..sweeps.last) \ sweeps.running # {})
<1>1. CASE lane.closed
  <2>1. kid' = [kid EXCEPT ![n].phase = "over"] /\ Unchain(n) /\ UNCHANGED lane
    BY <1>1 DEF StartChild
  <2>2. "over" \in Phases
    BY Named
  <2>3. /\ kid' \in Kids /\ KidsKeep /\ kid'[n].phase = "over" /\ kid'[n].archived = kid[n].archived
        /\ \A m \in Launches : m # n => kid'[m] = kid[m]
    BY <2>1, <2>2, ReturnMoves
  <2> QED
    BY <1>1, <2>1, <2>3 DEF StartChild, PreviousOver
<1>2. CASE ~lane.closed
  <2> DEFINE done == kid[n].owed = NoSweep \/ (kid[n].owed..sweeps.last) \ sweeps.running # {}
  <2>1. PICK b \in BOOLEAN : b = done
    OBVIOUS
  <2>2. kid' = [kid EXCEPT ![n].phase = "running", ![n].archived = done]
    BY <1>2 DEF StartChild
  <2> HIDE DEF done
  <2>3. \A k \in KidRecs : /\ [k EXCEPT !.phase = "running", !.archived = b] \in KidRecs
                           /\ [k EXCEPT !.phase = "running", !.archived = b].phase = "running"
                           /\ [k EXCEPT !.phase = "running", !.archived = b].archived = b
                           /\ [k EXCEPT !.phase = "running", !.archived = b].role = k.role
                           /\ [k EXCEPT !.phase = "running", !.archived = b].v = k.v
                           /\ [k EXCEPT !.phase = "running", !.archived = b].owed = k.owed
    BY Named DEF KidRecs
  <2>4. kid' \in [Launches -> KidRecs] /\ kid'[n] = [kid[n] EXCEPT !.phase = "running", !.archived = b]
        /\ \A m \in Launches : m # n => kid'[m] = kid[m]
    BY <2>1, <2>2, <2>3 DEF Kids
  <2>5. /\ kid'[n].phase = "running" /\ kid'[n].archived = b
        /\ kid'[n].role = kid[n].role /\ kid'[n].v = kid[n].v /\ kid'[n].owed = kid[n].owed
    <3>1. kid[n] \in KidRecs
      BY DEF Kids
    <3> QED
      BY <2>3, <2>4, <3>1
  <2>6. KidsKeep
    <3> SUFFICES ASSUME NEW m \in Launches
                 PROVE  kid'[m].role = kid[m].role /\ kid'[m].v = kid[m].v /\ kid'[m].owed = kid[m].owed
      BY DEF KidsKeep
    <3> QED
      BY <2>4, <2>5
  <2>7. kid' \in Kids /\ kid'[n].archived = done
    BY <2>1, <2>4, <2>5 DEF Kids
  <2> QED
    BY <1>2, <2>4, <2>5, <2>6, <2>7 DEF StartChild, PreviousOver, done
<1> QED
  BY <1>1, <1>2

LEMMA SignalMoves ==
    ASSUME kid \in Kids, NEW n \in Launches, NEW sig \in Signals, kid' = [kid EXCEPT ![n].sent = kid[n].sent \cup {sig}]
    PROVE  /\ kid' \in Kids /\ KidsKeep
           /\ \A m \in Launches : kid'[m].phase = kid[m].phase /\ kid'[m].archived = kid[m].archived
<1>1. \A k \in KidRecs, t \in SUBSET Signals :
         LET e == [k EXCEPT !.sent = t] IN
         /\ e \in KidRecs /\ e.role = k.role /\ e.v = k.v /\ e.owed = k.owed
         /\ e.phase = k.phase /\ e.archived = k.archived
  BY DEF KidRecs
<1>2. kid[n] \in KidRecs /\ kid[n].sent \cup {sig} \in SUBSET Signals
  BY DEF Kids, KidRecs
<1>3. kid' \in [Launches -> KidRecs] /\ kid'[n] = [kid[n] EXCEPT !.sent = kid[n].sent \cup {sig}]
      /\ \A m \in Launches : m # n => kid'[m] = kid[m]
  BY <1>1, <1>2 DEF Kids
<1> QED
  BY <1>1, <1>2, <1>3 DEF Kids, KidsKeep

\* The launch a round has in hand is chained.
LEMMA SpawnMoves ==
    ASSUME Typed, Planning, ChainWell(kid, chain), spawnTrackedLaunch
    PROVE  \/ UNCHANGED <<kid, chain>> /\ lane.closed
           \/ \E n \in Launches, rec \in KidRecs :
                /\ ~lane.closed /\ kid[n].phase = "none"
                /\ rec = [role |-> round.role, v |-> round.base, phase |-> "queued",
                          owed |-> round.owed, archived |-> TRUE, sent |-> {}]
                /\ kid' = [kid EXCEPT ![n] = rec]
                /\ kid' \in Kids /\ kid'[n] = rec /\ (\A m \in Launches : m # n => kid'[m] = kid[m])
                /\ chain' \in Chains /\ ChainWell(kid', chain')
<1>1. CASE lane.closed
  BY <1>1 DEF spawnTrackedLaunch
<1>2. CASE ~lane.closed
  <2> DEFINE n == Cardinality(Used) + 1
             rec == [role |-> round.role, v |-> round.base, phase |-> "queued",
                     owed |-> round.owed, archived |-> TRUE, sent |-> {}]
  <2>1. kid' = [kid EXCEPT ![n] = rec] /\ chain' = [chain EXCEPT ![round.role] = Append(chain[round.role], n)]
    BY <1>2 DEF spawnTrackedLaunch
  <2>2. round.role \in Roles /\ round.base \in Nat /\ round.owed \in Nat
    BY DEF spawnTrackedLaunch, Planning, Typed, RoundRecs
  <2>3. rec \in KidRecs /\ rec.phase = "queued" /\ rec.role = round.role
    <3>1. {} \in SUBSET Signals /\ TRUE \in BOOLEAN
      OBVIOUS
    <3> QED
      BY <2>2, <3>1, Named DEF KidRecs
  <2>4. UsedIn(kid) = Used /\ Used # Launches
    BY DEF UsedIn, Used, spawnTrackedLaunch
  <2>5. kid \in Kids /\ chain \in Chains
    BY DEF Typed, Kids, Chains
  <2> HIDE DEF rec
  <2>6. PICK x : x = n
    OBVIOUS
  <2>7. /\ x \in Launches /\ kid[x].phase = "none"
        /\ [kid EXCEPT ![x] = rec] \in Kids
        /\ [chain EXCEPT ![rec.role] = Append(chain[rec.role], x)] \in Chains
        /\ ChainWell([kid EXCEPT ![x] = rec], [chain EXCEPT ![rec.role] = Append(chain[rec.role], x)])
    BY <2>2, <2>3, <2>4, <2>5, <2>6, AppendWell
  <2>8. kid' = [kid EXCEPT ![x] = rec] /\ chain' = [chain EXCEPT ![rec.role] = Append(chain[rec.role], x)]
    BY <2>1, <2>3, <2>6
  <2>9. kid'[x] = rec /\ \A m \in Launches : m # x => kid'[m] = kid[m]
    BY <2>5, <2>7, <2>8 DEF Kids
  <2>10. kid' \in Kids /\ chain' \in Chains /\ ChainWell(kid', chain')
    BY <2>7, <2>8
  <2>11. rec = [role |-> round.role, v |-> round.base, phase |-> "queued",
                owed |-> round.owed, archived |-> TRUE, sent |-> {}]
    BY DEF rec
  <2> QED
    BY <1>2, <2>3, <2>7, <2>8, <2>9, <2>10, <2>11
<1> QED
  BY <1>1, <1>2

\* Every step leaves the chains well.
LEMMA ChainStep ==
    ASSUME Typed, Planning, ChainWell(kid, chain), Next
    PROVE  kid' \in Kids /\ chain' \in Chains /\ ChainWell(kid', chain')
<1>0. kid \in Kids /\ chain \in Chains /\ lane \in LaneRecs
  BY DEF Typed, Kids, Chains
<1>1. CASE spawnTrackedLaunch
  BY <1>0, <1>1, SpawnMoves
<1>2. ASSUME NEW n \in Launches, StartChild(n)
      PROVE  kid' \in Kids /\ chain' \in Chains /\ ChainWell(kid', chain')
  <2>1. kid[n].phase \in Waiting /\ Head(chain[kid[n].role]) = n
    BY <1>0, <1>2, StartMoves DEF Waiting
  <2>2. chain[kid[n].role] # <<>>
    <3>1. \E i \in 1..Len(chain[kid[n].role]) : chain[kid[n].role][i] = n
      BY <2>1 DEF ChainWell, InLine
    <3>2. Len(<<>>) = 0
      BY EmptySeq
    <3> QED
      BY <3>1, <3>2
  <2>3. CASE kid'[n].phase = "over" /\ Unchain(n)
    <3>1. kid' \in Kids /\ kid'[n].phase = "over"
      BY <1>0, <1>2, <2>3, StartMoves
    <3>2. \A m \in Launches : kid'[m].role = kid[m].role /\ (m # n => kid'[m].phase = kid[m].phase)
      BY <1>0, <1>2, StartMoves DEF KidsKeep
    <3>3. chain' = [chain EXCEPT ![kid[n].role] = Tail(chain[kid[n].role])]
      BY <2>3 DEF Unchain
    <3>4. kid[n].phase \in Waiting
      BY <2>1
    <3>5. Head(chain[kid[n].role]) = n /\ chain[kid[n].role] # <<>>
      BY <2>1, <2>2
    <3> QED
      BY <1>0, <3>1, <3>2, <3>3, <3>4, <3>5, TailWell
  <2>4. CASE kid'[n].phase = "running" /\ UNCHANGED chain
    <3>1. ChainWell(kid', chain)
      BY <1>0, <1>2, <2>1, <2>2, <2>4, StartMoves, PhaseWell DEF KidsKeep, Waiting
    <3> QED
      BY <1>0, <1>2, <2>4, <3>1, StartMoves
  <2> QED
    BY <1>0, <1>2, <2>3, <2>4, StartMoves
<1>3. ASSUME NEW n \in Launches, ChildReturns(n)
      PROVE  kid' \in Kids /\ chain' \in Chains /\ ChainWell(kid', chain')
  <2>1. kid[n].phase = "running" /\ kid' = [kid EXCEPT ![n].phase = "returned"] /\ UNCHANGED chain
    BY <1>3 DEF ChildReturns
  <2>2. "returned" \in Phases /\ "returned" \in Waiting /\ kid[n].phase \in Waiting
    BY <2>1, Named DEF Waiting
  <2>3. Head(chain[kid[n].role]) = n /\ chain[kid[n].role] # <<>>
    BY <1>0, <2>1, HeadIsUp
  <2>4. ChainWell(kid', chain)
    <3>1. kid' \in Kids /\ kid'[n].phase = "returned"
      BY <1>0, <2>1, <2>2, ReturnMoves
    <3>2. \A m \in Launches : kid'[m].role = kid[m].role /\ (m # n => kid'[m].phase = kid[m].phase)
      BY <1>0, <2>1, <2>2, ReturnMoves DEF KidsKeep
    <3> QED
      BY <1>0, <2>2, <2>3, <3>1, <3>2, PhaseWell
  <2> QED
    BY <1>0, <2>1, <2>2, <2>4, ReturnMoves
<1>4. ASSUME NEW n \in Launches, ChildFails(n) \/ AnnounceChild(n)
      PROVE  kid' \in Kids /\ chain' \in Chains /\ ChainWell(kid', chain')
  <2>1. kid[n].phase \in {"running", "returned"} /\ kid' = [kid EXCEPT ![n].phase = "over"] /\ Unchain(n)
    BY <1>4 DEF ChildFails, AnnounceChild
  <2>2. "over" \in Phases /\ kid[n].phase \in Waiting
    BY <2>1, Named DEF Waiting
  <2>3. Head(chain[kid[n].role]) = n /\ chain[kid[n].role] # <<>>
    BY <1>0, <2>1, HeadIsUp
  <2> QED
    <3>1. kid' \in Kids /\ kid'[n].phase = "over"
      BY <1>0, <2>1, <2>2, ReturnMoves
    <3>2. \A m \in Launches : kid'[m].role = kid[m].role /\ (m # n => kid'[m].phase = kid[m].phase)
      BY <1>0, <2>1, <2>2, ReturnMoves DEF KidsKeep
    <3>3. chain' = [chain EXCEPT ![kid[n].role] = Tail(chain[kid[n].role])]
      BY <2>1 DEF Unchain
    <3> QED
      BY <1>0, <2>2, <2>3, <3>1, <3>2, <3>3, TailWell
<1>5. ASSUME NEW n \in Launches, NEW sig \in Signals, receiveSignal(n, sig)
      PROVE  kid' \in Kids /\ chain' \in Chains /\ ChainWell(kid', chain')
  <2>1. kid' = [kid EXCEPT ![n].sent = kid[n].sent \cup {sig}] /\ UNCHANGED chain
    BY <1>5 DEF receiveSignal
  <2>2. kid' \in Kids /\ \A m \in Launches : kid'[m].phase = kid[m].phase /\ kid'[m].role = kid[m].role
    BY <1>0, <2>1, SignalMoves DEF KidsKeep
  <2>3. UsedIn(kid') = UsedIn(kid)
    BY <2>2 DEF UsedIn
  <2>4. Numbered(kid')
    BY <2>3 DEF ChainWell, Numbered
  <2>5. Seated(kid')
    BY <2>2, <2>3 DEF ChainWell, Seated, UsedIn
  <2>6. LineUp(kid', chain)
    <3>1. \A q \in Roles : \A i \in 1..Len(chain[q]) : chain[q][i] \in Launches
      BY <1>0, ElementOfSeq DEF Chains
    <3> QED
      BY <2>2, <3>1 DEF ChainWell, LineUp
  <2>7. InLine(kid', chain)
    BY <2>2 DEF ChainWell, InLine
  <2> QED
    BY <1>0, <2>1, <2>2, <2>4, <2>5, <2>6, <2>7 DEF ChainWell
<1>6. CASE UNCHANGED <<kid, chain>>
  BY <1>0, <1>6
<1> QED
  BY <1>1, <1>2, <1>3, <1>4, <1>5, <1>6 DEF Next, Round, Publish, WakeNote, StartCompare,
     retireObsoleteWorkingWatches, Diff, EnterLaunch, PlanLaunch, MarkLaunch, Child, SignalRead, WorkingTimeout,
     handleDone, runDoneSweep, Close
-----------------------------------------------------------------------------
(***************************************************************************)
(* The handlers of signals: they may clear watches and record early        *)
(* signals, and then they are over, or wait for a log read.                *)
(***************************************************************************)
Loosens(l) ==
    /\ l \in LaneRecs /\ l.closed = lane.closed /\ l.inflight = lane.inflight
    /\ lane.working \subseteq l.working /\ lane.giveup \subseteq l.giveup
    /\ \A q \in Roles : l.watch[q] \in {lane.watch[q], NoLaunch}

HandlerEnds(rest, c) ==
    \/ /\ calls' = rest /\ Loosens(lane') /\ past' \in PastRecs /\ past'.plain = past.plain
       /\ past'.told = past.told \cup (IF c.counts THEN {c.of} ELSE {})
    \/ /\ UNCHANGED <<lane, past>>
       /\ \E d \in CallRecs : /\ d.of = c.of /\ d.counts = c.counts /\ d.role = c.role
                              /\ calls' = rest \cup {d}

LEMMA SameLoosens == lane \in LaneRecs => Loosens(lane)
BY DEF Loosens, LaneRecs

LEMMA WatchLoosens ==
    ASSUME lane \in LaneRecs, NEW r \in Roles
    PROVE  /\ Loosens(HitWatch(r)) /\ HitWatch(r).watch[r] = NoLaunch
           /\ HitWatch(r).working = lane.working /\ HitWatch(r).giveup = lane.giveup
<1>1. \A w \in Fuses : /\ [lane EXCEPT !.watch = w] \in LaneRecs /\ [lane EXCEPT !.watch = w].watch = w
                       /\ [lane EXCEPT !.watch = w].closed = lane.closed
                       /\ [lane EXCEPT !.watch = w].inflight = lane.inflight
                       /\ [lane EXCEPT !.watch = w].working = lane.working
                       /\ [lane EXCEPT !.watch = w].giveup = lane.giveup
  BY DEF LaneRecs
<1>2. lane.watch \in Fuses
  BY DEF LaneRecs
<1> DEFINE w == [lane.watch EXCEPT ![r] = NoLaunch]
<1>3. w \in Fuses /\ w[r] = NoLaunch /\ \A q \in Roles : w[q] \in {lane.watch[q], NoLaunch}
  BY <1>2, Named DEF Fuses
<1>4. HitWatch(r) = [lane EXCEPT !.watch = w]
  BY DEF HitWatch
<1> HIDE DEF w
<1> QED
  BY <1>1, <1>3, <1>4 DEF Loosens

LEMMA InFlightLoosens ==
    ASSUME lane \in LaneRecs, NEW c \in CallRecs
    PROVE  Loosens(HitInFlight(c)) /\ c.role \in HitInFlight(c).working \cup HitInFlight(c).giveup
<1>1. c.role \in Roles /\ lane.working \cup {c.role} \in SUBSET Roles /\ lane.giveup \cup {c.role} \in SUBSET Roles
  BY DEF CallRecs, LaneRecs
<1>2. \A s \in SUBSET Roles :
        /\ [lane EXCEPT !.working = s] \in LaneRecs /\ [lane EXCEPT !.giveup = s] \in LaneRecs
        /\ [lane EXCEPT !.working = s].working = s /\ [lane EXCEPT !.giveup = s].giveup = s
        /\ [lane EXCEPT !.working = s].giveup = lane.giveup /\ [lane EXCEPT !.giveup = s].working = lane.working
        /\ [lane EXCEPT !.working = s].watch = lane.watch /\ [lane EXCEPT !.giveup = s].watch = lane.watch
        /\ [lane EXCEPT !.working = s].inflight = lane.inflight /\ [lane EXCEPT !.giveup = s].inflight = lane.inflight
        /\ [lane EXCEPT !.working = s].closed = lane.closed /\ [lane EXCEPT !.giveup = s].closed = lane.closed
  BY DEF LaneRecs
<1>3. \/ HitInFlight(c) = [lane EXCEPT !.working = lane.working \cup {c.role}]
      \/ HitInFlight(c) = [lane EXCEPT !.giveup = lane.giveup \cup {c.role}]
  BY DEF HitInFlight
<1> QED
  <2> DEFINE w == lane.working \cup {c.role}
             g == lane.giveup \cup {c.role}
  <2>1. c.role \in w /\ c.role \in g /\ lane.working \subseteq w /\ lane.giveup \subseteq g
    OBVIOUS
  <2> HIDE DEF w, g
  <2>2. CASE HitInFlight(c) = [lane EXCEPT !.working = w]
    <3>1. w \in SUBSET Roles
      BY <1>1 DEF w
    <3> QED
      <4> DEFINE l == [lane EXCEPT !.working = w]
      <4>1. /\ l \in LaneRecs /\ l.working = w /\ l.giveup = lane.giveup /\ l.watch = lane.watch
            /\ l.inflight = lane.inflight /\ l.closed = lane.closed
        BY <1>2, <3>1
      <4>2. HitInFlight(c) = l
        BY <2>2
      <4> HIDE DEF l
      <4> QED
        BY <2>1, <4>1, <4>2 DEF Loosens
  <2>3. CASE HitInFlight(c) = [lane EXCEPT !.giveup = g]
    <3>1. g \in SUBSET Roles
      BY <1>1 DEF g
    <3> QED
      <4> DEFINE l == [lane EXCEPT !.giveup = g]
      <4>1. /\ l \in LaneRecs /\ l.giveup = g /\ l.working = lane.working /\ l.watch = lane.watch
            /\ l.inflight = lane.inflight /\ l.closed = lane.closed
        BY <1>2, <3>1
      <4>2. HitInFlight(c) = l
        BY <2>3
      <4> HIDE DEF l
      <4> QED
        BY <2>1, <4>1, <4>2 DEF Loosens
  <2> QED
    BY <1>3, <2>2, <2>3 DEF w, g

LEMMA OverEnds ==
    ASSUME past \in PastRecs, NEW rest, NEW c \in CallRecs, NEW l, Loosens(l), Over(rest, c, l)
    PROVE  HandlerEnds(rest, c)
<1> DEFINE t == past.told \cup (IF c.counts THEN {c.of} ELSE {})
<1>1. t \in SUBSET Launches
  BY DEF PastRecs, CallRecs
<1>2. past' = [past EXCEPT !.told = t] /\ calls' = rest /\ lane' = l
  BY DEF Over
<1> HIDE DEF t
<1>3. past' \in PastRecs /\ past'.told = t /\ past'.plain = past.plain
  BY <1>1, <1>2 DEF PastRecs
<1> QED
  BY <1>2, <1>3 DEF HandlerEnds, t

LEMMA ReadsEnds ==
    ASSUME NEW rest, NEW c \in CallRecs, NEW where \in {"watch", "inflight"}, NEW n \in MaybeLaunch,
           Reads(rest, c, where, n)
    PROVE  HandlerEnds(rest, c)
<1> DEFINE d == [c EXCEPT !.at = where, !.seen = n]
<1>1. d \in CallRecs /\ d.of = c.of /\ d.counts = c.counts /\ d.role = c.role
  BY DEF CallRecs
<1>2. calls' = rest \cup {d} /\ UNCHANGED <<lane, past>>
  BY DEF Reads
<1> HIDE DEF d
<1> QED
  BY <1>1, <1>2 DEF HandlerEnds

LEMMA InFlightEnds ==
    ASSUME Typed, NEW rest, NEW c \in CallRecs, inFlightLaunchForEvent(rest, c)
    PROVE  HandlerEnds(rest, c)
<1>0. lane \in LaneRecs /\ past \in PastRecs /\ c.role \in Roles /\ lane.inflight[c.role] \in MaybeLaunch
  BY DEF Typed, LaneRecs, Fuses, CallRecs
<1>1. \/ Over(rest, c, lane)
      \/ Reads(rest, c, "inflight", lane.inflight[c.role])
      \/ Over(rest, c, HitInFlight(c))
  BY DEF inFlightLaunchForEvent
<1> QED
  BY <1>0, <1>1, SameLoosens, InFlightLoosens, OverEnds, ReadsEnds

LEMMA WatchEnds ==
    ASSUME Typed, NEW rest, NEW c \in CallRecs, workingWatchForEvent(rest, c)
    PROVE  HandlerEnds(rest, c)
<1>0. lane \in LaneRecs /\ past \in PastRecs /\ c.role \in Roles /\ lane.watch[c.role] \in MaybeLaunch
  BY DEF Typed, LaneRecs, Fuses, CallRecs
<1>1. \/ inFlightLaunchForEvent(rest, c)
      \/ Reads(rest, c, "watch", lane.watch[c.role])
      \/ Over(rest, c, HitWatch(c.role))
  BY DEF workingWatchForEvent
<1> QED
  BY <1>0, <1>1, WatchLoosens, InFlightEnds, OverEnds, ReadsEnds

\* The signal of launch n, as its handler takes it up.
SignalCall(n, sig) ==
    LET r == kid[n].role IN
    [sig |-> sig, of |-> n, role |-> r, at |-> "new", seen |-> NoLaunch,
     counts |-> /\ snap.to = r /\ ~launchGenerationSuperseded(n)
                /\ n \in {lane.watch[r], lane.inflight[r]}
                /\ lane.watch[r] \in {NoLaunch, n}]

LEMMA SignalTaken ==
    ASSUME Typed, Seated(kid), NEW n \in Launches, NEW sig \in Signals, receiveSignal(n, sig)
    PROVE  /\ SignalCall(n, sig) \in CallRecs
           /\ workingWatchForEvent(calls, SignalCall(n, sig))
           /\ HandlerEnds(calls, SignalCall(n, sig))
<1>1. kid[n].role \in Roles
  BY DEF receiveSignal, Seated, UsedIn
<1>2. PICK b \in BOOLEAN : b = (/\ snap.to = kid[n].role /\ ~launchGenerationSuperseded(n)
                                /\ n \in {lane.watch[kid[n].role], lane.inflight[kid[n].role]}
                                /\ lane.watch[kid[n].role] \in {NoLaunch, n})
  OBVIOUS
<1>3. SignalCall(n, sig) = [sig |-> sig, of |-> n, role |-> kid[n].role, at |-> "new", seen |-> NoLaunch, counts |-> b]
  BY <1>2 DEF SignalCall
<1>4. SignalCall(n, sig) \in CallRecs
  <2>1. NoLaunch \in MaybeLaunch /\ "new" \in {"new", "watch", "inflight"} /\ b \in BOOLEAN
    BY Named
  <2> QED
    BY <1>1, <1>3, <2>1 DEF CallRecs
<1>5. workingWatchForEvent(calls, SignalCall(n, sig))
  BY DEF receiveSignal, SignalCall
<1> QED
  BY <1>4, <1>5, WatchEnds

LEMMA ReadTaken ==
    ASSUME Typed, NEW c \in calls, SignalRead(c)
    PROVE  \E e \in CallRecs : /\ e.of = c.of /\ e.role = c.role /\ (e.counts => c.counts)
                               /\ HandlerEnds(calls \ {c}, e)
<1>0. c \in CallRecs /\ lane \in LaneRecs /\ past \in PastRecs /\ c.role \in Roles
  BY DEF Typed, CallRecs
<1>1. PICK ok \in {TRUE, ~ReadsFail} :
        LET rest == calls \ {c}
            on == [c EXCEPT !.counts = c.counts /\ ok]
            held == (IF c.at = "watch" THEN lane.watch ELSE lane.inflight)[c.role] = c.seen
        IN IF ok /\ held /\ ~launchGenerationSuperseded(c.seen)
           THEN Over(rest, on, IF c.at = "watch" THEN HitWatch(c.role) ELSE HitInFlight(c))
           ELSE IF c.at = "watch" THEN inFlightLaunchForEvent(rest, on) ELSE Over(rest, on, lane)
  BY DEF SignalRead
<1> DEFINE on == [c EXCEPT !.counts = c.counts /\ ok]
           rest == calls \ {c}
<1>2. ok \in BOOLEAN
  BY BoundsAssumption
<1>3. on \in CallRecs /\ on.of = c.of /\ on.role = c.role /\ (on.counts => c.counts)
  <2>1. PICK b \in BOOLEAN : b = (c.counts /\ ok)
    OBVIOUS
  <2>2. on = [c EXCEPT !.counts = b]
    BY <2>1
  <2> QED
    BY <1>0, <2>1, <2>2 DEF CallRecs
<1>4. \/ Over(rest, on, HitWatch(c.role)) \/ Over(rest, on, HitInFlight(c))
      \/ inFlightLaunchForEvent(rest, on) \/ Over(rest, on, lane)
  BY <1>1
<1> HIDE DEF on, rest
<1>5. HandlerEnds(rest, on)
  BY <1>0, <1>3, <1>4, SameLoosens, WatchLoosens, InFlightLoosens, OverEnds, InFlightEnds
<1> QED
  BY <1>3, <1>5 DEF rest
-----------------------------------------------------------------------------
(***************************************************************************)
(* What each step does to the lane.                                        *)
(***************************************************************************)
LEMMA CompareLane ==
    ASSUME Typed, StartCompare
    PROVE  /\ Loosens(lane') /\ lane'.working = lane.working /\ lane'.giveup = lane.giveup
           /\ snap' = [to |-> hub.to, ver |-> hub.ver] /\ ~lane.closed
<1> DEFINE w == [r \in Roles |-> IF r = snap'.to THEN lane.watch[r] ELSE NoLaunch]
<1>0. lane \in LaneRecs /\ lane.watch \in Fuses
  BY DEF Typed, LaneRecs
<1>1. snap' = [to |-> hub.to, ver |-> hub.ver] /\ ~lane.closed /\ lane' = [lane EXCEPT !.watch = w]
  BY DEF StartCompare
<1>2. w \in Fuses /\ \A q \in Roles : w[q] \in {lane.watch[q], NoLaunch}
  BY <1>0, Named DEF Fuses
<1> HIDE DEF w
<1>3. /\ lane' \in LaneRecs /\ lane'.watch = w /\ lane'.inflight = lane.inflight /\ lane'.closed = lane.closed
      /\ lane'.working = lane.working /\ lane'.giveup = lane.giveup
  BY <1>0, <1>1, <1>2 DEF LaneRecs
<1> QED
  BY <1>1, <1>2, <1>3 DEF Loosens

LEMMA RetireLane ==
    ASSUME Typed, retireObsoleteWorkingWatches
    PROVE  Loosens(lane') /\ lane'.working = lane.working /\ lane'.giveup = lane.giveup
<1>0. lane \in LaneRecs
  BY DEF Typed
<1> DEFINE w == [lane.watch EXCEPT ![round.key] = NoLaunch]
<1>1. lane' = [lane EXCEPT !.watch = w] \/ lane' = lane
  BY DEF retireObsoleteWorkingWatches
<1>2. w \in Fuses /\ \A q \in Roles : w[q] \in {lane.watch[q], NoLaunch}
  BY <1>0, Named DEF Fuses, LaneRecs
<1> HIDE DEF w
<1>3. CASE lane' = [lane EXCEPT !.watch = w]
  <2>1. /\ lane' \in LaneRecs /\ lane'.watch = w /\ lane'.inflight = lane.inflight /\ lane'.closed = lane.closed
        /\ lane'.working = lane.working /\ lane'.giveup = lane.giveup
    BY <1>0, <1>2, <1>3 DEF LaneRecs
  <2> QED
    BY <1>2, <2>1 DEF Loosens
<1> QED
  BY <1>0, <1>1, <1>3, SameLoosens

LEMMA TimeoutLane ==
    ASSUME Typed, NEW r \in Roles, WorkingTimeout(r)
    PROVE  /\ Loosens(lane') /\ lane'.working = lane.working /\ lane'.giveup = lane.giveup
           /\ lane'.watch[r] = NoLaunch /\ lane.watch[r] \in Launches
           /\ past' \in PastRecs /\ past'.told = past.told
           /\ \/ past'.plain = past.plain
              \/ /\ past'.plain = past.plain \cup {lane.watch[r]}
                 /\ snap.to = r /\ hub.note < hub.content /\ ~launchGenerationSuperseded(lane.watch[r])
<1>0. lane \in LaneRecs /\ past \in PastRecs
  BY DEF Typed
<1>1. lane' = HitWatch(r)
  BY DEF WorkingTimeout, HitWatch
<1>2. lane.watch[r] \in Launches
  BY <1>0 DEF WorkingTimeout, LaneRecs, Fuses, MaybeLaunch
<1>3. PICK t \in SUBSET Launches :
         /\ past' = [past EXCEPT !.plain = t]
         /\ \/ t = past.plain
            \/ /\ t = past.plain \cup {lane.watch[r]}
               /\ snap.to = r /\ hub.note < hub.content /\ ~launchGenerationSuperseded(lane.watch[r])
  <2> DEFINE cond == snap.to = r /\ hub.note < hub.content /\ ~launchGenerationSuperseded(lane.watch[r])
             t == past.plain \cup (IF cond THEN {lane.watch[r]} ELSE {})
  <2>1. past' = [past EXCEPT !.plain = t]
    BY DEF WorkingTimeout
  <2>2. t \in SUBSET Launches
    BY <1>0, <1>2 DEF PastRecs
  <2>3. t = past.plain \/ (t = past.plain \cup {lane.watch[r]} /\ cond)
    OBVIOUS
  <2> HIDE DEF t
  <2> QED
    BY <2>1, <2>2, <2>3
<1>4. past' \in PastRecs /\ past'.told = past.told /\ past'.plain = t
  BY <1>0, <1>3 DEF PastRecs
<1> QED
  BY <1>0, <1>1, <1>2, <1>3, <1>4, WatchLoosens

\* The fields of the lane after a child has moved.
LEMMA LaneFields ==
    ASSUME lane \in LaneRecs, NEW w \in Fuses, NEW f \in Fuses, NEW a \in SUBSET Roles, NEW b \in SUBSET Roles,
           NEW l, l = [lane EXCEPT !.watch = w, !.inflight = f, !.working = a, !.giveup = b]
    PROVE  /\ l \in LaneRecs /\ l.watch = w /\ l.inflight = f /\ l.working = a /\ l.giveup = b
           /\ l.closed = lane.closed
BY DEF LaneRecs

LEMMA LaneFuses == lane \in LaneRecs => /\ lane.watch \in Fuses /\ lane.inflight \in Fuses
                                        /\ lane.working \in SUBSET Roles /\ lane.giveup \in SUBSET Roles
                                        /\ lane.closed \in BOOLEAN
BY DEF LaneRecs

LEMMA SetFuse ==
    ASSUME NEW f \in Fuses, NEW r \in Roles, NEW n \in MaybeLaunch
    PROVE  /\ [f EXCEPT ![r] = n] \in Fuses /\ [f EXCEPT ![r] = n][r] = n
           /\ \A q \in Roles : q # r => [f EXCEPT ![r] = n][q] = f[q]
BY DEF Fuses

LEMMA ClearFuse ==
    ASSUME NEW f \in Fuses, NEW r \in Roles
    PROVE  /\ [f EXCEPT ![r] = NoLaunch] \in Fuses /\ [f EXCEPT ![r] = NoLaunch][r] = NoLaunch
           /\ \A q \in Roles : q # r => [f EXCEPT ![r] = NoLaunch][q] = f[q]
<1>1. NoLaunch \in MaybeLaunch
  BY Named
<1> QED
  BY <1>1, SetFuse

LEMMA StartLane ==
    ASSUME lane \in LaneRecs, NEW n \in Launches, kid[n].role \in Roles,
           lane' = [lane EXCEPT !.inflight[kid[n].role] = n]
    PROVE  /\ lane' \in LaneRecs /\ lane'.watch = lane.watch /\ lane'.working = lane.working
           /\ lane'.giveup = lane.giveup /\ lane'.closed = lane.closed
           /\ lane'.inflight[kid[n].role] = n
           /\ \A q \in Roles : q # kid[n].role => lane'.inflight[q] = lane.inflight[q]
<1> DEFINE f == [lane.inflight EXCEPT ![kid[n].role] = n]
<1>1. f \in Fuses /\ f[kid[n].role] = n /\ \A q \in Roles : q # kid[n].role => f[q] = lane.inflight[q]
  <2>1. lane.inflight \in Fuses /\ n \in MaybeLaunch
    BY LaneFuses, Named
  <2> QED
    BY <2>1, SetFuse
<1>2. lane' = [lane EXCEPT !.inflight = f]
  OBVIOUS
<1> HIDE DEF f
<1>3. /\ lane' \in LaneRecs /\ lane'.watch = lane.watch /\ lane'.working = lane.working /\ lane'.inflight = f
      /\ lane'.giveup = lane.giveup /\ lane'.closed = lane.closed
  BY <1>1, <1>2 DEF LaneRecs
<1> QED
  BY <1>1, <1>3

LEMMA ReturnLane ==
    ASSUME lane \in LaneRecs, NEW n \in Launches, kid[n].role \in Roles, ChildReturns(n)
    PROVE  LET r == kid[n].role IN
           /\ lane' \in LaneRecs /\ lane'.working = lane.working /\ lane'.giveup = lane.giveup \ {r}
           /\ lane'.closed = lane.closed
           /\ lane'.inflight[r] = NoLaunch /\ \A q \in Roles : q # r => lane'.inflight[q] = lane.inflight[q]
           /\ lane'.watch[r] = (IF lane.closed \/ r \in lane.giveup THEN lane.watch[r] ELSE n)
           /\ \A q \in Roles : q # r => lane'.watch[q] = lane.watch[q]
<1> DEFINE r == kid[n].role
           x == IF lane.closed \/ r \in lane.giveup THEN lane.watch[r] ELSE n
           w == [lane.watch EXCEPT ![r] = x]
           f == [lane.inflight EXCEPT ![r] = NoLaunch]
           b == lane.giveup \ {r}
<1>1. x \in MaybeLaunch
  BY LaneFuses, Named DEF Fuses
<1>2. lane' = [lane EXCEPT !.inflight = f, !.giveup = b, !.watch = w]
  BY DEF ChildReturns, armWorkingWatch
<1> HIDE DEF x
<1>3. /\ w \in Fuses /\ w[r] = x /\ \A q \in Roles : q # r => w[q] = lane.watch[q]
  BY <1>1, LaneFuses, SetFuse
<1>4. /\ f \in Fuses /\ f[r] = NoLaunch /\ \A q \in Roles : q # r => f[q] = lane.inflight[q]
  BY LaneFuses, ClearFuse
<1>5. b \in SUBSET Roles
  BY LaneFuses
<1> HIDE DEF w, f, b
<1>6. /\ lane' \in LaneRecs /\ lane'.watch = w /\ lane'.inflight = f /\ lane'.working = lane.working
      /\ lane'.giveup = b /\ lane'.closed = lane.closed
  BY <1>2, <1>3, <1>4, <1>5 DEF LaneRecs
<1> QED
  BY <1>3, <1>4, <1>6 DEF x, b

LEMMA FailLane ==
    ASSUME lane \in LaneRecs, NEW n \in Launches, kid[n].role \in Roles, ChildFails(n)
    PROVE  LET r == kid[n].role IN
           /\ lane' \in LaneRecs /\ lane'.working = lane.working \ {r} /\ lane'.giveup = lane.giveup \ {r}
           /\ lane'.closed = lane.closed /\ lane'.watch = lane.watch
           /\ lane'.inflight[r] = NoLaunch /\ \A q \in Roles : q # r => lane'.inflight[q] = lane.inflight[q]
<1> DEFINE r == kid[n].role
           f == [lane.inflight EXCEPT ![r] = NoLaunch]
           a == lane.working \ {r}
           b == lane.giveup \ {r}
<1>2. lane' = [lane EXCEPT !.inflight = f, !.giveup = b, !.working = a]
  BY DEF ChildFails
<1>4. /\ f \in Fuses /\ f[r] = NoLaunch /\ \A q \in Roles : q # r => f[q] = lane.inflight[q]
  BY LaneFuses, ClearFuse
<1>5. a \in SUBSET Roles /\ b \in SUBSET Roles
  BY LaneFuses
<1> HIDE DEF f, a, b
<1>6. /\ lane' \in LaneRecs /\ lane'.watch = lane.watch /\ lane'.inflight = f /\ lane'.working = a
      /\ lane'.giveup = b /\ lane'.closed = lane.closed
  BY <1>2, <1>4, <1>5 DEF LaneRecs
<1> QED
  BY <1>4, <1>6 DEF a, b

LEMMA AnnounceLane ==
    ASSUME lane \in LaneRecs, NEW n \in Launches, kid[n].role \in Roles, AnnounceChild(n)
    PROVE  LET r == kid[n].role IN
           /\ lane' \in LaneRecs /\ lane'.working = lane.working \ {r} /\ lane'.giveup = lane.giveup
           /\ lane'.closed = lane.closed /\ lane'.inflight = lane.inflight
           /\ \A q \in Roles : q # r => lane'.watch[q] = lane.watch[q]
           /\ lane'.watch[r] \in {lane.watch[r], NoLaunch}
           /\ (r \in lane.working /\ snap.to = r /\ ~(snap.ver > kid[lane.watch[r]].v)) => lane'.watch[r] = NoLaunch
<1> DEFINE r == kid[n].role
           w == [lane.watch EXCEPT ![r] = NoLaunch]
           a == lane.working \ {r}
<1>1. w \in Fuses /\ w[r] = NoLaunch /\ \A q \in Roles : q # r => w[q] = lane.watch[q]
  BY LaneFuses, ClearFuse
<1>2. a \in SUBSET Roles
  BY LaneFuses
<1>3. /\ lane' = [lane EXCEPT !.working = a, !.watch = w] \/ lane' = [lane EXCEPT !.working = a]
      /\ (r \in lane.working /\ lane.watch[r] # NoLaunch /\ snap.to = r /\ ~(snap.ver > kid[lane.watch[r]].v))
           => lane' = [lane EXCEPT !.working = a, !.watch = w]
  BY DEF AnnounceChild
<1> HIDE DEF w, a
<1>4. CASE lane' = [lane EXCEPT !.working = a, !.watch = w]
  <2>1. /\ lane' \in LaneRecs /\ lane'.watch = w /\ lane'.inflight = lane.inflight /\ lane'.working = a
        /\ lane'.giveup = lane.giveup /\ lane'.closed = lane.closed
    BY <1>1, <1>2, <1>4 DEF LaneRecs
  <2> QED
    BY <1>1, <2>1 DEF a
<1>5. CASE lane' = [lane EXCEPT !.working = a]
  <2>1. /\ lane' \in LaneRecs /\ lane'.watch = lane.watch /\ lane'.inflight = lane.inflight /\ lane'.working = a
        /\ lane'.giveup = lane.giveup /\ lane'.closed = lane.closed
    BY <1>2, <1>5 DEF LaneRecs
  <2>2. ASSUME r \in lane.working, snap.to = r, ~(snap.ver > kid[lane.watch[r]].v)
        PROVE  lane'.watch[r] = NoLaunch
    <3>1. CASE lane.watch[r] = NoLaunch
      BY <2>1, <3>1
    <3>2. CASE lane.watch[r] # NoLaunch
      <4>1. lane' = [lane EXCEPT !.working = a, !.watch = w]
        BY <1>3, <2>2, <3>2
      <4>2. lane'.watch = w
        BY <4>1, <1>1, <1>2 DEF LaneRecs
      <4> QED
        BY <1>1, <4>2
    <3> QED
      BY <3>1, <3>2
  <2> QED
    BY <2>1, <2>2 DEF a
<1> QED
  BY <1>3, <1>4, <1>5

LEMMA CloseLane ==
    ASSUME Close
    PROVE  /\ lane' \in LaneRecs /\ lane'.closed /\ ~lane.closed
           /\ \A q \in Roles : lane'.watch[q] = NoLaunch /\ lane'.inflight[q] = NoLaunch
<1>1. [r \in Roles |-> NoLaunch] \in Fuses
  BY Named DEF Fuses
<1> QED
  BY <1>1 DEF Close, LaneRecs
-----------------------------------------------------------------------------
\* A handler ends well.
LEMMA HandlerTyped ==
    ASSUME Typed, NEW c \in CallRecs, HandlerEnds(calls, c) \/ \E d \in calls : HandlerEnds(calls \ {d}, c)
    PROVE  /\ lane' \in LaneRecs /\ past' \in PastRecs /\ calls' \subseteq CallRecs
           /\ lane'.closed = lane.closed
           /\ \A q \in Roles : lane'.watch[q] \in {lane.watch[q], NoLaunch}
<1>0. lane \in LaneRecs /\ past \in PastRecs /\ calls \subseteq CallRecs
  BY DEF Typed
<1>1. PICK rest \in SUBSET CallRecs : HandlerEnds(rest, c)
  BY <1>0
<1>2. calls' \subseteq CallRecs
  BY <1>1 DEF HandlerEnds
<1> QED
  BY <1>0, <1>1, <1>2 DEF HandlerEnds, Loosens

LEMMA LaneTyped ==
    ASSUME Typed, ChainWell(kid, chain), Next
    PROVE  /\ lane' \in LaneRecs /\ past' \in PastRecs /\ calls' \subseteq CallRecs
           /\ (lane.closed => lane'.closed)
           /\ (lane.closed /\ \A q \in Roles : lane.watch[q] = NoLaunch) => \A q \in Roles : lane'.watch[q] = NoLaunch
<1> DEFINE Good == /\ lane' \in LaneRecs /\ past' \in PastRecs /\ calls' \subseteq CallRecs
                   /\ (lane.closed => lane'.closed)
                   /\ (lane.closed /\ \A q \in Roles : lane.watch[q] = NoLaunch) => \A q \in Roles : lane'.watch[q] = NoLaunch
<1> SUFFICES Good
  OBVIOUS
<1>0. /\ lane \in LaneRecs /\ past \in PastRecs /\ calls \subseteq CallRecs /\ kid \in Kids /\ chain \in Chains
      /\ Seated(kid)
  BY DEF Typed, Kids, Chains, ChainWell
<1>1. CASE UNCHANGED <<lane, past, calls>>
  BY <1>0, <1>1
<1>2. CASE StartCompare
  <2>1. UNCHANGED <<past, calls>>
    BY <1>2 DEF StartCompare
  <2> QED
    BY <1>0, <1>2, <2>1, CompareLane DEF Loosens
<1>3. CASE retireObsoleteWorkingWatches
  <2>1. UNCHANGED <<past, calls>>
    BY <1>3 DEF retireObsoleteWorkingWatches
  <2> QED
    BY <1>0, <1>3, <2>1, RetireLane DEF Loosens
<1>4. ASSUME NEW n \in Launches, Child(n) PROVE Good
  <2>0. UNCHANGED <<past, calls>>
    BY <1>4 DEF Child, StartChild, ChildReturns, ChildFails, AnnounceChild
  <2>1. kid[n].role \in Roles
    BY <1>0, <1>4 DEF Child, StartChild, ChildReturns, ChildFails, AnnounceChild, Seated, UsedIn
  <2>2. CASE StartChild(n)
    <3>1. UNCHANGED lane \/ (lane' = [lane EXCEPT !.inflight[kid[n].role] = n] /\ ~lane.closed)
      BY <1>0, <2>2, StartMoves
    <3>2. CASE UNCHANGED lane
      BY <1>0, <2>0, <3>2
    <3>3. CASE lane' = [lane EXCEPT !.inflight[kid[n].role] = n] /\ ~lane.closed
      BY <1>0, <2>0, <2>1, <3>3, StartLane
    <3> QED
      BY <3>1, <3>2, <3>3
  <2>3. CASE ChildReturns(n)
    <3>1. /\ lane' \in LaneRecs /\ lane'.closed = lane.closed
          /\ (lane.closed => lane'.watch[kid[n].role] = lane.watch[kid[n].role])
          /\ \A q \in Roles : q # kid[n].role => lane'.watch[q] = lane.watch[q]
      BY <1>0, <2>1, <2>3, ReturnLane
    <3> QED
      BY <1>0, <2>0, <2>1, <3>1
  <2>4. CASE ChildFails(n)
    BY <1>0, <2>0, <2>1, <2>4, FailLane
  <2>5. CASE AnnounceChild(n)
    <3>1. /\ lane' \in LaneRecs /\ lane'.closed = lane.closed
          /\ lane'.watch[kid[n].role] \in {lane.watch[kid[n].role], NoLaunch}
          /\ \A q \in Roles : q # kid[n].role => lane'.watch[q] = lane.watch[q]
      BY <1>0, <2>1, <2>5, AnnounceLane
    <3> QED
      BY <1>0, <2>0, <2>1, <3>1
  <2> QED
    BY <1>4, <2>2, <2>3, <2>4, <2>5 DEF Child
<1>5. ASSUME NEW n \in Launches, NEW sig \in Signals, receiveSignal(n, sig) PROVE Good
  BY <1>0, <1>5, SignalTaken, HandlerTyped
<1>6. ASSUME NEW c \in calls, SignalRead(c) PROVE Good
  BY <1>0, <1>6, ReadTaken, HandlerTyped
<1>7. ASSUME NEW r \in Roles, WorkingTimeout(r) PROVE Good
  <2>1. UNCHANGED calls
    BY <1>7 DEF WorkingTimeout
  <2> QED
    BY <1>0, <1>7, <2>1, TimeoutLane DEF Loosens
<1>8. CASE Close
  <2>1. UNCHANGED <<past, calls>>
    BY <1>8 DEF Close
  <2> QED
    BY <1>0, <1>8, <2>1, CloseLane
<1> HIDE DEF Good
<1> QED
  BY <1>1, <1>2, <1>3, <1>4, <1>5, <1>6, <1>7, <1>8 DEF Next, Round, Publish, WakeNote, Diff, EnterLaunch, PlanLaunch,
     MarkLaunch, spawnTrackedLaunch, handleDone, runDoneSweep

LEMMA SweepsTyped == Typed /\ Next => sweeps' \in SweepRecs
<1> SUFFICES ASSUME Typed, Next PROVE sweeps' \in SweepRecs
  OBVIOUS
<1>0. sweeps \in SweepRecs /\ sweeps.last + 1 \in Nat /\ sweeps.running \in SUBSET Nat /\ sweeps.barrier \in Nat /\ 0 \in Nat
  BY DEF Typed, SweepRecs
<1>1. CASE handleDone
  BY <1>0, <1>1 DEF handleDone, SweepRecs
<1>2. ASSUME NEW d \in dones, runDoneSweep(d) PROVE sweeps' \in SweepRecs
  <2>1. PICK b \in Nat : sweeps' = [sweeps EXCEPT !.running = sweeps.running \ {d.id}, !.barrier = b]
    <3> DEFINE b == IF lane.closed THEN NoSweep ELSE BarrierAfter(d.id)
    <3>1. b \in Nat
      BY <1>0, Named DEF BarrierAfter
    <3>2. sweeps' = [sweeps EXCEPT !.running = sweeps.running \ {d.id}, !.barrier = b]
      BY <1>2 DEF runDoneSweep
    <3> QED
      BY <3>1, <3>2
  <2> QED
    BY <1>0, <2>1 DEF SweepRecs
<1>3. CASE Close
  BY <1>0, <1>3, Named DEF Close, SweepRecs
<1>4. CASE UNCHANGED sweeps
  BY <1>0, <1>4
<1> QED
  BY <1>1, <1>2, <1>3, <1>4 DEF Next, Round, Publish, WakeNote, StartCompare, retireObsoleteWorkingWatches, Diff,
     EnterLaunch, PlanLaunch, MarkLaunch, spawnTrackedLaunch, Child, StartChild, ChildReturns, ChildFails,
     AnnounceChild, receiveSignal, SignalRead, WorkingTimeout

NoRecheck(ds) == \A d \in ds : d.stage # "timer"

LEMMA DonesTyped ==
    ASSUME Typed, Seated(kid), Next
    PROVE  dones' \subseteq DoneRecs /\ (lane'.closed /\ (lane.closed => NoRecheck(dones)) => NoRecheck(dones'))
<1> DEFINE Good == dones' \subseteq DoneRecs /\ (lane'.closed /\ (lane.closed => NoRecheck(dones)) => NoRecheck(dones'))
<1> SUFFICES Good
  OBVIOUS
<1>0. dones \subseteq DoneRecs /\ lane \in LaneRecs /\ sweeps \in SweepRecs /\ snap \in SnapRecs
  BY DEF Typed
<1>1. CASE UNCHANGED dones /\ lane'.closed = lane.closed
  BY <1>0, <1>1
<1>2. CASE EndRound(dones) /\ lane'.closed = lane.closed
  BY <1>0, <1>2, EndWell DEF NoRecheck
<1>3. CASE StartCompare
  <2>1. PICK expired : dones' = {[d EXCEPT !.stage = IF d.stage = "asked" THEN "carried"
                                       ELSE IF d \in expired THEN "carried again" ELSE d.stage] : d \in dones}
    BY <1>3 DEF StartCompare
  <2>2. \A d \in DoneRecs : [d EXCEPT !.stage = IF d.stage = "asked" THEN "carried"
                                       ELSE IF d \in expired THEN "carried again" ELSE d.stage] \in DoneRecs
    BY Named DEF DoneRecs
  <2>3. ~lane.closed /\ lane'.closed = lane.closed
    BY <1>3, CompareLane DEF Loosens
  <2> QED
    BY <1>0, <2>1, <2>2, <2>3
<1>4. CASE handleDone
  <2>1. ~lane.closed /\ UNCHANGED lane
    BY <1>4 DEF handleDone
  <2>2. [id |-> sweeps.last + 1, wf |-> snap.to, stage |-> "sweep"] \in DoneRecs
    <3>1. sweeps.last + 1 \in Nat /\ snap.to \in MaybeRole /\ "sweep" \in DoneStages
      <4>1. sweeps.last + 1 \in Nat
        BY <1>0 DEF SweepRecs
      <4>2. snap.to \in MaybeRole
        BY <1>0 DEF SnapRecs
      <4> QED
        BY <4>1, <4>2, Named
    <3> QED
      BY <3>1 DEF DoneRecs
  <2> QED
    BY <1>0, <1>4, <2>1, <2>2 DEF handleDone
<1>5. ASSUME NEW d \in dones, runDoneSweep(d) PROVE Good
  <2>1. UNCHANGED lane
    BY <1>5 DEF runDoneSweep
  <2>2. [d EXCEPT !.stage = "asked", !.id = NoSweep] \in DoneRecs
    BY <1>0, Named DEF DoneRecs
  <2>3. dones' = (dones \ {d}) \cup (IF lane.closed THEN {} ELSE {[d EXCEPT !.stage = "asked", !.id = NoSweep]})
    BY <1>5 DEF runDoneSweep
  <2> QED
    BY <1>0, <2>1, <2>2, <2>3 DEF NoRecheck
<1>6. CASE Close
  BY <1>0, <1>6 DEF Close, NoRecheck
<1>7. ASSUME NEW n \in Launches, Child(n) PROVE UNCHANGED dones /\ (~(UNCHANGED lane) => lane'.closed = lane.closed)
  <2>1. UNCHANGED dones
    BY <1>7 DEF Child, StartChild, ChildReturns, ChildFails, AnnounceChild
  <2>2. lane'.closed = lane.closed
    BY <1>0, <1>7 DEF Child, StartChild, ChildReturns, ChildFails, AnnounceChild, LaneRecs
  <2> QED
    BY <2>1, <2>2
<1>8. CASE retireObsoleteWorkingWatches
  <2>1. UNCHANGED dones
    BY <1>8 DEF retireObsoleteWorkingWatches
  <2>2. lane'.closed = lane.closed
    BY <1>8, RetireLane DEF Loosens
  <2> QED
    BY <1>1, <2>1, <2>2
<1>9. ASSUME NEW r \in Roles, WorkingTimeout(r) PROVE UNCHANGED dones /\ lane'.closed = lane.closed
  <2>1. UNCHANGED dones
    BY <1>9 DEF WorkingTimeout
  <2> QED
    BY <1>9, <2>1, TimeoutLane DEF Loosens
<1>10. ASSUME NEW c \in calls, SignalRead(c) PROVE UNCHANGED dones /\ lane'.closed = lane.closed
  <2>1. UNCHANGED dones
    BY <1>10 DEF SignalRead
  <2> QED
    BY <1>10, <2>1, ReadTaken, HandlerTyped
<1>11. ASSUME NEW n \in Launches, NEW sig \in Signals, receiveSignal(n, sig)
       PROVE  UNCHANGED dones /\ lane'.closed = lane.closed
  <2>1. UNCHANGED dones /\ ~lane.closed
    BY <1>11 DEF receiveSignal
  <2> QED
    BY <1>11, <2>1, SignalTaken, HandlerTyped
<1> QED
  BY <1>1, <1>2, <1>3, <1>4, <1>5, <1>6, <1>7, <1>8, <1>9, <1>10, <1>11 DEF Next, Round, Publish, WakeNote, Diff,
     EnterLaunch, PlanLaunch, MarkLaunch, spawnTrackedLaunch
-----------------------------------------------------------------------------
(***************************************************************************)
(* The barriers.  The registered sweep is the last one; what a round owes  *)
(* when it marks its launch is awaited or over when it chains the child,   *)
(* and a sweep that is over never runs again.                              *)
(***************************************************************************)
Owes(o) == o <= sweeps.last /\ (o = NoSweep \/ o \notin sweeps.running)

SweepsWell ==
    /\ \A s \in sweeps.running : s <= sweeps.last
    /\ ~lane.closed => /\ sweeps.barrier \in {NoSweep, sweeps.last}
                       /\ sweeps.barrier = NoSweep => sweeps.last \notin sweeps.running
    /\ round.step = "spawn" =>
         round.owed <= sweeps.last /\ (round.awaits = round.owed \/ Owes(round.owed))
    /\ \A n \in Launches : (kid[n].phase = "queued" => Owes(kid[n].owed)) /\ kid[n].archived

LEMMA SweepFacts == sweeps \in SweepRecs => /\ sweeps.last \in Nat /\ sweeps.running \in SUBSET Nat
                                            /\ sweeps.barrier \in Nat
BY DEF SweepRecs

LEMMA RoundFacts == round \in RoundRecs => round.owed \in Nat /\ round.awaits \in Nat /\ round.base \in Nat
                                           /\ round.wake \in Nat
BY DEF RoundRecs

LEMMA SweepsStep ==
    ASSUME Typed, Planning, ChainWell(kid, chain), SweepsWell, Next
    PROVE  SweepsWell'
<1>0. /\ lane \in LaneRecs /\ kid \in Kids /\ chain \in Chains /\ round \in RoundRecs /\ sweeps \in SweepRecs
      /\ sweeps.last \in Nat /\ sweeps.running \in SUBSET Nat /\ sweeps.barrier \in Nat
      /\ round.owed \in Nat /\ round.awaits \in Nat /\ NoSweep = 0
      /\ \A n \in Launches : kid[n].owed \in Nat
  BY SweepFacts, RoundFacts, Named DEF Typed, Kids, Chains, KidRecs
<1> DEFINE KidSame == \A n \in Launches : /\ kid'[n].phase = "queued" => kid[n].phase = "queued"
                                          /\ kid'[n].owed = kid[n].owed /\ kid'[n].archived = kid[n].archived
           RoundSame == round'.step # "spawn" \/ UNCHANGED round
<1>00. lane.closed => lane'.closed
  BY LaneTyped
<1>1. CASE UNCHANGED sweeps /\ KidSame /\ RoundSame
  BY <1>00, <1>1 DEF SweepsWell, Owes
<1>2. CASE MarkLaunch
  <2>1. UNCHANGED <<sweeps, kid, lane>>
    BY <1>2 DEF MarkLaunch
  <2>2. CASE EndRound(dones)
    <3>1. round'.step = "idle"
      BY <2>2 DEF EndRound, IdleRound
    <3> QED
      BY <2>1, <3>1, <1>1
  <2>3. CASE ~EndRound(dones)
    <3>1. ~lane.closed /\ round' = [round EXCEPT !.step = "spawn", !.base = hub.ver + 1,
                                      !.owed = sweeps.last, !.awaits = sweeps.barrier]
      BY <1>2, <2>3 DEF MarkLaunch
    <3>2. round'.owed = sweeps.last /\ round'.awaits = sweeps.barrier
      BY <1>0, <3>1 DEF RoundRecs
    <3>3. sweeps.last <= sweeps.last
      BY <1>0
    <3> QED
      BY <1>0, <2>1, <3>1, <3>2, <3>3 DEF SweepsWell, Owes
  <2> QED
    BY <2>2, <2>3
<1>3. CASE spawnTrackedLaunch
  <2>1. UNCHANGED <<sweeps, lane>> /\ round'.step = "idle"
    BY <1>3 DEF spawnTrackedLaunch, EndRound, IdleRound
  <2>2. CASE UNCHANGED kid
    BY <2>1, <2>2, <1>1
  <2>3. CASE ~(UNCHANGED kid)
    <3>1. PICK n \in Launches, rec \in KidRecs :
             /\ rec = [role |-> round.role, v |-> round.base, phase |-> "queued",
                       owed |-> round.owed, archived |-> TRUE, sent |-> {}]
             /\ kid'[n] = rec /\ (\A m \in Launches : m # n => kid'[m] = kid[m])
      BY <1>3, <2>3, SpawnMoves
    <3>2. kid'[n].owed = round.owed /\ kid'[n].archived
      BY <3>1
    <3>3. Owes(round.owed)
      <4>1. round.step = "spawn" /\ round.awaits \notin sweeps.running
        BY <1>3 DEF spawnTrackedLaunch, awaitSweepBarrier
      <4> QED
        BY <1>0, <4>1 DEF SweepsWell, Owes
    <3> QED
      BY <1>0, <2>1, <3>1, <3>2, <3>3 DEF SweepsWell, Owes
  <2> QED
    BY <2>2, <2>3
<1>4. ASSUME NEW n \in Launches, StartChild(n) PROVE SweepsWell'
  <2>1. UNCHANGED <<sweeps, round>>
    BY <1>4 DEF StartChild
  <2>2. KidsKeep /\ (\A m \in Launches : m # n => kid'[m] = kid[m]) /\ kid[n].phase = "queued" /\ kid'[n].phase # "queued"
    BY <1>0, <1>4, StartMoves
  <2>3. kid'[n].archived
    <3>1. CASE kid'[n].archived = kid[n].archived
      BY <3>1 DEF SweepsWell
    <3>2. CASE kid'[n].archived = (kid[n].owed = NoSweep \/ (kid[n].owed..sweeps.last) \ sweeps.running # {})
      <4>1. Owes(kid[n].owed)
        BY <2>2 DEF SweepsWell
      <4>2. kid[n].owed \in kid[n].owed..sweeps.last
        BY <1>0, <4>1 DEF Owes
      <4> QED
        BY <3>2, <4>1, <4>2 DEF Owes
    <3> QED
      BY <1>0, <1>4, <3>1, <3>2, StartMoves
  <2> QED
    BY <1>00, <2>1, <2>2, <2>3 DEF SweepsWell, Owes, KidsKeep
<1>5. ASSUME NEW n \in Launches, ChildReturns(n) \/ ChildFails(n) \/ AnnounceChild(n) PROVE SweepsWell'
  <2>1. UNCHANGED <<sweeps, round>>
    BY <1>5 DEF ChildReturns, ChildFails, AnnounceChild
  <2>2. PICK p \in {"returned", "over"} : kid' = [kid EXCEPT ![n].phase = p]
    BY <1>5 DEF ChildReturns, ChildFails, AnnounceChild
  <2>3. p \in Phases /\ p # "queued"
    BY Named
  <2>4. KidSame
    BY <1>0, <2>2, <2>3, ReturnMoves DEF KidsKeep
  <2> QED
    BY <2>1, <2>4, <1>1
<1>6. ASSUME NEW n \in Launches, NEW sig \in Signals, receiveSignal(n, sig) PROVE SweepsWell'
  <2>1. UNCHANGED <<sweeps, round>> /\ kid' = [kid EXCEPT ![n].sent = kid[n].sent \cup {sig}]
    BY <1>6 DEF receiveSignal
  <2>2. KidSame
    BY <1>0, <2>1, SignalMoves DEF KidsKeep
  <2> QED
    BY <2>1, <2>2, <1>1
<1>7. CASE handleDone
  <2>1. UNCHANGED <<kid, round, lane>> /\ ~lane.closed
        /\ sweeps' = [last |-> sweeps.last + 1, running |-> sweeps.running \cup {sweeps.last + 1},
                      barrier |-> sweeps.last + 1]
    BY <1>7 DEF handleDone
  <2>2. sweeps'.last = sweeps.last + 1 /\ sweeps'.running = sweeps.running \cup {sweeps.last + 1}
        /\ sweeps'.barrier = sweeps'.last
    BY <2>1
  <2>3. \A o \in Nat : Owes(o) => o <= sweeps'.last /\ (o = NoSweep \/ o \notin sweeps'.running)
    BY <1>0, <2>2 DEF Owes
  <2>4. \A s \in sweeps'.running : s <= sweeps'.last
    BY <1>0, <2>2 DEF SweepsWell
  <2>5. round.owed <= sweeps.last => round.owed <= sweeps'.last
    BY <1>0, <2>2
  <2>6. sweeps'.barrier # NoSweep
    BY <1>0, <2>2
  <2> QED
    BY <1>0, <2>1, <2>2, <2>3, <2>4, <2>5, <2>6 DEF SweepsWell, Owes
<1>8. ASSUME NEW d \in dones, runDoneSweep(d) PROVE SweepsWell'
  <2> DEFINE b == IF lane.closed THEN NoSweep ELSE BarrierAfter(d.id)
  <2>1. UNCHANGED <<kid, round, lane>> /\ sweeps' = [sweeps EXCEPT !.running = sweeps.running \ {d.id}, !.barrier = b]
    BY <1>8 DEF runDoneSweep
  <2>2. b = NoSweep \/ b = sweeps.barrier
    BY DEF BarrierAfter
  <2>3. ~lane.closed => b = IF sweeps.barrier = d.id THEN NoSweep ELSE sweeps.barrier
    BY DEF BarrierAfter
  <2> HIDE DEF b
  <2>4. sweeps'.last = sweeps.last /\ sweeps'.running = sweeps.running \ {d.id} /\ sweeps'.barrier = b
    BY <1>0, <2>1 DEF SweepRecs
  <2>5. ~lane.closed => /\ b \in {NoSweep, sweeps.last}
                        /\ b = NoSweep => sweeps.last \notin sweeps.running \ {d.id}
    BY <1>0, <2>2, <2>3 DEF SweepsWell
  <2> QED
    BY <1>0, <2>1, <2>4, <2>5 DEF SweepsWell, Owes
<1>9. CASE Close
  <2>1. UNCHANGED <<kid, round>> /\ lane'.closed /\ sweeps' = [sweeps EXCEPT !.barrier = NoSweep]
    BY <1>9 DEF Close
  <2>2. sweeps'.last = sweeps.last /\ sweeps'.running = sweeps.running
    BY <1>0, <2>1 DEF SweepRecs
  <2> QED
    BY <2>1, <2>2 DEF SweepsWell, Owes
<1>10. ASSUME StartCompare \/ retireObsoleteWorkingWatches \/ Diff \/ EnterLaunch \/ PlanLaunch
       PROVE  SweepsWell'
  <2>1. UNCHANGED <<sweeps, kid>>
    BY <1>10 DEF StartCompare, retireObsoleteWorkingWatches, Diff, EnterLaunch, PlanLaunch
  <2>2. round'.step # "spawn"
    <3>1. CASE EndRound(dones)
      BY <3>1 DEF EndRound, IdleRound
    <3>2. CASE StartCompare
      <4>1. round'.step \in {"diff", "retire"}
        BY <3>2 DEF StartCompare, IdleRound
      <4> QED
        BY <4>1
    <3> QED
      BY <1>0, <1>10, <3>1, <3>2 DEF retireObsoleteWorkingWatches, Diff, EnterLaunch, PlanLaunch, RoundRecs
  <2> QED
    BY <2>1, <2>2, <1>1
<1>11. CASE UNCHANGED <<sweeps, kid, round>>
  BY <1>1, <1>11
<1> HIDE DEF KidSame, RoundSame
<1> QED
  BY <1>2, <1>3, <1>4, <1>5, <1>6, <1>7, <1>8, <1>9, <1>10, <1>11 DEF Next, Round, Child, Publish, WakeNote,
     SignalRead, WorkingTimeout
-----------------------------------------------------------------------------
(***************************************************************************)
(* The log.  As long as nothing but markers has been written since the     *)
(* last content record, the marker of the turn is the newest record, and   *)
(* its role is the one that the log and the snapshot wait for.             *)
(***************************************************************************)
Undisturbed == hub.note < hub.content

LogWell ==
    /\ hub.content <= hub.ver /\ hub.note <= hub.ver /\ snap.ver <= hub.ver
    /\ round.base <= hub.ver /\ round.wake <= hub.note
    /\ \A m \in hub.marks : /\ m.v <= hub.ver /\ m.v # hub.content
                            /\ m.v > hub.content => m.role = hub.to /\ snap.to = hub.to
                            /\ m.v > hub.content /\ Undisturbed => m.v = hub.ver
    /\ round.step # "idle" /\ round.role # "none" => round.role = snap.to
    /\ round.step \notin {"idle", "spawn"} /\ round.role # "none" /\ round.base = hub.ver => snap.to = hub.to
    /\ round.step \in {"plan", "mark"} /\ round.base = hub.ver => ~launchBlocked(round.role, round.wake)
    /\ round.step = "spawn" => [role |-> round.role, v |-> round.base] \in hub.marks
    /\ \A n \in Launches : kid[n].phase # "none" => [role |-> kid[n].role, v |-> kid[n].v] \in hub.marks

\* A launch in its own turn, which no note has interrupted.
OwnTurn(n) == ~launchGenerationSuperseded(n) /\ Undisturbed

LEMMA OwnTurnIsFresh ==
    ASSUME Typed, LogWell, NEW n \in Launches, kid[n].phase # "none", OwnTurn(n)
    PROVE  ~(snap.ver > kid[n].v) /\ snap.to = kid[n].role
<1> DEFINE m == [role |-> kid[n].role, v |-> kid[n].v]
<1>0. hub.ver \in Nat /\ hub.content \in Nat /\ snap.ver \in Nat /\ kid[n].v \in Nat
  BY DEF Typed, HubRecs, SnapRecs, KidRecs
<1>1. m \in hub.marks /\ m.v = kid[n].v /\ m.role = kid[n].role
  BY DEF LogWell
<1> HIDE DEF m
<1>2. m.v > hub.content
  BY <1>0, <1>1 DEF LogWell, OwnTurn, launchGenerationSuperseded
<1>3. m.v = hub.ver /\ m.role = hub.to /\ snap.to = hub.to
  BY <1>1, <1>2 DEF LogWell, OwnTurn
<1> QED
  BY <1>0, <1>1, <1>3 DEF LogWell

LEMMA HubFacts == hub \in HubRecs => /\ hub.ver \in Nat /\ hub.content \in Nat /\ hub.note \in Nat
                                     /\ \A m \in hub.marks : m.v \in Nat /\ m.role \in Roles
BY DEF HubRecs

\* What an own turn is, once over, is over for good.
LEMMA TurnsEnd ==
    ASSUME Typed, Planning, ChainWell(kid, chain), LogWell, Next,
           NEW n \in Launches, kid[n].phase # "none", OwnTurn(n)'
    PROVE  OwnTurn(n)
<1>0. /\ hub.ver \in Nat /\ hub.content \in Nat /\ hub.note \in Nat /\ kid \in Kids /\ chain \in Chains
      /\ kid[n].v \in Nat
  BY HubFacts DEF Typed, Kids, Chains, KidRecs
<1>1. kid'[n].v = kid[n].v
  <2>1. CASE spawnTrackedLaunch
    BY <1>0, <2>1, SpawnMoves
  <2>2. ASSUME NEW k \in Launches, StartChild(k) PROVE kid'[n].v = kid[n].v
    BY <1>0, <2>2, StartMoves DEF KidsKeep
  <2>3. ASSUME NEW k \in Launches, ChildReturns(k) \/ ChildFails(k) \/ AnnounceChild(k) PROVE kid'[n].v = kid[n].v
    <3>1. PICK p \in {"returned", "over"} : kid' = [kid EXCEPT ![k].phase = p]
      BY <2>3 DEF ChildReturns, ChildFails, AnnounceChild
    <3>2. p \in Phases
      BY Named
    <3> QED
      BY <1>0, <3>1, <3>2, ReturnMoves DEF KidsKeep
  <2>4. ASSUME NEW k \in Launches, NEW sig \in Signals, receiveSignal(k, sig) PROVE kid'[n].v = kid[n].v
    BY <1>0, <2>4, SignalMoves DEF KidsKeep, receiveSignal
  <2>5. CASE UNCHANGED kid
    BY <2>5
  <2> QED
    BY <2>1, <2>2, <2>3, <2>4, <2>5 DEF Next, Round, Publish, WakeNote, StartCompare, retireObsoleteWorkingWatches,
       Diff, EnterLaunch, PlanLaunch, MarkLaunch, Child, SignalRead, WorkingTimeout, handleDone, runDoneSweep, Close
<1>2. CASE hub'.content = hub.content /\ hub'.note = hub.note
  BY <1>1, <1>2 DEF OwnTurn, Undisturbed, launchGenerationSuperseded
<1>3. CASE Publish
  <2>1. hub'.content = hub.ver + 1
    BY <1>3 DEF Publish, Typed, HubRecs
  <2>2. kid[n].v <= hub.ver
    <3> DEFINE m == [role |-> kid[n].role, v |-> kid[n].v]
    <3>1. m \in hub.marks /\ m.v = kid[n].v
      BY DEF LogWell
    <3> HIDE DEF m
    <3> QED
      BY <3>1 DEF LogWell
  <2> QED
    BY <1>0, <1>1, <2>1, <2>2 DEF OwnTurn, launchGenerationSuperseded
<1>4. CASE WakeNote
  <2>1. hub'.content = hub.content /\ hub'.note = hub.ver + 1
    BY <1>4 DEF WakeNote, Typed, HubRecs
  <2> QED
    BY <1>0, <2>1 DEF OwnTurn, Undisturbed, LogWell
<1>5. CASE MarkLaunch
  <2>1. hub'.content = hub.content /\ hub'.note = hub.note
    BY <1>5 DEF MarkLaunch, Typed, HubRecs
  <2> QED
    BY <2>1, <1>2
<1>6. CASE UNCHANGED hub
  BY <1>2, <1>6
<1> QED
  BY <1>3, <1>4, <1>5, <1>6 DEF Next, Round, StartCompare, retireObsoleteWorkingWatches, Diff, EnterLaunch, PlanLaunch,
     spawnTrackedLaunch, Child, StartChild, ChildReturns, ChildFails, AnnounceChild, receiveSignal, SignalRead,
     WorkingTimeout, handleDone, runDoneSweep, Close
\* The launches that are there keep their marker.
MarksKept == \A n \in Launches : kid'[n].phase # "none" => [role |-> kid'[n].role, v |-> kid'[n].v] \in hub.marks

LEMMA KidsMarked ==
    ASSUME Typed, Planning, ChainWell(kid, chain), LogWell, Next
    PROVE  MarksKept
<1>0. kid \in Kids /\ chain \in Chains
  BY DEF Typed, Kids, Chains
<1>1. CASE spawnTrackedLaunch
  <2>1. CASE UNCHANGED kid
    BY <2>1 DEF LogWell, MarksKept
  <2>2. CASE ~(UNCHANGED kid)
    <3>1. PICK n \in Launches, rec \in KidRecs :
             /\ rec = [role |-> round.role, v |-> round.base, phase |-> "queued",
                       owed |-> round.owed, archived |-> TRUE, sent |-> {}]
             /\ kid'[n] = rec /\ (\A m \in Launches : m # n => kid'[m] = kid[m])
      BY <1>1, <2>2, SpawnMoves
    <3>2. kid'[n].role = round.role /\ kid'[n].v = round.base
      BY <3>1
    <3>3. [role |-> round.role, v |-> round.base] \in hub.marks
      BY <1>1 DEF spawnTrackedLaunch, LogWell
    <3> QED
      BY <3>1, <3>2, <3>3 DEF LogWell, MarksKept
  <2> QED
    BY <2>1, <2>2
<1>2. ASSUME KidsKeep, \A n \in Launches : kid'[n].phase # "none" => kid[n].phase # "none" PROVE MarksKept
  BY <1>2 DEF KidsKeep, MarksKept, LogWell
<1>3. ASSUME NEW n \in Launches, StartChild(n) PROVE MarksKept
  <2>1. kid[n].phase = "queued" /\ KidsKeep /\ \A m \in Launches : m # n => kid'[m] = kid[m]
    BY <1>0, <1>3, StartMoves
  <2> QED
    BY <2>1, <1>2
<1>4. ASSUME NEW n \in Launches, ChildReturns(n) \/ ChildFails(n) \/ AnnounceChild(n) PROVE MarksKept
  <2>1. PICK p \in {"returned", "over"} : kid' = [kid EXCEPT ![n].phase = p]
    BY <1>4 DEF ChildReturns, ChildFails, AnnounceChild
  <2>2. p \in Phases /\ kid[n].phase # "none"
    BY <1>4, Named DEF ChildReturns, ChildFails, AnnounceChild
  <2>3. KidsKeep /\ \A m \in Launches : m # n => kid'[m] = kid[m]
    BY <1>0, <2>1, <2>2, ReturnMoves
  <2> QED
    BY <2>2, <2>3, <1>2
<1>5. ASSUME NEW n \in Launches, NEW sig \in Signals, receiveSignal(n, sig) PROVE MarksKept
  <2>1. KidsKeep /\ \A m \in Launches : kid'[m].phase = kid[m].phase
    BY <1>0, <1>5, SignalMoves DEF receiveSignal
  <2> QED
    BY <2>1, <1>2
<1>6. CASE UNCHANGED kid
  BY <1>6 DEF LogWell, MarksKept
<1> QED
  BY <1>1, <1>3, <1>4, <1>5, <1>6 DEF Next, Round, Publish, WakeNote, StartCompare, retireObsoleteWorkingWatches,
     Diff, EnterLaunch, PlanLaunch, MarkLaunch, Child, SignalRead, WorkingTimeout, handleDone, runDoneSweep, Close

\* What a round may become without a new look at the log.
LEMMA LogFrame ==
    ASSUME Typed, LogWell, MarksKept, UNCHANGED <<hub, snap>>,
           \/ UNCHANGED round
           \/ round' = IdleRound
    PROVE  LogWell'
<1>0. hub.ver \in Nat /\ hub.note \in Nat
  BY HubFacts DEF Typed
<1>1. CASE UNCHANGED round
  BY <1>1 DEF LogWell, MarksKept, Undisturbed, launchBlocked
<1>2. CASE round' = IdleRound
  <2>1. round'.step = "idle" /\ round'.base = 0 /\ round'.wake = 0
    BY <1>2 DEF IdleRound
  <2>2. round'.base <= hub.ver /\ round'.wake <= hub.note
    BY <1>0, <2>1
  <2> QED
    BY <2>1, <2>2 DEF LogWell, MarksKept, Undisturbed
<1> QED
  BY <1>1, <1>2

LEMMA LogCompare == Typed /\ LogWell /\ StartCompare => LogWell'
<1> SUFFICES ASSUME Typed, LogWell, StartCompare PROVE LogWell'
  OBVIOUS
<1>0. hub.ver \in Nat /\ hub.note \in Nat /\ hub.content \in Nat /\ hub.to \in Roles /\ hub.to # "none"
  BY HubFacts, Named DEF Typed, HubRecs
<1>1. /\ UNCHANGED <<hub, kid>> /\ snap' = [to |-> hub.to, ver |-> hub.ver]
      /\ round'.step \in {"diff", "retire"} /\ round'.role \in {hub.to, "none"}
      /\ round'.wake \in {hub.note, 0} /\ round'.base = hub.ver
  BY DEF StartCompare, IdleRound
<1>2. snap'.to = hub.to /\ snap'.ver = hub.ver /\ round'.wake <= hub.note /\ hub.ver <= hub.ver
  BY <1>0, <1>1
<1> QED
  BY <1>0, <1>1, <1>2 DEF LogWell, Undisturbed

LEMMA LogRound ==
    ASSUME Typed, LogWell, retireObsoleteWorkingWatches \/ Diff \/ EnterLaunch \/ PlanLaunch
    PROVE  LogWell'
<1>0. UNCHANGED <<hub, snap, kid>> /\ round \in RoundRecs /\ hub.ver \in Nat /\ hub.note \in Nat
  BY HubFacts DEF retireObsoleteWorkingWatches, Diff, EnterLaunch, PlanLaunch, Typed
<1>1. CASE EndRound(dones)
  BY <1>0, <1>1, LogFrame DEF EndRound, MarksKept, LogWell
<1>2. CASE ~EndRound(dones)
  <2>1. /\ round'.step \in {"diff", "entry", "plan", "mark"} /\ round.step \notin {"idle", "spawn"}
        /\ round'.role = round.role /\ round'.base = round.base /\ round'.wake = round.wake
    BY <1>0, <1>2 DEF retireObsoleteWorkingWatches, Diff, EnterLaunch, PlanLaunch, RoundRecs
  <2>2. round'.step = "plan" => ~launchBlocked(round.role, round.wake)
    BY <1>0, <1>2 DEF retireObsoleteWorkingWatches, Diff, EnterLaunch, PlanLaunch, RoundRecs
  <2>3. round'.step = "mark" => round.step = "plan"
    BY <1>0, <1>2 DEF retireObsoleteWorkingWatches, Diff, EnterLaunch, PlanLaunch, RoundRecs
  <2>4. (launchBlocked(round.role, round.wake))' <=> launchBlocked(round.role, round.wake)
    BY <1>0, <2>1 DEF launchBlocked
  <2>5. round'.step \in {"plan", "mark"} /\ round'.base = hub.ver => ~(launchBlocked(round.role, round.wake))'
    BY <2>1, <2>2, <2>3, <2>4 DEF LogWell
  <2> QED
    BY <1>0, <2>1, <2>5 DEF LogWell, Undisturbed
<1> QED
  BY <1>1, <1>2

LEMMA LogHub ==
    ASSUME Typed, LogWell, Publish \/ WakeNote
    PROVE  LogWell'
<1>0. /\ UNCHANGED <<snap, kid, round>> /\ hub \in HubRecs
      /\ hub.ver \in Nat /\ hub.content \in Nat /\ hub.note \in Nat /\ \A m \in hub.marks : m.v \in Nat
      /\ snap.ver \in Nat /\ round.base \in Nat /\ round.wake \in Nat
  BY HubFacts, RoundFacts DEF Publish, WakeNote, Typed, SnapRecs
<1>1. CASE Publish
  <2>1. hub'.content = hub.ver + 1 /\ hub'.ver = hub.ver + 1 /\ hub'.note = hub.note /\ hub'.marks = hub.marks
    BY <1>0, <1>1 DEF Publish, HubRecs
  <2>2. \A m \in hub.marks : m.v <= hub'.ver /\ m.v # hub'.content /\ ~(m.v > hub'.content)
    BY <1>0, <2>1 DEF LogWell
  <2>3. /\ hub'.content <= hub'.ver /\ hub'.note <= hub'.ver /\ snap.ver <= hub'.ver
        /\ round.base <= hub'.ver /\ round.base # hub'.ver
    BY <1>0, <2>1 DEF LogWell
  <2> QED
    BY <1>0, <2>1, <2>2, <2>3 DEF LogWell
<1>2. CASE WakeNote
  <2>1. /\ hub'.content = hub.content /\ hub'.ver = hub.ver + 1 /\ hub'.note = hub.ver + 1
        /\ hub'.marks = hub.marks /\ hub'.to = hub.to
    BY <1>0, <1>2 DEF WakeNote, HubRecs
  <2>2. \A m \in hub.marks : m.v <= hub'.ver
    BY <1>0, <2>1 DEF LogWell
  <2>3. /\ hub'.content <= hub'.ver /\ hub'.note <= hub'.ver /\ snap.ver <= hub'.ver /\ round.wake <= hub'.note
        /\ round.base <= hub'.ver /\ round.base # hub'.ver /\ ~(hub'.note < hub'.content)
    BY <1>0, <2>1 DEF LogWell
  <2> QED
    BY <1>0, <2>1, <2>2, <2>3 DEF LogWell, Undisturbed
<1> QED
  BY <1>1, <1>2

LEMMA LogMark == Typed /\ Planning /\ LogWell /\ MarkLaunch => LogWell'
<1> SUFFICES ASSUME Typed, Planning, LogWell, MarkLaunch PROVE LogWell'
  OBVIOUS
<1>0. /\ UNCHANGED <<snap, kid>> /\ hub \in HubRecs /\ round \in RoundRecs /\ round.step = "mark"
      /\ hub.ver \in Nat /\ hub.content \in Nat /\ hub.note \in Nat /\ (\A m \in hub.marks : m.v \in Nat)
      /\ snap.ver \in Nat /\ round.base \in Nat /\ round.wake \in Nat /\ round.role \in Roles /\ round.role # "none"
  BY HubFacts, RoundFacts, Named DEF MarkLaunch, Typed, SnapRecs, Planning
<1>1. CASE EndRound(dones) /\ UNCHANGED hub
  BY <1>0, <1>1, LogFrame DEF EndRound, MarksKept, LogWell
<1>2. CASE ~(EndRound(dones) /\ UNCHANGED hub)
  <2> DEFINE new == [role |-> round.role, v |-> hub.ver + 1]
  <2>1. /\ hub.ver = round.base
        /\ hub' = [hub EXCEPT !.ver = hub.ver + 1, !.marks = hub.marks \cup {new}]
        /\ round' = [round EXCEPT !.step = "spawn", !.base = hub.ver + 1,
                                  !.owed = sweeps.last, !.awaits = sweeps.barrier]
    BY <1>2 DEF MarkLaunch
  <2>2. new.role = round.role /\ new.v = hub.ver + 1
    OBVIOUS
  <2>3. /\ hub'.ver = hub.ver + 1 /\ hub'.marks = hub.marks \cup {new} /\ hub'.content = hub.content
        /\ hub'.note = hub.note /\ hub'.to = hub.to
    BY <1>0, <2>1 DEF HubRecs
  <2>4. round'.step = "spawn" /\ round'.base = hub.ver + 1 /\ round'.role = round.role /\ round'.wake = round.wake
    BY <1>0, <2>1 DEF RoundRecs
  <2>5. [role |-> round'.role, v |-> round'.base] = new
    BY <2>4
  <2> HIDE DEF new
  <2>6. round.role = snap.to /\ snap.to = hub.to
    BY <1>0, <2>1 DEF LogWell
  <2>7. ASSUME NEW m \in hub.marks, m.v > hub.content, hub.note < hub.content PROVE FALSE
    <3>1. m.role = hub.to /\ m.v > round.wake
      BY <1>0, <2>7 DEF LogWell
    <3>2. launchBlocked(round.role, round.wake)
      BY <2>6, <2>7, <3>1 DEF launchBlocked
    <3> QED
      BY <1>0, <2>1, <3>2 DEF LogWell
  <2>8. ASSUME NEW m \in hub'.marks
        PROVE  /\ m.v <= hub'.ver /\ m.v # hub'.content
               /\ m.v > hub'.content => m.role = hub'.to /\ snap'.to = hub'.to
               /\ m.v > hub'.content /\ hub'.note < hub'.content => m.v = hub'.ver
    <3>1. CASE m \in hub.marks
      BY <1>0, <2>3, <2>7, <3>1 DEF LogWell
    <3>2. CASE m = new
      BY <1>0, <2>2, <2>3, <2>6, <3>2 DEF LogWell
    <3> QED
      BY <2>3, <3>1, <3>2
  <2>9. /\ hub'.content <= hub'.ver /\ hub'.note <= hub'.ver /\ snap'.ver <= hub'.ver
        /\ round'.base <= hub'.ver /\ round'.wake <= hub'.note
    BY <1>0, <2>3, <2>4 DEF LogWell
  <2> QED
    BY <1>0, <2>3, <2>4, <2>5, <2>6, <2>8, <2>9 DEF LogWell, Undisturbed
<1> QED
  BY <1>1, <1>2

LEMMA LogStep ==
    ASSUME Typed, Planning, ChainWell(kid, chain), LogWell, Next
    PROVE  LogWell'
<1>1. CASE spawnTrackedLaunch
  BY <1>1, KidsMarked, LogFrame DEF spawnTrackedLaunch, EndRound
<1>2. CASE UNCHANGED <<hub, snap, round>>
  BY <1>2, KidsMarked, LogFrame
<1> QED
  BY <1>1, <1>2, LogCompare, LogRound, LogHub, LogMark DEF Next, Round, Child, StartChild, ChildReturns, ChildFails,
     AnnounceChild, receiveSignal, SignalRead, WorkingTimeout, handleDone, runDoneSweep, Close
-----------------------------------------------------------------------------
(***************************************************************************)
(* The fuse.  A watch is of a launch whose child has returned, an entry in *)
(* flight of one that runs; a launch whose signal counted, in its own turn *)
(* and while the lane is open, will have its fuse spared or removed.       *)
(***************************************************************************)
Begun(n) == kid[n].phase \notin {"none", "queued"}

Hushed(n) ==
    LET r == kid[n].role IN
    \/ kid[n].phase = "running" /\ r \in lane.working \cup lane.giveup
    \/ kid[n].phase = "returned" /\ (lane.watch[r] = n => r \in lane.working)
    \/ kid[n].phase = "over" /\ lane.watch[r] # n

WatchWell == \A r \in Roles : lane.watch[r] # NoLaunch => /\ kid[lane.watch[r]].role = r
                                                          /\ kid[lane.watch[r]].phase \in {"returned", "over"}
FlightWell == \A r \in Roles : lane.inflight[r] # NoLaunch => /\ kid[lane.inflight[r]].role = r
                                                              /\ kid[lane.inflight[r]].phase = "running"
ClosedWell == lane.closed => \A r \in Roles : lane.watch[r] = NoLaunch
CallsWell == \A c \in calls : Begun(c.of) /\ (c.counts => ~OwnTurn(c.of))
ToldWell == \A n \in past.told : Begun(n) /\ (OwnTurn(n) /\ ~lane.closed => Hushed(n))
PlainWell == \A n \in past.plain : /\ kid[n].phase = "over" /\ lane.watch[kid[n].role] # n /\ n \notin past.told
                                   /\ \A c \in calls : c.of = n => ~c.counts

FuseWell == WatchWell /\ FlightWell /\ ClosedWell /\ CallsWell /\ ToldWell /\ PlainWell

\* All that the steps of other components preserve.
Footing == Typed /\ Planning /\ ChainWell(kid, chain) /\ LogWell

LEMMA Footed == Footing => /\ kid \in Kids /\ chain \in Chains /\ lane \in LaneRecs /\ Seated(kid)
                           /\ calls \subseteq CallRecs /\ past \in PastRecs
                           /\ past.told \subseteq Launches /\ past.plain \subseteq Launches
                           /\ \A c \in calls : c.of \in Launches
                           /\ \A r \in Roles : lane.watch[r] \in MaybeLaunch /\ lane.inflight[r] \in MaybeLaunch
                           /\ \A n \in Launches : Begun(n) => kid[n].role \in Roles
BY DEF Footing, Typed, Kids, Chains, ChainWell, CallRecs, PastRecs, LaneRecs, Fuses, Seated, UsedIn, Begun

LEMMA OneUp ==
    ASSUME Footing, NEW m \in Launches, NEW n \in Launches, kid[m].role = kid[n].role,
           kid[m].phase \in {"running", "returned"}, kid[n].phase \in {"running", "returned"}
    PROVE  m = n
<1>1. Head(chain[kid[m].role]) = m /\ Head(chain[kid[n].role]) = n
  BY Footed, HeadIsUp DEF Footing
<1> QED
  BY <1>1

\* The launches that had begun are as they were, and the fuses at most shorter.
BegunSame == \A m \in Launches : Begun(m) => kid'[m].role = kid[m].role /\ kid'[m].phase = kid[m].phase
Eases == /\ lane'.closed = lane.closed
         /\ lane.working \subseteq lane'.working /\ lane.giveup \subseteq lane'.giveup
         /\ \A q \in Roles : lane'.watch[q] \in {lane.watch[q], NoLaunch}

LEMMA NoLaunchIsNone == \A n \in Launches : n # NoLaunch
BY Numbers DEF NoLaunch

LEMMA StaysHushed ==
    ASSUME Footing, BegunSame, Eases, NEW n \in Launches, Begun(n), Hushed(n)
    PROVE  Hushed(n)'
<1>1. kid[n].role \in Roles /\ kid'[n].role = kid[n].role /\ kid'[n].phase = kid[n].phase
  BY Footed DEF BegunSame
<1>2. lane'.watch[kid[n].role] \in {lane.watch[kid[n].role], NoLaunch}
  BY <1>1 DEF Eases
<1> QED
  BY <1>1, <1>2, NoLaunchIsNone DEF Eases, Hushed

LEMMA HandlerWell ==
    ASSUME Footing, FuseWell, Next, BegunSame, Eases, FlightWell',
           NEW c \in CallRecs, NEW rest \in SUBSET calls,
           Begun(c.of), c.counts => c.of \notin past.plain,
           c.counts /\ OwnTurn(c.of) => calls' = rest /\ (lane.closed \/ Hushed(c.of)'),
           HandlerEnds(rest, c)
    PROVE  FuseWell'
<1>0. c.of \in Launches /\ \A n \in Launches : Begun(n) => Begun(n)'
  BY Footed DEF CallRecs, BegunSame, Begun
<1>00. \A n \in Launches : Begun(n) /\ OwnTurn(n)' => OwnTurn(n)
  BY TurnsEnd DEF Footing, Begun
<1>1. WatchWell'
  <2> SUFFICES ASSUME NEW r \in Roles, lane'.watch[r] # NoLaunch
               PROVE  kid'[lane'.watch[r]].role = r /\ kid'[lane'.watch[r]].phase \in {"returned", "over"}
    BY DEF WatchWell
  <2>1. lane'.watch[r] = lane.watch[r] /\ lane.watch[r] \in Launches
    BY Footed DEF Eases, MaybeLaunch
  <2>2. kid[lane.watch[r]].role = r /\ kid[lane.watch[r]].phase \in {"returned", "over"}
    BY <2>1 DEF FuseWell, WatchWell
  <2> QED
    BY <2>1, <2>2 DEF BegunSame, Begun
<1>2. ClosedWell'
  BY DEF FuseWell, ClosedWell, Eases
<1>3. CallsWell'
  <2> SUFFICES ASSUME NEW d \in calls' PROVE Begun(d.of)' /\ (d.counts => ~OwnTurn(d.of)')
    BY DEF CallsWell
  <2>1. CASE d \in calls
    BY <1>0, <1>00, <2>1, Footed DEF FuseWell, CallsWell
  <2>2. CASE d \notin calls
    <3>1. d.of = c.of /\ d.counts = c.counts /\ calls' # rest
      BY <2>2 DEF HandlerEnds
    <3> QED
      BY <1>0, <1>00, <3>1
  <2> QED
    BY <2>1, <2>2
<1>4. ASSUME NEW n \in past'.told PROVE n \in past.told \/ (n = c.of /\ c.counts)
  BY <1>4 DEF HandlerEnds
<1>5. ToldWell'
  <2> SUFFICES ASSUME NEW n \in past'.told PROVE Begun(n)' /\ (OwnTurn(n)' /\ ~lane'.closed => Hushed(n)')
    BY DEF ToldWell
  <2>1. CASE n \in past.told
    <3>1. n \in Launches /\ Begun(n) /\ (OwnTurn(n) /\ ~lane.closed => Hushed(n))
      BY <2>1, Footed DEF FuseWell, ToldWell
    <3> QED
      BY <1>0, <1>00, <3>1, StaysHushed DEF Eases
  <2>2. CASE n = c.of /\ c.counts
    BY <1>0, <1>00, <2>2 DEF Eases
  <2> QED
    BY <1>4, <2>1, <2>2
<1>6. PlainWell'
  <2>0. past'.plain = past.plain
    BY DEF HandlerEnds
  <2> SUFFICES ASSUME NEW n \in past.plain
               PROVE  /\ kid'[n].phase = "over" /\ lane'.watch[kid'[n].role] # n /\ n \notin past'.told
                      /\ \A d \in calls' : d.of = n => ~d.counts
    BY <2>0 DEF PlainWell
  <2>1. /\ n \in Launches /\ kid[n].phase = "over" /\ lane.watch[kid[n].role] # n /\ n \notin past.told
        /\ \A d \in calls : d.of = n => ~d.counts
    BY Footed DEF FuseWell, PlainWell
  <2>2. Begun(n) /\ kid[n].role \in Roles /\ kid'[n].phase = "over" /\ kid'[n].role = kid[n].role
    BY <2>1, Footed DEF Begun, BegunSame
  <2>3. lane'.watch[kid'[n].role] # n
    BY <2>1, <2>2, NoLaunchIsNone DEF Eases
  <2>4. n \notin past'.told
    BY <1>4, <2>1
  <2>5. ASSUME NEW d \in calls', d.of = n PROVE ~d.counts
    <3>1. d \in calls \/ (d.of = c.of /\ d.counts = c.counts)
      BY DEF HandlerEnds
    <3> QED
      BY <2>1, <2>5, <3>1
  <2> QED
    BY <2>2, <2>3, <2>4, <2>5
<1> QED
  BY <1>1, <1>2, <1>3, <1>5, <1>6 DEF FuseWell

\* Steps that take no signal and raise no alarm.
LEMMA FuseFrame ==
    ASSUME Footing, FuseWell, Next, BegunSame, Eases, FlightWell', UNCHANGED <<calls, past>>
    PROVE  FuseWell'
<1>0. \A n \in Launches : Begun(n) => Begun(n)'
  BY DEF BegunSame, Begun
<1>00. \A n \in Launches : Begun(n) /\ OwnTurn(n)' => OwnTurn(n)
  BY TurnsEnd DEF Footing, Begun
<1>1. WatchWell'
  <2> SUFFICES ASSUME NEW r \in Roles, lane'.watch[r] # NoLaunch
               PROVE  kid'[lane'.watch[r]].role = r /\ kid'[lane'.watch[r]].phase \in {"returned", "over"}
    BY DEF WatchWell
  <2>1. lane'.watch[r] = lane.watch[r] /\ lane.watch[r] \in Launches
    BY Footed DEF Eases, MaybeLaunch
  <2>2. kid[lane.watch[r]].role = r /\ kid[lane.watch[r]].phase \in {"returned", "over"}
    BY <2>1 DEF FuseWell, WatchWell
  <2> QED
    BY <2>1, <2>2 DEF BegunSame, Begun
<1>2. ClosedWell'
  BY DEF FuseWell, ClosedWell, Eases
<1>3. CallsWell'
  BY <1>0, <1>00, Footed DEF FuseWell, CallsWell
<1>4. ToldWell'
  <2> SUFFICES ASSUME NEW n \in past.told PROVE Begun(n)' /\ (OwnTurn(n)' /\ ~lane'.closed => Hushed(n)')
    BY DEF ToldWell
  <2>1. n \in Launches /\ Begun(n) /\ (OwnTurn(n) /\ ~lane.closed => Hushed(n))
    BY Footed DEF FuseWell, ToldWell
  <2> QED
    BY <1>0, <1>00, <2>1, StaysHushed DEF Eases
<1>5. PlainWell'
  <2> SUFFICES ASSUME NEW n \in past.plain
               PROVE  kid'[n].phase = "over" /\ lane'.watch[kid'[n].role] # n
    BY DEF PlainWell, FuseWell
  <2>1. n \in Launches /\ kid[n].phase = "over" /\ lane.watch[kid[n].role] # n
    BY Footed DEF FuseWell, PlainWell
  <2>2. Begun(n) /\ kid[n].role \in Roles /\ kid'[n].phase = "over" /\ kid'[n].role = kid[n].role
    BY <2>1, Footed DEF Begun, BegunSame
  <2> QED
    BY <2>1, <2>2, NoLaunchIsNone DEF Eases
<1> QED
  BY <1>1, <1>2, <1>3, <1>4, <1>5 DEF FuseWell
\* A step of launch n's child, seen from the other launches.
OthersSame(n) == \A m \in Launches : m # n => kid'[m] = kid[m]

LEMMA FuseReturn ==
    ASSUME Footing, FuseWell, Next, NEW n \in Launches, ChildReturns(n)
    PROVE  FuseWell'
<1> DEFINE r == kid[n].role
<1>0. /\ kid[n].phase = "running" /\ kid' = [kid EXCEPT ![n].phase = "returned"] /\ UNCHANGED <<calls, past>>
      /\ kid \in Kids /\ chain \in Chains /\ lane \in LaneRecs /\ r \in Roles
  BY Footed DEF ChildReturns, Begun
<1>00. \A m \in Launches : Begun(m) /\ OwnTurn(m)' => OwnTurn(m)
  BY TurnsEnd DEF Footing, Begun
<1>1. "returned" \in Phases
  BY Named
<1>2. kid'[n].phase = "returned" /\ kid'[n].role = r /\ OthersSame(n) /\ KidsKeep
  BY <1>0, <1>1, ReturnMoves DEF KidsKeep, OthersSame
<1>3. /\ lane'.working = lane.working /\ lane'.giveup = lane.giveup \ {r} /\ lane'.closed = lane.closed
      /\ lane'.inflight[r] = NoLaunch /\ \A q \in Roles : q # r => lane'.inflight[q] = lane.inflight[q]
      /\ lane'.watch[r] = (IF lane.closed \/ r \in lane.giveup THEN lane.watch[r] ELSE n)
      /\ \A q \in Roles : q # r => lane'.watch[q] = lane.watch[q]
  BY <1>0, ReturnLane
<1>4. \A q \in Roles : lane.watch[q] # n
  BY <1>0, NoLaunchIsNone DEF FuseWell, WatchWell
<1>5. \A m \in Launches : m # n /\ kid[m].phase \in {"running", "returned"} => kid[m].role # r
  BY <1>0, OneUp
<1>6. WatchWell'
  <2> SUFFICES ASSUME NEW q \in Roles, lane'.watch[q] # NoLaunch
               PROVE  kid'[lane'.watch[q]].role = q /\ kid'[lane'.watch[q]].phase \in {"returned", "over"}
    BY DEF WatchWell
  <2>1. CASE lane'.watch[q] = n
    BY <1>2, <1>3, <1>4, <2>1
  <2>2. CASE lane'.watch[q] # n
    <3>1. lane'.watch[q] = lane.watch[q] /\ lane.watch[q] \in Launches
      BY <1>3, <2>2, Footed DEF MaybeLaunch
    <3>2. kid[lane.watch[q]].role = q /\ kid[lane.watch[q]].phase \in {"returned", "over"}
      BY <3>1 DEF FuseWell, WatchWell
    <3> QED
      BY <1>2, <2>2, <3>1, <3>2 DEF OthersSame
  <2> QED
    BY <2>1, <2>2
<1>7. FlightWell'
  <2> SUFFICES ASSUME NEW q \in Roles, lane'.inflight[q] # NoLaunch
               PROVE  kid'[lane'.inflight[q]].role = q /\ kid'[lane'.inflight[q]].phase = "running"
    BY DEF FlightWell
  <2>1. q # r /\ lane'.inflight[q] = lane.inflight[q] /\ lane.inflight[q] \in Launches
    BY <1>3, Footed DEF MaybeLaunch
  <2>2. kid[lane.inflight[q]].role = q /\ kid[lane.inflight[q]].phase = "running"
    BY <2>1 DEF FuseWell, FlightWell
  <2> QED
    BY <1>2, <2>1, <2>2 DEF OthersSame
<1>8. ClosedWell'
  BY <1>3 DEF FuseWell, ClosedWell
<1>9. \A m \in Launches : Begun(m) => Begun(m)'
  BY <1>2 DEF Begun, OthersSame
<1>10. CallsWell'
  BY <1>0, <1>00, <1>9, Footed DEF FuseWell, CallsWell
<1>11. ToldWell'
  <2> SUFFICES ASSUME NEW m \in past.told PROVE Begun(m)' /\ (OwnTurn(m)' /\ ~lane'.closed => Hushed(m)')
    BY <1>0 DEF ToldWell
  <2>1. m \in Launches /\ Begun(m) /\ (OwnTurn(m) /\ ~lane.closed => Hushed(m))
    BY Footed DEF FuseWell, ToldWell
  <2> SUFFICES ASSUME ~lane.closed, Hushed(m) PROVE Hushed(m)'
    BY <1>00, <1>3, <1>9, <2>1
  <2>2. CASE m = n
    BY <1>0, <1>2, <1>3, <1>4, <2>2 DEF Hushed
  <2>3. CASE m # n
    <3>1. kid'[m] = kid[m] /\ kid[m].role \in Roles
      BY <1>2, <2>1, <2>3, Footed DEF OthersSame
    <3>2. CASE kid[m].role # r
      BY <1>3, <3>1, <3>2 DEF Hushed
    <3>3. CASE kid[m].role = r
      <4>1. kid[m].phase = "over" /\ lane.watch[r] # m
        BY <1>5, <2>1, <2>3, <3>3 DEF Hushed
      <4> QED
        BY <1>3, <2>3, <3>1, <3>3, <4>1 DEF Hushed
    <3> QED
      BY <3>2, <3>3
  <2> QED
    BY <2>2, <2>3
<1>12. PlainWell'
  <2> SUFFICES ASSUME NEW m \in past.plain
               PROVE  kid'[m].phase = "over" /\ lane'.watch[kid'[m].role] # m
    BY <1>0 DEF PlainWell, FuseWell
  <2>1. m \in Launches /\ kid[m].phase = "over" /\ lane.watch[kid[m].role] # m
    BY Footed DEF FuseWell, PlainWell
  <2>2. m # n /\ kid'[m] = kid[m] /\ kid[m].role \in Roles
    BY <1>0, <1>2, <2>1, Footed DEF OthersSame, Begun
  <2> QED
    BY <1>3, <2>1, <2>2
<1> QED
  BY <1>6, <1>7, <1>8, <1>10, <1>11, <1>12 DEF FuseWell

LEMMA FuseOver ==
    ASSUME Footing, FuseWell, Next, NEW n \in Launches, ChildFails(n) \/ AnnounceChild(n)
    PROVE  FuseWell'
<1> DEFINE r == kid[n].role
<1>0. /\ kid[n].phase \in {"running", "returned"} /\ kid' = [kid EXCEPT ![n].phase = "over"]
      /\ UNCHANGED <<calls, past>> /\ kid \in Kids /\ chain \in Chains /\ lane \in LaneRecs /\ r \in Roles
  BY Footed DEF ChildFails, AnnounceChild, Begun
<1>00. \A m \in Launches : Begun(m) /\ OwnTurn(m)' => OwnTurn(m)
  BY TurnsEnd DEF Footing, Begun
<1>1. "over" \in Phases
  BY Named
<1>2. kid'[n].phase = "over" /\ kid'[n].role = r /\ OthersSame(n) /\ KidsKeep
  BY <1>0, <1>1, ReturnMoves DEF KidsKeep, OthersSame
<1>3. /\ lane'.working = lane.working \ {r} /\ lane.giveup \ {r} \subseteq lane'.giveup
      /\ lane'.closed = lane.closed
      /\ \A q \in Roles : q # r => lane'.watch[q] = lane.watch[q] /\ lane'.inflight[q] = lane.inflight[q]
      /\ lane'.watch[r] \in {lane.watch[r], NoLaunch}
      /\ lane'.inflight[r] = NoLaunch \/ (lane'.inflight[r] = lane.inflight[r] /\ kid[n].phase = "returned")
  <2>1. CASE ChildFails(n)
    BY <1>0, <2>1, FailLane
  <2>2. CASE AnnounceChild(n)
    <3>1. kid[n].phase = "returned"
      BY <2>2 DEF AnnounceChild
    <3> QED
      BY <1>0, <2>2, <3>1, AnnounceLane
  <2> QED
    BY <2>1, <2>2
<1>4. \A m \in Launches : m # n /\ kid[m].phase \in {"running", "returned"} => kid[m].role # r
  BY <1>0, OneUp
<1>5. n \in past.told /\ OwnTurn(n) /\ ~lane.closed => lane'.watch[r] # n
  <2> SUFFICES ASSUME n \in past.told, OwnTurn(n), ~lane.closed PROVE lane'.watch[r] # n
    OBVIOUS
  <2>1. Hushed(n)
    BY DEF FuseWell, ToldWell
  <2>2. CASE ChildFails(n)
    <3>1. kid[n].phase = "running"
      BY <2>2 DEF ChildFails
    <3>2. lane.watch[r] # n
      BY <1>0, <3>1, NoLaunchIsNone DEF FuseWell, WatchWell
    <3> QED
      BY <1>3, <3>2, NoLaunchIsNone
  <2>3. CASE AnnounceChild(n)
    <3>1. kid[n].phase = "returned"
      BY <2>3 DEF AnnounceChild
    <3>2. lane.watch[r] # n \/ r \in lane.working
      BY <2>1, <3>1 DEF Hushed
    <3>3. CASE lane.watch[r] # n
      BY <1>3, <3>3, NoLaunchIsNone
    <3>4. CASE r \in lane.working /\ lane.watch[r] = n
      <4>1. ~(snap.ver > kid[n].v) /\ snap.to = r
        BY <1>0, OwnTurnIsFresh DEF Footing
      <4>2. lane'.watch[r] = NoLaunch
        BY <1>0, <2>3, <3>4, <4>1, AnnounceLane
      <4> QED
        BY <4>2, NoLaunchIsNone
    <3> QED
      BY <3>2, <3>3, <3>4
  <2> QED
    BY <2>2, <2>3
<1>6. WatchWell'
  <2> SUFFICES ASSUME NEW q \in Roles, lane'.watch[q] # NoLaunch
               PROVE  kid'[lane'.watch[q]].role = q /\ kid'[lane'.watch[q]].phase \in {"returned", "over"}
    BY DEF WatchWell
  <2>1. lane'.watch[q] = lane.watch[q] /\ lane.watch[q] \in Launches
    BY <1>3, Footed DEF MaybeLaunch
  <2>2. kid[lane.watch[q]].role = q /\ kid[lane.watch[q]].phase \in {"returned", "over"}
    BY <2>1 DEF FuseWell, WatchWell
  <2> QED
    BY <1>2, <2>1, <2>2 DEF OthersSame
<1>7. FlightWell'
  <2> SUFFICES ASSUME NEW q \in Roles, lane'.inflight[q] # NoLaunch
               PROVE  kid'[lane'.inflight[q]].role = q /\ kid'[lane'.inflight[q]].phase = "running"
    BY DEF FlightWell
  <2>1. lane'.inflight[q] = lane.inflight[q] /\ lane.inflight[q] \in Launches
    BY <1>3, Footed DEF MaybeLaunch
  <2>2. kid[lane.inflight[q]].role = q /\ kid[lane.inflight[q]].phase = "running"
    BY <2>1 DEF FuseWell, FlightWell
  <2>3. lane.inflight[q] # n
    BY <1>3, <2>1, <2>2
  <2> QED
    BY <1>2, <2>1, <2>2, <2>3 DEF OthersSame
<1>8. ClosedWell'
  BY <1>3 DEF FuseWell, ClosedWell
<1>9. \A m \in Launches : Begun(m) => Begun(m)'
  BY <1>2 DEF Begun, OthersSame
<1>10. CallsWell'
  BY <1>0, <1>00, <1>9, Footed DEF FuseWell, CallsWell
<1>11. ToldWell'
  <2> SUFFICES ASSUME NEW m \in past.told PROVE Begun(m)' /\ (OwnTurn(m)' /\ ~lane'.closed => Hushed(m)')
    BY <1>0 DEF ToldWell
  <2>1. m \in Launches /\ Begun(m) /\ (OwnTurn(m) /\ ~lane.closed => Hushed(m))
    BY Footed DEF FuseWell, ToldWell
  <2> SUFFICES ASSUME ~lane.closed, OwnTurn(m), Hushed(m) PROVE Hushed(m)'
    BY <1>00, <1>3, <1>9, <2>1
  <2>2. CASE m = n
    BY <1>2, <1>5, <2>2 DEF Hushed
  <2>3. CASE m # n
    <3>1. kid'[m] = kid[m] /\ kid[m].role \in Roles
      BY <1>2, <2>1, <2>3, Footed DEF OthersSame
    <3>2. CASE kid[m].role # r
      BY <1>3, <3>1, <3>2 DEF Hushed
    <3>3. CASE kid[m].role = r
      <4>1. kid[m].phase = "over" /\ lane.watch[r] # m
        BY <1>4, <2>1, <2>3, <3>3 DEF Hushed
      <4> QED
        BY <1>3, <2>1, <3>1, <3>3, <4>1, NoLaunchIsNone DEF Hushed
    <3> QED
      BY <3>2, <3>3
  <2> QED
    BY <2>2, <2>3
<1>12. PlainWell'
  <2> SUFFICES ASSUME NEW m \in past.plain
               PROVE  kid'[m].phase = "over" /\ lane'.watch[kid'[m].role] # m
    BY <1>0 DEF PlainWell, FuseWell
  <2>1. m \in Launches /\ kid[m].phase = "over" /\ lane.watch[kid[m].role] # m
    BY Footed DEF FuseWell, PlainWell
  <2>2. m # n /\ kid'[m] = kid[m] /\ kid[m].role \in Roles
    BY <1>0, <1>2, <2>1, Footed DEF OthersSame, Begun
  <2> QED
    BY <1>3, <2>1, <2>2, NoLaunchIsNone
<1> QED
  BY <1>6, <1>7, <1>8, <1>10, <1>11, <1>12 DEF FuseWell

LEMMA FuseStart ==
    ASSUME Footing, FuseWell, Next, NEW n \in Launches, StartChild(n)
    PROVE  FuseWell'
<1>0. kid[n].phase = "queued" /\ OthersSame(n) /\ KidsKeep /\ UNCHANGED <<calls, past>>
      /\ kid \in Kids /\ lane \in LaneRecs
  BY Footed, StartMoves DEF StartChild, OthersSame
<1>1. BegunSame
  BY <1>0 DEF BegunSame, Begun, OthersSame
<1>2. kid[n].role \in Roles
  BY <1>0, Footed DEF Seated, UsedIn
<1>3. CASE UNCHANGED lane
  <2>1. Eases
    BY <1>3 DEF Eases
  <2>2. FlightWell'
    <3> SUFFICES ASSUME NEW q \in Roles, lane.inflight[q] # NoLaunch
                 PROVE  kid'[lane.inflight[q]].role = q /\ kid'[lane.inflight[q]].phase = "running"
      BY <1>3 DEF FlightWell
    <3>1. lane.inflight[q] \in Launches /\ kid[lane.inflight[q]].role = q /\ kid[lane.inflight[q]].phase = "running"
      BY Footed DEF FuseWell, FlightWell, MaybeLaunch
    <3> QED
      BY <1>0, <3>1 DEF OthersSame
  <2> QED
    BY <1>0, <1>1, <2>1, <2>2, FuseFrame
<1>4. CASE ~(UNCHANGED lane)
  <2>1. kid'[n].phase = "running" /\ lane' = [lane EXCEPT !.inflight[kid[n].role] = n]
    BY <1>0, <1>4, StartMoves
  <2>2. /\ lane'.watch = lane.watch /\ lane'.working = lane.working
        /\ lane'.giveup = lane.giveup /\ lane'.closed = lane.closed
        /\ lane'.inflight[kid[n].role] = n
        /\ \A q \in Roles : q # kid[n].role => lane'.inflight[q] = lane.inflight[q]
    BY <1>0, <1>2, <2>1, StartLane
  <2>3. Eases
    BY <2>2 DEF Eases
  <2>4. FlightWell'
    <3> SUFFICES ASSUME NEW q \in Roles, lane'.inflight[q] # NoLaunch
                 PROVE  kid'[lane'.inflight[q]].role = q /\ kid'[lane'.inflight[q]].phase = "running"
      BY DEF FlightWell
    <3>1. CASE q = kid[n].role
      BY <1>0, <2>1, <2>2, <3>1 DEF KidsKeep
    <3>2. CASE q # kid[n].role
      <4>1. /\ lane'.inflight[q] = lane.inflight[q] /\ lane.inflight[q] \in Launches
            /\ kid[lane.inflight[q]].role = q /\ kid[lane.inflight[q]].phase = "running"
        BY <2>2, <3>2, Footed DEF FuseWell, FlightWell, MaybeLaunch
      <4> QED
        BY <1>0, <4>1 DEF OthersSame
    <3> QED
      BY <3>1, <3>2
  <2> QED
    BY <1>0, <1>1, <2>3, <2>4, FuseFrame
<1> QED
  BY <1>3, <1>4
LEMMA LoosensEases == Loosens(lane') => Eases /\ lane'.inflight = lane.inflight
BY DEF Loosens, Eases

\* Entries in flight are of launches that run on.
LEMMA SameFlights == Footing /\ FuseWell /\ BegunSame /\ lane'.inflight = lane.inflight => FlightWell'
<1> SUFFICES ASSUME Footing, FuseWell, BegunSame, lane'.inflight = lane.inflight,
                    NEW q \in Roles, lane.inflight[q] # NoLaunch
             PROVE  kid'[lane.inflight[q]].role = q /\ kid'[lane.inflight[q]].phase = "running"
  BY DEF FlightWell
<1>1. lane.inflight[q] \in Launches /\ kid[lane.inflight[q]].role = q /\ kid[lane.inflight[q]].phase = "running"
  BY Footed DEF FuseWell, FlightWell, MaybeLaunch
<1> QED
  BY <1>1 DEF BegunSame, Begun

LEMMA HandlerEases ==
    ASSUME Footing, NEW rest, NEW c, HandlerEnds(rest, c)
    PROVE  Eases /\ lane'.inflight = lane.inflight
<1>1. lane \in LaneRecs
  BY Footed
<1> QED
  BY <1>1, LoosensEases, SameLoosens DEF HandlerEnds, Eases

\* A signal that counts in an undisturbed turn takes the fuse away or is
\* recorded against the launch in flight, without a look at the log.
LEMMA SignalCounts ==
    ASSUME Footing, FuseWell, NEW n \in Launches, NEW sig \in Signals, receiveSignal(n, sig),
           BegunSame, Begun(n), SignalCall(n, sig).counts, OwnTurn(n)
    PROVE  calls' = calls /\ Hushed(n)'
<1> DEFINE r == kid[n].role
           c == SignalCall(n, sig)
<1>0. lane \in LaneRecs /\ r \in Roles /\ kid'[n].role = r /\ kid'[n].phase = kid[n].phase /\ n # NoLaunch
  BY Footed, NoLaunchIsNone DEF BegunSame
<1>1. c.role = r /\ c.of = n /\ c \in CallRecs
  BY SignalTaken DEF SignalCall, Footing, ChainWell
<1>2. n \in {lane.watch[r], lane.inflight[r]} /\ lane.watch[r] \in {NoLaunch, n}
  BY DEF SignalCall
<1>3. ~(snap.ver > kid[n].v) /\ snap.to = r
  BY OwnTurnIsFresh DEF Footing, Begun
<1>4. workingWatchForEvent(calls, c)
  BY SignalTaken DEF Footing, ChainWell
<1> HIDE DEF c
<1>5. CASE lane.watch[r] = n
  <2>1. Over(calls, c, HitWatch(r))
    BY <1>0, <1>1, <1>3, <1>4, <1>5 DEF workingWatchForEvent
  <2>2. calls' = calls /\ lane'.watch[r] = NoLaunch
    BY <1>0, <2>1, WatchLoosens DEF Over
  <2>3. kid[n].phase \in {"returned", "over"}
    BY <1>0, <1>5 DEF FuseWell, WatchWell
  <2> QED
    BY <1>0, <2>2, <2>3 DEF Hushed
<1>6. CASE lane.watch[r] = NoLaunch
  <2>1. lane.inflight[r] = n
    BY <1>0, <1>2, <1>6
  <2>2. Over(calls, c, HitInFlight(c))
    BY <1>0, <1>1, <1>3, <1>4, <1>6, <2>1 DEF workingWatchForEvent, inFlightLaunchForEvent
  <2>3. calls' = calls /\ r \in lane'.working \cup lane'.giveup
    BY <1>0, <1>1, <2>2, InFlightLoosens DEF Over
  <2>4. kid[n].phase = "running"
    BY <1>0, <2>1 DEF FuseWell, FlightWell
  <2> QED
    BY <1>0, <2>3, <2>4 DEF Hushed
<1> QED
  BY <1>2, <1>5, <1>6

LEMMA FuseSignal ==
    ASSUME Footing, FuseWell, Next, NEW n \in Launches, NEW sig \in Signals, receiveSignal(n, sig)
    PROVE  FuseWell'
<1> DEFINE c == SignalCall(n, sig)
<1>0. kid \in Kids /\ Begun(n) /\ kid' = [kid EXCEPT ![n].sent = kid[n].sent \cup {sig}]
  BY Footed DEF receiveSignal, Begun
<1>1. BegunSame
  BY <1>0, SignalMoves DEF BegunSame, KidsKeep
<1>2. c \in CallRecs /\ HandlerEnds(calls, c)
  BY SignalTaken DEF Footing, ChainWell
<1>3. c.of = n
  BY DEF SignalCall
<1>4. c.counts => n \notin past.plain
  <2> SUFFICES ASSUME c.counts, n \in past.plain PROVE FALSE
    OBVIOUS
  <2>1. kid[n].role \in Roles /\ kid[n].phase = "over" /\ lane.watch[kid[n].role] # n
    BY <1>0, Footed DEF FuseWell, PlainWell
  <2>2. lane.inflight[kid[n].role] = n
    BY <2>1 DEF SignalCall
  <2> QED
    BY <2>1, <2>2, NoLaunchIsNone DEF FuseWell, FlightWell
<1>5. c.counts /\ OwnTurn(n) => calls' = calls /\ Hushed(n)'
  BY <1>0, <1>1, SignalCounts
<1> HIDE DEF c
<1>6. Eases /\ FlightWell'
  BY <1>1, <1>2, HandlerEases, SameFlights
<1>7. calls \in SUBSET calls
  OBVIOUS
<1> QED
  BY <1>0, <1>1, <1>2, <1>3, <1>4, <1>5, <1>6, <1>7, HandlerWell

LEMMA FuseRead ==
    ASSUME Footing, FuseWell, Next, NEW c \in calls, SignalRead(c)
    PROVE  FuseWell'
<1>1. PICK e \in CallRecs : /\ e.of = c.of /\ e.role = c.role /\ (e.counts => c.counts)
                            /\ HandlerEnds(calls \ {c}, e)
  BY ReadTaken DEF Footing
<1>2. Begun(c.of) /\ (c.counts => ~OwnTurn(c.of)) /\ (c.counts => c.of \notin past.plain)
  BY DEF FuseWell, CallsWell, PlainWell
<1>3. BegunSame
  BY DEF SignalRead, BegunSame
<1>4. Eases /\ FlightWell'
  BY <1>1, <1>3, HandlerEases, SameFlights
<1>5. calls \ {c} \in SUBSET calls
  OBVIOUS
<1> QED
  BY <1>1, <1>2, <1>3, <1>4, <1>5, HandlerWell

LEMMA FuseTimeout ==
    ASSUME Footing, FuseWell, Next, NEW r \in Roles, WorkingTimeout(r)
    PROVE  FuseWell'
<1> DEFINE n == lane.watch[r]
<1>0. /\ Loosens(lane') /\ lane'.watch[r] = NoLaunch /\ n \in Launches
      /\ past' \in PastRecs /\ past'.told = past.told
      /\ \/ past'.plain = past.plain
         \/ /\ past'.plain = past.plain \cup {n}
            /\ snap.to = r /\ hub.note < hub.content /\ ~launchGenerationSuperseded(n)
  BY TimeoutLane DEF Footing
<1>1. /\ UNCHANGED <<kid, hub, calls>> /\ calls = {} /\ kid[n].phase # "returned"
  BY <1>0 DEF WorkingTimeout
<1>2. kid[n].role = r /\ kid[n].phase = "over"
  BY <1>0, <1>1, NoLaunchIsNone DEF FuseWell, WatchWell
<1>3. past'.plain = past.plain \cup {n} => n \notin past.told \/ past'.plain = past.plain
  <2> SUFFICES ASSUME past'.plain # past.plain, n \in past.told PROVE FALSE
    OBVIOUS
  <2>1. OwnTurn(n)
    BY <1>0 DEF OwnTurn, Undisturbed
  <2>2. ~lane.closed
    BY <1>0, NoLaunchIsNone DEF FuseWell, ClosedWell
  <2>3. Hushed(n)
    BY <2>1, <2>2 DEF FuseWell, ToldWell
  <2> QED
    BY <1>2, <2>3 DEF Hushed
<1>4. BegunSame /\ Eases /\ FlightWell'
  <2>1. BegunSame
    BY <1>1 DEF BegunSame
  <2> QED
    BY <1>0, <2>1, LoosensEases, SameFlights
<1> HIDE DEF n
<1>5. WatchWell'
  <2> SUFFICES ASSUME NEW q \in Roles, lane'.watch[q] # NoLaunch
               PROVE  kid'[lane'.watch[q]].role = q /\ kid'[lane'.watch[q]].phase \in {"returned", "over"}
    BY DEF WatchWell
  <2>1. lane'.watch[q] = lane.watch[q]
    BY <1>4 DEF Eases
  <2> QED
    BY <1>1, <2>1 DEF FuseWell, WatchWell
<1>6. ClosedWell'
  BY <1>4 DEF FuseWell, ClosedWell, Eases
<1>7. CallsWell'
  BY <1>1 DEF CallsWell
<1>8. ToldWell'
  <2> SUFFICES ASSUME NEW m \in past.told PROVE Begun(m)' /\ (OwnTurn(m)' /\ ~lane'.closed => Hushed(m)')
    BY <1>0 DEF ToldWell
  <2>1. m \in Launches /\ Begun(m) /\ (OwnTurn(m) /\ ~lane.closed => Hushed(m))
    BY Footed DEF FuseWell, ToldWell
  <2>2. Begun(m)' /\ (OwnTurn(m)' => OwnTurn(m))
    BY <1>1, <2>1 DEF Begun, OwnTurn, launchGenerationSuperseded, Undisturbed
  <2> QED
    BY <1>4, <2>1, <2>2, StaysHushed DEF Eases
<1>9. PlainWell'
  <2> SUFFICES ASSUME NEW m \in past'.plain
               PROVE  kid[m].phase = "over" /\ lane'.watch[kid[m].role] # m /\ m \notin past.told
    BY <1>0, <1>1 DEF PlainWell
  <2>1. CASE m \in past.plain
    <3>1. m \in Launches /\ kid[m].phase = "over" /\ lane.watch[kid[m].role] # m /\ m \notin past.told
      BY <2>1, Footed DEF FuseWell, PlainWell
    <3>2. kid[m].role \in Roles
      BY <3>1, Footed DEF Begun
    <3> QED
      BY <1>4, <3>1, <3>2, NoLaunchIsNone DEF Eases
  <2>2. CASE m \notin past.plain
    <3>1. m = n /\ m \notin past.told
      BY <1>0, <1>3, <2>2
    <3> QED
      BY <1>0, <1>2, <3>1, NoLaunchIsNone
  <2> QED
    BY <2>1, <2>2
<1> QED
  BY <1>4, <1>5, <1>6, <1>7, <1>8, <1>9 DEF FuseWell

LEMMA FuseClose ==
    ASSUME Footing, FuseWell, Next, Close
    PROVE  FuseWell'
<1>0. /\ UNCHANGED <<kid, hub, calls, past>> /\ lane'.closed
      /\ \A q \in Roles : lane'.watch[q] = NoLaunch /\ lane'.inflight[q] = NoLaunch
  BY CloseLane DEF Close
<1>1. WatchWell' /\ FlightWell' /\ ClosedWell'
  BY <1>0 DEF WatchWell, FlightWell, ClosedWell
<1>2. CallsWell'
  BY <1>0 DEF FuseWell, CallsWell, Begun, OwnTurn, launchGenerationSuperseded, Undisturbed
<1>3. ToldWell'
  BY <1>0 DEF FuseWell, ToldWell, Begun
<1>4. PlainWell'
  <2> SUFFICES ASSUME NEW m \in past.plain
               PROVE  lane'.watch[kid[m].role] # m
    BY <1>0 DEF PlainWell, FuseWell
  <2>1. m \in Launches /\ kid[m].phase = "over"
    BY Footed DEF FuseWell, PlainWell
  <2>2. kid[m].role \in Roles
    BY <2>1, Footed DEF Begun
  <2> QED
    BY <1>0, <2>1, <2>2, NoLaunchIsNone
<1> QED
  BY <1>1, <1>2, <1>3, <1>4 DEF FuseWell

LEMMA FuseStep == Footing /\ FuseWell /\ Next => FuseWell'
<1> SUFFICES ASSUME Footing, FuseWell, Next PROVE FuseWell'
  OBVIOUS
<1>0. lane \in LaneRecs
  BY Footed
<1>1. CASE UNCHANGED <<kid, calls, past>> /\ Loosens(lane')
  <2>1. BegunSame
    BY <1>1 DEF BegunSame
  <2> QED
    BY <1>1, <2>1, LoosensEases, SameFlights, FuseFrame
<1>2. CASE UNCHANGED <<kid, calls, past, lane>>
  <2>1. Loosens(lane')
    BY <1>0, <1>2, SameLoosens
  <2> QED
    BY <1>1, <1>2, <2>1
<1>3. CASE StartCompare
  <2>1. UNCHANGED <<kid, calls, past>>
    BY <1>3 DEF StartCompare
  <2> QED
    BY <1>1, <1>3, <2>1, CompareLane DEF Footing
<1>4. CASE retireObsoleteWorkingWatches
  <2>1. UNCHANGED <<kid, calls, past>>
    BY <1>4 DEF retireObsoleteWorkingWatches
  <2> QED
    BY <1>1, <1>4, <2>1, RetireLane DEF Footing
<1>5. CASE spawnTrackedLaunch
  <2>1. UNCHANGED <<calls, past, lane>>
    BY <1>5 DEF spawnTrackedLaunch
  <2>2. BegunSame
    <3>1. \/ UNCHANGED kid
          \/ \E n \in Launches : kid[n].phase = "none" /\ \A m \in Launches : m # n => kid'[m] = kid[m]
      BY <1>5, SpawnMoves DEF Footing
    <3> QED
      BY <3>1 DEF BegunSame, Begun
  <2>3. Loosens(lane')
    BY <1>0, <2>1, SameLoosens
  <2> QED
    BY <2>1, <2>2, <2>3, LoosensEases, SameFlights, FuseFrame
<1> QED
  BY <1>2, <1>3, <1>4, <1>5, FuseStart, FuseReturn, FuseOver, FuseSignal, FuseRead, FuseTimeout, FuseClose
  DEF Next, Round, Child, Publish, WakeNote, Diff, EnterLaunch, PlanLaunch, MarkLaunch, handleDone, runDoneSweep

-----------------------------------------------------------------------------
LaneInv == Typed /\ Planning /\ ChainWell(kid, chain) /\ SweepsWell /\ LogWell /\ FuseWell
           /\ (lane.closed => NoRecheck(dones))

LEMMA InitLane == Init => LaneInv
<1> SUFFICES ASSUME Init PROVE LaneInv
  OBVIOUS
<1>1. Typed /\ Planning
  BY InitTyped
<1>2. \A n \in Launches : kid[n].phase = "none" /\ kid[n].archived
  BY DEF Init, FreshKid
<1>3. ChainWell(kid, chain)
  <2>1. UsedIn(kid) = {}
    BY <1>2 DEF UsedIn
  <2>2. Numbered(kid)
    <3>1. 0 \in 0..MaxLaunches /\ 1..0 = {}
      BY Numbers
    <3> QED
      BY <2>1, <3>1 DEF Numbered
  <2>3. LineUp(kid, chain)
    <3>1. \A r \in Roles : chain[r] = <<>>
      BY DEF Init
    <3>2. Len(<<>>) = 0 /\ 1..0 = {}
      BY EmptySeq
    <3> QED
      BY <3>1, <3>2 DEF LineUp
  <2> QED
    BY <1>2, <2>1, <2>2, <2>3 DEF ChainWell, Seated, InLine, Waiting
<1>4. SweepsWell
  <2>1. sweeps.running = {} /\ sweeps.barrier = NoSweep /\ round.step = "idle"
    BY DEF Init, IdleRound
  <2> QED
    BY <1>2, <2>1 DEF SweepsWell
<1>5. LogWell
  <2>1. /\ hub.ver = 1 /\ hub.content = 1 /\ hub.note = 0 /\ hub.marks = {} /\ snap.ver = 0
        /\ round.step = "idle" /\ round.base = 0 /\ round.wake = 0
    BY DEF Init, IdleRound
  <2> QED
    BY <1>2, <2>1 DEF LogWell
<1>6. FuseWell
  <2>1. /\ \A r \in Roles : lane.watch[r] = NoLaunch /\ lane.inflight[r] = NoLaunch
        /\ calls = {} /\ past.told = {} /\ past.plain = {}
    BY DEF Init
  <2> QED
    BY <2>1 DEF FuseWell, WatchWell, FlightWell, ClosedWell, CallsWell, ToldWell, PlainWell
<1>7. dones = {}
  BY DEF Init
<1> QED
  BY <1>1, <1>3, <1>4, <1>5, <1>6, <1>7 DEF LaneInv, NoRecheck

LEMMA StepLane == LaneInv /\ Next => LaneInv'
<1> SUFFICES ASSUME LaneInv, Next PROVE LaneInv'
  OBVIOUS
<1>1. Typed /\ Planning /\ ChainWell(kid, chain) /\ SweepsWell /\ LogWell /\ FuseWell /\ Footing /\ Seated(kid)
      /\ (lane.closed => NoRecheck(dones))
  BY DEF LaneInv, Footing, ChainWell
<1>2. hub' \in HubRecs /\ snap' \in SnapRecs /\ round' \in RoundRecs /\ Planning'
  BY <1>1, HubTyped, SnapTyped, RoundTyped
<1>3. kid' \in Kids /\ chain' \in Chains /\ ChainWell(kid', chain')
  BY <1>1, ChainStep
<1>4. lane' \in LaneRecs /\ past' \in PastRecs /\ calls' \subseteq CallRecs /\ sweeps' \in SweepRecs
      /\ dones' \subseteq DoneRecs
  BY <1>1, LaneTyped, SweepsTyped, DonesTyped
<1>5. Typed'
  BY <1>2, <1>3, <1>4 DEF Typed, Kids, Chains
<1>6. SweepsWell' /\ LogWell' /\ FuseWell'
  BY <1>1, SweepsStep, LogStep, FuseStep
<1>7. lane'.closed => NoRecheck(dones')
  BY <1>1, DonesTyped
<1> QED
  BY <1>2, <1>3, <1>5, <1>6, <1>7 DEF LaneInv

\* The lane keeps its invariant for any roles, launches, records and sweeps.
LEMMA LaneInvariant == Spec => []LaneInv
<1>1. LaneInv /\ UNCHANGED vars => LaneInv'
  <2> SUFFICES ASSUME LaneInv, UNCHANGED vars PROVE LaneInv'
    OBVIOUS
  <2>1. UNCHANGED <<hub, snap, round, kid, chain, lane, sweeps, dones, calls, past>>
    BY DEF vars
  <2> QED
    BY <2>1 DEF LaneInv, Typed, Planning, SweepsWell, Owes, LogWell, Undisturbed, launchBlocked, FuseWell, WatchWell,
       FlightWell, ClosedWell, CallsWell, ToldWell, PlainWell, Begun, OwnTurn, launchGenerationSuperseded, Hushed
<1> QED
  BY InitLane, StepLane, <1>1, PTL DEF Spec

(***************************************************************************)
(* What the sweeps owe is archived before a child reaps the panes.         *)
(***************************************************************************)
THEOREM PanesAreArchivedFirst == Spec => []ArchivedBeforeReap
<1>1. LaneInv => ArchivedBeforeReap
  BY DEF LaneInv, SweepsWell, ArchivedBeforeReap
<1> QED
  BY LaneInvariant, <1>1, PTL

(***************************************************************************)
(* The children of a role run one after another, in the order of rounds.   *)
(***************************************************************************)
THEOREM ChildrenTakeTurns == Spec => []ChildrenInOrder
<1>1. LaneInv => ChildrenInOrder
  BY OrderFollows DEF LaneInv, Typed, Kids, Chains
<1> QED
  BY LaneInvariant, <1>1, PTL

(***************************************************************************)
(* No false alarm about a launch that gave its sign in its own turn.       *)
(***************************************************************************)
THEOREM AlarmsAreTrue == Spec => []FuseTruthful
<1>1. LaneInv => FuseTruthful
  BY DEF LaneInv, FuseWell, PlainWell, FuseTruthful
<1> QED
  BY LaneInvariant, <1>1, PTL

(***************************************************************************)
(* A closed lane stays quiet.                                              *)
(***************************************************************************)
THEOREM ClosedLaneIsQuiet == Spec => []QuietAfterClose
<1>1. LaneInv => QuietAfterClose
  BY DEF LaneInv, FuseWell, ClosedWell, NoRecheck, QuietAfterClose
<1> QED
  BY LaneInvariant, <1>1, PTL

-----------------------------------------------------------------------------
(***************************************************************************)
(* Standalone power.  The invariant has one part per piece of state: the   *)
(* process table (TableIn: only children share a group, start tokens are   *)
(* unique), the facts a file or a call keeps about a service (FactIn: the  *)
(* token and the session name no process of another rig), the start lock   *)
(* (LockIn), each `tut up` (UpIn: the pids it holds are its own, and what   *)
(* it raised is in their groups), each `tut down` (DownIn: what it passed   *)
(* is gone, what it aims at is not another rig's) and power.json            *)
(* (PowerIn).  They are stated of a process table, so that one lemma says  *)
(* of each what happens to it when processes go (Fades) and when one comes *)
(* (Joins).                                                                *)
(***************************************************************************)
\* The shapes of the records.
ProcessFields == {"kind", "born", "pgid", "pair", "hubPair", "by", "session", "listening"}
UpFields == {"pc", "saw", "prior", "hubPair", "evPair", "hub", "notifier", "watcher", "mine", "ok"}
DownFields == {"pc", "seen", "at", "bad", "target"}
FactRecs == [pid : Nat, token : Nat, session : Nat]
LockRecs == {Absent} \cup [owner : Ups, written : BOOLEAN]

\* The calls of `tut up` by where they stand.
Reclaiming == {"reclaim", "retire", "unguard"}
Choosing == {"prior", "hubport", "eventport", "adopt_hub", "verify_hub", "adopt_notifier", "verify_notifier"}
Waits == {"wait_hub", "wait_notifier"}
Raises == {"start_hub", "start_notifier", "start_watcher", "record", "reap"} \cup Waits
BeforeStart == {"lock", "own"} \cup Reclaiming \cup Choosing
UpPcs == BeforeStart \cup Raises \cup {"release", "done", "crashed"}
Holds == {"own", "release"} \cup Choosing \cup Raises
\* Where down has an aim, and where it may stand.
Signalling == {"term", "grace", "recheck"}
DownPcs == {"read", "judge", "endpoints", "stopped", "prune", "done"} \cup Signalling

\* A process runs at p in the table ps.
LiveIn(ps, p) == p \in Pids /\ ps[p] # Absent

\* Every process but a child leads its own group, and no two have one token.
TableIn(ps, b) ==
    /\ b \in Nat /\ DOMAIN ps = Pids
    /\ \A p \in Pids : LiveIn(ps, p) =>
         /\ DOMAIN ps[p] = ProcessFields /\ ps[p].pgid \in Pids
         /\ ps[p].born \in 1..b /\ ps[p].session \in 0..b
         /\ ps[p].kind # "child" => ps[p].pgid = p
    /\ \A p, q \in Pids : LiveIn(ps, p) /\ LiveIn(ps, q) /\ ps[p].born = ps[q].born => p = q

\* Recorded facts: the process with the token is a leader of this rig, and who
\* has the session is in the group.
FactIn(f, ps, b) ==
    /\ f \in FactRecs
    /\ f.pid = 0 => f.token = 0
    /\ f.token <= b /\ f.session <= b
    /\ \A p \in Pids : LiveIn(ps, p) =>
         /\ ps[p].born = f.token => ps[p].kind # "foreign" /\ ps[p].pgid = p
         /\ f.session # 0 /\ ps[p].session = f.session => ps[p].pgid = f.pid

\* Neither the process the facts are about nor a child with its session runs.
GoneIn(f, ps) ==
    f.token # 0 =>
      /\ LiveIn(ps, f.pid) => ps[f.pid].born # f.token
      /\ f.session # 0 => \A p \in Pids : LiveIn(ps, p) => ps[p].session # f.session

\* The contents of power.json.
StateFields == {"hubPair", "evPair", "hub", "notifier", "watcher", "stopped"}
StateIn(st, ps, b) == DOMAIN st = StateFields /\ \A s \in Services : FactIn(st[s], ps, b)
MaybeState(st, ps, b) == st = Absent \/ StateIn(st, ps, b)

\* A pid a call of up holds: the service it started there, or nothing.
OursIn(g, ps) == LiveIn(ps, g) => ps[g].kind # "foreign" /\ ps[g].pgid = g

\* A call that raised nothing, or undid it, has no process; one at work has
\* them in its groups.
RaisedIn(u, r, ps) ==
    /\ r.pc \in BeforeStart \/ (r.pc \in {"release", "done"} /\ ~r.ok) =>
         \A p \in Pids : LiveIn(ps, p) => ps[p].by # u
    /\ r.pc \in Raises => \A p \in Pids : LiveIn(ps, p) /\ ps[p].by = u => ps[p].pgid \in r.mine

\* A call u of `tut up` in state r.
UpIn(u, r, ps, b) ==
    /\ DOMAIN r = UpFields /\ r.pc \in UpPcs
    /\ r.mine \in SUBSET Pids /\ \A g \in r.mine : OursIn(g, ps)
    /\ MaybeState(r.prior, ps, b)
    /\ \A s \in Services : FactIn(r[s], ps, b)
    /\ r.pc = "wait_hub" => r.hub.pid \in r.mine
    /\ r.pc = "wait_notifier" => r.notifier.pid \in r.mine
    /\ RaisedIn(u, r, ps)

\* A call of `tut down` in state r: without a bad outcome so far, the services
\* it has passed are gone.
DownIn(r, ps, b) ==
    /\ DOMAIN r = DownFields /\ r.pc \in DownPcs /\ r.at \in 1..4
    /\ r.pc = "read" => r.at = 1
    /\ r.pc \in Signalling \cup {"judge"} => r.at <= 3
    /\ r.pc \in {"endpoints", "stopped"} => r.at = 4
    /\ r.pc = "stopped" => ~r.bad
    /\ r.pc \notin {"read", "done"} =>
         /\ StateIn(r.seen, ps, b)
         /\ ~r.bad => \A i \in 1..3 : i < r.at => GoneIn(r.seen[StopOrder[i]], ps)
    /\ r.pc \in Signalling =>
         /\ r.target = {r.seen[StopOrder[r.at]].pid}
         /\ LiveIn(ps, r.seen[StopOrder[r.at]].pid) => ps[r.seen[StopOrder[r.at]].pid].kind # "foreign"

\* The lock is its holder's; who retires one found its owner dead.
LockIn(ups, lk) ==
    /\ DOMAIN ups = Ups /\ lk \in LockRecs
    /\ \A u \in Ups :
         /\ ups[u].pc \in Holds => lk # Absent /\ lk.owner = u
         /\ ups[u].pc \in Reclaiming => ups[u].saw \in Ups /\ ups[ups[u].saw].pc = "crashed"

\* power.json: a stopped state is true.
PowerIn(st, ps, b) ==
    st # Absent => /\ StateIn(st, ps, b)
                   /\ st.stopped => \A s \in Services : GoneIn(st[s], ps)

\* The invariant.
PowerInv ==
    /\ struck = FALSE
    /\ TableIn(proc, born)
    /\ LockIn(up, lock)
    /\ \A u \in Ups : UpIn(u, up[u], proc, born)
    /\ DOMAIN dn = Downs
    /\ \A d \in Downs : DownIn(dn[d], proc, born)
    /\ PowerIn(power, proc, born)

\* Processes go, or keep what counts.
Fades(ps, qs) ==
    /\ DOMAIN qs = Pids
    /\ \A p \in Pids : LiveIn(qs, p) =>
         /\ LiveIn(ps, p) /\ DOMAIN qs[p] = ProcessFields
         /\ qs[p].kind = ps[p].kind /\ qs[p].born = ps[p].born /\ qs[p].pgid = ps[p].pgid
         /\ qs[p].by = ps[p].by /\ qs[p].session = ps[p].session

\* One process joins, as the leader of a new group or as a child in its
\* parent's.
Leads(b, p, r) ==
    r.kind \in Services \cup {"foreign"} /\ r.pgid = p /\ r.session \in {0, b + 1}

Follows(ps, r) ==
    /\ r.kind = "child"
    /\ \E q \in Pids : /\ LiveIn(ps, q) /\ ps[q].kind # "child"
                       /\ r.pgid = q /\ r.by = ps[q].by /\ r.session = ps[q].session

Joins(ps, b, qs, p, r) ==
    /\ p \in Pids /\ ~LiveIn(ps, p) /\ qs = [ps EXCEPT ![p] = r]
    /\ DOMAIN r = ProcessFields /\ r.born = b + 1
    /\ Leads(b, p, r) \/ Follows(ps, r)

LEMMA FadesSame ==
  ASSUME NEW ps, NEW b, TableIn(ps, b)
  PROVE  Fades(ps, ps)
BY DEF Fades, TableIn

LEMMA TableFades ==
  ASSUME NEW ps, NEW qs, NEW b, TableIn(ps, b), Fades(ps, qs)
  PROVE  TableIn(qs, b)
BY DEF Fades, TableIn

LEMMA FactFades ==
  ASSUME NEW f, NEW ps, NEW qs, NEW b, FactIn(f, ps, b), Fades(ps, qs)
  PROVE  FactIn(f, qs, b)
BY DEF Fades, FactIn

LEMMA GoneFades ==
  ASSUME NEW f, NEW ps, NEW qs, GoneIn(f, ps), Fades(ps, qs)
  PROVE  GoneIn(f, qs)
BY DEF Fades, GoneIn, LiveIn

LEMMA StateFades ==
  ASSUME NEW st, NEW ps, NEW qs, NEW b, StateIn(st, ps, b), Fades(ps, qs)
  PROVE  StateIn(st, qs, b)
BY FactFades DEF StateIn

LEMMA UpFades ==
  ASSUME NEW u, NEW r, NEW ps, NEW qs, NEW b, UpIn(u, r, ps, b), Fades(ps, qs)
  PROVE  UpIn(u, r, qs, b)
<1>1. MaybeState(r.prior, qs, b) BY StateFades DEF UpIn, MaybeState
<1>2. \A s \in Services : FactIn(r[s], qs, b) BY FactFades DEF UpIn
<1>3. \A g \in r.mine : OursIn(g, qs) BY DEF UpIn, OursIn, Fades, LiveIn
<1>4. RaisedIn(u, r, qs) BY DEF UpIn, RaisedIn, Fades
<1> QED BY <1>1, <1>2, <1>3, <1>4 DEF UpIn

LEMMA DownFades ==
  ASSUME NEW r, NEW ps, NEW qs, NEW b, DownIn(r, ps, b), Fades(ps, qs)
  PROVE  DownIn(r, qs, b)
<1>1. r.pc \notin {"read", "done"} =>
         /\ StateIn(r.seen, qs, b)
         /\ ~r.bad => \A i \in 1..3 : i < r.at => GoneIn(r.seen[StopOrder[i]], qs)
  BY StateFades, GoneFades DEF DownIn
<1>2. r.pc \in Signalling =>
         /\ r.target = {r.seen[StopOrder[r.at]].pid}
         /\ LiveIn(qs, r.seen[StopOrder[r.at]].pid) => qs[r.seen[StopOrder[r.at]].pid].kind # "foreign"
  BY DEF DownIn, Fades, LiveIn
<1> QED BY <1>1, <1>2 DEF DownIn

LEMMA PowerFades ==
  ASSUME NEW st, NEW ps, NEW qs, NEW b, PowerIn(st, ps, b), Fades(ps, qs)
  PROVE  PowerIn(st, qs, b)
BY StateFades, GoneFades DEF PowerIn

LEMMA Joined ==
  ASSUME NEW ps, NEW b, NEW qs, NEW p, NEW r, TableIn(ps, b), Joins(ps, b, qs, p, r)
  PROVE  /\ DOMAIN qs = Pids /\ qs[p] = r
         /\ \A q \in Pids : q # p => qs[q] = ps[q]
         /\ \A q \in Pids : LiveIn(qs, q) => q = p \/ LiveIn(ps, q)
BY DEF TableIn, Joins, LiveIn

LEMMA FollowsOne ==
  ASSUME NEW ps, NEW b, NEW r, TableIn(ps, b), Follows(ps, r)
  PROVE  \E q \in Pids : /\ LiveIn(ps, q) /\ ps[q].pgid = q /\ r.pgid = ps[q].pgid
                         /\ r.by = ps[q].by /\ r.session = ps[q].session
BY DEF TableIn, Follows

LEMMA TableJoins ==
  ASSUME NEW ps, NEW b, NEW qs, NEW p, NEW r, TableIn(ps, b), Joins(ps, b, qs, p, r)
  PROVE  TableIn(qs, b + 1)
<1>1. b \in Nat /\ r.born = b + 1 BY DEF TableIn, Joins
<1>2. r.session \in 0..(b + 1)
  <2>1. CASE Leads(b, p, r) BY <2>1, <1>1 DEF Leads
  <2>2. CASE Follows(ps, r) BY <2>2, <1>1, FollowsOne DEF TableIn
  <2> QED BY <2>1, <2>2 DEF Joins
<1>3. r.pgid \in Pids /\ (r.kind # "child" => r.pgid = p) BY DEF Joins, Leads, Follows
<1>4. \A q \in Pids : LiveIn(ps, q) => ps[q].born # b + 1 /\ ps[q].born \in 1..(b + 1) /\ ps[q].session \in 0..(b + 1)
  BY <1>1 DEF TableIn
<1>5. DOMAIN r = ProcessFields /\ p \in Pids BY DEF Joins
<1>6. \A q \in Pids : LiveIn(qs, q) =>
         /\ DOMAIN qs[q] = ProcessFields /\ qs[q].pgid \in Pids
         /\ qs[q].born \in 1..(b + 1) /\ qs[q].session \in 0..(b + 1)
         /\ qs[q].kind # "child" => qs[q].pgid = q
  <2> SUFFICES ASSUME NEW q \in Pids, LiveIn(qs, q)
               PROVE  /\ DOMAIN qs[q] = ProcessFields /\ qs[q].pgid \in Pids
                      /\ qs[q].born \in 1..(b + 1) /\ qs[q].session \in 0..(b + 1)
                      /\ qs[q].kind # "child" => qs[q].pgid = q
    OBVIOUS
  <2>1. CASE q = p BY <2>1, <1>1, <1>2, <1>3, <1>5, Joined
  <2>2. CASE q # p
    <3>1. LiveIn(ps, q) /\ qs[q] = ps[q] BY <2>2, Joined
    <3> QED BY <3>1, <1>4 DEF TableIn
  <2> QED BY <2>1, <2>2
<1>7. \A q, w \in Pids : LiveIn(qs, q) /\ LiveIn(qs, w) /\ qs[q].born = qs[w].born => q = w
  BY <1>1, <1>4, <1>5, Joined DEF TableIn
<1> QED BY <1>1, <1>6, <1>7, Joined DEF TableIn

LEMMA FactJoins ==
  ASSUME NEW f, NEW ps, NEW b, NEW qs, NEW p, NEW r,
         TableIn(ps, b), Joins(ps, b, qs, p, r), FactIn(f, ps, b)
  PROVE  FactIn(f, qs, b + 1)
<1>1. b \in Nat /\ r.born = b + 1 BY DEF TableIn, Joins
<1>2. f.token # r.born /\ f \in FactRecs /\ f.token <= b + 1 /\ f.session <= b + 1
  BY <1>1 DEF FactIn, FactRecs
<1>3. f.session # 0 /\ r.session = f.session => r.pgid = f.pid
  <2>1. CASE Leads(b, p, r) BY <2>1, <1>1 DEF Leads, FactIn, FactRecs
  <2>2. CASE Follows(ps, r) BY <2>2, FollowsOne DEF FactIn
  <2> QED BY <2>1, <2>2 DEF Joins
<1> QED BY <1>2, <1>3, Joined DEF FactIn

LEMMA GoneJoins ==
  ASSUME NEW f, NEW ps, NEW b, NEW qs, NEW p, NEW r,
         TableIn(ps, b), Joins(ps, b, qs, p, r), FactIn(f, ps, b), GoneIn(f, ps)
  PROVE  GoneIn(f, qs)
<1> SUFFICES ASSUME f.token # 0 PROVE GoneIn(f, qs) BY DEF GoneIn
<1>1. b \in Nat /\ r.born = b + 1 BY DEF TableIn, Joins
<1>2. f.token # r.born BY <1>1 DEF FactIn, FactRecs
<1>3. f.session # 0 => r.session # f.session
  <2>1. CASE Leads(b, p, r) BY <2>1, <1>1 DEF Leads, FactIn, FactRecs
  <2>2. CASE Follows(ps, r) BY <2>2, FollowsOne DEF GoneIn
  <2> QED BY <2>1, <2>2 DEF Joins
<1>4. LiveIn(qs, f.pid) => qs[f.pid].born # f.token BY <1>2, Joined DEF GoneIn, LiveIn
<1>5. f.session # 0 => \A q \in Pids : LiveIn(qs, q) => qs[q].session # f.session
  BY <1>3, Joined DEF GoneIn, LiveIn
<1> QED BY <1>4, <1>5 DEF GoneIn

LEMMA StateJoins ==
  ASSUME NEW st, NEW ps, NEW b, NEW qs, NEW p, NEW r,
         TableIn(ps, b), Joins(ps, b, qs, p, r), StateIn(st, ps, b)
  PROVE  StateIn(st, qs, b + 1)
BY FactJoins DEF StateIn

LEMMA OursJoins ==
  ASSUME NEW g, NEW ps, NEW b, NEW qs, NEW p, NEW r,
         TableIn(ps, b), Joins(ps, b, qs, p, r), OursIn(g, ps), g # p
  PROVE  OursIn(g, qs)
BY Joined DEF OursIn, LiveIn

LEMMA UpJoins ==
  ASSUME NEW u, NEW v, NEW ps, NEW b, NEW qs, NEW p, NEW r,
         TableIn(ps, b), Joins(ps, b, qs, p, r), UpIn(u, v, ps, b),
         p \notin v.mine, Follows(ps, r) \/ r.by # u
  PROVE  UpIn(u, v, qs, b + 1)
<1>1. MaybeState(v.prior, qs, b + 1) BY StateJoins DEF UpIn, MaybeState
<1>2. \A s \in Services : FactIn(v[s], qs, b + 1) BY FactJoins DEF UpIn
<1>3. \A g \in v.mine : OursIn(g, qs) BY OursJoins DEF UpIn
<1>4. RaisedIn(u, v, qs)
  <2>1. CASE r.by # u BY <2>1, Joined DEF UpIn, RaisedIn
  <2>2. CASE Follows(ps, r)
    <3>1. PICK q \in Pids : /\ LiveIn(ps, q) /\ ps[q].pgid = q /\ r.pgid = ps[q].pgid
                            /\ r.by = ps[q].by /\ r.session = ps[q].session
      BY <2>2, FollowsOne
    <3> QED BY <3>1, Joined DEF UpIn, RaisedIn
  <2> QED BY <2>1, <2>2
<1> QED BY <1>1, <1>2, <1>3, <1>4 DEF UpIn

LEMMA DownJoins ==
  ASSUME NEW v, NEW ps, NEW b, NEW qs, NEW p, NEW r,
         TableIn(ps, b), Joins(ps, b, qs, p, r), DownIn(v, ps, b), p \notin v.target
  PROVE  DownIn(v, qs, b + 1)
<1>1. v.pc \notin {"read", "done"} => StateIn(v.seen, qs, b + 1)
  BY StateJoins DEF DownIn
<1>2. \A i \in 1..3 : v.pc \notin {"read", "done"} => FactIn(v.seen[StopOrder[i]], ps, b)
  BY DEF DownIn, StateIn, StopOrder, Services
<1>3. v.pc \notin {"read", "done"} /\ ~v.bad => \A i \in 1..3 : i < v.at => GoneIn(v.seen[StopOrder[i]], qs)
  BY <1>2, GoneJoins DEF DownIn
<1>4. v.pc \in Signalling =>
         /\ v.target = {v.seen[StopOrder[v.at]].pid}
         /\ LiveIn(qs, v.seen[StopOrder[v.at]].pid) => qs[v.seen[StopOrder[v.at]].pid].kind # "foreign"
  BY Joined DEF DownIn, LiveIn
<1> QED BY <1>1, <1>3, <1>4 DEF DownIn

LEMMA PowerJoins ==
  ASSUME NEW st, NEW ps, NEW b, NEW qs, NEW p, NEW r,
         TableIn(ps, b), Joins(ps, b, qs, p, r), PowerIn(st, ps, b)
  PROVE  PowerIn(st, qs, b + 1)
BY StateJoins, GoneJoins DEF PowerIn, StateIn

USE DEF LiveIn

LEMMA FreshPid ==
  ASSUME NEW p \in FreshPids
  PROVE  /\ p \in Pids /\ ~LiveIn(proc, p)
         /\ \A u \in Ups : p \notin up[u].mine
         /\ \A d \in Downs : p \notin dn[d].target
<1>1. FreshPids \subseteq {q \in Pids : ~Alive(q) /\ q \notin Resting} BY DEF FreshPids, Least
<1>2. p \in Pids /\ ~Alive(p) /\ p \notin Resting BY <1>1
<1>3. \A u \in Ups : p \notin up[u].mine BY <1>2 DEF Resting
<1>4. \A d \in Downs : p \notin dn[d].target BY <1>2 DEF Resting
<1> QED BY <1>2, <1>3, <1>4 DEF Alive

\* What a call of up may become without a new process.
LEMMA UpBecomes ==
  ASSUME NEW u, NEW v, NEW w, NEW ps, NEW b, UpIn(u, v, ps, b),
         DOMAIN w = UpFields, w.pc \in UpPcs \ Waits, w.mine = v.mine,
         MaybeState(w.prior, ps, b), \A s \in Services : FactIn(w[s], ps, b),
         v.pc \in BeforeStart \/ (v.pc \in Raises /\ w.pc \in Raises)
  PROVE  UpIn(u, w, ps, b)
<1>1. RaisedIn(u, w, ps) BY DEF UpIn, RaisedIn, Raises, BeforeStart, Reclaiming, Choosing, Waits
<1> QED BY <1>1 DEF UpIn, Waits

LEMMA UpMoves ==
  ASSUME PowerInv, NEW u \in Ups, NEW r, up' = [up EXCEPT ![u] = r],
         UpIn(u, r, proc, born), LockIn(up', lock'), PowerIn(power', proc, born),
         proc' = proc, born' = born, struck' = struck, dn' = dn
  PROVE  PowerInv'
<1>1. DOMAIN up = Ups BY DEF PowerInv, LockIn
<1>2. \A v \in Ups : UpIn(v, up'[v], proc, born) BY <1>1 DEF PowerInv
<1>3. \A d \in Downs : DownIn(dn'[d], proc, born) BY DEF PowerInv
<1> QED BY <1>2, <1>3 DEF PowerInv

\* The lock stays with its holder while another state of a call comes.
LEMMA LockKept ==
  ASSUME NEW ups, NEW lk, LockIn(ups, lk), NEW u \in Ups, NEW r,
         ups[u].pc # "crashed",
         r.pc \in Holds => ups[u].pc \in Holds,
         r.pc \in Reclaiming => ups[u].pc \in Reclaiming /\ r.saw = ups[u].saw
  PROVE  LockIn([ups EXCEPT ![u] = r], lk)
<1> DEFINE next == [ups EXCEPT ![u] = r]
<1>1. DOMAIN next = Ups /\ next[u] = r /\ \A v \in Ups \ {u} : next[v] = ups[v] BY DEF LockIn
<1> HIDE DEF next
<1>2. ASSUME NEW v \in Ups
      PROVE  /\ next[v].pc \in Holds => lk # Absent /\ lk.owner = v
             /\ next[v].pc \in Reclaiming => next[v].saw \in Ups /\ next[next[v].saw].pc = "crashed"
  <2>1. ups[v].pc \in Reclaiming => ups[v].saw \in Ups \ {u} /\ ups[ups[v].saw].pc = "crashed"
    BY DEF LockIn
  <2>2. next[v].pc \in Reclaiming => ups[v].pc \in Reclaiming /\ next[v].saw = ups[v].saw
    BY <1>1
  <2>3. next[v].pc \in Holds => ups[v].pc \in Holds BY <1>1
  <2> QED BY <1>1, <2>1, <2>2, <2>3 DEF LockIn
<1>3. LockIn(next, lk) BY <1>1, <1>2 DEF LockIn
<1> QED BY <1>3 DEF next

LEMMA LockIsFound ==
  ASSUME NEW o \in Ups, NEW w \in BOOLEAN, NEW lk, lk = [owner |-> o, written |-> w]
  PROVE  lk # Absent /\ lk \in LockRecs /\ lk.owner = o
<1>1. "owner" \in DOMAIN lk OBVIOUS
<1>2. "owner" \notin DOMAIN Absent BY DEF Absent
<1> QED BY <1>1, <1>2 DEF LockRecs

LEMMA LockCreateKeeps ==
  ASSUME PowerInv, NEW u \in Ups, LockCreate(u)
  PROVE  PowerInv'
<1>1. UpIn(u, up[u], proc, born) /\ LockIn(up, lock) /\ PowerIn(power, proc, born) /\ up[u].pc = "lock"
  BY DEF PowerInv, LockCreate, At
<1>2. proc' = proc /\ born' = born /\ struck' = struck /\ dn' = dn /\ power' = power
  BY DEF LockCreate, Processes, Files, Environment
<1>3. CASE lock = Absent /\ lock' = [owner |-> u, written |-> FALSE] /\ Go(u, "own")
  <2> DEFINE r == [up[u] EXCEPT !.pc = "own"]
  <2>1. up' = [up EXCEPT ![u] = r] BY <1>3 DEF Go
  <2>2. /\ DOMAIN r = UpFields /\ r.pc = "own" /\ r.mine = up[u].mine /\ r.prior = up[u].prior
        /\ \A s \in Services : r[s] = up[u][s]
    BY <1>1 DEF UpIn, UpFields, Services
  <2> HIDE DEF r
  <2>3. UpIn(u, r, proc, born)
    <3>1. MaybeState(r.prior, proc, born) /\ \A s \in Services : FactIn(r[s], proc, born) BY <1>1, <2>2 DEF UpIn
    <3>2. r.pc \in UpPcs \ Waits /\ up[u].pc \in BeforeStart BY <1>1, <2>2 DEF UpPcs, BeforeStart, Waits
    <3> QED BY <1>1, <2>2, <3>1, <3>2, UpBecomes
  <2>4. lock' # Absent /\ lock' \in LockRecs /\ lock'.owner = u BY <1>3, LockIsFound
  <2>5. \A v \in Ups : up[v].pc \notin Holds BY <1>1, <1>3 DEF LockIn
  <2>6. DOMAIN up' = Ups /\ up'[u] = r /\ \A v \in Ups \ {u} : up'[v] = up[v] BY <1>1, <2>1 DEF LockIn
  <2>7. LockIn(up', lock')
    <3> SUFFICES ASSUME NEW v \in Ups
                 PROVE  /\ up'[v].pc \in Holds => lock' # Absent /\ lock'.owner = v
                        /\ up'[v].pc \in Reclaiming => up'[v].saw \in Ups /\ up'[up'[v].saw].pc = "crashed"
      BY <2>4, <2>6 DEF LockIn
    <3>1. up'[v].pc \in Holds => v = u BY <2>5, <2>6
    <3>2. up'[v].pc \in Reclaiming => v # u BY <2>2, <2>6 DEF Reclaiming
    <3> QED BY <1>1, <2>4, <2>6, <3>1, <3>2 DEF LockIn
  <2> QED BY <1>1, <1>2, <2>1, <2>3, <2>7, UpMoves
<1>4. CASE /\ lock # Absent /\ lock.written /\ OwnerDead
           /\ up' = [up EXCEPT ![u].pc = "reclaim", ![u].saw = lock.owner] /\ lock' = lock
  <2> DEFINE r == [up[u] EXCEPT !.pc = "reclaim", !.saw = lock.owner]
  <2>1. up' = [up EXCEPT ![u] = r] BY <1>4, <1>1 DEF LockIn
  <2>2. /\ DOMAIN r = UpFields /\ r.pc = "reclaim" /\ r.mine = up[u].mine /\ r.prior = up[u].prior
        /\ r.saw = lock.owner /\ \A s \in Services : r[s] = up[u][s]
    BY <1>1 DEF UpIn, UpFields, Services
  <2> HIDE DEF r
  <2>3. UpIn(u, r, proc, born)
    <3>1. MaybeState(r.prior, proc, born) /\ \A s \in Services : FactIn(r[s], proc, born) BY <1>1, <2>2 DEF UpIn
    <3>2. r.pc \in UpPcs \ Waits /\ up[u].pc \in BeforeStart
      BY <1>1, <2>2 DEF UpPcs, BeforeStart, Waits, Reclaiming
    <3> QED BY <1>1, <2>2, <3>1, <3>2, UpBecomes
  <2>4. lock.owner \in Ups /\ up[lock.owner].pc = "crashed" BY <1>1, <1>4 DEF LockIn, LockRecs, OwnerDead
  <2>6. DOMAIN up' = Ups /\ up'[u] = r /\ \A v \in Ups \ {u} : up'[v] = up[v] BY <1>1, <2>1 DEF LockIn
  <2>7. LockIn(up', lock')
    <3> SUFFICES ASSUME NEW v \in Ups
                 PROVE  /\ up'[v].pc \in Holds => lock # Absent /\ lock.owner = v
                        /\ up'[v].pc \in Reclaiming => up'[v].saw \in Ups /\ up'[up'[v].saw].pc = "crashed"
      BY <1>1, <1>4, <2>6 DEF LockIn
    <3>1. up'[v].pc \in Holds => v # u BY <2>2, <2>6 DEF Holds, Choosing, Raises, Waits
    <3>2. CASE v = u BY <1>1, <2>2, <2>4, <2>6, <3>1, <3>2
    <3>3. CASE v # u
      <4>1. up'[v] = up[v] BY <2>6, <3>3
      <4>2. up[v].pc \in Reclaiming => up[v].saw \in Ups /\ up[up[v].saw].pc = "crashed" BY <1>1 DEF LockIn
      <4>3. up[v].pc \in Reclaiming => up[v].saw # u BY <1>1, <4>2
      <4>4. up[v].pc \in Holds => lock # Absent /\ lock.owner = v BY <1>1 DEF LockIn
      <4> QED BY <2>6, <4>1, <4>2, <4>3, <4>4
    <3> QED BY <3>2, <3>3
  <2> QED BY <1>1, <1>2, <2>1, <2>3, <2>7, UpMoves
<1>5. CASE Go(u, "done") /\ lock' = lock
  <2> DEFINE r == [up[u] EXCEPT !.pc = "done"]
  <2>1. up' = [up EXCEPT ![u] = r] BY <1>5 DEF Go
  <2>2. /\ DOMAIN r = UpFields /\ r.pc = "done" /\ r.mine = up[u].mine /\ r.prior = up[u].prior
        /\ \A s \in Services : r[s] = up[u][s]
    BY <1>1 DEF UpIn, UpFields, Services
  <2> HIDE DEF r
  <2>3. UpIn(u, r, proc, born)
    <3>1. MaybeState(r.prior, proc, born) /\ \A s \in Services : FactIn(r[s], proc, born) BY <1>1, <2>2 DEF UpIn
    <3>2. r.pc \in UpPcs \ Waits /\ up[u].pc \in BeforeStart BY <1>1, <2>2 DEF UpPcs, BeforeStart, Waits
    <3> QED BY <1>1, <2>2, <3>1, <3>2, UpBecomes
  <2>4. r.pc \notin Holds \cup Reclaiming BY <2>2 DEF Holds, Choosing, Raises, Waits, Reclaiming
  <2>5. LockIn(up', lock') BY <1>1, <1>5, <2>1, <2>4, LockKept
  <2> QED BY <1>1, <1>2, <2>1, <2>3, <2>5, UpMoves
<1> QED BY <1>3, <1>4, <1>5 DEF LockCreate

\* Steps of up that only move it on.
LEMMA PcMoves ==
  ASSUME PowerInv, NEW u \in Ups, NEW c \in UpPcs \ Waits, up' = [up EXCEPT ![u].pc = c],
         up[u].pc \in BeforeStart \/ (up[u].pc \in Raises /\ c \in Raises),
         c \in Holds => up[u].pc \in Holds,
         c \in Reclaiming => up[u].pc \in Reclaiming,
         lock' = lock, power' = power, proc' = proc, born' = born, struck' = struck, dn' = dn
  PROVE  PowerInv'
<1>1. UpIn(u, up[u], proc, born) /\ LockIn(up, lock) /\ PowerIn(power, proc, born) BY DEF PowerInv
<1> DEFINE r == [up[u] EXCEPT !.pc = c]
<1>2. up' = [up EXCEPT ![u] = r] OBVIOUS
<1>3. /\ DOMAIN r = UpFields /\ r.pc = c /\ r.mine = up[u].mine /\ r.prior = up[u].prior /\ r.saw = up[u].saw
      /\ \A s \in Services : r[s] = up[u][s]
  BY <1>1 DEF UpIn, UpFields, Services
<1> HIDE DEF r
<1>4. UpIn(u, r, proc, born)
  <2>1. MaybeState(r.prior, proc, born) /\ \A s \in Services : FactIn(r[s], proc, born) BY <1>1, <1>3 DEF UpIn
  <2> QED BY <1>1, <1>3, <2>1, UpBecomes
<1>5. up[u].pc # "crashed" BY DEF BeforeStart, Raises, Reclaiming, Choosing, Waits
<1>6. LockIn(up', lock')
  <2>1. r.pc \in Holds => up[u].pc \in Holds BY <1>3
  <2>2. r.pc \in Reclaiming => up[u].pc \in Reclaiming /\ r.saw = up[u].saw BY <1>3
  <2>3. LockIn([up EXCEPT ![u] = r], lock) BY <1>1, <1>5, <2>1, <2>2, LockKept
  <2> QED BY <1>2, <2>3
<1> QED BY <1>1, <1>2, <1>4, <1>6, UpMoves

LEMMA LockWriteKeeps ==
  ASSUME PowerInv, NEW u \in Ups, LockWrite(u)
  PROVE  PowerInv'
<1>1. UpIn(u, up[u], proc, born) /\ LockIn(up, lock) /\ PowerIn(power, proc, born) /\ up[u].pc = "own"
  BY DEF PowerInv, LockWrite, At
<1>2. proc' = proc /\ born' = born /\ struck' = struck /\ dn' = dn /\ power' = power
  BY DEF LockWrite, Processes, Files, Environment
<1>3. lock # Absent /\ lock.owner = u BY <1>1 DEF LockIn, Holds
<1>4. lock \in [owner : Ups, written : BOOLEAN] BY <1>1, <1>3 DEF LockIn, LockRecs
<1>5. lock' = [owner |-> u, written |-> TRUE] BY <1>3, <1>4 DEF LockWrite
<1>6. lock' # Absent /\ lock' \in LockRecs /\ lock'.owner = u BY <1>5, LockIsFound
<1> DEFINE r == [up[u] EXCEPT !.pc = "prior"]
<1>7. up' = [up EXCEPT ![u] = r] BY DEF LockWrite, Go
<1>8. /\ DOMAIN r = UpFields /\ r.pc = "prior" /\ r.mine = up[u].mine /\ r.prior = up[u].prior
      /\ \A s \in Services : r[s] = up[u][s]
  BY <1>1 DEF UpIn, UpFields, Services
<1> HIDE DEF r
<1>9. UpIn(u, r, proc, born)
  <2>1. MaybeState(r.prior, proc, born) /\ \A s \in Services : FactIn(r[s], proc, born) BY <1>1, <1>8 DEF UpIn
  <2>2. r.pc \in UpPcs \ Waits /\ up[u].pc \in BeforeStart BY <1>1, <1>8 DEF UpPcs, BeforeStart, Choosing, Waits
  <2> QED BY <1>1, <1>8, <2>1, <2>2, UpBecomes
<1>10. r.pc \notin Reclaiming BY <1>8 DEF Reclaiming
<1>11. LockIn(up', lock) BY <1>1, <1>7, <1>10, LockKept DEF Holds
<1>12. LockIn(up', lock') BY <1>3, <1>6, <1>11 DEF LockIn
<1> QED BY <1>1, <1>2, <1>7, <1>9, <1>12, UpMoves

LEMMA LockReclaimKeeps ==
  ASSUME PowerInv, NEW u \in Ups, LockReclaim(u)
  PROVE  PowerInv'
<1>1. PICK c \in {"done", "retire"} : up' = [up EXCEPT ![u].pc = c] BY DEF LockReclaim, Go
<1>2. up[u].pc = "reclaim" BY DEF LockReclaim, At
<1>3. c \in UpPcs \ Waits /\ c \notin Holds /\ up[u].pc \in BeforeStart \cap Reclaiming
  BY <1>1, <1>2 DEF UpPcs, Waits, Holds, BeforeStart, Choosing, Raises, Reclaiming
<1> QED BY <1>1, <1>3, PcMoves DEF LockReclaim, Processes, Files

LEMMA LockUnguardKeeps ==
  ASSUME PowerInv, NEW u \in Ups, LockUnguard(u)
  PROVE  PowerInv'
<1>2. up[u].pc = "unguard" BY DEF LockUnguard, At
<1>3. "lock" \in UpPcs \ Waits /\ "lock" \notin Holds /\ up[u].pc \in BeforeStart \cap Reclaiming
  BY <1>2 DEF UpPcs, Waits, Holds, BeforeStart, Choosing, Raises, Reclaiming
<1>4. up' = [up EXCEPT ![u].pc = "lock"] BY DEF LockUnguard, Go
<1> QED BY <1>4, <1>3, PcMoves DEF LockUnguard, Processes, Files

\* A lock that its dead owner left goes, or one goes with the call that held it.
LEMMA LockGoes ==
  ASSUME NEW ups, NEW lk, LockIn(ups, lk), lk # Absent => ups[lk.owner].pc \notin Holds
  PROVE  LockIn(ups, Absent)
BY DEF LockIn, LockRecs

LEMMA LockRetireKeeps ==
  ASSUME PowerInv, NEW u \in Ups, LockRetire(u)
  PROVE  PowerInv'
<1>1. UpIn(u, up[u], proc, born) /\ LockIn(up, lock) /\ PowerIn(power, proc, born) /\ up[u].pc = "retire"
  BY DEF PowerInv, LockRetire, At
<1>2. proc' = proc /\ born' = born /\ struck' = struck /\ dn' = dn /\ power' = power
  BY DEF LockRetire, Processes, Files, Environment
<1> DEFINE r == [up[u] EXCEPT !.pc = "unguard"]
<1>3. up' = [up EXCEPT ![u] = r] BY DEF LockRetire, Go
<1>4. /\ DOMAIN r = UpFields /\ r.pc = "unguard" /\ r.mine = up[u].mine /\ r.prior = up[u].prior
      /\ r.saw = up[u].saw /\ \A s \in Services : r[s] = up[u][s]
  BY <1>1 DEF UpIn, UpFields, Services
<1> HIDE DEF r
<1>5. UpIn(u, r, proc, born)
  <2>1. MaybeState(r.prior, proc, born) /\ \A s \in Services : FactIn(r[s], proc, born) BY <1>1, <1>4 DEF UpIn
  <2>2. r.pc \in UpPcs \ Waits /\ up[u].pc \in BeforeStart
    BY <1>1, <1>4 DEF UpPcs, BeforeStart, Reclaiming, Waits
  <2> QED BY <1>1, <1>4, <2>1, <2>2, UpBecomes
<1>6. r.pc \notin Holds /\ up[u].pc \in Reclaiming
  BY <1>1, <1>4 DEF Holds, Choosing, Raises, Waits, Reclaiming
<1>7. LockIn(up', lock) BY <1>1, <1>3, <1>4, <1>6, LockKept
<1>8. CASE SameLock(u)
  <2>1. lock' = Absent /\ lock.owner = up[u].saw BY <1>8 DEF LockRetire, SameLock
  <2>2. up'[up[u].saw].pc \notin Holds
    <3>1. up[u].saw \in Ups /\ up[up[u].saw].pc = "crashed" BY <1>1, <1>6 DEF LockIn
    <3>2. up'[up[u].saw] = up[up[u].saw] BY <1>1, <1>3, <3>1 DEF LockIn
    <3> QED BY <3>1, <3>2 DEF Holds, Choosing, Raises, Waits
  <2> QED BY <1>1, <1>2, <1>3, <1>5, <1>7, <2>1, <2>2, LockGoes, UpMoves
<1>9. CASE ~SameLock(u)
  <2>1. lock' = lock BY <1>9 DEF LockRetire
  <2> QED BY <1>1, <1>2, <1>3, <1>5, <1>7, <2>1, UpMoves
<1> QED BY <1>8, <1>9

LEMMA UpReleaseKeeps ==
  ASSUME PowerInv, NEW u \in Ups, UpRelease(u)
  PROVE  PowerInv'
<1>1. UpIn(u, up[u], proc, born) /\ LockIn(up, lock) /\ PowerIn(power, proc, born) /\ up[u].pc = "release"
  BY DEF PowerInv, UpRelease, At
<1>2. proc' = proc /\ born' = born /\ struck' = struck /\ dn' = dn /\ power' = power
  BY DEF UpRelease, Processes, Files, Environment
<1> DEFINE r == [up[u] EXCEPT !.pc = "done", !.mine = {}]
<1>3. up' = [up EXCEPT ![u] = r] BY <1>1 DEF UpRelease, LockIn
<1>4. /\ DOMAIN r = UpFields /\ r.pc = "done" /\ r.mine = {} /\ r.prior = up[u].prior /\ r.ok = up[u].ok
      /\ \A s \in Services : r[s] = up[u][s]
  BY <1>1 DEF UpIn, UpFields, Services
<1> HIDE DEF r
<1>5. UpIn(u, r, proc, born)
  <2>1. RaisedIn(u, r, proc)
    BY <1>1, <1>4 DEF UpIn, RaisedIn, Raises, BeforeStart, Choosing, Reclaiming, Waits
  <2>2. r.pc \in UpPcs BY <1>4 DEF UpPcs
  <2> QED BY <1>1, <1>4, <2>1, <2>2 DEF UpIn
<1>6. r.pc \notin Holds \cup Reclaiming BY <1>4 DEF Holds, Choosing, Raises, Waits, Reclaiming
<1>7. LockIn(up', lock) BY <1>1, <1>3, <1>6, LockKept
<1>8. CASE lock # Absent /\ lock.owner = u
  <2>1. lock' = Absent BY <1>8 DEF UpRelease
  <2>2. up'[u].pc \notin Holds BY <1>1, <1>3, <1>6 DEF LockIn
  <2> QED BY <1>1, <1>2, <1>3, <1>5, <1>7, <1>8, <2>1, <2>2, LockGoes, UpMoves
<1>9. CASE ~(lock # Absent /\ lock.owner = u)
  <2>1. lock' = lock BY <1>9 DEF UpRelease
  <2> QED BY <1>1, <1>2, <1>3, <1>5, <1>7, <2>1, UpMoves
<1> QED BY <1>8, <1>9

\* Steps of a call that holds the lock, raises nothing and keeps the files.
LEMMA HolderMoves ==
  ASSUME PowerInv, NEW u \in Ups, NEW r, up' = [up EXCEPT ![u] = r],
         DOMAIN r = UpFields, r.pc \in UpPcs \ Waits, r.mine = up[u].mine,
         MaybeState(r.prior, proc, born), \A s \in Services : FactIn(r[s], proc, born),
         up[u].pc \in Choosing \/ (up[u].pc \in Raises /\ r.pc \in Raises),
         r.pc \notin Reclaiming, PowerIn(power', proc, born),
         lock' = lock, proc' = proc, born' = born, struck' = struck, dn' = dn
  PROVE  PowerInv'
<1>1. UpIn(u, up[u], proc, born) /\ LockIn(up, lock) BY DEF PowerInv
<1>2. up[u].pc \in BeforeStart \/ (up[u].pc \in Raises /\ r.pc \in Raises) BY DEF BeforeStart
<1>3. UpIn(u, r, proc, born) BY <1>1, <1>2, UpBecomes
<1>4. up[u].pc # "crashed" /\ up[u].pc \in Holds BY DEF Holds, Choosing, Raises, Waits
<1>5. LockIn([up EXCEPT ![u] = r], lock) BY <1>1, <1>4, LockKept
<1> QED BY <1>3, <1>5, UpMoves

LEMMA UpKnows ==
  ASSUME PowerInv, NEW u \in Ups
  PROVE  /\ DOMAIN up = Ups /\ DOMAIN up[u] = UpFields /\ TableIn(proc, born) /\ PowerIn(power, proc, born)
         /\ MaybeState(up[u].prior, proc, born) /\ \A s \in Services : FactIn(up[u][s], proc, born)
BY DEF PowerInv, UpIn, LockIn

LEMMA NoFactsWell ==
  ASSUME NEW ps, NEW b, TableIn(ps, b)
  PROVE  FactIn(NoFacts, ps, b)
BY DEF FactIn, NoFacts, FactRecs, TableIn

LEMMA ReadPriorKeeps ==
  ASSUME PowerInv, NEW u \in Ups, ReadPrior(u)
  PROVE  PowerInv'
<1> DEFINE r == [up[u] EXCEPT !.pc = "hubport", !.prior = power]
<1>1. up' = [up EXCEPT ![u] = r] BY UpKnows DEF ReadPrior
<1>2. /\ DOMAIN r = UpFields /\ r.pc = "hubport" /\ r.mine = up[u].mine /\ r.prior = power
      /\ \A s \in Services : r[s] = up[u][s]
  BY UpKnows DEF UpFields, Services
<1> HIDE DEF r
<1>3. MaybeState(r.prior, proc, born) /\ \A s \in Services : FactIn(r[s], proc, born)
  BY <1>2, UpKnows DEF MaybeState, PowerIn
<1>4. r.pc \in UpPcs \ Waits /\ up[u].pc \in Choosing /\ r.pc \notin Reclaiming
  BY <1>2 DEF UpPcs, BeforeStart, Choosing, Waits, Reclaiming, ReadPrior, At
<1> QED BY <1>1, <1>2, <1>3, <1>4, UpKnows, HolderMoves DEF ReadPrior, Processes, Files

\* A call that has not started anything gives up.
LEMMA RefuseKeeps ==
  ASSUME PowerInv, NEW u \in Ups, up[u].pc \in Choosing, Refuse(u),
         lock' = lock, power' = power, proc' = proc, born' = born, struck' = struck, dn' = dn
  PROVE  PowerInv'
<1>1. "release" \in UpPcs \ Waits /\ "release" \notin Reclaiming /\ up[u].pc \in BeforeStart \cap Holds
  BY DEF UpPcs, Waits, Holds, BeforeStart, Reclaiming
<1> QED BY <1>1, PcMoves DEF Refuse, Go

LEMMA ChooseHubPortKeeps ==
  ASSUME PowerInv, NEW u \in Ups, ChooseHubPort(u)
  PROVE  PowerInv'
<1>1. up[u].pc \in Choosing BY DEF ChooseHubPort, At, Choosing
<1>2. lock' = lock /\ power' = power /\ proc' = proc /\ born' = born /\ struck' = struck /\ dn' = dn
  BY DEF ChooseHubPort, Processes, Files
<1>3. CASE resolveUpHub(u) = 0 BY <1>1, <1>2, <1>3, RefuseKeeps DEF ChooseHubPort
<1>4. CASE resolveUpHub(u) # 0
  <2> DEFINE c == IF hubHealthy(resolveUpHub(u)) THEN "eventport" ELSE "adopt_hub"
             r == [up[u] EXCEPT !.pc = c, !.hubPair = resolveUpHub(u), !.evPair = resolveUpHub(u)]
  <2>0. c \in {"eventport", "adopt_hub"} OBVIOUS
  <2>1. up' = [up EXCEPT ![u] = r] BY <1>4, UpKnows DEF ChooseHubPort
  <2> HIDE DEF c
  <2>2. /\ DOMAIN r = UpFields /\ r.pc = c /\ r.mine = up[u].mine /\ r.prior = up[u].prior
        /\ \A s \in Services : r[s] = up[u][s]
    BY UpKnows DEF UpFields, Services
  <2> HIDE DEF r
  <2>3. r.pc \in UpPcs \ Waits /\ r.pc \notin Reclaiming
    BY <2>0, <2>2 DEF UpPcs, BeforeStart, Choosing, Waits, Reclaiming
  <2> QED BY <1>1, <1>2, <2>1, <2>2, <2>3, UpKnows, HolderMoves
<1> QED BY <1>3, <1>4

LEMMA ChooseEventPortKeeps ==
  ASSUME PowerInv, NEW u \in Ups, ChooseEventPort(u)
  PROVE  PowerInv'
<1>1. up[u].pc \in Choosing BY DEF ChooseEventPort, At, Choosing
<1>2. lock' = lock /\ power' = power /\ proc' = proc /\ born' = born /\ struck' = struck /\ dn' = dn
  BY DEF ChooseEventPort, Processes, Files
<1> DEFINE e == resolveNotifierPort(up[u].hubPair)
<1>3. CASE e = 0 BY <1>1, <1>2, <1>3, RefuseKeeps DEF ChooseEventPort
<1>4. CASE e # 0
  <2> DEFINE r == [up[u] EXCEPT !.pc = "adopt_hub", !.evPair = e]
  <2>1. up' = [up EXCEPT ![u] = r] BY <1>4, UpKnows DEF ChooseEventPort
  <2> HIDE DEF e
  <2>2. /\ DOMAIN r = UpFields /\ r.pc = "adopt_hub" /\ r.mine = up[u].mine /\ r.prior = up[u].prior
        /\ \A s \in Services : r[s] = up[u][s]
    BY UpKnows DEF UpFields, Services
  <2> HIDE DEF r
  <2>3. r.pc \in UpPcs \ Waits /\ r.pc \notin Reclaiming
    BY <2>2 DEF UpPcs, BeforeStart, Choosing, Waits, Reclaiming
  <2> QED BY <1>1, <1>2, <2>1, <2>2, <2>3, UpKnows, HolderMoves
<1> QED BY <1>3, <1>4

\* The services with a port.
PortServices == {"hub", "notifier"}

\* A call that puts facts about one service on its own record.
LEMMA HolderNotes ==
  ASSUME PowerInv, NEW u \in Ups, NEW s \in Services, NEW f, FactIn(f, proc, born),
         NEW c \in UpPcs \ Waits, up' = [up EXCEPT ![u].pc = c, ![u][s] = f],
         up[u].pc \in Choosing \/ (up[u].pc \in Raises /\ c \in Raises), c \notin Reclaiming,
         lock' = lock, power' = power, proc' = proc, born' = born, struck' = struck, dn' = dn
  PROVE  PowerInv'
<1> DEFINE r == [up[u] EXCEPT !.pc = c, ![s] = f]
<1>1. up' = [up EXCEPT ![u] = r] BY UpKnows
<1>2. /\ DOMAIN r = UpFields /\ r.pc = c /\ r.mine = up[u].mine /\ r.prior = up[u].prior
      /\ \A t \in Services : r[t] = IF t = s THEN f ELSE up[u][t]
  BY UpKnows DEF UpFields, Services
<1> HIDE DEF r
<1>3. \A t \in Services : FactIn(r[t], proc, born) BY <1>2, UpKnows
<1> QED BY <1>1, <1>2, <1>3, UpKnows, HolderMoves

LEMMA ListenerFact ==
  ASSUME NEW ps, NEW b, TableIn(ps, b), NEW p \in Pids, LiveIn(ps, p), ps[p].kind \in PortServices
  PROVE  FactIn([pid |-> p, token |-> ps[p].born, session |-> 0], ps, b)
<1>1. ps[p].born \in Nat \ {0} /\ ps[p].born <= b /\ p \in Nat \ {0} /\ ps[p].pgid = p /\ b \in Nat
  BY PowerAssumption DEF TableIn, PortServices, Pids
<1>2. ps[p].kind # "foreign" BY DEF PortServices
<1>3. \A q \in Pids : LiveIn(ps, q) /\ ps[q].born = ps[p].born => q = p BY DEF TableIn
<1> QED BY <1>1, <1>2, <1>3 DEF FactIn, FactRecs

LEMMA AdoptServiceKeeps ==
  ASSUME PowerInv, NEW u \in Ups, NEW s \in PortServices, AdoptService(u, s)
  PROVE  PowerInv'
<1>1. up[u].pc \in Choosing BY DEF AdoptService, At, Choosing, AdoptPc, PortServices
<1>2. lock' = lock /\ power' = power /\ proc' = proc /\ born' = born /\ struck' = struck /\ dn' = dn
  BY DEF AdoptService, Processes, Files
<1>3. CASE Go(u, AfterAdopt[s])
  <2>1. AfterAdopt[s] \in UpPcs \ Waits /\ AfterAdopt[s] \notin Reclaiming
        /\ up[u].pc \in BeforeStart \cap Holds
    BY <1>1 DEF AfterAdopt, PortServices, UpPcs, Waits, BeforeStart, Choosing, Reclaiming, Holds, Raises
  <2> QED BY <1>2, <1>3, <2>1, PcMoves DEF Go
<1>4. CASE Refuse(u) BY <1>1, <1>2, <1>4, RefuseKeeps
<1>5. ASSUME NEW p \in Listening(s, Pair(u, s)),
             up' = [up EXCEPT ![u].pc = VerifyPc[s], ![u][s] = [pid |-> p, token |-> proc[p].born, session |-> 0]]
      PROVE  PowerInv'
  <2>0. p \in Pids /\ Alive(p) /\ proc[p].kind = s BY <1>5 DEF Listening
  <2>1. p \in Pids /\ LiveIn(proc, p) /\ proc[p].kind \in PortServices BY <2>0 DEF Alive
  <2>2. VerifyPc[s] \in UpPcs \ Waits /\ VerifyPc[s] \notin Reclaiming
    BY DEF VerifyPc, PortServices, UpPcs, Waits, BeforeStart, Choosing, Reclaiming
  <2>3. FactIn([pid |-> p, token |-> proc[p].born, session |-> 0], proc, born)
    BY <2>1, UpKnows, ListenerFact
  <2>4. s \in Services BY DEF PortServices, Services
  <2> QED BY <1>1, <1>2, <1>5, <2>2, <2>3, <2>4, HolderNotes
<1> QED BY <1>3, <1>4, <1>5 DEF AdoptService

LEMMA AdoptVerifyKeeps ==
  ASSUME PowerInv, NEW u \in Ups, NEW s \in PortServices, AdoptVerify(u, s)
  PROVE  PowerInv'
<1>1. up[u].pc \in Choosing BY DEF AdoptVerify, At, Choosing, VerifyPc, PortServices
<1>2. lock' = lock /\ power' = power /\ proc' = proc /\ born' = born /\ struck' = struck /\ dn' = dn
  BY DEF AdoptVerify, Processes, Files
<1>3. CASE Go(u, AfterAdopt[s])
  <2>1. AfterAdopt[s] \in UpPcs \ Waits /\ AfterAdopt[s] \notin Reclaiming
        /\ up[u].pc \in BeforeStart \cap Holds
    BY <1>1 DEF AfterAdopt, PortServices, UpPcs, Waits, BeforeStart, Choosing, Reclaiming, Holds, Raises
  <2> QED BY <1>2, <1>3, <2>1, PcMoves DEF Go
<1>4. CASE up' = [up EXCEPT ![u].pc = "release", ![u][s] = NoFacts]
  <2>1. "release" \in UpPcs \ Waits /\ "release" \notin Reclaiming BY DEF UpPcs, Waits, Reclaiming
  <2>2. FactIn(NoFacts, proc, born) BY UpKnows, NoFactsWell
  <2>4. s \in Services BY DEF PortServices, Services
  <2> QED BY <1>1, <1>2, <1>4, <2>1, <2>2, <2>4, HolderNotes
<1> QED BY <1>3, <1>4 DEF AdoptVerify

LEMMA PreservedFact ==
  ASSUME PowerInv, NEW u \in Ups, NEW s \in Services, preserveService(u, s)
  PROVE  FactIn(up[u].prior[s], proc, born)
BY UpKnows DEF preserveService, SameEndpoint, MaybeState, StateIn

LEMMA ReusedFact ==
  ASSUME PowerInv, NEW u \in Ups, NEW s \in Services
  PROVE  FactIn(ReusedFacts(u, s), proc, born)
<1>1. CASE up[u][s] # NoFacts BY <1>1, UpKnows DEF ReusedFacts
<1>2. CASE up[u][s] = NoFacts /\ preserveService(u, s) BY <1>2, PreservedFact DEF ReusedFacts
<1>3. CASE up[u][s] = NoFacts /\ ~preserveService(u, s) BY <1>3, UpKnows, NoFactsWell DEF ReusedFacts
<1> QED BY <1>1, <1>2, <1>3

\* What the health gate writes down is about the process this call started.
LEMMA SpawnedFact ==
  ASSUME NEW f, NEW b, TableIn(proc, b), FactIn(f, proc, b), OursIn(f.pid, proc)
  PROVE  FactIn(SpawnedFacts(f.pid, f.session), proc, b)
<1> DEFINE t == processStartToken(f.pid)
<1>1. t = 0 \/ (Alive(f.pid) /\ t = proc[f.pid].born) BY DEF processStartToken
<1>2. t \in Nat /\ t <= b /\ (t # 0 => LiveIn(proc, f.pid) /\ t = proc[f.pid].born)
  BY <1>1 DEF TableIn, Alive
<1>3. f.pid = 0 => t = 0 BY <1>2 DEF Pids
<1>4. \A q \in Pids : LiveIn(proc, q) /\ proc[q].born = t => proc[q].kind # "foreign" /\ proc[q].pgid = q
  <2> SUFFICES ASSUME NEW q \in Pids, LiveIn(proc, q), proc[q].born = t
               PROVE  proc[q].kind # "foreign" /\ proc[q].pgid = q
    OBVIOUS
  <2>1. t # 0 BY DEF TableIn
  <2>2. q = f.pid BY <1>2, <2>1 DEF TableIn
  <2> QED BY <1>2, <2>1, <2>2 DEF OursIn
<1> HIDE DEF t
<1>5. SpawnedFacts(f.pid, f.session) = [pid |-> f.pid, token |-> t, session |-> f.session] BY DEF SpawnedFacts, t
<1> QED BY <1>2, <1>3, <1>4, <1>5 DEF FactIn, FactRecs

LEMMA WaitServiceKeeps ==
  ASSUME PowerInv, NEW u \in Ups, NEW s \in PortServices, WaitService(u, s)
  PROVE  PowerInv'
<1>1. up[u].pc = WaitPc[s] /\ up[u].pc \in Waits BY DEF WaitService, At, WaitPc, PortServices, Waits
<1>2. lock' = lock /\ power' = power /\ proc' = proc /\ born' = born /\ struck' = struck /\ dn' = dn
  BY DEF WaitService, Processes, Files
<1>3. s \in Services /\ up[u].pc \in Raises BY <1>1 DEF PortServices, Services, Raises
<1>4. CASE Healthy(u, s)
  <2> DEFINE f == up[u][s]
             g == SpawnedFacts(f.pid, f.session)
  <2>1. up' = [up EXCEPT ![u].pc = NextPc[s], ![u][s] = g]
    BY <1>4 DEF WaitService
  <2>2. f.pid \in up[u].mine /\ OursIn(f.pid, proc)
    <3>1. UpIn(u, up[u], proc, born) BY DEF PowerInv
    <3>2. f.pid \in up[u].mine BY <1>1, <3>1 DEF UpIn, WaitPc, PortServices
    <3> QED BY <3>1, <3>2 DEF UpIn
  <2>3. FactIn(g, proc, born) BY <1>3, <2>2, UpKnows, SpawnedFact
  <2>4. NextPc[s] \in UpPcs \ Waits /\ NextPc[s] \in Raises /\ NextPc[s] \notin Reclaiming
    BY DEF NextPc, PortServices, UpPcs, Waits, Raises, Reclaiming
  <2> HIDE DEF f, g
  <2> QED BY <1>2, <1>3, <2>1, <2>3, <2>4, HolderNotes
<1>5. CASE Go(u, "reap")
  <2>1. "reap" \in UpPcs \ Waits /\ "reap" \in Raises /\ "reap" \notin Reclaiming /\ up[u].pc \in Holds
    BY <1>3 DEF UpPcs, Waits, Raises, Reclaiming, Holds
  <2> QED BY <1>2, <1>3, <1>5, <2>1, PcMoves DEF Go
<1> QED BY <1>4, <1>5 DEF WaitService

\* A call starts a service.
LEMMA UpSpawns ==
  ASSUME PowerInv, NEW u \in Ups, NEW s \in Services, NEW p \in FreshPids, NEW x, NEW tok \in {0, born + 1},
         NEW c \in Raises, c \in Waits => s \in PortServices /\ c = WaitPc[s],
         DOMAIN x = ProcessFields, x.kind = s, x.born = born + 1, x.pgid = p, x.by = u, x.session = born + 1,
         proc' = [proc EXCEPT ![p] = x], born' = born + 1, up[u].pc \in Raises,
         up' = [up EXCEPT ![u].pc = c, ![u].mine = @ \cup {p},
                          ![u][s] = [pid |-> p, token |-> tok, session |-> born + 1]],
         lock' = lock, power' = power, struck' = struck, dn' = dn
  PROVE  PowerInv'
<1> DEFINE f == [pid |-> p, token |-> tok, session |-> born + 1]
           r == [up[u] EXCEPT !.pc = c, !.mine = @ \cup {p}, ![s] = f]
<1>1. /\ TableIn(proc, born) /\ UpIn(u, up[u], proc, born) /\ LockIn(up, lock) /\ PowerIn(power, proc, born)
      /\ DOMAIN up = Ups /\ DOMAIN up[u] = UpFields /\ born \in Nat
  BY DEF PowerInv, LockIn, UpIn, TableIn
<1>2. up' = [up EXCEPT ![u] = r] BY <1>1 DEF Services, UpFields
<1>3. /\ DOMAIN r = UpFields /\ r.pc = c /\ r.mine = up[u].mine \cup {p} /\ r.prior = up[u].prior
      /\ \A t \in Services : r[t] = IF t = s THEN f ELSE up[u][t]
  BY <1>1 DEF UpFields, Services
<1> HIDE DEF r
<1>4. /\ p \in Pids /\ ~LiveIn(proc, p) /\ \A v \in Ups : p \notin up[v].mine
      /\ \A d \in Downs : p \notin dn[d].target
  BY FreshPid
<1>5. Joins(proc, born, proc', p, x) BY <1>4 DEF Joins, Leads
<1>6. TableIn(proc', born') BY <1>1, <1>5, TableJoins
<1>13. proc'[p] = x BY <1>1, <1>4 DEF TableIn
<1>7. PowerIn(power', proc', born') BY <1>1, <1>5, PowerJoins
<1>8. \A d \in Downs : DownIn(dn'[d], proc', born') BY <1>1, <1>4, <1>5, DownJoins DEF PowerInv
<1>9. \A v \in Ups \ {u} : UpIn(v, up'[v], proc', born')
  <2> SUFFICES ASSUME NEW v \in Ups \ {u} PROVE UpIn(v, up'[v], proc', born') OBVIOUS
  <2>1. up'[v] = up[v] /\ x.by # v /\ UpIn(v, up[v], proc, born) BY <1>1, <1>2 DEF PowerInv
  <2> QED BY <1>1, <1>4, <1>5, <2>1, UpJoins
<1>10. UpIn(u, r, proc', born')
  <2>1. MaybeState(r.prior, proc', born') BY <1>1, <1>3, <1>5, StateJoins DEF UpIn, MaybeState
  <2>2. FactIn(f, proc', born')
    <3>1. f \in FactRecs /\ f.pid # 0 /\ f.token <= born + 1 /\ f.session <= born + 1
      BY <1>1, <1>4, PowerAssumption DEF FactRecs, Pids
    <3>2. \A q \in Pids : LiveIn(proc', q) =>
            /\ proc'[q].born = f.token => proc'[q].kind # "foreign" /\ proc'[q].pgid = q
            /\ f.session # 0 /\ proc'[q].session = f.session => proc'[q].pgid = f.pid
      <4> SUFFICES ASSUME NEW q \in Pids, LiveIn(proc', q)
                   PROVE  /\ proc'[q].born = f.token => proc'[q].kind # "foreign" /\ proc'[q].pgid = q
                          /\ f.session # 0 /\ proc'[q].session = f.session => proc'[q].pgid = f.pid
        OBVIOUS
      <4>1. CASE q = p
        <5>1. proc'[q] = x BY <1>13, <4>1
        <5> QED BY <4>1, <5>1 DEF Services
      <4>2. CASE q # p
        <5>1. proc'[q] = proc[q] /\ LiveIn(proc, q) BY <1>1, <1>5, <4>2, Joined
        <5>2. proc[q].born \in 1..born /\ proc[q].session \in 0..born BY <1>1, <5>1 DEF TableIn
        <5> QED BY <1>1, <5>1, <5>2
      <4> QED BY <4>1, <4>2
    <3> QED BY <3>1, <3>2 DEF FactIn
  <2>3. \A t \in Services : FactIn(r[t], proc', born') BY <1>1, <1>3, <1>5, <2>2, FactJoins DEF UpIn
  <2>4. r.mine \in SUBSET Pids /\ \A g \in r.mine : OursIn(g, proc')
    <3>1. OursIn(p, proc') BY <1>1, <1>5, Joined DEF OursIn, Services
    <3>2. \A g \in up[u].mine : OursIn(g, proc') BY <1>1, <1>4, <1>5, OursJoins DEF UpIn
    <3> QED BY <1>1, <1>3, <1>4, <3>1, <3>2 DEF UpIn
  <2>5. RaisedIn(u, r, proc')
    <3>1. r.pc \in Raises /\ r.pc \notin BeforeStart \cup {"release", "done"}
      BY <1>3 DEF Raises, Waits, BeforeStart, Choosing, Reclaiming
    <3>2. \A q \in Pids : LiveIn(proc', q) /\ proc'[q].by = u => proc'[q].pgid \in r.mine
      BY <1>1, <1>3, <1>5, Joined DEF UpIn, RaisedIn
    <3> QED BY <3>1, <3>2 DEF RaisedIn
  <2>6. /\ r.pc = "wait_hub" => r.hub.pid \in r.mine
        /\ r.pc = "wait_notifier" => r.notifier.pid \in r.mine
    <3>1. r.pc = "wait_hub" => s = "hub" BY <1>3 DEF Waits, WaitPc, PortServices
    <3>2. r.pc = "wait_notifier" => s = "notifier" BY <1>3 DEF Waits, WaitPc, PortServices
    <3> QED BY <1>3, <3>1, <3>2 DEF Services
  <2>7. r.pc \in UpPcs BY <1>3 DEF UpPcs
  <2> QED BY <1>3, <2>1, <2>3, <2>4, <2>5, <2>6, <2>7 DEF UpIn
<1>11. LockIn(up', lock')
  <2>1. up[u].pc # "crashed" /\ up[u].pc \in Holds /\ r.pc \notin Reclaiming
    BY <1>3 DEF Raises, Waits, Reclaiming, Holds
  <2>2. LockIn([up EXCEPT ![u] = r], lock) BY <1>1, <2>1, LockKept
  <2> QED BY <1>2, <2>2
<1>12. up'[u] = r BY <1>1, <1>2
<1> QED BY <1>6, <1>7, <1>8, <1>9, <1>10, <1>11, <1>12 DEF PowerInv

LEMMA StartServiceKeeps ==
  ASSUME PowerInv, NEW u \in Ups, NEW s \in PortServices, StartService(u, s)
  PROVE  PowerInv'
<1>0. up[u].pc = StartPc[s] BY DEF StartService, At
<1>1. up[u].pc \in Raises BY <1>0 DEF StartPc, PortServices, Raises
<1>2. lock' = lock /\ power' = power /\ dn' = dn BY DEF StartService, Files
<1>3. s \in Services BY DEF PortServices, Services
<1>4. CASE /\ Healthy(u, s)
           /\ up' = [up EXCEPT ![u].pc = NextPc[s], ![u][s] = ReusedFacts(u, s)]
           /\ UNCHANGED Processes
  <2>1. NextPc[s] \in UpPcs \ Waits /\ NextPc[s] \in Raises /\ NextPc[s] \notin Reclaiming
    BY DEF NextPc, PortServices, UpPcs, Waits, Raises, Reclaiming
  <2>2. FactIn(ReusedFacts(u, s), proc, born) BY <1>3, ReusedFact
  <2>3. proc' = proc /\ born' = born /\ struck' = struck BY <1>4 DEF Processes
  <2> QED BY <1>1, <1>2, <1>3, <1>4, <2>1, <2>2, <2>3, HolderNotes
<1>5. ASSUME NEW p \in FreshPids,
             Starts(p, Leader(p, s, Pair(u, s), up[u].hubPair, u)), struck' = struck,
             up' = [up EXCEPT ![u].pc = WaitPc[s], ![u].mine = @ \cup {p},
                           ![u][s] = [pid |-> p, token |-> 0, session |-> born + 1]]
      PROVE  PowerInv'
  <2> DEFINE x == Leader(p, s, Pair(u, s), up[u].hubPair, u)
  <2>1. proc' = [proc EXCEPT ![p] = x] /\ born' = born + 1 BY <1>5 DEF Starts
  <2>2. /\ DOMAIN x = ProcessFields /\ x.kind = s /\ x.born = born + 1 /\ x.pgid = p /\ x.by = u
        /\ x.session = born + 1
    BY PowerAssumption DEF Leader, ProcessFields, None
  <2> HIDE DEF x
  <2>3. WaitPc[s] \in Raises BY DEF WaitPc, Raises, Waits, PortServices
  <2> QED BY <1>1, <1>2, <1>3, <1>5, <2>1, <2>2, <2>3, UpSpawns
<1> QED BY <1>4, <1>5 DEF StartService

LEMMA StartWatcherKeeps ==
  ASSUME PowerInv, NEW u \in Ups, StartWatcher(u)
  PROVE  PowerInv'
<1>1. up[u].pc \in Raises /\ "watcher" \in Services BY DEF StartWatcher, At, Raises, Services
<1>2. lock' = lock /\ power' = power /\ dn' = dn BY DEF StartWatcher, Files
<1>3. "record" \in UpPcs \ Waits /\ "record" \in Raises /\ "record" \notin Reclaiming /\ up[u].pc \in Holds
  BY <1>1 DEF UpPcs, Waits, Raises, Reclaiming, Holds
<1> DEFINE prior == up[u].prior
<1>4. CASE /\ prior # Absent
           /\ up' = [up EXCEPT ![u].pc = "record", ![u].watcher = prior.watcher] /\ UNCHANGED Processes
  <2>1. FactIn(prior["watcher"], proc, born) BY <1>1, <1>4, UpKnows DEF MaybeState, StateIn
  <2>2. proc' = proc /\ born' = born /\ struck' = struck BY <1>4 DEF Processes
  <2>3. up' = [up EXCEPT ![u].pc = "record", ![u]["watcher"] = prior["watcher"]] BY <1>4
  <2> HIDE DEF prior
  <2> QED BY <1>1, <1>2, <1>3, <2>1, <2>2, <2>3, HolderNotes
<1>5. CASE Go(u, "record") /\ UNCHANGED Processes
  <2>2. proc' = proc /\ born' = born /\ struck' = struck BY <1>5 DEF Processes
  <2> QED BY <1>1, <1>2, <1>3, <1>5, <2>2, PcMoves DEF Go
<1>6. ASSUME NEW p \in FreshPids, Starts(p, Leader(p, "watcher", 0, 0, u)), struck' = struck,
             up' = [up EXCEPT ![u].pc = "record", ![u].mine = @ \cup {p},
                        ![u].watcher = [pid |-> p, token |-> IF blind THEN 0 ELSE born + 1,
                                        session |-> born + 1]]
      PROVE  PowerInv'
  <2> DEFINE x == Leader(p, "watcher", 0, 0, u)
             tok == IF blind THEN 0 ELSE born + 1
  <2>1. proc' = [proc EXCEPT ![p] = x] /\ born' = born + 1 BY <1>6 DEF Starts
  <2>2. /\ DOMAIN x = ProcessFields /\ x.kind = "watcher" /\ x.born = born + 1 /\ x.pgid = p /\ x.by = u
        /\ x.session = born + 1
    BY PowerAssumption DEF Leader, ProcessFields, None
  <2>3. tok \in {0, born + 1} OBVIOUS
  <2>4. up' = [up EXCEPT ![u].pc = "record", ![u].mine = @ \cup {p},
                         ![u]["watcher"] = [pid |-> p, token |-> tok, session |-> born + 1]]
    BY <1>6
  <2>5. struck' = struck /\ "record" \notin Waits BY <1>3, <1>6
  <2> HIDE DEF x, tok
  <2> QED BY <1>1, <1>2, <1>3, <2>1, <2>2, <2>3, <2>4, <2>5, UpSpawns
<1> QED BY <1>4, <1>5, <1>6 DEF StartWatcher

LEMMA RecordStateKeeps ==
  ASSUME PowerInv, NEW u \in Ups, RecordState(u)
  PROVE  PowerInv'
<1>1. up[u].pc = "record" /\ up[u].pc \in Raises BY DEF RecordState, At, Raises
<1>2. lock' = lock /\ proc' = proc /\ born' = born /\ struck' = struck /\ dn' = dn
  BY DEF RecordState, Processes
<1>3. UpIn(u, up[u], proc, born) /\ LockIn(up, lock) BY DEF PowerInv
<1>4. CASE power' = State(u) /\ up' = [up EXCEPT ![u].pc = "release", ![u].ok = TRUE]
  <2> DEFINE r == [up[u] EXCEPT !.pc = "release", !.ok = TRUE]
  <2>1. up' = [up EXCEPT ![u] = r] BY <1>4, UpKnows
  <2>2. /\ DOMAIN r = UpFields /\ r.pc = "release" /\ r.ok = TRUE /\ r.mine = up[u].mine /\ r.prior = up[u].prior
        /\ \A s \in Services : r[s] = up[u][s]
    BY UpKnows DEF UpFields, Services
  <2> HIDE DEF r
  <2>3. RaisedIn(u, r, proc) BY <2>2 DEF RaisedIn, BeforeStart, Choosing, Reclaiming, Raises, Waits
  <2>4. r.pc \in UpPcs /\ r.pc \notin Reclaiming BY <2>2 DEF UpPcs, Reclaiming
  <2>5. UpIn(u, r, proc, born) BY <1>3, <2>2, <2>3, <2>4 DEF UpIn
  <2>6. LockIn([up EXCEPT ![u] = r], lock)
    <3>1. up[u].pc # "crashed" /\ up[u].pc \in Holds BY <1>1 DEF Holds
    <3> QED BY <1>3, <2>4, <3>1, LockKept
  <2>7. PowerIn(power', proc, born)
    <3>1. DOMAIN power' = StateFields /\ power'.stopped = FALSE /\ \A s \in Services : power'[s] = up[u][s]
      BY <1>4 DEF State, StateFields, Services
    <3> QED BY <3>1, UpKnows DEF PowerIn, StateIn
  <2> QED BY <1>2, <2>1, <2>5, <2>6, <2>7, UpMoves
<1>5. CASE Go(u, "reap") /\ power' = power
  <2>1. "reap" \in UpPcs \ Waits /\ "reap" \in Raises /\ "reap" \notin Reclaiming /\ up[u].pc \in Holds
    BY <1>1 DEF UpPcs, Waits, Raises, Reclaiming, Holds
  <2> QED BY <1>1, <1>2, <1>5, <2>1, PcMoves DEF Go
<1> QED BY <1>4, <1>5 DEF RecordState

LEMMA DyingFades ==
  ASSUME NEW b, TableIn(proc, b), NEW ps, Die(ps)
  PROVE  Fades(proc, proc') /\ \A p \in Pids : LiveIn(proc', p) => p \notin ps
BY DEF Die, Fades, TableIn

LEMMA ReapKeeps ==
  ASSUME PowerInv, NEW u \in Ups, Reap(u)
  PROVE  PowerInv'
<1>1. /\ UpIn(u, up[u], proc, born) /\ LockIn(up, lock) /\ TableIn(proc, born) /\ PowerIn(power, proc, born)
      /\ up[u].pc = "reap"
  BY DEF PowerInv, Reap, At
<1>2. /\ lock' = lock /\ power' = power /\ dn' = dn /\ born' = born
      /\ Die(UNION {Group(p) : p \in Raised(u)})
      /\ struck' = (struck \/ \E g \in Raised(u) : \E p \in Group(g) : proc[p].kind = "foreign")
  BY DEF Reap, Files, Signal
<1>3. Fades(proc, proc') BY <1>1, <1>2, DyingFades
<1>4. struck' = FALSE
  <2>1. \A g \in Raised(u) : \A p \in Group(g) : proc[p].kind # "foreign"
    <3> SUFFICES ASSUME NEW g \in Raised(u), NEW p \in Group(g), proc[p].kind = "foreign" PROVE FALSE OBVIOUS
    <3>1. p \in Pids /\ LiveIn(proc, p) /\ proc[p].pgid = g BY DEF Group, Alive
    <3>2. p = g BY <1>1, <3>1 DEF TableIn
    <3>3. OursIn(g, proc) BY <1>1 DEF UpIn, Raised
    <3> QED BY <3>1, <3>2, <3>3 DEF OursIn
  <2> QED BY <1>2, <2>1 DEF PowerInv
<1> DEFINE r == [up[u] EXCEPT !.pc = "release"]
<1>5. up' = [up EXCEPT ![u] = r] BY DEF Reap, Go
<1>6. /\ DOMAIN r = UpFields /\ r.pc = "release" /\ r.mine = up[u].mine /\ r.prior = up[u].prior
      /\ \A s \in Services : r[s] = up[u][s]
  BY UpKnows DEF UpFields, Services
<1> HIDE DEF r
<1>7. UpIn(u, up[u], proc', born) BY <1>1, <1>3, UpFades
<1>8. RaisedIn(u, r, proc')
  <2>1. \A p \in Pids : LiveIn(proc', p) => proc'[p].by # u
    <3> SUFFICES ASSUME NEW p \in Pids, LiveIn(proc', p), proc'[p].by = u PROVE FALSE OBVIOUS
    <3>1. LiveIn(proc, p) /\ proc[p].by = u BY <1>3 DEF Fades
    <3>2. proc[p].pgid \in Raised(u) BY <1>1, <3>1 DEF UpIn, RaisedIn, Raises, Raised
    <3>3. p \in Group(proc[p].pgid) BY <3>1 DEF Group, Alive
    <3>4. p \in UNION {Group(q) : q \in Raised(u)} BY <3>2, <3>3
    <3> QED BY <1>1, <1>2, <3>4, DyingFades
  <2>2. r.pc \notin Raises BY <1>6 DEF Raises, Waits
  <2> QED BY <2>1, <2>2 DEF RaisedIn
<1>9. UpIn(u, r, proc', born) BY <1>6, <1>7, <1>8 DEF UpIn, UpPcs
<1>10. LockIn([up EXCEPT ![u] = r], lock)
  <2>1. up[u].pc # "crashed" /\ up[u].pc \in Holds /\ r.pc \notin Reclaiming
    BY <1>1, <1>6 DEF Holds, Raises, Reclaiming
  <2> QED BY <1>1, <2>1, LockKept
<1>11. \A v \in Ups : UpIn(v, up'[v], proc', born)
  <2>1. \A v \in Ups \ {u} : UpIn(v, up[v], proc', born) BY <1>3, UpFades DEF PowerInv
  <2> QED BY <1>5, <1>9, <2>1, UpKnows
<1>12. TableIn(proc', born) /\ PowerIn(power, proc', born) BY <1>1, <1>3, TableFades, PowerFades
<1>13. \A d \in Downs : DownIn(dn[d], proc', born) BY <1>3, DownFades DEF PowerInv
<1> QED BY <1>2, <1>4, <1>5, <1>10, <1>11, <1>12, <1>13 DEF PowerInv

-----------------------------------------------------------------------------
(* down. *)

LEMMA DownKnows ==
  ASSUME PowerInv, NEW d \in Downs
  PROVE  /\ DOMAIN dn = Downs /\ DOMAIN dn[d] = DownFields /\ TableIn(proc, born) /\ PowerIn(power, proc, born)
         /\ DownIn(dn[d], proc, born)
BY DEF PowerInv, DownIn

\* A step of down that signals nothing.
LEMMA DownMoves ==
  ASSUME PowerInv, NEW d \in Downs, NEW r, dn' = [dn EXCEPT ![d] = r], DownIn(r, proc, born),
         PowerIn(power', proc, born), proc' = proc, born' = born, struck' = struck, up' = up, lock' = lock
  PROVE  PowerInv'
<1>1. \A e \in Downs : DownIn(dn'[e], proc, born) BY DEF PowerInv
<1> QED BY <1>1 DEF PowerInv

\* A step of down that signals the group it aims at.
LEMMA DownStrikes ==
  ASSUME PowerInv, NEW d \in Downs, dn[d].pc \in Signalling, NEW ps, Signal({Facts(d).pid}, ps),
         NEW r, dn' = [dn EXCEPT ![d] = r], DownIn(r, proc, born),
         power' = power, up' = up, lock' = lock
  PROVE  PowerInv'
<1>1. TableIn(proc, born) /\ PowerIn(power, proc, born) /\ DownIn(dn[d], proc, born) BY DownKnows
<1>2. /\ Die(ps) /\ born' = born
      /\ struck' = (struck \/ \E g \in {Facts(d).pid} : \E p \in Group(g) : proc[p].kind = "foreign")
  BY DEF Signal
<1>3. Fades(proc, proc') BY <1>1, <1>2, DyingFades
<1>4. struck' = FALSE
  <2> DEFINE g == Facts(d).pid
  <2>1. \A p \in Group(g) : proc[p].kind # "foreign"
    <3> SUFFICES ASSUME NEW p \in Group(g), proc[p].kind = "foreign" PROVE FALSE OBVIOUS
    <3>1. p \in Pids /\ LiveIn(proc, p) /\ proc[p].pgid = g BY DEF Group, Alive
    <3>2. p = g BY <1>1, <3>1 DEF TableIn
    <3> QED BY <1>1, <3>1, <3>2 DEF DownIn, Facts
  <2> QED BY <1>2, <2>1 DEF PowerInv
<1>5. \A v \in Ups : UpIn(v, up[v], proc', born) BY <1>3, UpFades DEF PowerInv
<1>6. TableIn(proc', born) /\ PowerIn(power, proc', born) BY <1>1, <1>3, TableFades, PowerFades
<1>7. \A e \in Downs : DownIn(dn'[e], proc', born)
  <2>1. \A e \in Downs : DownIn(dn'[e], proc, born) BY DEF PowerInv
  <2> QED BY <1>3, <2>1, DownFades
<1>8. DOMAIN dn' = Downs BY DEF PowerInv
<1>9. LockIn(up, lock) BY DEF PowerInv
<1> QED BY <1>2, <1>4, <1>5, <1>6, <1>7, <1>8, <1>9 DEF PowerInv

\* down has nothing more to answer for.
LEMMA DownEnds ==
  ASSUME PowerInv, NEW d \in Downs, DownGo(d, "done"),
         power' = power, proc' = proc, born' = born, struck' = struck, up' = up, lock' = lock
  PROVE  PowerInv'
<1> DEFINE r == [dn[d] EXCEPT !.pc = "done"]
<1>1. dn' = [dn EXCEPT ![d] = r] BY DEF DownGo
<1>2. DOMAIN r = DownFields /\ r.pc = "done" /\ r.at = dn[d].at BY DownKnows DEF DownFields
<1> HIDE DEF r
<1>3. r.at \in 1..4 BY <1>2, DownKnows DEF DownIn
<1>4. DownIn(r, proc, born) BY <1>2, <1>3 DEF DownIn, DownPcs, Signalling
<1> QED BY <1>1, <1>4, DownKnows, DownMoves

LEMMA DownReadKeeps ==
  ASSUME PowerInv, NEW d \in Downs, DownRead(d)
  PROVE  PowerInv'
<1>1. /\ power' = power /\ proc' = proc /\ born' = born /\ struck' = struck /\ up' = up /\ lock' = lock
      /\ dn[d].pc = "read"
  BY DEF DownRead, Processes, Files, DnAt
<1>2. CASE DownGo(d, "done") BY <1>1, <1>2, DownEnds
<1>3. CASE power # Absent /\ dn' = [dn EXCEPT ![d].pc = "judge", ![d].seen = power]
  <2> DEFINE r == [dn[d] EXCEPT !.pc = "judge", !.seen = power]
  <2>1. dn' = [dn EXCEPT ![d] = r] BY <1>3, DownKnows
  <2>2. DOMAIN r = DownFields /\ r.pc = "judge" /\ r.at = 1 /\ r.seen = power
    BY <1>1, DownKnows DEF DownFields, DownIn
  <2> HIDE DEF r
  <2>3. StateIn(r.seen, proc, born) BY <1>3, <2>2, DownKnows DEF PowerIn
  <2>4. DownIn(r, proc, born) BY <2>2, <2>3 DEF DownIn, DownPcs, Signalling
  <2> QED BY <1>1, <2>1, <2>4, DownKnows, DownMoves
<1> QED BY <1>2, <1>3 DEF DownRead

\* A group nobody is in: what was recorded of it is gone.
LEMMA QuietGroup ==
  ASSUME NEW f, NEW b, TableIn(proc, b), FactIn(f, proc, b), f.pid = 0 \/ ~groupAlive(f.pid)
  PROVE  GoneIn(f, proc)
<1> SUFFICES ASSUME f.token # 0 PROVE GoneIn(f, proc) BY DEF GoneIn
<1>1. \A p \in Pids : LiveIn(proc, p) => proc[p].pgid # f.pid BY DEF groupAlive, Group, Alive, FactIn
<1>2. LiveIn(proc, f.pid) => proc[f.pid].born # f.token BY <1>1 DEF FactIn
<1>3. f.session # 0 => \A p \in Pids : LiveIn(proc, p) => proc[p].session # f.session
  BY <1>1 DEF FactIn
<1> QED BY <1>2, <1>3 DEF GoneIn

\* Where down is about one service.
Busy == Signalling \cup {"judge"}

LEMMA FactsWell ==
  ASSUME PowerInv, NEW d \in Downs, dn[d].pc \in Busy
  PROVE  FactIn(Facts(d), proc, born) /\ TableIn(proc, born)
<1>1. StateIn(dn[d].seen, proc, born) /\ dn[d].at \in 1..3
  BY DownKnows DEF DownIn, Busy, Signalling
<1>2. StopOrder[dn[d].at] \in Services BY <1>1 DEF StopOrder, Services
<1> QED BY <1>1, <1>2, DownKnows DEF Facts, StateIn

LEMMA DownAdvances ==
  ASSUME PowerInv, NEW d \in Downs, dn[d].pc \in Busy, NEW outcome, Advance(d, outcome),
         incomplete(outcome) \/ Facts(d).pid = 0 \/ ~groupAlive(Facts(d).pid),
         power' = power, proc' = proc, born' = born, struck' = struck, up' = up, lock' = lock
  PROVE  PowerInv'
<1> DEFINE c == IF dn[d].at = 3 THEN "endpoints" ELSE "judge"
           r == [dn[d] EXCEPT !.bad = @ \/ incomplete(outcome), !.target = {}, !.at = @ + 1, !.pc = c]
<1>1. dn' = [dn EXCEPT ![d] = r] BY DownKnows DEF Advance
<1>2. /\ DOMAIN r = DownFields /\ r.pc = c /\ r.at = dn[d].at + 1 /\ r.seen = dn[d].seen
      /\ r.bad = (dn[d].bad \/ incomplete(outcome))
  BY DownKnows DEF DownFields
<1> HIDE DEF r
<1>3. DownIn(dn[d], proc, born) /\ dn[d].at \in 1..3 BY DownKnows DEF DownIn, Busy
<1>4. /\ r.at \in 1..4 /\ (c = "judge" => r.at <= 3) /\ (c = "endpoints" => r.at = 4)
      /\ c \in {"endpoints", "judge"}
  BY <1>2, <1>3
<1>5. StateIn(r.seen, proc, born) BY <1>2, <1>3 DEF DownIn, Busy, Signalling
<1>6. ~r.bad => ~dn[d].bad /\ ~incomplete(outcome) BY <1>2
<1>7. ~r.bad => \A i \in 1..3 : i < r.at => GoneIn(r.seen[StopOrder[i]], proc)
  <2> SUFFICES ASSUME ~r.bad, NEW i \in 1..3, i < r.at PROVE GoneIn(r.seen[StopOrder[i]], proc)
    OBVIOUS
  <2>1. CASE i < dn[d].at BY <1>2, <1>3, <1>6, <2>1 DEF DownIn, Busy, Signalling
  <2>2. CASE i = dn[d].at
    <3>1. Facts(d).pid = 0 \/ ~groupAlive(Facts(d).pid) BY <1>6
    <3>2. GoneIn(Facts(d), proc) BY <3>1, FactsWell, QuietGroup
    <3> QED BY <1>2, <2>2, <3>2 DEF Facts
  <2>3. i < dn[d].at \/ i = dn[d].at BY <1>2, <1>3
  <2> QED BY <2>1, <2>2, <2>3
<1> HIDE DEF c
<1>8. DownIn(r, proc, born) BY <1>2, <1>4, <1>5, <1>7 DEF DownIn, DownPcs, Signalling
<1> QED BY <1>1, <1>8, DownKnows, DownMoves

\* down takes aim at the group of the facts it looks at.
LEMMA DownAims ==
  ASSUME PowerInv, NEW d \in Downs, dn[d].pc = "judge",
         dn' = [dn EXCEPT ![d].pc = "term", ![d].target = {Facts(d).pid}],
         LiveIn(proc, Facts(d).pid) => proc[Facts(d).pid].kind # "foreign",
         power' = power, proc' = proc, born' = born, struck' = struck, up' = up, lock' = lock
  PROVE  PowerInv'
<1> DEFINE r == [dn[d] EXCEPT !.pc = "term", !.target = {Facts(d).pid}]
<1>1. dn' = [dn EXCEPT ![d] = r] BY DownKnows
<1>2. /\ DOMAIN r = DownFields /\ r.pc = "term" /\ r.at = dn[d].at /\ r.seen = dn[d].seen
      /\ r.bad = dn[d].bad /\ r.target = {Facts(d).pid}
  BY DownKnows DEF DownFields
<1> HIDE DEF r
<1>3. DownIn(dn[d], proc, born) BY DownKnows
<1>4. r.seen[StopOrder[r.at]] = Facts(d) BY <1>2 DEF Facts
<1>5. r.at \in 1..4 /\ r.at <= 3 /\ r.pc \in DownPcs /\ r.pc \in Signalling
  BY <1>2, <1>3 DEF DownIn, DownPcs, Signalling
<1>6. StateIn(r.seen, proc, born) /\ (~r.bad => \A i \in 1..3 : i < r.at => GoneIn(r.seen[StopOrder[i]], proc))
  BY <1>2, <1>3 DEF DownIn
<1>7. DownIn(r, proc, born) BY <1>2, <1>4, <1>5, <1>6 DEF DownIn
<1> QED BY <1>1, <1>7, DownKnows, DownMoves

LEMMA DownJudgeKeeps ==
  ASSUME PowerInv, NEW d \in Downs, DownJudge(d)
  PROVE  PowerInv'
<1>1. /\ power' = power /\ proc' = proc /\ born' = born /\ struck' = struck /\ up' = up /\ lock' = lock
      /\ dn[d].pc = "judge" /\ dn[d].pc \in Busy
  BY DEF DownJudge, Processes, Files, DnAt, Busy
<1> DEFINE f == Facts(d)
           ladder == dn' = [dn EXCEPT ![d].pc = "term", ![d].target = {f.pid}]
<1>2. CASE f.pid = 0
  <2>0. ~groupAlive(0) /\ ~Alive(0)
    BY <1>1, FactsWell, PowerAssumption DEF TableIn, groupAlive, Group, Alive, Pids
  <2>1. Advance(d, "no-pid") BY <1>2, <2>0 DEF DownJudge
  <2> QED BY <1>1, <1>2, <2>1, DownAdvances
<1>3. CASE f.pid # 0 /\ ~groupAlive(f.pid)
  <2>0. ~(Alive(f.pid) /\ LeaderIsOurs(f))
    <3> SUFFICES ASSUME Alive(f.pid), LeaderIsOurs(f) PROVE FALSE OBVIOUS
    <3>1. proc[f.pid].born = f.token BY DEF LeaderIsOurs, processStartToken
    <3>2. proc[f.pid].pgid = f.pid BY <1>1, <3>1, FactsWell DEF FactIn, Alive
    <3> QED BY <1>3, <3>2 DEF groupAlive, Group, Alive
  <2>1. Advance(d, "already-stopped") BY <1>3, <2>0 DEF DownJudge
  <2> QED BY <1>1, <1>3, <2>1, DownAdvances
<1>4. CASE f.pid # 0 /\ groupAlive(f.pid) /\ ~Alive(f.pid)
  <2>1. ladder \/ Advance(d, "unverified") BY <1>4 DEF DownJudge
  <2>2. CASE ladder BY <1>1, <1>4, <2>2, DownAims DEF Alive
  <2>3. CASE Advance(d, "unverified") BY <1>1, <2>3, DownAdvances DEF incomplete
  <2> QED BY <2>1, <2>2, <2>3
<1>5. CASE f.pid # 0 /\ groupAlive(f.pid) /\ Alive(f.pid)
  <2>1. (LeaderIsOurs(f) /\ ladder) \/ Advance(d, "unverified") \/ Advance(d, "stale-pid")
    BY <1>5 DEF DownJudge
  <2>2. CASE LeaderIsOurs(f) /\ ladder
    <3>1. proc[f.pid].born = f.token BY <2>2 DEF LeaderIsOurs, processStartToken
    <3>2. proc[f.pid].kind # "foreign" BY <1>1, <1>5, <3>1, FactsWell DEF FactIn, Alive
    <3> QED BY <1>1, <2>2, <3>2, DownAims
  <2>3. CASE Advance(d, "unverified") BY <1>1, <2>3, DownAdvances DEF incomplete
  <2>4. CASE Advance(d, "stale-pid") BY <1>1, <2>4, DownAdvances DEF incomplete
  <2> QED BY <2>1, <2>2, <2>3, <2>4
<1> QED BY <1>2, <1>3, <1>4, <1>5

\* down waits, and looks again, with its aim unchanged.
LEMMA DownKeepsAim ==
  ASSUME PowerInv, NEW d \in Downs, dn[d].pc \in Signalling, NEW c \in Signalling
  PROVE  DownIn([dn[d] EXCEPT !.pc = c], proc, born)
<1> DEFINE r == [dn[d] EXCEPT !.pc = c]
<1>2. /\ DOMAIN r = DownFields /\ r.pc = c /\ r.at = dn[d].at /\ r.seen = dn[d].seen
      /\ r.bad = dn[d].bad /\ r.target = dn[d].target
  BY DownKnows DEF DownFields
<1> HIDE DEF r
<1>3. DownIn(dn[d], proc, born) BY DownKnows
<1>4. c \in DownPcs /\ c \notin {"read", "endpoints", "stopped"} /\ dn[d].pc \notin {"read", "done"}
  BY DEF DownPcs, Signalling
<1>5. DownIn(r, proc, born) BY <1>2, <1>3, <1>4 DEF DownIn
<1> QED BY <1>5 DEF r

LEMMA DownTermKeeps ==
  ASSUME PowerInv, NEW d \in Downs, DownTerm(d)
  PROVE  PowerInv'
<1>1. dn[d].pc \in Signalling /\ "grace" \in Signalling BY DEF DownTerm, DnAt, Signalling
<1>2. PICK ps : Signal({Facts(d).pid}, ps) BY DEF DownTerm
<1>3. dn' = [dn EXCEPT ![d] = [dn[d] EXCEPT !.pc = "grace"]] BY DEF DownTerm, DownGo
<1>4. power' = power /\ up' = up /\ lock' = lock BY DEF DownTerm, Files
<1> QED BY <1>1, <1>2, <1>3, <1>4, DownKeepsAim, DownStrikes

LEMMA DownGraceKeeps ==
  ASSUME PowerInv, NEW d \in Downs, DownGrace(d)
  PROVE  PowerInv'
<1>1. dn[d].pc \in Signalling /\ dn[d].pc \in Busy /\ "recheck" \in Signalling
  BY DEF DownGrace, DnAt, Signalling, Busy
<1>2. power' = power /\ up' = up /\ lock' = lock BY DEF DownGrace, Files
<1>3. CASE ~groupAlive(Facts(d).pid)
  <2>1. Advance(d, "stopped") /\ proc' = proc /\ born' = born /\ struck' = struck
    BY <1>3 DEF DownGrace, Processes
  <2> QED BY <1>1, <1>2, <1>3, <2>1, DownAdvances
<1>4. CASE groupAlive(Facts(d).pid)
  <2>1. PICK ps : Signal({Facts(d).pid}, ps) BY <1>4 DEF DownGrace
  <2>2. dn' = [dn EXCEPT ![d] = [dn[d] EXCEPT !.pc = "recheck"]] BY <1>4 DEF DownGrace, DownGo
  <2> QED BY <1>1, <1>2, <2>1, <2>2, DownKeepsAim, DownStrikes
<1> QED BY <1>3, <1>4

LEMMA DownRecheckKeeps ==
  ASSUME PowerInv, NEW d \in Downs, DownRecheck(d)
  PROVE  PowerInv'
<1>1. dn[d].pc \in Busy BY DEF DownRecheck, DnAt, Signalling, Busy
<1>2. /\ power' = power /\ proc' = proc /\ born' = born /\ struck' = struck /\ up' = up /\ lock' = lock
  BY DEF DownRecheck, Processes, Files
<1>3. CASE groupAlive(Facts(d).pid)
  <2>1. Advance(d, "failed") BY <1>3 DEF DownRecheck
  <2> QED BY <1>1, <1>2, <2>1, DownAdvances DEF incomplete
<1>4. CASE ~groupAlive(Facts(d).pid)
  <2>1. Advance(d, "forced") BY <1>4 DEF DownRecheck
  <2> QED BY <1>1, <1>2, <1>4, <2>1, DownAdvances
<1> QED BY <1>3, <1>4

LEMMA DownEndpointsKeeps ==
  ASSUME PowerInv, NEW d \in Downs, DownEndpoints(d)
  PROVE  PowerInv'
<1>1. /\ power' = power /\ proc' = proc /\ born' = born /\ struck' = struck /\ up' = up /\ lock' = lock
      /\ dn[d].pc = "endpoints"
  BY DEF DownEndpoints, Processes, Files, DnAt
<1>2. CASE DownGo(d, "done") BY <1>1, <1>2, DownEnds
<1>3. CASE ~dn[d].bad /\ DownGo(d, "stopped")
  <2> DEFINE r == [dn[d] EXCEPT !.pc = "stopped"]
  <2>1. dn' = [dn EXCEPT ![d] = r] BY <1>3 DEF DownGo
  <2>2. DOMAIN r = DownFields /\ r.pc = "stopped" /\ r.at = dn[d].at /\ r.seen = dn[d].seen /\ r.bad = dn[d].bad
    BY DownKnows DEF DownFields
  <2> HIDE DEF r
  <2>3. DownIn(dn[d], proc, born) BY DownKnows
  <2>4. DownIn(r, proc, born) BY <1>1, <1>3, <2>2, <2>3 DEF DownIn, DownPcs, Signalling
  <2> QED BY <1>1, <2>1, <2>4, DownKnows, DownMoves
<1> QED BY <1>2, <1>3 DEF DownEndpoints

LEMMA DownRecordKeeps ==
  ASSUME PowerInv, NEW d \in Downs, DownRecord(d)
  PROVE  PowerInv'
<1>1. /\ proc' = proc /\ born' = born /\ struck' = struck /\ up' = up /\ lock' = lock
      /\ dn[d].pc = "stopped" /\ power' = [dn[d].seen EXCEPT !.stopped = TRUE]
  BY DEF DownRecord, Processes, DnAt
<1>2. DownIn(dn[d], proc, born) BY DownKnows
<1>3. StateIn(dn[d].seen, proc, born) /\ \A i \in 1..3 : GoneIn(dn[d].seen[StopOrder[i]], proc)
  BY <1>1, <1>2 DEF DownIn
<1>4. \A s \in Services : GoneIn(dn[d].seen[s], proc)
  <2>1. \A s \in Services : \E i \in 1..3 : StopOrder[i] = s BY DEF Services, StopOrder
  <2> QED BY <1>3, <2>1
<1>5. DOMAIN power' = StateFields /\ \A s \in Services : power'[s] = dn[d].seen[s]
  BY <1>1, <1>3 DEF StateIn, StateFields, Services
<1>6. PowerIn(power', proc, born) BY <1>3, <1>4, <1>5 DEF PowerIn, StateIn
<1> DEFINE r == [dn[d] EXCEPT !.pc = "prune"]
<1>7. dn' = [dn EXCEPT ![d] = r] BY DEF DownRecord, DownGo
<1>8. DOMAIN r = DownFields /\ r.pc = "prune" /\ r.at = dn[d].at /\ r.seen = dn[d].seen /\ r.bad = dn[d].bad
  BY DownKnows DEF DownFields
<1> HIDE DEF r
<1>9. DownIn(r, proc, born) BY <1>1, <1>2, <1>8 DEF DownIn, DownPcs, Signalling
<1> QED BY <1>1, <1>6, <1>7, <1>9, DownMoves

LEMMA DownPruneKeeps ==
  ASSUME PowerInv, NEW d \in Downs, DownPrune(d)
  PROVE  PowerInv'
BY DownEnds DEF DownPrune, Processes

LEMMA OthersFade ==
  ASSUME PowerInv, Fades(proc, proc'), born' = born, struck' = struck,
         power' = power, up' = up, dn' = dn, lock' = lock
  PROVE  PowerInv'
<1>1. TableIn(proc', born) /\ PowerIn(power, proc', born)
  BY TableFades, PowerFades DEF PowerInv
<1>2. \A v \in Ups : UpIn(v, up[v], proc', born) BY UpFades DEF PowerInv
<1>3. \A d \in Downs : DownIn(dn[d], proc', born) BY DownFades DEF PowerInv
<1> QED BY <1>1, <1>2, <1>3 DEF PowerInv

LEMMA OthersJoin ==
  ASSUME PowerInv, NEW p \in FreshPids, NEW x, Joins(proc, born, proc', p, x), born' = born + 1,
         Follows(proc, x) \/ x.by \notin Ups,
         struck' = struck, power' = power, up' = up, dn' = dn, lock' = lock
  PROVE  PowerInv'
<1>0. TableIn(proc, born) BY DEF PowerInv
<1>1. TableIn(proc', born') /\ PowerIn(power, proc', born')
  BY <1>0, TableJoins, PowerJoins DEF PowerInv
<1>2. \A v \in Ups : UpIn(v, up[v], proc', born')
  <2> SUFFICES ASSUME NEW v \in Ups PROVE UpIn(v, up[v], proc', born') OBVIOUS
  <2>1. UpIn(v, up[v], proc, born) /\ p \notin up[v].mine BY FreshPid DEF PowerInv
  <2>2. Follows(proc, x) \/ x.by # v OBVIOUS
  <2> QED BY <1>0, <2>1, <2>2, UpJoins
<1>3. \A d \in Downs : DownIn(dn[d], proc', born')
  BY <1>0, FreshPid, DownJoins DEF PowerInv
<1> QED BY <1>1, <1>2, <1>3 DEF PowerInv

LEMMA TableKnown ==
  ASSUME PowerInv
  PROVE  TableIn(proc, born) /\ DOMAIN proc = Pids /\ born \in Nat
BY DEF PowerInv, TableIn

LEMMA BindKeeps ==
  ASSUME PowerInv, NEW p \in Pids, Bind(p)
  PROVE  PowerInv'
<1>1. born' = born /\ struck' = struck /\ power' = power /\ up' = up /\ dn' = dn /\ lock' = lock
  BY DEF Bind, Files, Calls
<1>2. CASE Die({p}) BY <1>1, <1>2, TableKnown, DyingFades, OthersFade
<1>3. CASE proc' = [proc EXCEPT ![p].listening = TRUE]
  <2>1. LiveIn(proc, p) /\ DOMAIN proc[p] = ProcessFields BY TableKnown DEF Bind, Alive, TableIn
  <2> DEFINE x == [proc[p] EXCEPT !.listening = TRUE]
  <2>2. /\ DOMAIN x = ProcessFields /\ x.kind = proc[p].kind /\ x.born = proc[p].born
        /\ x.pgid = proc[p].pgid /\ x.by = proc[p].by /\ x.session = proc[p].session
    BY <2>1 DEF ProcessFields
  <2>3. proc' = [proc EXCEPT ![p] = x] BY <1>3
  <2> HIDE DEF x
  <2>4. DOMAIN proc' = Pids /\ proc'[p] = x /\ \A q \in Pids \ {p} : proc'[q] = proc[q]
    BY <2>3, TableKnown
  <2>5. Fades(proc, proc')
    <3> SUFFICES ASSUME NEW q \in Pids, LiveIn(proc', q)
                 PROVE  /\ LiveIn(proc, q) /\ DOMAIN proc'[q] = ProcessFields
                        /\ proc'[q].kind = proc[q].kind /\ proc'[q].born = proc[q].born
                        /\ proc'[q].pgid = proc[q].pgid /\ proc'[q].by = proc[q].by
                        /\ proc'[q].session = proc[q].session
      BY <2>4 DEF Fades
    <3>1. CASE q = p BY <2>1, <2>2, <2>4, <3>1
    <3>2. CASE q # p BY <2>4, <3>2, TableKnown DEF TableIn
    <3> QED BY <3>1, <3>2
  <2> QED BY <1>1, <2>5, OthersFade
<1> QED BY <1>2, <1>3 DEF Bind

LEMMA ServiceDiesKeeps ==
  ASSUME PowerInv, NEW p \in Pids, ServiceDies(p)
  PROVE  PowerInv'
BY TableKnown, DyingFades, OthersFade DEF ServiceDies, Files, Calls

LEMMA RegisterKeeps ==
  ASSUME PowerInv, NEW p \in Pids, registerPowerMember(p)
  PROVE  PowerInv'
<1>1. struck' = struck /\ power' = power /\ up' = up /\ dn' = dn /\ lock' = lock
  BY DEF registerPowerMember, Calls
<1> DEFINE x(c) == [Leader(c, "child", 0, 0, proc[p].by) EXCEPT !.pgid = p, !.session = proc[p].session]
<1>2. PICK c \in FreshPids : Starts(c, x(c)) BY DEF registerPowerMember
<1>3. /\ DOMAIN x(c) = ProcessFields /\ x(c).kind = "child" /\ x(c).born = born + 1 /\ x(c).pgid = p
      /\ x(c).by = proc[p].by /\ x(c).session = proc[p].session
  BY DEF Leader, ProcessFields
<1>4. proc' = [proc EXCEPT ![c] = x(c)] /\ born' = born + 1 BY <1>2 DEF Starts
<1> HIDE DEF x
<1>5. LiveIn(proc, p) /\ proc[p].kind # "child" BY DEF registerPowerMember, Alive
<1>6. Follows(proc, x(c)) BY <1>3, <1>5 DEF Follows
<1>7. Joins(proc, born, proc', c, x(c)) BY <1>3, <1>4, <1>6, FreshPid DEF Joins
<1> QED BY <1>1, <1>4, <1>6, <1>7, OthersJoin

LEMMA ForeignStartsKeeps ==
  ASSUME PowerInv, ForeignStarts
  PROVE  PowerInv'
<1>1. struck' = struck /\ power' = power /\ up' = up /\ dn' = dn /\ lock' = lock
  BY DEF ForeignStarts, Files, Calls
<1> DEFINE x(p) == Leader(p, "foreign", 0, 0, None)
<1>2. PICK p \in FreshPids : Starts(p, x(p)) BY DEF ForeignStarts
<1>3. /\ DOMAIN x(p) = ProcessFields /\ x(p).kind = "foreign" /\ x(p).born = born + 1 /\ x(p).pgid = p
      /\ x(p).by = None /\ x(p).session = 0
  BY DEF Leader, ProcessFields
<1>4. proc' = [proc EXCEPT ![p] = x(p)] /\ born' = born + 1 BY <1>2 DEF Starts
<1> HIDE DEF x
<1>5. Joins(proc, born, proc', p, x(p)) BY <1>3, <1>4, FreshPid DEF Joins, Leads
<1>6. x(p).by \notin Ups BY <1>3, PowerAssumption DEF None
<1> QED BY <1>1, <1>4, <1>5, <1>6, OthersJoin

LEMMA ServeByHandKeeps ==
  ASSUME PowerInv, ServeByHand
  PROVE  PowerInv'
<1>1. struck' = struck /\ power' = power /\ up' = up /\ dn' = dn /\ lock' = lock
  BY DEF ServeByHand, Files, Calls
<1> DEFINE x(p, q) == [Leader(p, "hub", q, q, None) EXCEPT !.listening = TRUE]
<1>2. PICK p \in FreshPids, q \in Pairs : Starts(p, x(p, q)) BY DEF ServeByHand
<1>3. /\ DOMAIN x(p, q) = ProcessFields /\ x(p, q).kind = "hub" /\ x(p, q).born = born + 1
      /\ x(p, q).pgid = p /\ x(p, q).by = None /\ x(p, q).session = 0
  BY DEF Leader, ProcessFields
<1>4. proc' = [proc EXCEPT ![p] = x(p, q)] /\ born' = born + 1 BY <1>2 DEF Starts
<1> HIDE DEF x
<1>5. Joins(proc, born, proc', p, x(p, q)) BY <1>3, <1>4, FreshPid DEF Joins, Leads, Services
<1>6. x(p, q).by \notin Ups BY <1>3, PowerAssumption DEF None
<1> QED BY <1>1, <1>4, <1>5, <1>6, OthersJoin

LEMMA TokensKeep ==
  ASSUME PowerInv, TokensVanish \/ TokensReturn
  PROVE  PowerInv'
<1>1. /\ proc' = proc /\ born' = born /\ struck' = struck /\ power' = power /\ up' = up /\ dn' = dn
      /\ lock' = lock
  BY DEF TokensVanish, TokensReturn, Processes, Files, Calls
<1> QED BY <1>1, TableKnown, FadesSame, OthersFade

LEMMA UpCrashKeeps ==
  ASSUME PowerInv, NEW u \in Ups, UpCrash(u)
  PROVE  PowerInv'
<1>1. UpIn(u, up[u], proc, born) /\ LockIn(up, lock) /\ PowerIn(power, proc, born) /\ up[u].pc # "crashed"
  BY DEF PowerInv, UpCrash
<1>2. proc' = proc /\ born' = born /\ struck' = struck /\ dn' = dn /\ power' = power /\ lock' = lock
  BY DEF UpCrash, Processes, Files
<1> DEFINE r == [up[u] EXCEPT !.pc = "crashed", !.mine = {}]
<1>3. up' = [up EXCEPT ![u] = r] BY UpKnows DEF UpCrash
<1>4. /\ DOMAIN r = UpFields /\ r.pc = "crashed" /\ r.mine = {} /\ r.prior = up[u].prior
      /\ \A s \in Services : r[s] = up[u][s]
  BY UpKnows DEF UpFields, Services
<1> HIDE DEF r
<1>5. UpIn(u, r, proc, born)
  <2>1. RaisedIn(u, r, proc)
    BY <1>4 DEF RaisedIn, Raises, BeforeStart, Choosing, Reclaiming, Waits
  <2>2. r.pc \in UpPcs BY <1>4 DEF UpPcs
  <2> QED BY <1>1, <1>4, <2>1, <2>2 DEF UpIn
<1>6. r.pc \notin Holds \cup Reclaiming BY <1>4 DEF Holds, Choosing, Raises, Waits, Reclaiming
<1>7. LockIn([up EXCEPT ![u] = r], lock) BY <1>1, <1>6, LockKept
<1> QED BY <1>1, <1>2, <1>3, <1>5, <1>7, UpMoves

LEMMA UpStepKeeps ==
  ASSUME PowerInv, NEW u \in Ups, UpNext(u)
  PROVE  PowerInv'
<1>1. CASE LockCreate(u) \/ LockWrite(u) \/ LockReclaim(u) \/ LockRetire(u) \/ LockUnguard(u) \/ UpRelease(u)
  BY <1>1, LockCreateKeeps, LockWriteKeeps, LockReclaimKeeps, LockRetireKeeps, LockUnguardKeeps, UpReleaseKeeps
<1>2. CASE ReadPrior(u) \/ ChooseHubPort(u) \/ ChooseEventPort(u)
  BY <1>2, ReadPriorKeeps, ChooseHubPortKeeps, ChooseEventPortKeeps
<1>3. ASSUME NEW s \in {"hub", "notifier"},
             AdoptService(u, s) \/ AdoptVerify(u, s) \/ StartService(u, s) \/ WaitService(u, s)
      PROVE  PowerInv'
  <2>1. s \in PortServices BY DEF PortServices
  <2> QED BY <1>3, <2>1, AdoptServiceKeeps, AdoptVerifyKeeps, StartServiceKeeps, WaitServiceKeeps
<1>4. CASE StartWatcher(u) \/ RecordState(u) \/ Reap(u)
  BY <1>4, StartWatcherKeeps, RecordStateKeeps, ReapKeeps
<1> QED BY <1>1, <1>2, <1>3, <1>4 DEF UpNext

LEMMA DownStepKeeps ==
  ASSUME PowerInv, NEW d \in Downs, DownNext(d)
  PROVE  PowerInv'
BY DownReadKeeps, DownJudgeKeeps, DownTermKeeps, DownGraceKeeps, DownRecheckKeeps, DownEndpointsKeeps,
   DownRecordKeeps, DownPruneKeeps DEF DownNext

LEMMA EnvStepKeeps ==
  ASSUME PowerInv, EnvNext
  PROVE  PowerInv'
BY BindKeeps, ServiceDiesKeeps, RegisterKeeps, ForeignStartsKeeps, ServeByHandKeeps, TokensKeep, UpCrashKeeps
   DEF EnvNext

LEMMA PowerStarts ==
  ASSUME PowerInit
  PROVE  PowerInv
<1>1. /\ struck = FALSE /\ born = 0 /\ power = Absent /\ lock = Absent /\ proc = [p \in Pids |-> Absent]
      /\ dn = [d \in Downs |-> [pc |-> "read", seen |-> Absent, at |-> 1, bad |-> FALSE, target |-> {}]]
      /\ up = [u \in Ups |-> [pc |-> "lock", saw |-> None, prior |-> Absent, hubPair |-> 0, evPair |-> 0,
                              hub |-> NoFacts, notifier |-> NoFacts, watcher |-> NoFacts,
                              mine |-> {}, ok |-> FALSE]]
  BY DEF PowerInit
<1>2. \A p \in Pids : ~LiveIn(proc, p) BY <1>1
<1>3. TableIn(proc, born) BY <1>1, <1>2 DEF TableIn
<1>4. FactIn(NoFacts, proc, born) BY <1>3, NoFactsWell
<1>5. LockIn(up, lock) BY <1>1 DEF LockIn, LockRecs, Holds, Choosing, Raises, Waits, Reclaiming
<1>6. \A u \in Ups : UpIn(u, up[u], proc, born)
  <2> SUFFICES ASSUME NEW u \in Ups PROVE UpIn(u, up[u], proc, born) OBVIOUS
  <2>1. /\ DOMAIN up[u] = UpFields /\ up[u].pc = "lock" /\ up[u].prior = Absent /\ up[u].mine = {}
        /\ \A s \in Services : up[u][s] = NoFacts
    BY <1>1 DEF UpFields, Services
  <2>2. up[u].pc \in UpPcs /\ up[u].pc \notin Raises
    BY <2>1 DEF UpPcs, BeforeStart, Raises, Waits
  <2> QED BY <1>2, <1>4, <2>1, <2>2 DEF UpIn, RaisedIn, MaybeState
<1>7. \A d \in Downs : DownIn(dn[d], proc, born) BY <1>1 DEF DownIn, DownFields, DownPcs, Signalling
<1>8. PowerIn(power, proc, born) BY <1>1 DEF PowerIn
<1>9. DOMAIN dn = Downs BY <1>1
<1> QED BY <1>1, <1>3, <1>5, <1>6, <1>7, <1>8, <1>9 DEF PowerInv

LEMMA PowerStutters ==
  ASSUME PowerInv, UNCHANGED powerVars
  PROVE  PowerInv'
BY DEF PowerInv, powerVars

LEMMA PowerWell == PowerSpec => []PowerInv
<1>1. PowerInit => PowerInv BY PowerStarts
<1>2. PowerInv /\ [PowerNext]_powerVars => PowerInv'
  BY UpStepKeeps, DownStepKeeps, EnvStepKeeps, PowerStutters DEF PowerNext
<1> QED BY <1>1, <1>2, PTL DEF PowerSpec

LEMMA StoppedIsGone ==
  ASSUME PowerInv
  PROVE  StoppedMeansGone
<1> SUFFICES ASSUME power # Absent, power.stopped, NEW f \in Recorded(power), f.token # 0
             PROVE  ~Lives(f) /\ \A p \in Pids : Alive(p) /\ f.session # 0 => proc[p].session # f.session
  BY DEF StoppedMeansGone
<1>1. PICK s \in Services : f = power[s] BY DEF Recorded
<1>2. GoneIn(f, proc) BY <1>1 DEF PowerInv, PowerIn
<1> QED BY <1>2 DEF GoneIn, Lives, Alive

(* `tut down` and a failing `tut up` strike no process of another rig, as    *)
(* long as no pid is recycled between the look at it and the kill, and       *)
(* "stopped" in power.json is true.                                          *)
THEOREM DownIsHonest == PowerSpec => []DownHonest
<1>1. PowerInv => DownHonest BY StoppedIsGone DEF PowerInv, DownHonest, NoForeignSignal
<1> QED BY <1>1, PowerWell, PTL

LEMMA OneHolds ==
  ASSUME PowerInv
  PROVE  OneUpAtATime
<1> DEFINE S == {u \in Ups : Active(u) /\ up[u].pc \notin {"own", "reclaim", "retire", "unguard"}}
<1>1. \A u \in S : lock.owner = u
  <2> SUFFICES ASSUME NEW u \in S PROVE lock.owner = u OBVIOUS
  <2>1. u \in Ups /\ up[u].pc \in UpPcs /\ up[u].pc \notin Reclaiming \cup {"lock", "done", "crashed"}
    BY DEF PowerInv, UpIn, Active, Idle, Reclaiming
  <2>2. up[u].pc \in Holds BY <2>1 DEF UpPcs, BeforeStart, Holds
  <2> QED BY <2>1, <2>2 DEF PowerInv, LockIn
<1>2. S = {} \/ S = {lock.owner} BY <1>1
<1>3. Cardinality(S) <= 1
  <2>1. CASE S = {} BY <2>1, FS_EmptySet
  <2>2. CASE S = {lock.owner}
    <3>1. Cardinality({lock.owner}) = 1 BY FS_Singleton
    <3> HIDE DEF S
    <3> QED BY <2>2, <3>1
  <2> QED BY <1>2, <2>1, <2>2
<1> QED BY <1>3 DEF OneUpAtATime

LEMMA FailedIsClean ==
  ASSUME PowerInv
  PROVE  FailedUpLeavesNothing
<1> SUFFICES ASSUME NEW u \in Ups, up[u].pc = "done", ~up[u].ok, NEW p \in Pids, Alive(p)
             PROVE  proc[p].by # u
  BY DEF FailedUpLeavesNothing
<1>1. RaisedIn(u, up[u], proc) BY DEF PowerInv, UpIn
<1> QED BY <1>1 DEF RaisedIn, Alive

(* One live call of `tut up` at most believes that it holds the start lock,  *)
(* and one that ends with an error leaves no process behind that it raised.  *)
THEOREM UpsTakeTurns == PowerSpec => []UpsInTurn
<1>1. PowerInv => UpsInTurn BY OneHolds, FailedIsClean DEF UpsInTurn
<1> QED BY <1>1, PowerWell, PTL
=============================================================================
