--------------------------- MODULE NotifierProofs ---------------------------
(***************************************************************************)
(* Proofs about the Notifier's compare rounds, for any roles and any       *)
(* number of records, stops, restarts and foreign changes.  The inductive  *)
(* invariants build on each other: Typed; AlertInv for the alerts;         *)
(* CacheInv for the round, the log and the cache that reads it; StopInv    *)
(* for stops and plans; and for the answers UptoWell, TurnSound,           *)
(* ScanIsWhole and TruthOld (what was read), ApartInv, GhostsAbove,        *)
(* HandOverAlone and ScanSame (what a poll found), and Answered.           *)
(***************************************************************************)
EXTENDS Notifier, FiniteSetTheorems, NaturalsInduction, WellFoundedInduction, TLAPS

(***************************************************************************)
(* The records, by the names of what they are made of.                     *)
(***************************************************************************)
Tos == Roles \cup {"human", "none"}
Kinds == {"work", "marker", "human", "worker", "ack"}
Places == {"tasks", "degraded", "gone"}
Seats == {"free", "starting", "held"}
Steps == {"idle", "observe", "decide", "catchup", "launch", "mark"}
Versions == Nat \cup {-1}
Dids == {"nothing", "told", "parked", "launch", "launched"}

LogRecs == [v : Nat, kind : Kinds, to : Tos, at : Nat]
Logs == SUBSET LogRecs
Entries == [version : Nat, to : Tos, attn : BOOLEAN, upd : Nat]
Sigs == {<<>>} \cup {stateTaskSig(e) : e \in Entries}
Scans0 == [version : Versions, to : Tos]
Candidates == [role : Tos, human : Versions]

HubRecs == [log : Logs, place : Places, auto : BOOLEAN, upd : Nat, clock : Nat]
RunRecs == [seat : Seats, done : BOOLEAN, stop : Nat, stopSeen : BOOLEAN]
SnapRecs == [baseline : BOOLEAN, entry : Entries, place : Places]
RoundRecs == [step : Steps, state : Entries, place : Places, auto : BOOLEAN, prev : Entries,
              truth : Logs, recovered : BOOLEAN, wake : Versions, base : Nat, human : Nat]
CacheRecs == [version : Versions, records : Logs, sig : Sigs]
LaneRecs == [scan : Scans0, human : Versions, pending : Candidates, boundary : Nat]
AlertRecs == [approval : BOOLEAN, degraded : BOOLEAN, vanished : BOOLEAN, upd : Nat, age : Nat,
              stalled : BOOLEAN]
PastRecs == [edge : BOOLEAN, instruction : BOOLEAN, did : Dids, announced : BOOLEAN, quiet : BOOLEAN,
             stays : Nat, alarms : Nat, still : Nat, reads : BOOLEAN, hidden : BOOLEAN,
             forgot : BOOLEAN, upto : Nat]

\* Records carry the time of their arrival, and the first one stays.
LogWell(log, clock) ==
    /\ \A r \in log : r.v >= 1 /\ r.v <= clock /\ r.at <= clock
    /\ \A x, y \in log : x.at = y.at => x = y
    /\ \E r \in log : r.kind = "work" /\ r.v = 1
    /\ IsFiniteSet(log)

HubWell == hub \in HubRecs /\ hub.upd >= 1 /\ LogWell(hub.log, hub.clock)

\* The cache knows no record above its version.
CacheWell == cache \in CacheRecs /\ (cache.version = -1 => cache = NoCache)
             /\ \A r \in cache.records : r.v <= cache.version

LaneTyped == lane \in LaneRecs /\ (lane.pending = NoPending \/ lane.pending.human \in Nat)
             /\ (lane.scan = NoScan \/ lane.scan.version \in Nat)

Typed ==
    /\ HubWell /\ run \in RunRecs /\ snap \in SnapRecs /\ round \in RoundRecs
    /\ CacheWell /\ LaneTyped /\ alerts \in AlertRecs /\ past \in PastRecs

-----------------------------------------------------------------------------
LEMMA Named ==
    /\ Roles \subseteq Tos /\ "none" \in Tos /\ "human" \in Tos /\ Agents \subseteq Roles
    /\ "none" \notin Roles /\ "human" \notin Roles
    /\ {"work", "marker", "human", "worker", "ack"} \subseteq Kinds /\ NoteKinds \subseteq Kinds
    /\ {"tasks", "degraded", "gone"} \subseteq Places
    /\ {"free", "starting", "held"} \subseteq Seats
    /\ {"idle", "observe", "decide", "catchup", "launch", "mark"} \subseteq Steps
    /\ {"nothing", "told", "parked", "launch", "launched"} \subseteq Dids
    /\ Nat \subseteq Versions /\ -1 \in Versions /\ -1 \notin Nat
    /\ {} \in Logs
    /\ NoWake \in Versions /\ NoWake \notin Nat
    /\ StallRounds \in Nat /\ StallRounds >= 1
BY RolesAssumption, BoundsAssumption, NotesAssumption
   DEF Roles, Tos, Kinds, Places, Seats, Steps, Dids, Versions, Logs, NoWake

LEMMA FreshTyped ==
    /\ Absent \in Entries /\ <<>> \in Sigs
    /\ NoCache \in CacheRecs /\ FreshLane \in LaneRecs /\ FreshAlerts \in AlertRecs
    /\ Idle \in RoundRecs /\ FreshRun \in RunRecs /\ NoneSoFar \in PastRecs
    /\ NoScan \in Scans0 /\ NoPending \in Candidates
<1>1. Absent \in Entries /\ <<>> \in Sigs
  BY Named DEF Absent, Entries, Sigs
<1>2. NoCache \in CacheRecs
  BY <1>1, Named DEF NoCache, CacheRecs
<1>3. NoScan \in Scans0 /\ NoPending \in Candidates
  BY Named DEF NoScan, Scans0, NoPending, Candidates
<1>4. FreshLane \in LaneRecs
  BY <1>3, Named DEF FreshLane, LaneRecs
<1>5. FreshAlerts \in AlertRecs
  BY DEF FreshAlerts, AlertRecs
<1>6. Idle \in RoundRecs
  BY <1>1, Named DEF Idle, RoundRecs, NoWake
<1>7. FreshRun \in RunRecs
  BY Named DEF FreshRun, RunRecs
<1>8. NoneSoFar \in PastRecs
  BY Named DEF NoneSoFar, PastRecs
<1> QED
  BY <1>1, <1>2, <1>3, <1>4, <1>5, <1>6, <1>7, <1>8

(***************************************************************************)
(* The greatest of a bounded set of versions.                              *)
(***************************************************************************)
LEMMA Greatest ==
  ASSUME NEW S \in SUBSET Nat, NEW b \in Nat, \A x \in S : x <= b, S # {}
  PROVE  Max(S) \in S /\ \A x \in S : x <= Max(S)
<1> DEFINE R == {ss \in Nat \X Nat : ss[1] < ss[2]}
           T == {n \in Nat : \E x \in S : n = b - x}
<1>1. T \subseteq Nat /\ T # {}
  <2>1. PICK x \in S : TRUE
    OBVIOUS
  <2>2. b - x \in Nat
    OBVIOUS
  <2> QED
    BY <2>1, <2>2
<1>2. IsWellFoundedOn(R, Nat)
  BY NatLessThanWellFounded DEF OpToRel
<1> HIDE DEF R
<1>3. PICK n \in T : \A y \in T : <<y, n>> \notin R
  <2> HIDE DEF T
  <2> QED
    BY <1>1, <1>2, WFMin
<1>4. PICK m \in S : n = b - m
  BY <1>3
<1>5. \A x \in S : x <= m
  <2> SUFFICES ASSUME NEW x \in S PROVE x <= m
    OBVIOUS
  <2>1. b - x \in T
    OBVIOUS
  <2>2. ~(b - x < n)
    BY <1>3, <2>1, <1>1 DEF R
  <2> QED
    BY <1>4, <2>2
<1> HIDE DEF T
<1>6. \E t \in S : \A s \in S : t >= s
  BY <1>5
<1> QED
  BY <1>6 DEF Max

\* The greater of two versions, one of which may be "none".
LEMMA GreatestVersion ==
  ASSUME NEW a \in Versions, NEW b \in Versions
  PROVE  Max({a, b}) \in {a, b} /\ Max({a, b}) >= a /\ Max({a, b}) >= b
<1>1. \E t \in {a, b} : \A s \in {a, b} : t >= s
  <2>1. a >= b \/ b >= a
    BY DEF Versions
  <2>2. a >= a /\ b >= b
    BY DEF Versions
  <2> QED
    BY <2>1, <2>2
<1> QED
  BY <1>1 DEF Max

LEMMA VersionsOf ==
  ASSUME NEW rs \in Logs, NEW b \in Nat, \A r \in rs : r.v <= b
  PROVE  /\ latestRecordVersion(rs) \in Nat /\ latestRecordVersion(rs) <= b
         /\ \A r \in rs : r.v <= latestRecordVersion(rs)
         /\ latestRecordVersion(rs) = 0 \/ \E r \in rs : r.v = latestRecordVersion(rs)
<1> DEFINE S == {0} \cup {r.v : r \in rs}
<1>1. S \in SUBSET Nat /\ (\A x \in S : x <= b) /\ S # {}
  BY DEF Logs, LogRecs
<1>2. Max(S) \in S /\ \A x \in S : x <= Max(S)
  <2> HIDE DEF S
  <2> QED
    BY <1>1, Greatest
<1> QED
  BY <1>1, <1>2 DEF latestRecordVersion

\* The newest content record of a log.
LEMMA NewestWork ==
  ASSUME NEW log \in Logs, NEW clock \in Nat, LogWell(log, clock)
  PROVE  /\ Latest(log, {"work"}) \in log /\ Latest(log, {"work"}).kind = "work"
         /\ \A x \in log : x.kind = "work" =>
               LET r == Latest(log, {"work"}) IN x.v < r.v \/ (x.v = r.v /\ x.at <= r.at)
<1> DEFINE W == {x \in log : x.kind \in {"work"}}
           VS == {r.v : r \in W}
<1>1. VS \in SUBSET Nat /\ (\A x \in VS : x <= clock) /\ VS # {}
  BY DEF Logs, LogRecs, LogWell
<1>2. PICK m \in VS : \A x \in VS : x <= m
  <2> HIDE DEF VS
  <2> QED
    BY <1>1, Greatest
<1> DEFINE AS == {r.at : r \in {x \in W : x.v = m}}
<1>3. AS \in SUBSET Nat /\ (\A x \in AS : x <= clock) /\ AS # {}
  BY <1>2 DEF Logs, LogRecs, LogWell
<1>4. PICK a \in AS : \A x \in AS : x <= a
  <2> HIDE DEF AS
  <2> QED
    BY <1>3, Greatest
<1>5. PICK r \in W : r.v = m /\ r.at = a
  BY <1>4
<1>6. \A x \in log : x.kind \in {"work"} => x.v < r.v \/ (x.v = r.v /\ x.at <= r.at)
  <2> SUFFICES ASSUME NEW x \in log, x.kind \in {"work"} PROVE x.v < r.v \/ (x.v = r.v /\ x.at <= r.at)
    OBVIOUS
  <2>1. x.v \in Nat /\ x.at \in Nat /\ r.v \in Nat
    BY DEF Logs, LogRecs
  <2>2. x.v <= m
    BY <1>2
  <2>3. CASE x.v = m
    <3>1. x.at \in AS
      BY <2>3
    <3> QED
      BY <1>4, <1>5, <2>3, <3>1
  <2> QED
    BY <1>5, <2>1, <2>2, <2>3
<1>7. /\ Latest(log, {"work"}) \in W
      /\ \A x \in log : x.kind \in {"work"} =>
            \/ x.v < Latest(log, {"work"}).v
            \/ x.v = Latest(log, {"work"}).v /\ x.at <= Latest(log, {"work"}).at
  BY <1>6 DEF Latest
<1> QED
  BY <1>7

LEMMA EntryTyped ==
  ASSUME HubWell
  PROVE  /\ Entry \in Entries /\ Entry # Absent /\ Entry.upd >= 1
         /\ Entry.version >= 1 /\ Entry.version <= hub.clock
         /\ Entry.version = latestRecordVersion(hub.log)
<1>1. hub.log \in Logs /\ hub.clock \in Nat /\ LogWell(hub.log, hub.clock) /\ hub.upd \in Nat
  BY DEF HubWell, HubRecs
<1>2. Latest(hub.log, {"work"}).to \in Tos
  BY <1>1, NewestWork DEF Logs, LogRecs
<1>3. \A r \in hub.log : r.v <= hub.clock
  BY <1>1 DEF LogWell
<1>4. latestRecordVersion(hub.log) \in Nat /\ latestRecordVersion(hub.log) <= hub.clock
      /\ \A r \in hub.log : r.v <= latestRecordVersion(hub.log)
  BY <1>1, <1>3, VersionsOf
<1>5. latestRecordVersion(hub.log) >= 1
  BY <1>1, <1>4 DEF LogWell, Logs, LogRecs
<1>6. NeedsAttention(hub.log) \in BOOLEAN
  BY DEF NeedsAttention
<1>7. Entry \in Entries
  BY <1>1, <1>2, <1>4, <1>6 DEF Entry, Entries
<1> QED
  BY <1>4, <1>5, <1>7 DEF Entry, HubWell, Absent

-----------------------------------------------------------------------------
(***************************************************************************)
(* What a step can do to the task: a record arrives, the newest records    *)
(* are taken back, or its directory or mode changes.                       *)
(***************************************************************************)
Arrives(r) ==
    /\ r \in LogRecs /\ r.v >= 1 /\ r.v <= hub.clock + 1 /\ r.at = hub.clock + 1
    /\ hub'.log = hub.log \cup {r} /\ hub'.clock = hub.clock + 1
    /\ \E u \in {hub.upd, hub.upd + 1} :
          hub' = [hub EXCEPT !.log = hub.log \cup {r}, !.upd = u, !.clock = hub.clock + 1]

Rewinds ==
    /\ Entry.version > 1
    /\ hub' = [hub EXCEPT !.log = {r \in hub.log : r.v < Entry.version}]

Moves == \/ \E p \in Places : hub' = [hub EXCEPT !.place = p]
         \/ \E b \in BOOLEAN : hub' = [hub EXCEPT !.auto = b]

LEMMA RecordTyped ==
  ASSUME HubWell, NEW v \in Nat, v >= 1, v <= hub.clock + 1, NEW k \in Kinds, NEW to \in Tos
  PROVE  LET r == Record(v, k, to) IN /\ r \in LogRecs /\ r.v >= 1 /\ r.v <= hub.clock + 1
                                      /\ r.at = hub.clock + 1 /\ r.kind = k /\ r.v = v /\ r.to = to
<1>1. hub.clock + 1 \in Nat
  BY DEF HubWell, HubRecs
<1> QED
  BY <1>1 DEF Record, LogRecs

LEMMA Added ==
  ASSUME HubWell, NEW r, NEW u \in {hub.upd, hub.upd + 1},
         r \in LogRecs /\ r.v >= 1 /\ r.v <= hub.clock + 1 /\ r.at = hub.clock + 1,
         hub' = [hub EXCEPT !.log = hub.log \cup {r}, !.upd = u, !.clock = hub.clock + 1]
  PROVE  Arrives(r)
BY DEF Arrives, HubWell, HubRecs

LEMMA AppendArrives ==
  ASSUME HubWell, NEW k \in Kinds, NEW to \in Tos, Append(k, to)
  PROVE  Arrives(Record(Entry.version + 1, k, to))
<1>1. Entry.version \in Nat /\ Entry.version + 1 >= 1 /\ Entry.version + 1 <= hub.clock + 1
  BY EntryTyped DEF HubWell, HubRecs, Entries
<1>2. hub' = [hub EXCEPT !.log = hub.log \cup {Record(Entry.version + 1, k, to)},
                        !.upd = hub.upd + 1, !.clock = hub.clock + 1]
  BY DEF Append, HubWell, HubRecs
<1> DEFINE r == Record(Entry.version + 1, k, to)
<1>3. r \in LogRecs /\ r.v >= 1 /\ r.v <= hub.clock + 1 /\ r.at = hub.clock + 1
  BY <1>1, RecordTyped
<1> HIDE DEF r
<1>4. hub' = [hub EXCEPT !.log = hub.log \cup {r}, !.upd = hub.upd + 1, !.clock = hub.clock + 1]
  BY <1>2 DEF r
<1>5. Arrives(r)
  BY <1>3, <1>4, Added
<1> QED
  BY <1>5 DEF r

LEMMA HubSteps ==
  ASSUME Typed, Next
  PROVE  UNCHANGED hub \/ (\E r : Arrives(r)) \/ Rewinds \/ Moves
<1>0. HubWell /\ round \in RoundRecs /\ hub.clock \in Nat
  BY DEF Typed, HubWell, HubRecs
<1>1. CASE UNCHANGED hub
  BY <1>1
<1>2. ASSUME MarkLands PROVE \E r : Arrives(r)
  <2>1. round.base \in Nat /\ round.state.to \in Tos
    BY <1>0 DEF RoundRecs, Entries
  <2>2. Entry.version = round.base
    BY <1>0, <1>2, EntryTyped DEF MarkLands
  <2>3. round.base + 1 \in Nat /\ round.base + 1 >= 1 /\ round.base + 1 <= hub.clock + 1
    BY <1>0, <2>1, <2>2, EntryTyped
  <2> DEFINE r == Record(round.base + 1, "marker", round.state.to)
  <2>4. r \in LogRecs /\ r.v >= 1 /\ r.v <= hub.clock + 1 /\ r.at = hub.clock + 1
    BY <1>0, <2>1, <2>3, RecordTyped, Named
  <2>5. hub' = [hub EXCEPT !.log = hub.log \cup {r}, !.upd = hub.upd + 1, !.clock = hub.clock + 1]
    BY <1>0, <1>2 DEF MarkLands, HubWell, HubRecs
  <2> HIDE DEF r
  <2> QED
    BY <1>0, <2>4, <2>5, Added
<1>3. ASSUME Publish PROVE \E r : Arrives(r)
  <2>1. PICK k \in Kinds, to \in Tos : Append(k, to)
    BY <1>3, Named DEF Publish, Tos
  <2> QED
    BY <1>0, <2>1, AppendArrives
<1>4. ASSUME ForeignDuplicate PROVE \E r : Arrives(r)
  <2>1. PICK x \in hub.log, kind \in {"human", "marker"}, to \in Agents :
           hub' = [hub EXCEPT !.log = hub.log \cup {Record(x.v, kind, to)}, !.clock = hub.clock + 1]
    BY <1>4, <1>0 DEF ForeignDuplicate, HubWell, HubRecs
  <2>2. x.v \in Nat /\ x.v >= 1 /\ x.v <= hub.clock + 1
    BY <1>0 DEF HubWell, HubRecs, Logs, LogRecs, LogWell
  <2> DEFINE r == Record(x.v, kind, to)
  <2>3. r \in LogRecs /\ r.v >= 1 /\ r.v <= hub.clock + 1 /\ r.at = hub.clock + 1
    BY <1>0, <2>2, RecordTyped, Named
  <2>4. hub' = [hub EXCEPT !.log = hub.log \cup {r}, !.upd = hub.upd, !.clock = hub.clock + 1]
    BY <1>0, <2>1 DEF HubWell, HubRecs
  <2> HIDE DEF r
  <2> QED
    BY <1>0, <2>3, <2>4, Added
<1>5. CASE ForeignRewind
  BY <1>0, <1>5 DEF ForeignRewind, Rewinds, HubWell, HubRecs
<1>6. CASE PlaceChanges
  BY <1>6 DEF PlaceChanges, Moves, Places
<1>7. CASE ModeSwitches
  <2>1. hub.auto \in BOOLEAN /\ hub' = [hub EXCEPT !.auto = ~hub.auto]
    BY <1>0, <1>7 DEF ModeSwitches, HubWell, HubRecs
  <2> QED
    BY <2>1 DEF Moves
<1> QED
  BY <1>1, <1>2, <1>3, <1>4, <1>5, <1>6, <1>7 DEF Next, Round, Fetch, Observe, Decide, DecideUnread,
     DecideReadFails, CatchupDecides, LaunchDropped, LaunchPlans, LaunchReadFails, MarkConflicts, StartSettles,
     RunEnds, StopRequested, Restart

LEMMA HubStays ==
  ASSUME Typed, Next
  PROVE  HubWell'
<1>0. HubWell /\ hub \in HubRecs /\ hub.log \in Logs /\ hub.clock \in Nat /\ hub.upd \in Nat
      /\ hub.upd >= 1 /\ LogWell(hub.log, hub.clock)
  BY DEF Typed, HubWell, HubRecs
<1>1. CASE UNCHANGED hub
  BY <1>0, <1>1 DEF HubWell
<1>2. ASSUME NEW r, Arrives(r) PROVE HubWell'
  <2>1. LogWell(hub.log \cup {r}, hub.clock + 1)
    <3>1. \A x \in hub.log : x.v \in Nat /\ x.at \in Nat
      BY <1>0 DEF Logs, LogRecs
    <3>2. r.v >= 1 /\ r.v <= hub.clock + 1 /\ r.at = hub.clock + 1
      BY <1>2 DEF Arrives
    <3>3. \A x \in hub.log : x.v >= 1 /\ x.v <= hub.clock /\ x.at <= hub.clock
      BY <1>0 DEF LogWell
    <3>4. \A x \in hub.log \cup {r} : x.v >= 1 /\ x.v <= hub.clock + 1 /\ x.at <= hub.clock + 1
      BY <1>0, <3>1, <3>2, <3>3
    <3>5. \A x \in hub.log : x.at # r.at
      BY <1>0, <3>1, <3>2, <3>3
    <3>6. IsFiniteSet(hub.log \cup {r})
      BY <1>0, FS_AddElement DEF LogWell
    <3> QED
      BY <1>0, <3>4, <3>5, <3>6 DEF LogWell
  <2>2. PICK u \in {hub.upd, hub.upd + 1} :
           hub' = [hub EXCEPT !.log = hub.log \cup {r}, !.upd = u, !.clock = hub.clock + 1]
    BY <1>2 DEF Arrives
  <2>3. u \in Nat /\ u >= 1 /\ hub.clock + 1 \in Nat
    BY <1>0
  <2>4. hub.log \cup {r} \in Logs
    BY <1>0, <1>2 DEF Arrives, Logs
  <2>5. hub' \in HubRecs
    BY <1>0, <2>2, <2>3, <2>4 DEF HubRecs
  <2> QED
    BY <1>0, <2>1, <2>2, <2>3, <2>5 DEF HubWell, HubRecs
<1>3. CASE Rewinds
  <2>1. {r \in hub.log : r.v < Entry.version} \in Logs
    BY <1>0 DEF Logs
  <2>2. LogWell({r \in hub.log : r.v < Entry.version}, hub.clock)
    <3>1. IsFiniteSet({r \in hub.log : r.v < Entry.version})
      BY <1>0, FS_Subset DEF LogWell
    <3> QED
      BY <1>0, <1>3, <3>1, EntryTyped DEF LogWell, Rewinds, Entries
  <2>3. hub' \in HubRecs
    BY <1>0, <1>3, <2>1 DEF Rewinds, HubRecs
  <2> QED
    BY <1>0, <1>3, <2>2, <2>3 DEF Rewinds, HubWell, HubRecs
<1>4. CASE Moves
  BY <1>0, <1>4 DEF Moves, HubWell, HubRecs
<1> QED
  BY <1>1, <1>2, <1>3, <1>4, HubSteps

-----------------------------------------------------------------------------
(***************************************************************************)
(* Reading through the cache keeps the cache well-formed.                  *)
(***************************************************************************)
LEMMA SigsOf == \A e \in Entries : stateTaskSig(e) \in Sigs
BY DEF Sigs

LEMMA NoCacheIsWell ==
    /\ NoCache.version = -1 /\ NoCache.records = {}
    /\ Typed => (cache = NoCache <=> cache.version = -1)
BY DEF NoCache, Typed, CacheWell

LEMMA PulledTyped ==
  ASSUME Typed
  PROVE  /\ Pulled \in Logs /\ Pulled \subseteq hub.log
         /\ \A r \in Pulled : r.v >= 1 /\ r.v <= hub.clock
BY DEF Typed, HubWell, HubRecs, LogWell, Logs, Pulled

\* The version a read leaves behind is the greatest it has seen.
LEMMA Synced ==
  ASSUME Typed
  PROVE  LET S == {IF cache = NoCache THEN 0 ELSE cache.version} \cup {r.v : r \in Pulled}
         IN Max(S) \in S /\ Max(S) \in Nat /\ \A x \in S : x <= Max(S)
<1> DEFINE c == IF cache = NoCache THEN 0 ELSE cache.version
           S == {c} \cup {r.v : r \in Pulled}
<1>1. c \in Nat
  BY NoCacheIsWell DEF Typed, CacheWell, CacheRecs, Versions
<1>2. hub.clock \in Nat
  BY DEF Typed, HubWell, HubRecs
<1>3. \A r \in Pulled : r.v \in Nat /\ r.v <= hub.clock
  BY PulledTyped DEF Logs, LogRecs
<1> HIDE DEF c
<1>4. S \in SUBSET Nat /\ S # {} /\ c + hub.clock \in Nat /\ \A x \in S : x <= c + hub.clock
  BY <1>1, <1>2, <1>3
<1> HIDE DEF S
<1>5. Max(S) \in S /\ \A x \in S : x <= Max(S)
  BY <1>4, Greatest
<1>6. Max(S) \in Nat
  BY <1>4, <1>5
<1> QED
  BY <1>5, <1>6 DEF S, c

LEMMA FullLogTyped ==
  ASSUME Typed, NEW e
  PROVE  /\ fullLog(e) \in Logs
         /\ \E b \in Nat : \A r \in fullLog(e) : r.v <= b
<1>1. cache.records \in Logs /\ cache.version \in Versions /\ \A r \in cache.records : r.v <= cache.version
  BY DEF Typed, CacheWell, CacheRecs
<1>2. fullLog(e) \subseteq cache.records \cup Pulled
  BY DEF fullLog
<1>3. fullLog(e) \in Logs
  BY <1>1, <1>2, PulledTyped DEF Logs
<1>4. hub.clock \in Nat
  BY DEF Typed, HubWell, HubRecs
<1>5. PICK b \in Nat : cache.version <= b /\ hub.clock <= b
  <2>1. CASE cache.version <= hub.clock
    BY <1>4, <2>1
  <2>2. CASE ~(cache.version <= hub.clock)
    <3>1. cache.version \in Nat /\ hub.clock <= cache.version
      BY <1>1, <1>4, <2>2 DEF Versions
    <3> QED
      BY <3>1
  <2> QED
    BY <2>1, <2>2
<1>6. \A r \in cache.records \cup Pulled : r.v \in Nat
  BY <1>1, PulledTyped DEF Logs, LogRecs
<1>7. \A r \in fullLog(e) : r.v <= b
  BY <1>1, <1>2, <1>4, <1>5, <1>6, PulledTyped DEF Versions
<1> QED
  BY <1>3, <1>7

LEMMA RememberedWell ==
  ASSUME Typed, NEW e \in Entries
  PROVE  /\ Remembered(e) \in CacheRecs
         /\ Remembered(e).version \in Nat
         /\ Remembered(e).records = fullLog(e)
         /\ \A r \in fullLog(e) : r.v <= Remembered(e).version
<1>1. CASE Quiet(e)
  <2>1. Remembered(e) = cache /\ fullLog(e) = cache.records /\ cache # NoCache
    BY <1>1 DEF Remembered, fullLog, Quiet
  <2> QED
    BY <2>1 DEF Typed, CacheWell, CacheRecs, Versions
<1>2. CASE ~Quiet(e)
  <2> DEFINE S == {IF cache = NoCache THEN 0 ELSE cache.version} \cup {r.v : r \in Pulled}
  <2>1. Remembered(e) = [version |-> Max(S), records |-> fullLog(e), sig |-> stateTaskSig(e)]
    BY <1>2 DEF Remembered
  <2>2. Max(S) \in S /\ Max(S) \in Nat /\ \A x \in S : x <= Max(S)
    BY Synced
  <2>3. Remembered(e) \in CacheRecs
    BY <2>1, <2>2, FullLogTyped, SigsOf DEF CacheRecs, Versions
  <2>4. \A r \in fullLog(e) : r.v <= Max(S)
    <3>1. \A r \in Pulled : r.v <= Max(S)
      BY <2>2
    <3>2. ASSUME cache # NoCache, NEW r \in cache.records PROVE r.v <= Max(S)
      <4>1. cache.version <= Max(S) /\ cache.version \in Nat
        BY <2>2, <3>2, NoCacheIsWell DEF Typed, CacheWell, CacheRecs, Versions
      <4>2. r.v <= cache.version /\ r.v \in Nat
        BY <3>2 DEF Typed, CacheWell, CacheRecs, Logs, LogRecs
      <4> HIDE DEF S
      <4> QED
        BY <2>2, <4>1, <4>2
    <3> QED
      BY <1>2, <3>1, <3>2 DEF fullLog
  <2> HIDE DEF S
  <2> QED
    BY <2>1, <2>2, <2>3, <2>4
<1> QED
  BY <1>1, <1>2

LEMMA CacheStays ==
  ASSUME Typed, Next
  PROVE  CacheWell'
<1>0. round.state \in Entries
  BY DEF Typed, RoundRecs
<1>1. ASSUME cache' = NoCache PROVE CacheWell'
  BY <1>1, FreshTyped, NoCacheIsWell DEF CacheWell
<1>2. CASE UNCHANGED cache
  BY <1>2 DEF Typed, CacheWell
<1>3. ASSUME cache' = Remembered(round.state) PROVE CacheWell'
  <2>1. cache' \in CacheRecs /\ cache'.version # -1
    BY <1>0, <1>3, RememberedWell, Named
  <2>2. \A r \in cache'.records : r.v <= cache'.version
    BY <1>0, <1>3, RememberedWell
  <2> QED
    BY <2>1, <2>2 DEF CacheWell
<1>4. CASE Observe
  BY <1>1, <1>2, <1>4 DEF Observe, reconcileLogCache
<1> QED
  BY <1>1, <1>2, <1>3, <1>4 DEF Next, Round, Fetch, Decide, DecideUnread,
     DecideReadFails, CatchupDecides, LaunchDropped, LaunchPlans, LaunchReadFails, MarkLands, MarkConflicts,
     StartSettles, RunEnds, StopRequested, Publish, Append, ForeignDuplicate, ForeignRewind, PlaceChanges,
     ModeSwitches, Restart

-----------------------------------------------------------------------------
(***************************************************************************)
(* What a round makes of the lane.                                         *)
(***************************************************************************)
LaneWell(l) == l \in LaneRecs /\ (l.pending = NoPending \/ l.pending.human \in Nat)
               /\ (l.scan = NoScan \/ l.scan.version \in Nat)

LEMMA LaneSets ==
    /\ \A l \in LaneRecs, h \in Versions : [l EXCEPT !.human = h] \in LaneRecs
    /\ \A l \in LaneRecs, p \in Candidates : [l EXCEPT !.pending = p] \in LaneRecs
    /\ \A l \in LaneRecs, s \in Scans0 : [l EXCEPT !.scan = s] \in LaneRecs
    /\ \A l \in LaneRecs, b \in Nat : [l EXCEPT !.boundary = b] \in LaneRecs
BY DEF LaneRecs

LEMMA LaneFields ==
  ASSUME NEW l \in LaneRecs
  PROVE  /\ \A h \in Versions : LET k == [l EXCEPT !.human = h] IN
               k.human = h /\ k.scan = l.scan /\ k.pending = l.pending /\ k.boundary = l.boundary
         /\ \A p \in Candidates : LET k == [l EXCEPT !.pending = p] IN
               k.human = l.human /\ k.scan = l.scan /\ k.pending = p /\ k.boundary = l.boundary
         /\ \A s \in Scans0 : LET k == [l EXCEPT !.scan = s] IN
               k.human = l.human /\ k.scan = s /\ k.pending = l.pending /\ k.boundary = l.boundary
         /\ \A b \in Nat : LET k == [l EXCEPT !.boundary = b] IN
               k.human = l.human /\ k.scan = l.scan /\ k.pending = l.pending /\ k.boundary = b
BY DEF LaneRecs

\* The greatest of 0 and a version, and what is parked with it.
LEMMA Online ==
  ASSUME Typed, NEW l \in LaneRecs
  PROVE  /\ onlineHumanVersion(l) \in Nat /\ onlineHumanVersion(l) \in {0, l.human}
         /\ Candidate(l) \in Candidates
         /\ Candidate(l).human \in Nat /\ Candidate(l).human \in {0, l.human}
<1>1. l.human \in Versions /\ round.state.to \in Tos
  BY DEF LaneRecs, Typed, RoundRecs, Entries
<1>2. Max({0, l.human}) \in {0, l.human} /\ Max({0, l.human}) >= 0
  BY <1>1, GreatestVersion, Named
<1>3. onlineHumanVersion(l) \in {0, l.human} /\ onlineHumanVersion(l) \in Nat
  BY <1>1, <1>2 DEF onlineHumanVersion, Versions
<1> QED
  BY <1>1, <1>3, Named DEF Candidate, Candidates

\* What a read finds is a version of the log it found it in.
LEMMA Found ==
  ASSUME Typed, NEW rs \in Logs
  PROVE  /\ HumanScanned(rs) \in Nat
         /\ HumanScanned(rs) > 0 =>
               \E x \in rs : x.v = HumanScanned(rs) /\ IsHuman(x) /\ x.at >= lane.boundary
                             /\ InScan(x)
         /\ \A x \in rs : InScan(x) /\ IsHuman(x) /\ x.at >= lane.boundary => x.v <= HumanScanned(rs)
         /\ NoteWakeOf(rs) \in Versions
         /\ NoteWakeOf(rs) = NoWake <=> \A x \in rs : InScan(x) => ~isWakeNote(x)
<1>0. round.state.version \in Nat
  BY DEF Typed, RoundRecs, Entries
<1> DEFINE S == {0} \cup {r.v : r \in {x \in rs : InScan(x) /\ IsHuman(x) /\ x.at >= lane.boundary}}
           N == {r.v : r \in {x \in rs : InScan(x) /\ isWakeNote(x)}}
<1>1. S \in SUBSET Nat /\ S # {} /\ \A x \in S : x <= round.state.version
  BY <1>0 DEF Logs, LogRecs, InScan
<1>2. N \in SUBSET Nat /\ \A x \in N : x <= round.state.version
  BY DEF Logs, LogRecs, InScan
<1>3. Max(S) \in S /\ \A x \in S : x <= Max(S)
  <2> HIDE DEF S
  <2> QED
    BY <1>0, <1>1, Greatest
<1>4. N # {} => Max(N) \in N
  <2> HIDE DEF N
  <2> QED
    BY <1>0, <1>2, Greatest
<1>5. HumanScanned(rs) = Max(S) /\ NoteWakeOf(rs) = IF N = {} THEN NoWake ELSE Max(N)
  BY DEF HumanScanned, NoteWakeOf
<1>6. NoteWakeOf(rs) \in Versions
  <2> HIDE DEF N, S
  <2> QED
    BY <1>2, <1>4, <1>5, Named DEF NoWake
<1>7. NoteWakeOf(rs) = NoWake <=> N = {}
  <2> HIDE DEF N, S
  <2> QED
    BY <1>2, <1>4, <1>5, Named DEF NoWake
<1>8. HumanScanned(rs) \in S /\ \A x \in S : x <= HumanScanned(rs)
  BY <1>3, <1>5
<1>9. HumanScanned(rs) \in Nat
  BY <1>1, <1>8
<1>10. HumanScanned(rs) > 0 =>
          \E x \in rs : x.v = HumanScanned(rs) /\ IsHuman(x) /\ x.at >= lane.boundary /\ InScan(x)
  BY <1>8
<1>11. \A x \in rs : InScan(x) /\ IsHuman(x) /\ x.at >= lane.boundary => x.v <= HumanScanned(rs)
  BY <1>8
<1>12. N = {} <=> \A x \in rs : InScan(x) => ~isWakeNote(x)
  OBVIOUS
<1> HIDE DEF S, N
<1> QED
  BY <1>6, <1>7, <1>9, <1>10, <1>11, <1>12

LEMMA ScannedWell ==
  ASSUME Typed, NEW rs \in Logs
  PROVE  LaneWell(LaneScanned(rs))
<1>1. lane \in LaneRecs /\ lane.human \in Versions /\ (lane.pending = NoPending \/ lane.pending.human \in Nat)
  BY DEF Typed, LaneTyped, LaneRecs
<1>2. HumanScanned(rs) \in Nat
  BY Found
<1>3. PICK h \in Versions : LaneScanned(rs) = [lane EXCEPT !.scan = NoScan, !.human = h]
  BY <1>1, <1>2, Named DEF LaneScanned
<1>4. [lane EXCEPT !.scan = NoScan, !.human = h] \in LaneRecs
  BY <1>1, FreshTyped DEF LaneRecs
<1> QED
  BY <1>1, <1>3, <1>4, FreshTyped DEF LaneWell, LaneRecs

\* A ready candidate is a real one.
LEMMA ReadyWell ==
  ASSUME Typed, NEW l, LaneWell(l)
  PROVE  /\ LaneWell(LaneReady(l)) /\ LaneWell(PendingKept(l))
         /\ Ready(l) => l.pending # NoPending /\ l.pending.human \in Nat
                        /\ LaneReady(l).human \in {l.human, l.pending.human}
                        /\ LaneReady(l).human >= l.human /\ LaneReady(l).human \in Nat
         /\ ~Ready(l) => LaneReady(l).human = l.human
         /\ LaneReady(l).pending \in {l.pending, NoPending}
         /\ LaneReady(l).boundary = l.boundary /\ LaneReady(l).scan = l.scan
<1>1. l \in LaneRecs /\ l.human \in Versions /\ NoPending \in Candidates
  BY FreshTyped DEF LaneWell, LaneRecs
<1> DEFINE d == [l EXCEPT !.pending = NoPending]
<1>2. PendingKept(l) \in {l, d}
  BY DEF PendingKept
<1>a. d \in LaneRecs /\ d.human = l.human /\ d.scan = l.scan /\ d.pending = NoPending
      /\ d.boundary = l.boundary
  BY <1>1 DEF LaneRecs
<1> HIDE DEF d
<1>b. LaneWell(d)
  BY <1>a DEF LaneWell
<1>3. LaneWell(PendingKept(l))
  BY <1>2, <1>b
<1>4. Ready(l) => l.pending # NoPending /\ l.pending.human \in Nat
  BY <1>2, <1>a DEF LaneWell, Ready
<1>5. CASE ~Ready(l)
  <2>1. LaneReady(l) = PendingKept(l)
    BY <1>5 DEF LaneReady
  <2> QED
    BY <1>1, <1>2, <1>a, <1>3, <1>5, <2>1
<1>6. CASE Ready(l)
  <2> DEFINE P == {l.human, l.pending.human}
  <2>1. l.pending.human \in Nat /\ l.pending.human \in Versions
    BY <1>4, <1>6, Named
  <2>2. Max(P) \in P /\ Max(P) >= l.human /\ Max(P) >= l.pending.human
    BY <1>1, <2>1, GreatestVersion
  <2>3. LaneReady(l) = [l EXCEPT !.human = Max(P), !.pending = NoPending]
    BY <1>6 DEF LaneReady
  <2>4. Max(P) \in Nat /\ Max(P) \in Versions /\ Max(P) >= l.human
    <3>1. Max(P) \in {l.human, l.pending.human}
      BY <2>2
    <3> HIDE DEF P
    <3> QED
      BY <1>1, <2>1, <2>2, <3>1 DEF Versions
  <2>5. [l EXCEPT !.human = Max(P), !.pending = NoPending] \in LaneRecs
    <3> HIDE DEF P
    <3> QED
      BY <1>1, <2>4 DEF LaneRecs
  <2>6. LET k == [l EXCEPT !.human = Max(P), !.pending = NoPending]
        IN k.human = Max(P) /\ k.pending = NoPending /\ k.scan = l.scan /\ k.boundary = l.boundary
    <3> HIDE DEF P
    <3> QED
      BY <1>1 DEF LaneRecs
  <2>7. Max(P) \in {l.human, l.pending.human}
    BY <2>2
  <2> HIDE DEF P
  <2>8. l.scan = NoScan \/ l.scan.version \in Nat
    BY DEF LaneWell
  <2> QED
    BY <1>3, <1>4, <1>6, <2>3, <2>4, <2>5, <2>6, <2>7, <2>8 DEF LaneWell
<1> QED
  BY <1>5, <1>6

LEMMA LaneObserved ==
  ASSUME Typed
  PROVE  LaneWell(LaneAfterStop) /\ LaneWell(ReconciledLane(LaneAfterStop))
<1>1. lane \in LaneRecs /\ LaneWell(lane) /\ run.stop \in Nat
  BY DEF Typed, LaneTyped, LaneWell, RunRecs
<1>2. LaneWell(LaneAfterStop)
  <2>1. [lane EXCEPT !.pending = NoPending, !.human = NoWake, !.boundary = run.stop] \in LaneRecs
    BY <1>1, FreshTyped, Named DEF LaneRecs
  <2> QED
    BY <1>1, <2>1, FreshTyped DEF LaneAfterStop, LaneWell, LaneRecs
<1> DEFINE l == LaneAfterStop
           m == IF round.state = Absent
                THEN [l EXCEPT !.pending = NoPending, !.human = NoWake, !.boundary = 0] ELSE l
<1>3. l \in LaneRecs
  BY <1>2 DEF LaneWell
<1> HIDE DEF l
<1>4. [l EXCEPT !.pending = NoPending, !.human = NoWake, !.boundary = 0] \in LaneRecs
  BY <1>3, FreshTyped, Named DEF LaneRecs
<1>5. LaneWell(m) /\ m \in LaneRecs
  BY <1>2, <1>3, <1>4, FreshTyped DEF LaneWell, LaneRecs, l
<1>6. ReconciledLane(l) \in {m, [m EXCEPT !.scan = NoScan]}
  BY DEF ReconciledLane
<1> HIDE DEF m
<1>7. LaneWell([m EXCEPT !.scan = NoScan])
  BY <1>5, LaneSets, LaneFields, FreshTyped DEF LaneWell
<1> QED
  BY <1>2, <1>5, <1>6, <1>7 DEF l

\* The lane and the wake a decision works with.
LEMMA DecisionTyped ==
  ASSUME Typed, NEW l, LaneWell(l), NEW w \in Versions
  PROVE  LET after == IF round.recovered \/ round.state = Absent THEN l ELSE LaneReady(l)
             wake == IF round.recovered THEN NoWake ELSE WakeReady(l, w)
         IN LaneWell(after) /\ wake \in Versions
BY ReadyWell, Named DEF WakeReady, NoWake, Versions

LEMMA FinishTyped ==
  ASSUME Typed, NEW l, LaneWell(l), NEW w \in Versions, NEW readable \in BOOLEAN,
         Finish(l, w, readable)
  PROVE  LaneTyped' /\ alerts' \in AlertRecs /\ round' \in RoundRecs /\ past' \in PastRecs
<1> DEFINE after == IF round.recovered \/ round.state = Absent THEN l ELSE LaneReady(l)
           wake == IF round.recovered THEN NoWake ELSE WakeReady(l, w)
           does == IF round.recovered \/ round.state = Absent THEN "nothing" ELSE Verdict(after, wake)
<1>1. LaneWell(after) /\ wake \in Versions
  BY DecisionTyped
<1>2. does \in {"nothing", "told", "launch", "parked"}
  BY DEF Verdict
<1>3. /\ lane' = IF does = "parked"
                 THEN [after EXCEPT !.pending = Candidate(after)]
                 ELSE IF round.state.to = "none" /\ round.prev.to # "none" /\ round.prev # Absent
                 THEN [after EXCEPT !.pending = NoPending]
                 ELSE after
      /\ alerts' = [Watched(round.state) EXCEPT
                       !.approval = IF round.recovered \/ round.state = Absent THEN @
                                    ELSE Pending(round.state)]
      /\ round' = IF does = "launch" THEN [round EXCEPT !.step = "launch", !.wake = wake]
                  ELSE Idle
      /\ past' = [past EXCEPT !.did = does, !.edge = DueEdge(l), !.instruction = readable /\ DueInstruction,
                              !.upto = IF readable \/ round.recovered \/ round.prev = Absent
                                       THEN round.state.version ELSE @,
                              !.announced = @ \/ (~round.recovered /\ ApprovalEntering),
                              !.quiet = round.recovered]
  BY DEF Finish
<1> HIDE DEF after, wake, does
<1>4. LaneTyped'
  <2>1. after \in LaneRecs
    BY <1>1 DEF LaneWell
  <2>2. Candidate(after) \in Candidates /\ Candidate(after).human \in Nat
    BY <2>1, Online
  <2>3. LaneWell([after EXCEPT !.pending = Candidate(after)])
    BY <1>1, <2>1, <2>2, LaneSets, LaneFields DEF LaneWell
  <2>4. LaneWell([after EXCEPT !.pending = NoPending])
    BY <1>1, <2>1, FreshTyped, LaneSets, LaneFields DEF LaneWell
  <2> QED
    BY <1>1, <1>3, <2>3, <2>4 DEF LaneWell, LaneTyped
<1>5. alerts' \in AlertRecs
  <2>1. Watched(round.state) \in AlertRecs
    <3>1. alerts \in AlertRecs /\ round.state.upd \in Nat
      BY DEF Typed, RoundRecs, Entries
    <3>2. (alerts.stalled \/ alerts.age >= StallRounds) \in BOOLEAN
      OBVIOUS
    <3> QED
      BY <3>1, <3>2 DEF AlertRecs, Watched
  <2>2. Pending(round.state) \in BOOLEAN
    BY DEF Pending
  <2> QED
    BY <1>3, <2>1, <2>2 DEF AlertRecs
<1>6. round' \in RoundRecs
  BY <1>1, <1>3, FreshTyped, Named DEF Typed, RoundRecs
<1>7. past' \in PastRecs
  <2>1. past \in PastRecs /\ round.state.version \in Nat /\ round.recovered \in BOOLEAN /\ does \in Dids
    BY <1>2, Named DEF Typed, RoundRecs, Entries
  <2>2. DueEdge(l) \in BOOLEAN /\ (readable /\ DueInstruction) \in BOOLEAN
        /\ (past.announced \/ (~round.recovered /\ ApprovalEntering)) \in BOOLEAN
    BY DEF DueEdge, Ready, DueInstruction, ApprovalEntering
  <2> QED
    BY <1>3, <2>1, <2>2 DEF PastRecs
<1> QED
  BY <1>4, <1>5, <1>6, <1>7

\* A decision is one of three: read, unread, or not readable.
LEMMA Decisions ==
  ASSUME Typed, Decide \/ DecideUnread \/ DecideReadFails
  PROVE  \E l, w, readable :
            /\ LaneWell(l) /\ w \in Versions /\ readable \in BOOLEAN
            /\ Finish(l, w, readable)
            /\ \/ /\ Decide /\ readable = TRUE
                  /\ l = LaneScanned(fullLog(round.state))
                  /\ w = IF Scans THEN WakeKept(l, NoteWakeOf(fullLog(round.state))) ELSE NoWake
               \/ DecideUnread /\ readable = TRUE /\ l = lane /\ w = NoWake
               \/ /\ DecideReadFails /\ readable = FALSE /\ w = NoWake
                  /\ l = IF Scans THEN [lane EXCEPT !.scan = [version |-> ScanFrom, to |-> round.state.to]]
                         ELSE lane
<1>1. CASE Decide
  <2> DEFINE l == LaneScanned(fullLog(round.state))
             w == IF Scans THEN WakeKept(l, NoteWakeOf(fullLog(round.state))) ELSE NoWake
  <2>1. Finish(l, w, TRUE)
    BY <1>1 DEF Decide
  <2>2. fullLog(round.state) \in Logs
    BY FullLogTyped
  <2>3. LaneWell(l)
    BY <2>2, ScannedWell
  <2>4. NoteWakeOf(fullLog(round.state)) \in Versions /\ NoWake \in Versions
    BY <2>2, Found, Named DEF NoWake
  <2> HIDE DEF l
  <2>5. w \in Versions
    BY <2>4 DEF WakeKept
  <2> QED
    BY <1>1, <2>1, <2>3, <2>5 DEF l
<1>2. CASE DecideUnread
  <2>1. Finish(lane, NoWake, TRUE)
    BY <1>2 DEF DecideUnread
  <2>2. LaneWell(lane) /\ NoWake \in Versions
    BY Named DEF Typed, LaneTyped, LaneWell, NoWake
  <2> QED
    BY <1>2, <2>1, <2>2
<1>3. CASE DecideReadFails
  <2> DEFINE l == IF Scans THEN [lane EXCEPT !.scan = [version |-> ScanFrom, to |-> round.state.to]]
                  ELSE lane
  <2>1. Finish(l, NoWake, FALSE)
    BY <1>3 DEF DecideReadFails
  <2>2. LaneWell(lane) /\ NoWake \in Versions /\ lane \in LaneRecs
    BY Named DEF Typed, LaneTyped, LaneWell, NoWake
  <2>3. ScanFrom \in Nat /\ round.state.to \in Tos
    BY DEF Typed, LaneTyped, RoundRecs, Entries, ScanFrom
  <2>4. [version |-> ScanFrom, to |-> round.state.to] \in Scans0
    BY <2>3, Named DEF Scans0
  <2>5. LaneWell([lane EXCEPT !.scan = [version |-> ScanFrom, to |-> round.state.to]])
    BY <2>2, <2>3, <2>4, LaneSets, LaneFields DEF LaneWell
  <2> QED
    BY <1>3, <2>1, <2>2, <2>5
<1> QED
  BY <1>1, <1>2, <1>3

LEMMA ObserveTyped ==
  ASSUME Typed, Observe
  PROVE  /\ run' \in RunRecs /\ snap' \in SnapRecs /\ round' \in RoundRecs /\ LaneTyped'
         /\ alerts' \in AlertRecs /\ past' \in PastRecs
<1>0. /\ run \in RunRecs /\ snap \in SnapRecs /\ round \in RoundRecs /\ alerts \in AlertRecs
      /\ past \in PastRecs /\ round.state \in Entries /\ snap.entry \in Entries
      /\ round.state.version \in Nat /\ snap.entry.version \in Nat /\ round.state.upd \in Nat
  BY DEF Typed, RoundRecs, SnapRecs, Entries
<1>1. run' \in RunRecs
  <2>1. (run.stopSeen \/ (run.seat = "held" /\ run.stop > 0)) \in BOOLEAN
    BY <1>0 DEF RunRecs
  <2>2. (IF run.seat = "held" /\ run.done THEN "free" ELSE run.seat) \in Seats
    BY <1>0, Named DEF RunRecs
  <2>3. \A b \in BOOLEAN, s \in Seats : [run EXCEPT !.stopSeen = b, !.seat = s] \in RunRecs
    BY <1>0 DEF RunRecs
  <2>4. run' = [run EXCEPT !.stopSeen = run.stopSeen \/ (run.seat = "held" /\ run.stop > 0),
                           !.seat = IF run.seat = "held" /\ run.done THEN "free" ELSE run.seat]
    BY <1>0 DEF Observe, SeatObserved, RunRecs
  <2> QED
    BY <2>1, <2>2, <2>3, <2>4
<1>2. snap' \in SnapRecs
  BY <1>0 DEF Observe, SnapRecs, RoundRecs
<1>3. round' \in RoundRecs
  <2>1. (snap.baseline /\ Recovered) \in BOOLEAN
    BY DEF Recovered
  <2>2. PICK st \in Steps : round' = [round EXCEPT !.prev = snap.entry, !.recovered = snap.baseline /\ Recovered,
                                                   !.step = st]
    BY Named DEF Observe
  <2> QED
    BY <1>0, <2>1, <2>2 DEF RoundRecs
<1>4. LaneTyped'
  BY LaneObserved DEF Observe, LaneWell, LaneTyped
<1>5. alerts' \in AlertRecs
  <2>1. AlertsObserved \in AlertRecs
    <3>1. (round.place = "degraded") \in BOOLEAN
          /\ (round.place = "gone" /\ (alerts.vanished \/ WasKnown)) \in BOOLEAN
          /\ (alerts.approval /\ round.state # Absent) \in BOOLEAN
          /\ (IF alerts.age < StallRounds THEN alerts.age + 1 ELSE alerts.age) \in Nat
      BY <1>0 DEF AlertRecs
    <3>2. AlertsObserved = [alerts EXCEPT !.degraded = (round.place = "degraded"),
             !.vanished = (round.place = "gone" /\ (alerts.vanished \/ WasKnown)),
             !.approval = (alerts.approval /\ round.state # Absent),
             !.age = IF alerts.age < StallRounds THEN alerts.age + 1 ELSE alerts.age]
      BY <1>0 DEF AlertsObserved, AlertRecs
    <3>3. \A a, b, c \in BOOLEAN, n \in Nat :
             [alerts EXCEPT !.degraded = a, !.vanished = b, !.approval = c, !.age = n] \in AlertRecs
      BY <1>0 DEF AlertRecs
    <3> QED
      BY <3>1, <3>2, <3>3
  <2>2. \A a \in AlertRecs, u \in Nat, c \in BOOLEAN :
           [a EXCEPT !.upd = u, !.age = 0, !.approval = c] \in AlertRecs
    BY DEF AlertRecs
  <2>3. AlertsAtBaseline \in AlertRecs
    BY <1>0, <2>1, <2>2 DEF AlertsAtBaseline, Pending
  <2> QED
    BY <2>1, <2>3 DEF Observe
<1>6. past' \in PastRecs
  <2>1. NewAlarms \in Nat
    BY DEF NewAlarms
  <2>2. PICK st \in Nat, al \in Nat, an \in BOOLEAN, stl \in Nat, fo \in BOOLEAN, up \in Nat :
           past' = [past EXCEPT !.stays = st, !.alarms = al, !.announced = an, !.still = stl, !.forgot = fo, !.upto = up]
    <3>1. past.stays \in Nat /\ past.alarms \in Nat /\ past.still \in Nat /\ past.upto \in Nat
      BY <1>0 DEF PastRecs
    <3> DEFINE st == IF round.place # snap.place /\ round.place # "tasks"
                        /\ (round.place = "degraded" \/ WasKnown) THEN past.stays + 1 ELSE past.stays
               al == past.alarms + NewAlarms
               an == Pending(round.state) /\ (past.announced \/ ~snap.baseline)
               stl == IF snap.baseline /\ round.place = "tasks" /\ snap.entry.upd = round.state.upd
                         /\ round.state.to \in Roles
                      THEN IF past.still < StallRounds THEN past.still + 1 ELSE past.still
                      ELSE 0
               fo == cache' # NoCache /\ ~round.state.attn
                     /\ (past.forgot \/ (snap.entry.attn /\ round.state = Absent))
               up == IF ~snap.baseline \/ round.state.version < snap.entry.version
                     THEN round.state.version
                     ELSE IF lane.scan # NoScan /\ lane'.scan = NoScan
                     THEN snap.entry.version ELSE past.upto
    <3>2. st \in Nat /\ al \in Nat /\ stl \in Nat
      BY <2>1, <3>1
    <3>3. an \in BOOLEAN /\ fo \in BOOLEAN
      BY DEF Pending
    <3>4. up \in Nat
      BY <1>0, <3>1
    <3>5. past' = [past EXCEPT !.stays = st, !.alarms = al, !.announced = an, !.still = stl, !.forgot = fo, !.upto = up]
      BY <1>0 DEF Observe, PastRecs
    <3> HIDE DEF st, al, an, stl, fo, up
    <3> QED
      BY <3>2, <3>3, <3>4, <3>5
  <2> QED
    BY <1>0, <2>2 DEF PastRecs
<1> QED
  BY <1>1, <1>2, <1>3, <1>4, <1>5, <1>6

LEMMA CatchupTyped ==
  ASSUME Typed, CatchupDecides
  PROVE  round' \in RoundRecs /\ LaneTyped' /\ past' \in PastRecs
<1>0. round \in RoundRecs /\ past \in PastRecs /\ lane \in LaneRecs /\ LaneWell(lane)
  BY DEF Typed, RoundRecs, Entries, LaneTyped, LaneWell, LaneRecs
<1>1. round' \in RoundRecs
  BY <1>0, FreshTyped, Named DEF CatchupDecides, RoundRecs
<1>2. past' \in PastRecs
  BY <1>0, Named DEF CatchupDecides, PastRecs
<1>3. LaneTyped'
  <2>1. Candidate(lane) \in Candidates /\ Candidate(lane).human \in Nat
    BY <1>0, Online
  <2>2. LaneWell([lane EXCEPT !.pending = Candidate(lane)])
    BY <1>0, <2>1, LaneSets, LaneFields DEF LaneWell
  <2> QED
    BY <1>0, <2>2 DEF CatchupDecides, LaneWell, LaneTyped
<1> QED
  BY <1>1, <1>2, <1>3

LEMMA PlansTyped ==
  ASSUME Typed, LaunchPlans
  PROVE  round' \in RoundRecs /\ past' \in PastRecs
<1>0. round \in RoundRecs /\ past \in PastRecs /\ onlineHumanVersion(lane) \in Nat
  BY Online DEF Typed, LaneTyped
<1> DEFINE rs == fullLog(round.state)
<1>1. rs \in Logs /\ \E b \in Nat : \A r \in rs : r.v <= b
  BY FullLogTyped
<1> HIDE DEF rs
<1>2. latestRecordVersion(rs) \in Nat
  BY <1>1, VersionsOf
<1>3. Planned(rs).base \in Nat
  BY <1>2 DEF Planned
<1>4. round' \in {Idle, [round EXCEPT !.step = "mark", !.base = Planned(rs).base, !.human = onlineHumanVersion(lane)]}
  BY DEF LaunchPlans, rs
<1>5. round' \in RoundRecs
  BY <1>0, <1>3, <1>4, FreshTyped, Named DEF RoundRecs
<1>6. past' \in PastRecs
  <2>1. PICK d \in Dids, b \in BOOLEAN : past' = [past EXCEPT !.did = d, !.reads = b]
    BY <1>0, Named DEF LaunchPlans, PastRecs
  <2> QED
    BY <1>0, <2>1 DEF PastRecs
<1> QED
  BY <1>5, <1>6

LEMMA FetchTyped ==
  ASSUME Typed, Fetch
  PROVE  round' \in RoundRecs /\ past' \in PastRecs
<1>0. past \in PastRecs /\ hub \in HubRecs /\ HubWell
  BY DEF Typed, HubWell
<1>1. (IF hub.place = "tasks" THEN Entry ELSE Absent) \in Entries
  BY <1>0, EntryTyped, FreshTyped
<1>2. \A e \in Entries : [Idle EXCEPT !.step = "observe", !.state = e, !.place = hub.place, !.auto = hub.auto,
                                       !.truth = hub.log] \in RoundRecs
  BY <1>0, FreshTyped, Named DEF RoundRecs, HubRecs
<1>3. round' \in RoundRecs
  BY <1>1, <1>2 DEF Fetch
<1>4. past' \in PastRecs
  <2>1. (past.hidden /\ hub.place # "tasks") \in BOOLEAN
    BY <1>0 DEF PastRecs
  <2> QED
    BY <1>0, <2>1, Named DEF Fetch, PastRecs
<1> QED
  BY <1>3, <1>4

LEMMA RunStays ==
  ASSUME Typed, Next
  PROVE  run' \in RunRecs
<1>0. run \in RunRecs /\ hub.clock + 1 \in Nat
  BY DEF Typed, HubWell, HubRecs
<1>1. CASE UNCHANGED run
  BY <1>0, <1>1
<1>2. CASE Observe
  BY <1>2, ObserveTyped
<1>3. CASE MarkLands
  BY <1>3, FreshTyped, Named DEF MarkLands, RunRecs
<1>4. CASE StartSettles
  BY <1>0, <1>4, FreshTyped, Named DEF StartSettles, RunRecs
<1>5. CASE RunEnds
  BY <1>0, <1>5 DEF RunEnds, RunRecs
<1>6. CASE StopRequested
  BY <1>0, <1>6 DEF StopRequested, RunRecs
<1>7. CASE Restart
  <2>1. (run.stop > 0) \in BOOLEAN
    OBVIOUS
  <2> QED
    BY <1>0, <1>7, <2>1, Named DEF Restart, RunRecs
<1> QED
  BY <1>1, <1>2, <1>3, <1>4, <1>5, <1>6, <1>7 DEF Next, Round, Fetch, Decide, DecideUnread,
     DecideReadFails, CatchupDecides, LaunchDropped, LaunchPlans, LaunchReadFails, MarkConflicts,
     Publish, ForeignDuplicate, ForeignRewind, PlaceChanges, ModeSwitches

LEMMA NextTyped ==
  ASSUME Typed, Next
  PROVE  Typed'
<1>0. /\ snap \in SnapRecs /\ round \in RoundRecs /\ LaneTyped /\ alerts \in AlertRecs
      /\ past \in PastRecs /\ lane \in LaneRecs /\ LaneWell(lane)
  BY DEF Typed, LaneTyped, LaneWell
<1> DEFINE Rest == snap' \in SnapRecs /\ round' \in RoundRecs /\ LaneTyped' /\ alerts' \in AlertRecs
                   /\ past' \in PastRecs
<1>1. UNCHANGED lane => LaneTyped'
  BY <1>0 DEF LaneTyped
<1>2. ASSUME Fetch PROVE Rest
  BY <1>0, <1>1, <1>2, FetchTyped DEF Fetch
<1>3. ASSUME Observe PROVE Rest
  BY <1>3, ObserveTyped
<1>4. ASSUME Decide \/ DecideUnread \/ DecideReadFails PROVE Rest
  <2>1. PICK l, w, readable : LaneWell(l) /\ w \in Versions /\ readable \in BOOLEAN /\ Finish(l, w, readable)
    BY <1>4, Decisions
  <2>2. UNCHANGED snap
    BY <1>4 DEF Decide, DecideUnread, DecideReadFails
  <2> QED
    BY <1>0, <2>1, <2>2, FinishTyped
<1>5. ASSUME CatchupDecides PROVE Rest
  <2>1. UNCHANGED <<snap, alerts>>
    BY <1>5 DEF CatchupDecides
  <2> QED
    BY <1>0, <1>5, <2>1, CatchupTyped
<1>6. ASSUME LaunchPlans PROVE Rest
  BY <1>0, <1>1, <1>6, PlansTyped DEF LaunchPlans
<1>7. ASSUME \E d \in Dids : Told(d) PROVE past' \in PastRecs
  BY <1>0, <1>7 DEF Told, PastRecs
<1>8. ASSUME LaunchDropped \/ LaunchReadFails \/ MarkConflicts PROVE Rest
  BY <1>0, <1>1, <1>7, <1>8, FreshTyped, Named DEF LaunchDropped, LaunchReadFails, MarkConflicts
<1>9. ASSUME MarkLands PROVE Rest
  <2>1. [lane EXCEPT !.human = NoWake, !.boundary = 0] \in LaneRecs
    BY <1>0, Named DEF LaneRecs
  <2>2. lane' = [lane EXCEPT !.human = NoWake, !.boundary = 0]
    BY <1>9 DEF MarkLands
  <2>3. LaneTyped'
    BY <1>0, <2>1, <2>2 DEF LaneTyped, LaneRecs
  <2>4. past' \in PastRecs /\ round' \in RoundRecs /\ UNCHANGED <<snap, alerts>>
    BY <1>7, <1>9, FreshTyped, Named DEF MarkLands
  <2> QED
    BY <1>0, <2>3, <2>4
<1>10. ASSUME StartSettles \/ RunEnds \/ StopRequested \/ Publish \/ PlaceChanges \/ ModeSwitches PROVE Rest
  BY <1>0, <1>1, <1>10 DEF StartSettles, RunEnds, StopRequested, Publish, PlaceChanges, ModeSwitches
<1>11. ASSUME ForeignDuplicate \/ ForeignRewind PROVE Rest
  <2>1. past' = [past EXCEPT !.hidden = TRUE] /\ UNCHANGED <<snap, round, lane, alerts>>
    BY <1>11 DEF ForeignDuplicate, ForeignRewind
  <2>2. past' \in PastRecs
    BY <1>0, <2>1 DEF PastRecs
  <2> QED
    BY <1>0, <1>1, <2>1, <2>2
<1>12. ASSUME Restart PROVE Rest
  <2>1. snap' \in SnapRecs
    BY <1>12, FreshTyped, Named DEF Restart, SnapRecs
  <2>2. past' \in PastRecs
    BY <1>0, <1>12, FreshTyped DEF Restart, PastRecs
  <2>3. LaneTyped'
    BY <1>12, FreshTyped DEF Restart, LaneTyped, FreshLane
  <2> QED
    BY <1>12, <2>1, <2>2, <2>3, FreshTyped DEF Restart
<1>13. Rest
  BY <1>2, <1>3, <1>4, <1>5, <1>6, <1>8, <1>9, <1>10, <1>11, <1>12 DEF Next, Round
<1> HIDE DEF Rest
<1>14. HubWell' /\ CacheWell' /\ run' \in RunRecs
  BY HubStays, CacheStays, RunStays
<1> QED
  BY <1>13, <1>14 DEF Typed, Rest

LEMMA StutterTyped == Typed /\ UNCHANGED vars => Typed'
BY DEF Typed, vars, HubWell, CacheWell, LaneTyped

LEMMA InitTyped == Init => Typed
<1> SUFFICES ASSUME Init PROVE Typed
  OBVIOUS
<1>1. PICK to \in Roles : hub = [log |-> {[v |-> 1, kind |-> "work", to |-> to, at |-> 1]},
                                 place |-> "tasks", auto |-> TRUE, upd |-> 1, clock |-> 1]
  BY DEF Init
<1>2. {[v |-> 1, kind |-> "work", to |-> to, at |-> 1]} \in Logs
  BY Named DEF Logs, LogRecs
<1>3. HubWell
  <2>1. hub \in HubRecs
    BY <1>1, <1>2, Named DEF HubRecs
  <2> DEFINE first == [v |-> 1, kind |-> "work", to |-> to, at |-> 1]
  <2>a. hub.log = {first} /\ hub.clock = 1 /\ first.v = 1 /\ first.at = 1 /\ first.kind = "work"
    BY <1>1
  <2> HIDE DEF first
  <2>2. LogWell(hub.log, hub.clock)
    <3>1. IsFiniteSet(hub.log)
      BY <2>a, FS_Singleton
    <3>2. \E r \in hub.log : r.kind = "work" /\ r.v = 1
      BY <2>a
    <3> QED
      BY <2>a, <3>1, <3>2 DEF LogWell
  <2> QED
    BY <1>1, <2>1, <2>2 DEF HubWell
<1>4. snap \in SnapRecs
  BY FreshTyped, Named DEF Init, SnapRecs
<1>5. CacheWell /\ LaneTyped
  BY FreshTyped, NoCacheIsWell DEF Init, CacheWell, LaneTyped, FreshLane
<1> QED
  BY <1>3, <1>4, <1>5, FreshTyped DEF Init, Typed

(* Every variable keeps its type; the log has a first hand-over and one     *)
(* record for each arrival, and neither the cache nor a parked candidate    *)
(* is ahead of what was read (log-cache.ts, detached-lane.ts).              *)
THEOREM TypesHold == Spec => []Typed
<1>1. Typed /\ [Next]_vars => Typed'
  BY NextTyped, StutterTyped
<1> QED
  BY <1>1, InitTyped, PTL DEF Spec

-----------------------------------------------------------------------------
(***************************************************************************)
(* Alerts.  The presence flags follow the place of the last snapshot, and  *)
(* whatever is not in tasks[] has no approval edge and no clock that can   *)
(* fire.  Between rounds a pending approval has been announced and the age *)
(* is at most the rounds without progress; within a round both are only    *)
(* claimed as far as the decision needs them.                              *)
(***************************************************************************)
Presence ==
    /\ alerts.degraded <=> snap.place = "degraded"
    /\ alerts.vanished => snap.place = "gone"
    /\ ~snap.baseline => snap.place = "gone"
    /\ snap.place = "tasks" => snap.entry.upd >= 1
    /\ snap.place # "tasks" => /\ snap.entry = Absent /\ ~alerts.approval
                               /\ alerts.degraded \/ alerts.vanished \/ alerts.upd = 0

Fetched ==
    round.step = "observe" => IF round.place = "tasks" THEN round.state.upd >= 1 ELSE round.state = Absent

InDecision ==
    /\ snap.entry = round.state /\ snap.place = round.place
    /\ round.recovered => ~alerts.approval /\ snap.place = "tasks"
    /\ alerts.approval /\ Pending(round.state) => past.announced
    /\ round.place = "tasks" /\ ~round.recovered /\ alerts.upd = round.state.upd /\ round.state.to \in Roles
          => alerts.age <= past.still

BetweenDecisions ==
    /\ alerts.approval => past.announced
    /\ snap.baseline /\ Pending(snap.entry) /\ ~past.quiet => past.announced
    /\ snap.place = "tasks" => alerts.upd = snap.entry.upd /\ alerts.age <= past.still

AlertInv ==
    /\ Presence /\ Fetched
    /\ past.alarms = past.stays
    /\ IF round.step = "decide" THEN InDecision ELSE BetweenDecisions

LEMMA AlertFrame ==
  ASSUME AlertInv, UNCHANGED <<snap, alerts>>,
         past'.alarms = past.alarms, past'.stays = past.stays, past'.announced = past.announced,
         past'.quiet = past.quiet, past'.still = past.still,
         round' = round \/ (round.step # "decide" /\ round'.step \notin {"decide", "observe"})
  PROVE  AlertInv'
<1>1. Presence' /\ past'.alarms = past'.stays
  BY DEF AlertInv, Presence
<1>2. CASE round' = round
  BY <1>1, <1>2 DEF AlertInv, Fetched, InDecision, BetweenDecisions
<1>3. CASE round.step # "decide" /\ round'.step \notin {"decide", "observe"}
  BY <1>1, <1>3 DEF AlertInv, Fetched, BetweenDecisions
<1> QED
  BY <1>2, <1>3

LEMMA PendingIsThere ==
  \A e : e = Absent => ~Pending(e) /\ e.to = "none" /\ e.upd = 0
BY DEF Pending, Absent

LEMMA ObservePlace ==
  ASSUME Typed, AlertInv, Observe
  PROVE  Presence' /\ past'.alarms = past'.stays /\ snap'.baseline
<1>0. /\ alerts \in AlertRecs /\ past \in PastRecs /\ round \in RoundRecs /\ snap \in SnapRecs
      /\ round.step = "observe" /\ round.place \in Places /\ snap.place \in Places
  BY DEF Typed, RoundRecs, SnapRecs, Observe
<1>1. snap' = [baseline |-> TRUE, entry |-> round.state, place |-> round.place]
  BY DEF Observe
<1>2. IF round.place = "tasks" THEN round.state.upd >= 1 ELSE round.state = Absent
  BY <1>0 DEF AlertInv, Fetched
<1>3. round.state = Absent => alerts' = AlertsObserved
  BY DEF Observe, AlertsAtBaseline
<1>4. /\ alerts'.degraded = (round.place = "degraded")
      /\ alerts'.vanished = (round.place = "gone" /\ (alerts.vanished \/ WasKnown))
      /\ round.state = Absent => alerts'.approval = FALSE /\ alerts'.upd = alerts.upd
  BY <1>0 DEF Observe, AlertsAtBaseline, AlertsObserved, AlertRecs
<1>5. Presence'
  <2>1. round.place # "tasks" => alerts'.degraded \/ alerts'.vanished \/ alerts'.upd = 0
    <3> SUFFICES ASSUME round.place = "gone", ~(alerts.vanished \/ WasKnown) PROVE alerts'.upd = 0
      BY <1>0, <1>4 DEF Places
    <3>1. snap.place = "gone"
      BY DEF WasKnown, AlertInv, Presence
    <3>2. ~alerts.degraded /\ ~alerts.vanished
      BY <3>1 DEF AlertInv, Presence
    <3> QED
      BY <1>2, <1>4, <3>1, <3>2 DEF AlertInv, Presence
  <2> QED
    BY <1>0, <1>1, <1>2, <1>4, <2>1 DEF Presence
<1>6. past'.alarms = past'.stays
  <2>1. past'.alarms = past.alarms + NewAlarms
        /\ past'.stays = IF round.place # snap.place /\ round.place # "tasks"
                            /\ (round.place = "degraded" \/ WasKnown) THEN past.stays + 1 ELSE past.stays
    BY <1>0 DEF Observe, PastRecs
  <2>2. past.alarms = past.stays /\ past.stays \in Nat
    BY <1>0 DEF AlertInv, PastRecs
  <2>3. CASE round.place = "degraded"
    <3>1. NewAlarms = IF snap.place # "degraded" THEN 1 ELSE 0
      BY <2>3 DEF NewAlarms, AlertInv, Presence
    <3> QED
      BY <2>1, <2>2, <2>3, <3>1
  <2>4. CASE round.place = "gone"
    <3>1. NewAlarms = IF WasKnown THEN 1 ELSE 0
      <4>1. WasKnown => ~alerts.vanished /\ snap.place # "gone"
        BY DEF AlertInv, Presence, WasKnown
      <4> QED
        BY <2>4, <4>1 DEF NewAlarms
    <3>2. WasKnown => snap.place # "gone"
      BY DEF WasKnown
    <3> QED
      BY <2>1, <2>2, <2>4, <3>1, <3>2
  <2>5. CASE round.place = "tasks"
    BY <2>1, <2>2, <2>5 DEF NewAlarms
  <2> QED
    BY <1>0, <2>3, <2>4, <2>5 DEF Places
<1> QED
  BY <1>1, <1>5, <1>6

LEMMA ObserveAlerts ==
  ASSUME Typed, AlertInv, Observe
  PROVE  AlertInv'
<1>0. /\ alerts \in AlertRecs /\ past \in PastRecs /\ round \in RoundRecs /\ snap \in SnapRecs
      /\ round.step = "observe" /\ round.place \in Places /\ snap.place \in Places
      /\ round.state \in Entries /\ BetweenDecisions /\ past.still \in Nat /\ alerts.age \in Nat
      /\ StallRounds \in Nat
  BY Named DEF Typed, RoundRecs, SnapRecs, Observe, AlertInv, PastRecs, AlertRecs
<1>1. Presence' /\ past'.alarms = past'.stays /\ snap'.baseline
  BY ObservePlace
<1>2. IF round.place = "tasks" THEN round.state.upd >= 1 ELSE round.state = Absent
  BY <1>0 DEF AlertInv, Fetched
<1>3. /\ round'.step = IF snap.baseline THEN "decide"
                       ELSE IF Catchup /\ round.auto /\ Launchable(round.state) THEN "catchup" ELSE "idle"
      /\ round'.state = round.state /\ round'.place = round.place
      /\ round'.recovered = (snap.baseline /\ Recovered)
      /\ snap' = [baseline |-> TRUE, entry |-> round.state, place |-> round.place]
  BY <1>0 DEF Observe, RoundRecs
<1>4. /\ past'.announced = (Pending(round.state) /\ (past.announced \/ ~snap.baseline))
      /\ past'.still = IF snap.baseline /\ round.place = "tasks" /\ snap.entry.upd = round.state.upd
                          /\ round.state.to \in Roles
                       THEN IF past.still < StallRounds THEN past.still + 1 ELSE past.still ELSE 0
  BY <1>0 DEF Observe, PastRecs
<1>5. Fetched'
  BY <1>3 DEF Fetched
<1>6. CASE snap.baseline
  <2>1. alerts' = AlertsObserved
    BY <1>6 DEF Observe
  <2>2. /\ alerts'.approval = (alerts.approval /\ round.state # Absent) /\ alerts'.upd = alerts.upd
        /\ alerts'.age = IF alerts.age < StallRounds THEN alerts.age + 1 ELSE alerts.age
    BY <1>0, <2>1 DEF AlertsObserved, AlertRecs
  <2>3. round'.recovered => ~alerts'.approval /\ snap'.place = "tasks"
    BY <1>0, <1>3, <2>2 DEF Recovered, AlertInv, Presence
  <2>4. alerts'.approval /\ Pending(round'.state) => past'.announced
    BY <1>0, <1>3, <1>4, <1>6, <2>2 DEF BetweenDecisions
  <2>5. ASSUME round'.place = "tasks", ~round'.recovered, alerts'.upd = round'.state.upd,
               round'.state.to \in Roles
        PROVE  alerts'.age <= past'.still
    <3>1. ~alerts.degraded /\ ~alerts.vanished
      BY <1>3, <1>6, <2>5 DEF Recovered
    <3>2. alerts.upd = round.state.upd /\ round.state.upd >= 1
      BY <1>2, <1>3, <2>2, <2>5
    <3>3. snap.place = "tasks"
      BY <3>1, <3>2 DEF AlertInv, Presence
    <3>4. alerts.upd = snap.entry.upd /\ alerts.age <= past.still
      BY <1>0, <3>3 DEF BetweenDecisions
    <3>5. past'.still = IF past.still < StallRounds THEN past.still + 1 ELSE past.still
      BY <1>3, <1>4, <1>6, <2>5, <3>2, <3>4
    <3> QED
      BY <1>0, <2>2, <3>4, <3>5
  <2>6. InDecision'
    BY <1>3, <2>3, <2>4, <2>5 DEF InDecision
  <2> QED
    BY <1>1, <1>3, <1>5, <1>6, <2>6 DEF AlertInv
<1>7. CASE ~snap.baseline
  <2>1. alerts' = AlertsAtBaseline
    BY <1>7 DEF Observe
  <2>2. snap.place # "tasks" /\ ~alerts.approval
    BY <1>7 DEF AlertInv, Presence
  <2>3. CASE round.state = Absent
    <3>1. round.place # "tasks"
      BY <1>2, <2>3, PendingIsThere
    <3>2. ~alerts'.approval
      BY <1>0, <2>1, <2>3 DEF AlertsAtBaseline, AlertsObserved, AlertRecs
    <3>3. BetweenDecisions'
      BY <1>3, <2>3, <3>1, <3>2, PendingIsThere DEF BetweenDecisions
    <3> QED
      BY <1>1, <1>3, <1>5, <1>7, <3>3 DEF AlertInv
  <2>4. CASE round.state # Absent
    <3>1. alerts'.approval = Pending(round.state) /\ alerts'.upd = round.state.upd /\ alerts'.age = 0
      BY <1>0, <2>1, <2>4 DEF AlertsAtBaseline, AlertsObserved, AlertRecs
    <3>2. Pending(round.state) => past'.announced
      BY <1>4, <1>7
    <3>4. past'.still = 0
      BY <1>4, <1>7
    <3>3. BetweenDecisions'
      BY <1>3, <3>1, <3>2, <3>4 DEF BetweenDecisions
    <3> QED
      BY <1>1, <1>3, <1>5, <1>7, <3>3 DEF AlertInv
  <2> QED
    BY <2>3, <2>4
<1> QED
  BY <1>6, <1>7

\* What the end of a decision does to the alerts.
LEMMA FinishAlerts ==
  ASSUME Typed, AlertInv, round.step = "decide", NEW l, NEW w, NEW readable, Finish(l, w, readable),
         UNCHANGED snap
  PROVE  AlertInv' /\ (~alerts.stalled /\ alerts'.stalled => past.still >= StallRounds)
<1>0. /\ alerts \in AlertRecs /\ past \in PastRecs /\ round \in RoundRecs
      /\ round.place \in Places /\ InDecision /\ Presence
      /\ past.still \in Nat /\ alerts.age \in Nat /\ StallRounds \in Nat
  BY Named DEF Typed, RoundRecs, AlertInv, PastRecs, AlertRecs
<1>1. round'.step # "decide" /\ round'.step # "observe"
  <2>1. PICK v : round' = Idle \/ round' = [round EXCEPT !.step = "launch", !.wake = v]
    BY DEF Finish
  <2>2. round' = Idle => round'.step = "idle"
    BY DEF Idle
  <2>3. round' = [round EXCEPT !.step = "launch", !.wake = v] => round'.step = "launch"
    BY <1>0 DEF RoundRecs
  <2> QED
    BY <2>1, <2>2, <2>3
<1>2. alerts' = [Watched(round.state) EXCEPT
                    !.approval = IF round.recovered \/ round.state = Absent THEN @
                                 ELSE Pending(round.state)]
  BY DEF Finish
<1>3. /\ past'.announced = (past.announced \/ (~round.recovered /\ ApprovalEntering))
      /\ past'.quiet = round.recovered
      /\ past'.alarms = past.alarms /\ past'.stays = past.stays /\ past'.still = past.still
  BY <1>0 DEF Finish, PastRecs
<1>4. /\ alerts'.degraded = alerts.degraded /\ alerts'.vanished = alerts.vanished
      /\ alerts'.approval = IF round.recovered \/ round.state = Absent THEN alerts.approval
                            ELSE Pending(round.state)
      /\ alerts'.upd = IF round.state # Absent
                          /\ (alerts.upd # round.state.upd \/ round.state.to \notin Roles \/ round.recovered)
                       THEN round.state.upd ELSE alerts.upd
      /\ alerts'.age = IF round.state # Absent
                          /\ (alerts.upd # round.state.upd \/ round.state.to \notin Roles \/ round.recovered)
                       THEN 0 ELSE alerts.age
  BY <1>0, <1>2 DEF Watched, AlertRecs
<1>5. round.place = "tasks" => round.state # Absent
  BY <1>0, PendingIsThere DEF InDecision, Presence
<1>6. round.place # "tasks" => round.state = Absent /\ ~alerts.approval
  BY <1>0 DEF InDecision, Presence
<1>7. Presence'
  BY <1>0, <1>4, <1>6 DEF Presence, InDecision
<1>8. BetweenDecisions'
  <2>1. alerts'.approval => past'.announced
    BY <1>0, <1>3, <1>4, <1>5, <1>6 DEF InDecision, ApprovalEntering
  <2>2. Pending(round.state) /\ ~round.recovered => past'.announced
    BY <1>0, <1>3 DEF InDecision, ApprovalEntering
  <2>3. round.place = "tasks" => alerts'.upd = round.state.upd /\ alerts'.age <= past'.still
    BY <1>0, <1>3, <1>4, <1>5 DEF InDecision
  <2> QED
    BY <1>0, <1>3, <2>1, <2>2, <2>3 DEF BetweenDecisions, InDecision
<1>9. AlertInv'
  BY <1>0, <1>1, <1>3, <1>7, <1>8 DEF AlertInv, Fetched
<1>10. ASSUME ~alerts.stalled, alerts'.stalled PROVE past.still >= StallRounds
  <2>1. alerts'.stalled = Watched(round.state).stalled
    BY <1>0, <1>2 DEF Watched, AlertRecs
  <2>2. /\ round.state # Absent /\ ~(alerts.upd # round.state.upd \/ round.state.to \notin Roles \/ round.recovered)
        /\ alerts.age >= StallRounds
    BY <1>0, <1>10, <2>1 DEF Watched, AlertRecs
  <2> QED
    BY <1>0, <1>6, <2>2 DEF InDecision
<1> QED
  BY <1>9, <1>10

LEMMA NextAlerts ==
  ASSUME Typed, AlertInv, Next
  PROVE  AlertInv' /\ (~alerts.stalled /\ alerts'.stalled => past.still >= StallRounds)
<1>0. /\ alerts \in AlertRecs /\ past \in PastRecs /\ round \in RoundRecs /\ HubWell
  BY DEF Typed
<1>1. CASE Observe
  <2>1. alerts'.stalled = alerts.stalled
    BY <1>0, <1>1 DEF Observe, AlertsObserved, AlertsAtBaseline, AlertRecs
  <2> QED
    BY <1>1, <2>1, ObserveAlerts
<1>2. CASE Decide \/ DecideUnread \/ DecideReadFails
  <2>1. PICK l, w, readable : Finish(l, w, readable)
    BY <1>2, Decisions
  <2>2. UNCHANGED snap /\ round.step = "decide"
    BY <1>2 DEF Decide, DecideUnread, DecideReadFails
  <2> QED
    BY <2>1, <2>2, FinishAlerts
<1>3. CASE Fetch
  <2>1. UNCHANGED <<snap, alerts>> /\ round.step = "idle"
    BY <1>3 DEF Fetch
  <2>2. past'.alarms = past.alarms /\ past'.stays = past.stays /\ past'.announced = past.announced
        /\ past'.quiet = past.quiet /\ past'.still = past.still
    BY <1>0, <1>3 DEF Fetch, PastRecs
  <2>3. /\ round'.step = "observe" /\ round'.place = hub.place
        /\ round'.state = IF hub.place = "tasks" THEN Entry ELSE Absent
    BY <1>3 DEF Fetch, Idle
  <2>4. Fetched'
    BY <1>0, <2>3, EntryTyped DEF Fetched
  <2> QED
    BY <2>1, <2>2, <2>3, <2>4 DEF AlertInv, Presence, BetweenDecisions
<1>4. CASE Restart
  <2>1. /\ snap' = [baseline |-> FALSE, entry |-> Absent, place |-> "gone"] /\ round' = Idle
        /\ alerts' = FreshAlerts /\ past'.alarms = 0 /\ past'.stays = 0
    BY <1>4 DEF Restart, NoneSoFar
  <2> QED
    BY <2>1 DEF AlertInv, Presence, Fetched, BetweenDecisions, FreshAlerts, Idle
<1>5. ASSUME Told(past'.did) PROVE past'.alarms = past.alarms /\ past'.stays = past.stays
             /\ past'.announced = past.announced /\ past'.quiet = past.quiet /\ past'.still = past.still
  BY <1>0, <1>5 DEF Told, PastRecs
<1>6. ASSUME NEW d, Told(d) PROVE Told(past'.did)
  BY <1>0, <1>6 DEF Told, PastRecs
<1>7. CASE LaunchDropped \/ LaunchReadFails \/ MarkLands \/ MarkConflicts
  <2>1. UNCHANGED <<snap, alerts>> /\ round' = Idle /\ round.step # "decide" /\ (\E d : Told(d))
    BY <1>7 DEF LaunchDropped, LaunchReadFails, MarkLands, MarkConflicts
  <2> QED
    BY <1>5, <1>6, <2>1, AlertFrame DEF Idle
<1>8. CASE LaunchPlans \/ CatchupDecides
  <2>1. UNCHANGED <<snap, alerts>> /\ round.step # "decide"
    BY <1>8 DEF LaunchPlans, CatchupDecides
  <2>2. round'.step \notin {"decide", "observe"}
    <3>1. \A b, h : round' = [round EXCEPT !.step = "mark", !.base = b, !.human = h] => round'.step = "mark"
      BY <1>0 DEF RoundRecs
    <3>2. /\ round' = [round EXCEPT !.step = "launch"] => round'.step = "launch"
          /\ round' = Idle => round'.step = "idle"
      BY <1>0 DEF RoundRecs, Idle
    <3>3. \/ round' = Idle \/ round' = [round EXCEPT !.step = "launch"]
          \/ \E b, h : round' = [round EXCEPT !.step = "mark", !.base = b, !.human = h]
      BY <1>8 DEF LaunchPlans, CatchupDecides
    <3> QED
      BY <3>1, <3>2, <3>3
  <2>3. past'.alarms = past.alarms /\ past'.stays = past.stays /\ past'.announced = past.announced
        /\ past'.quiet = past.quiet /\ past'.still = past.still
    BY <1>0, <1>8 DEF LaunchPlans, CatchupDecides, PastRecs
  <2> QED
    BY <2>1, <2>2, <2>3, AlertFrame
<1>9. CASE StartSettles \/ RunEnds \/ StopRequested \/ Publish \/ PlaceChanges \/ ModeSwitches
  <2>1. UNCHANGED <<snap, alerts, round, past>>
    BY <1>9 DEF StartSettles, RunEnds, StopRequested, Publish, PlaceChanges, ModeSwitches
  <2> QED
    BY <2>1, AlertFrame
<1>10. CASE ForeignDuplicate \/ ForeignRewind
  <2>1. past' = [past EXCEPT !.hidden = TRUE] /\ UNCHANGED <<snap, round, alerts>>
    BY <1>10 DEF ForeignDuplicate, ForeignRewind
  <2>2. past'.alarms = past.alarms /\ past'.stays = past.stays /\ past'.announced = past.announced
        /\ past'.quiet = past.quiet /\ past'.still = past.still
    BY <1>0, <2>1 DEF PastRecs
  <2> QED
    BY <2>1, <2>2, AlertFrame
<1>11. UNCHANGED alerts => (~alerts.stalled /\ alerts'.stalled => past.still >= StallRounds)
  OBVIOUS
<1>12. CASE UNCHANGED alerts
  BY <1>1, <1>2, <1>3, <1>4, <1>7, <1>8, <1>9, <1>10, <1>11, <1>12 DEF Next, Round
<1>13. CASE ~UNCHANGED alerts
  <2>1. Observe \/ Decide \/ DecideUnread \/ DecideReadFails \/ Restart
    BY <1>13 DEF Next, Round, Fetch, CatchupDecides, LaunchDropped, LaunchPlans, MarkLands, MarkConflicts,
       LaunchReadFails, StartSettles, RunEnds, StopRequested, Publish, ForeignDuplicate, ForeignRewind,
       PlaceChanges, ModeSwitches
  <2>2. Restart => alerts' = FreshAlerts /\ ~FreshAlerts.stalled
    BY DEF Restart, FreshAlerts
  <2> QED
    BY <1>1, <1>2, <1>4, <2>1, <2>2
<1> QED
  BY <1>12, <1>13

LEMMA InitAlerts == Init => AlertInv
BY DEF Init, AlertInv, Presence, Fetched, BetweenDecisions, FreshAlerts, NoneSoFar, Idle

LEMMA AlertsHold == Spec => [](Typed /\ AlertInv)
<1>1. AlertInv /\ UNCHANGED vars => AlertInv'
  BY DEF vars, AlertInv, Presence, Fetched, InDecision, BetweenDecisions
<1>2. Typed /\ AlertInv /\ [Next]_vars => (Typed /\ AlertInv)'
  BY <1>1, NextTyped, StutterTyped, NextAlerts
<1> QED
  BY <1>2, InitTyped, InitAlerts, PTL DEF Spec

(* One alarm is sent for every stay in the degraded list or away from       *)
(* /state, and an approval that is pending between rounds has been          *)
(* announced since it was last seen not pending                             *)
(* (notifications.ts diffDegraded, updatePendingApprovalEdge).              *)
THEOREM OneAlertPerStay == Spec => []AlertsOncePerStay
<1>1. AlertInv => AlertsOncePerStay
  BY DEF AlertInv, BetweenDecisions, AlertsOncePerStay
<1> QED
  BY <1>1, AlertsHold, PTL

(* No stall is reported before the threshold of rounds in a row in which    *)
(* the task was visible, waited for an agent and did not move               *)
(* (notifications.ts checkStalls, recovered).                               *)
THEOREM StallsAreReal == Spec => StallIsReal
<1>1. Typed /\ AlertInv /\ [Next]_vars => [~alerts.stalled /\ alerts'.stalled => past.still >= StallRounds]_vars
  BY NextAlerts
<1> QED
  BY <1>1, AlertsHold, PTL DEF Spec, StallIsReal

-----------------------------------------------------------------------------
(***************************************************************************)
(* The round and the log.  What a round saw is the log of that moment; as  *)
(* long as no foreign change came, only newer records were added since.    *)
(***************************************************************************)
Truthful ==
    /\ \A r \in round.truth : r.v <= round.state.version
    /\ \E r \in round.truth : r.v = round.state.version
    /\ ~past.hidden => /\ round.truth \subseteq hub.log
                       /\ \A r \in hub.log \ round.truth : r.v > round.state.version

RoundWell ==
    /\ round.step \in {"decide", "catchup", "launch", "mark"} => round.state = snap.entry
    /\ round.step \in {"catchup", "launch", "mark"} => round.auto /\ Launchable(round.state)
    /\ round.step # "idle" /\ round.state # Absent => Truthful

LEMMA LaunchableIsThere ==
  \A e : Launchable(e) => e # Absent /\ ~e.attn /\ e.to \in Agents
BY Named DEF Launchable, autoGateReason, Absent

LEMMA Top ==
  ASSUME NEW log \in Logs, NEW clock \in Nat, LogWell(log, clock)
  PROVE  /\ latestRecordVersion(log) \in Nat /\ latestRecordVersion(log) >= 1
         /\ latestRecordVersion(log) <= clock
         /\ \A r \in log : r.v <= latestRecordVersion(log)
         /\ \E r \in log : r.v = latestRecordVersion(log)
<1>1. \A r \in log : r.v <= clock /\ r.v \in Nat
  BY DEF LogWell, Logs, LogRecs
<1>2. /\ latestRecordVersion(log) \in Nat /\ latestRecordVersion(log) <= clock
      /\ \A r \in log : r.v <= latestRecordVersion(log)
      /\ latestRecordVersion(log) = 0 \/ \E r \in log : r.v = latestRecordVersion(log)
  BY <1>1, VersionsOf
<1>3. latestRecordVersion(log) >= 1
  BY <1>1, <1>2 DEF LogWell
<1> QED
  BY <1>2, <1>3

LEMMA HubTop ==
  ASSUME HubWell
  PROVE  /\ Entry.version = latestRecordVersion(hub.log)
         /\ Entry.version \in Nat /\ Entry.version >= 1 /\ Entry.version <= hub.clock
         /\ \A r \in hub.log : r.v <= Entry.version
         /\ \E r \in hub.log : r.v = Entry.version
  BY Top, EntryTyped DEF HubWell, HubRecs

LEMMA RoundToLaunch ==
  ASSUME Typed, NEW l, NEW w, NEW readable, Finish(l, w, readable)
  PROVE  \/ round' = Idle
         \/ /\ \E v : round' = [round EXCEPT !.step = "launch", !.wake = v]
            /\ round.auto /\ Launchable(round.state) /\ run.seat = "free"
            /\ ~round.recovered
<1> DEFINE after == IF round.recovered \/ round.state = Absent THEN l ELSE LaneReady(l)
           wake == IF round.recovered THEN NoWake ELSE WakeReady(l, w)
           does == IF round.recovered \/ round.state = Absent THEN "nothing" ELSE Verdict(after, wake)
<1>1. round' = IF does = "launch" THEN [round EXCEPT !.step = "launch", !.wake = wake] ELSE Idle
  BY DEF Finish
<1>2. ASSUME does = "launch" PROVE round.auto /\ Launchable(round.state) /\ run.seat = "free" /\ ~round.recovered
  <2> HIDE DEF after, wake
  <2> QED
    BY <1>2 DEF Verdict
<1> HIDE DEF does, wake
<1> QED
  BY <1>1, <1>2

LEMMA NextRound ==
  ASSUME Typed, RoundWell, Next
  PROVE  RoundWell'
<1>0. /\ round \in RoundRecs /\ past \in PastRecs /\ HubWell /\ hub \in HubRecs /\ hub.log \in Logs
      /\ round.state \in Entries /\ round.state.version \in Nat
  BY DEF Typed, RoundRecs, HubWell, HubRecs, Entries
<1>1. ASSUME round' = Idle PROVE RoundWell'
  BY <1>1 DEF RoundWell, Idle
<1>2. CASE Fetch
  <2>1. /\ round'.step = "observe" /\ round'.truth = hub.log
        /\ round'.state = IF hub.place = "tasks" THEN Entry ELSE Absent
    BY <1>2 DEF Fetch, Idle
  <2>2. UNCHANGED hub
    BY <1>2 DEF Fetch
  <2>3. hub.place = "tasks" => Truthful'
    BY <1>0, <2>1, <2>2, HubTop DEF Truthful
  <2> QED
    BY <2>1, <2>3 DEF RoundWell
<1>3. CASE Observe
  <2>1. /\ round.step = "observe"
        /\ round'.state = round.state /\ round'.truth = round.truth /\ round'.auto = round.auto
        /\ round'.step \in {"decide", "catchup", "idle"}
        /\ round'.step = "catchup" => round.auto /\ Launchable(round.state)
        /\ snap'.entry = round.state
    BY <1>0, <1>3 DEF Observe, RoundRecs
  <2>2. UNCHANGED hub /\ past'.hidden = past.hidden
    BY <1>0, <1>3 DEF Observe, PastRecs
  <2>3. Truthful => Truthful'
    BY <2>1, <2>2 DEF Truthful
  <2> QED
    BY <2>1, <2>3 DEF RoundWell
<1>4. ASSUME round.step # "idle", round'.state = round.state, round'.truth = round.truth, round'.auto = round.auto,
             UNCHANGED snap, UNCHANGED hub, past'.hidden = past.hidden,
             round'.step \in {"decide", "catchup", "launch", "mark"} => round.step \in {"decide", "catchup", "launch", "mark"},
             round'.step \in {"catchup", "launch", "mark"} => round.auto /\ Launchable(round.state)
      PROVE  RoundWell'
  <2>1. Truthful => Truthful'
    BY <1>4 DEF Truthful
  <2> QED
    BY <1>4, <2>1 DEF RoundWell
<1>5. CASE Decide \/ DecideUnread \/ DecideReadFails
  <2>1. PICK l, w, readable : Finish(l, w, readable)
    BY <1>5, Decisions
  <2>2. UNCHANGED <<snap, hub>> /\ round.step = "decide"
    BY <1>5 DEF Decide, DecideUnread, DecideReadFails
  <2>3. past'.hidden = past.hidden
    BY <1>0, <2>1 DEF Finish, PastRecs
  <2>4. ASSUME NEW v, round' = [round EXCEPT !.step = "launch", !.wake = v], round.auto, Launchable(round.state)
        PROVE  RoundWell'
    <3>1. round'.state = round.state /\ round'.truth = round.truth /\ round'.auto = round.auto
      BY <1>0, <2>4 DEF RoundRecs
    <3> QED
      BY <1>4, <2>2, <2>3, <2>4, <3>1
  <2> QED
    BY <1>1, <2>1, <2>4, RoundToLaunch
<1>6. CASE CatchupDecides \/ LaunchPlans
  <2>1. UNCHANGED <<snap, hub>> /\ round.step \in {"catchup", "launch"}
    BY <1>6 DEF CatchupDecides, LaunchPlans
  <2>2. past'.hidden = past.hidden
    BY <1>0, <1>6 DEF CatchupDecides, LaunchPlans, PastRecs
  <2>3. ASSUME round' # Idle
        PROVE  round'.state = round.state /\ round'.truth = round.truth /\ round'.auto = round.auto
    BY <1>0, <1>6, <2>3 DEF CatchupDecides, LaunchPlans, RoundRecs
  <2>4. round.auto /\ Launchable(round.state)
    BY <2>1 DEF RoundWell
  <2>5. round' # Idle => RoundWell'
    BY <1>4, <2>1, <2>2, <2>3, <2>4
  <2> QED
    BY <1>1, <2>5
<1>7. CASE LaunchDropped \/ LaunchReadFails \/ MarkLands \/ MarkConflicts \/ Restart
  BY <1>1, <1>7 DEF LaunchDropped, LaunchReadFails, MarkLands, MarkConflicts, Restart
<1>8. ASSUME UNCHANGED <<round, snap>>, round.state # Absent /\ round.step # "idle" /\ Truthful => Truthful' PROVE RoundWell'
  BY <1>8 DEF RoundWell
<1>9. CASE StartSettles \/ RunEnds \/ StopRequested
  <2>1. UNCHANGED <<hub, snap, round, past>>
    BY <1>9 DEF StartSettles, RunEnds, StopRequested
  <2>2. Truthful => Truthful'
    BY <2>1 DEF Truthful
  <2> QED
    BY <1>8, <2>1, <2>2
<1>10. CASE PlaceChanges \/ ModeSwitches
  <2>1. UNCHANGED <<snap, round, past>> /\ hub'.log = hub.log
    BY <1>0, <1>10 DEF PlaceChanges, ModeSwitches, HubRecs
  <2>2. Truthful => Truthful'
    BY <2>1 DEF Truthful
  <2> QED
    BY <1>8, <2>1, <2>2
<1>11. CASE ForeignDuplicate \/ ForeignRewind
  <2>1. UNCHANGED <<snap, round>> /\ past' = [past EXCEPT !.hidden = TRUE]
    BY <1>11 DEF ForeignDuplicate, ForeignRewind
  <2>2. past'.hidden
    BY <1>0, <2>1 DEF PastRecs
  <2>3. Truthful => Truthful'
    BY <2>1, <2>2 DEF Truthful
  <2> QED
    BY <1>8, <2>1, <2>3
<1>12. CASE Publish
  <2>1. PICK k \in Kinds, to \in Tos : Append(k, to)
    BY <1>12, Named DEF Publish, Tos
  <2>2. UNCHANGED <<snap, round, past>>
    BY <1>12 DEF Publish
  <2> DEFINE r == Record(Entry.version + 1, k, to)
  <2>3. hub'.log = hub.log \cup {r}
    BY <1>0, <2>1 DEF Append, HubRecs
  <2>4. r.v = Entry.version + 1
    BY DEF Record
  <2> HIDE DEF r
  <2>5. Truthful => Truthful'
    <3> SUFFICES ASSUME Truthful, ~past.hidden
                 PROVE  \A x \in hub'.log \ round.truth : x.v > round.state.version
      BY <2>2, <2>3 DEF Truthful
    <3>1. round.state.version <= Entry.version
      BY <1>0, HubTop DEF Truthful
    <3>2. r.v > round.state.version
      BY <1>0, <2>4, <3>1, HubTop
    <3> QED
      BY <2>3, <3>2 DEF Truthful
  <2> QED
    BY <1>8, <2>2, <2>5
<1> QED
  BY <1>2, <1>3, <1>5, <1>6, <1>7, <1>9, <1>10, <1>11, <1>12 DEF Next, Round

-----------------------------------------------------------------------------
(***************************************************************************)
(* The cache and the log.  Unless a foreign change is still unseen, the    *)
(* cache is the log up to the cache's version; while one is unseen, it may *)
(* miss a duplicate of a version it has, or know of records that were      *)
(* taken back.  Both show in the next snapshot, and the cache is dropped   *)
(* then or when the attention clears.                                      *)
(***************************************************************************)
Doubled(x, log) == /\ \E y \in log : y # x /\ y.v = x.v
                   /\ ~\E a \in log : a.kind = "ack" /\ a.v > x.v

Exact(c, log) == /\ c.records = {r \in log : r.v <= c.version}
                 /\ c.version <= latestRecordVersion(log)

Off(c, log) == /\ c.records \subseteq log
               /\ c.version <= latestRecordVersion(log)
               /\ \A r \in log : r.v <= c.version /\ r \notin c.records => Doubled(r, log)

Ahead(c, log) == latestRecordVersion(log) < c.version

Agrees(c, log, hidden) == IF hidden THEN Off(c, log) \/ Ahead(c, log) ELSE Exact(c, log)

\* The entry that will make the next Observe drop the cache.
Shows(c) == /\ round.step = "observe" /\ round.state # Absent
            /\ round.state.version < c.version \/ round.state.attn

CacheTop == \/ cache = NoCache \/ cache.version = 0
            \/ \E r \in cache.records : r.v = cache.version

CacheSound == \/ cache = NoCache \/ Agrees(cache, hub.log, past.hidden)
              \/ snap.entry.attn \/ past.forgot \/ Shows(cache)

CacheInv ==
    /\ RoundWell /\ CacheTop /\ CacheSound
    /\ round.step = "mark" => cache # NoCache /\ cache.version <= round.base
    /\ past.reads

LEMMA ExactIsOff == \A c, log : Exact(c, log) => Off(c, log)
BY DEF Exact, Off

LEMMA AgreesIsOff == \A c, log, h : Agrees(c, log, h) => Agrees(c, log, TRUE)
BY ExactIsOff DEF Agrees

\* A record above all others.
LEMMA AgreesAdd ==
  ASSUME NEW log \in Logs, NEW clock \in Nat, LogWell(log, clock),
         NEW r \in LogRecs, LogWell(log \cup {r}, clock + 1), r.v > latestRecordVersion(log),
         NEW c \in CacheRecs, NEW hidden \in BOOLEAN, Agrees(c, log, hidden),
         hidden => r.kind # "ack" /\ ~Ahead(c, log)
  PROVE  Agrees(c, log \cup {r}, hidden)
<1> DEFINE t == latestRecordVersion(log)
           u == latestRecordVersion(log \cup {r})
<1>0. c.version \in Versions /\ r.v \in Nat /\ \A x \in log : x.v \in Nat
  BY DEF CacheRecs, Logs, LogRecs
<1>1. t \in Nat /\ \A x \in log : x.v <= t
  BY Top
<1>2. log \cup {r} \in Logs /\ clock + 1 \in Nat
  BY DEF Logs
<1>3. u \in Nat /\ \A x \in log \cup {r} : x.v <= u
  BY <1>2, Top
<1>4. t < r.v /\ r.v <= u
  BY <1>3
<1> HIDE DEF t, u
<1>5. c.version <= t => c.version <= u /\ ~(r.v <= c.version)
  BY <1>0, <1>1, <1>3, <1>4 DEF Versions
<1>6. CASE ~hidden
  <2>1. c.records = {x \in log : x.v <= c.version} /\ c.version <= t
    BY <1>6 DEF Agrees, Exact, t
  <2>2. c.records = {x \in log \cup {r} : x.v <= c.version} /\ c.version <= u
    BY <1>5, <2>1
  <2> QED
    BY <1>6, <2>2 DEF Agrees, Exact, u
<1>7. CASE hidden
  <2>1. Off(c, log)
    BY <1>7 DEF Agrees
  <2>2. c.version <= u /\ ~(r.v <= c.version)
    BY <1>5, <2>1 DEF Off, t
  <2>3. \A x \in log : x.v <= c.version => ~(r.v <= x.v)
    BY <1>0, <1>1, <1>4
  <2>4. \A x \in log : Doubled(x, log) => Doubled(x, log \cup {r})
    BY <1>7 DEF Doubled
  <2>5. Off(c, log \cup {r})
    BY <2>1, <2>2, <2>4 DEF Off, u
  <2> QED
    BY <1>7, <2>5 DEF Agrees
<1> QED
  BY <1>6, <1>7

\* A foreign file with a version already taken.
LEMMA AgreesDouble ==
  ASSUME NEW log \in Logs, NEW clock \in Nat, LogWell(log, clock),
         NEW r \in LogRecs, LogWell(log \cup {r}, clock + 1), r \notin log, r.kind # "ack",
         NEW x \in log, r.v = x.v, ~\E a \in log : a.kind = "ack" /\ a.v > x.v,
         NEW c \in CacheRecs, Agrees(c, log, TRUE)
  PROVE  Agrees(c, log \cup {r}, TRUE)
<1> DEFINE t == latestRecordVersion(log)
           u == latestRecordVersion(log \cup {r})
<1>0. c.version \in Versions /\ r.v \in Nat /\ \A y \in log : y.v \in Nat
  BY DEF CacheRecs, Logs, LogRecs
<1>1. t \in Nat /\ (\A y \in log : y.v <= t) /\ \E y \in log : y.v = t
  BY Top
<1>2. log \cup {r} \in Logs /\ clock + 1 \in Nat
  BY DEF Logs
<1>3. u \in Nat /\ (\A y \in log \cup {r} : y.v <= u) /\ \E y \in log \cup {r} : y.v = u
  BY <1>2, Top
<1>4. t = u
  <2>1. t <= u /\ u <= t
    BY <1>1, <1>3
  <2> HIDE DEF t, u
  <2> QED
    BY <1>1, <1>3, <2>1
<1>5. Ahead(c, log) => Ahead(c, log \cup {r})
  BY <1>4 DEF Ahead
<1>6. ASSUME Off(c, log) PROVE Off(c, log \cup {r})
  <2>1. Doubled(r, log \cup {r})
    BY DEF Doubled
  <2>2. \A y \in log : Doubled(y, log) => Doubled(y, log \cup {r})
    BY DEF Doubled
  <2>3. c.version <= u
    BY <1>4, <1>6 DEF Off
  <2> QED
    BY <1>6, <2>1, <2>2, <2>3 DEF Off
<1> QED
  BY <1>5, <1>6 DEF Agrees

\* The newest records are taken back.
LEMMA AgreesRewind ==
  ASSUME NEW log \in Logs, NEW clock \in Nat, LogWell(log, clock),
         NEW back, back = {r \in log : r.v < latestRecordVersion(log)}, LogWell(back, clock),
         NEW c \in CacheRecs, \A r \in c.records : r.v <= c.version, Agrees(c, log, TRUE)
  PROVE  Agrees(c, back, TRUE)
<1> DEFINE t == latestRecordVersion(log)
           u == latestRecordVersion(back)
<1>0. c.version \in Versions /\ (\A y \in log : y.v \in Nat) /\ back \in Logs
  BY DEF CacheRecs, Logs, LogRecs
<1>1. t \in Nat
  BY Top
<1>2. u \in Nat /\ \E y \in back : y.v = u
  BY <1>0, Top
<1>3. u < t
  BY <1>2
<1> HIDE DEF t, u
<1>4. CASE u < c.version
  BY <1>4 DEF Agrees, Ahead, u
<1>5. CASE ~(u < c.version)
  <2>1. c.version <= u /\ ~(t < c.version)
    BY <1>0, <1>1, <1>2, <1>3, <1>5 DEF Versions
  <2>2. Off(c, log)
    BY <2>1 DEF Agrees, Ahead, t
  <2>3. \A y \in log : y.v <= c.version => y \in back
    BY <1>0, <1>1, <1>2, <1>3, <2>1 DEF Versions, t
  <2>4. \A y \in back : y.v <= c.version /\ Doubled(y, log) => Doubled(y, back)
    BY <2>3 DEF Doubled
  <2>5. c.records \subseteq back
    BY <2>2, <2>3 DEF Off
  <2>6. back \subseteq log
    OBVIOUS
  <2>7. Off(c, back)
    BY <2>1, <2>2, <2>4, <2>5, <2>6 DEF Off, u
  <2> QED
    BY <2>7 DEF Agrees
<1> QED
  BY <1>4, <1>5

\* What a snapshot shows of a cache that disagrees.
LEMMA AgreesSeen ==
  ASSUME NEW log \in Logs, NEW clock \in Nat, LogWell(log, clock),
         NEW c \in CacheRecs, \A r \in c.records : r.v <= c.version, Agrees(c, log, TRUE)
  PROVE  Exact(c, log) \/ latestRecordVersion(log) < c.version \/ NeedsAttention(log)
<1>1. CASE Ahead(c, log)
  BY <1>1 DEF Ahead
<1>2. ASSUME Off(c, log), ~Exact(c, log) PROVE NeedsAttention(log)
  <2>1. PICK r \in log : (r.v <= c.version /\ r \notin c.records) \/ (r \in c.records /\ ~(r.v <= c.version))
    BY <1>2 DEF Off, Exact
  <2> QED
    BY <1>2, <2>1 DEF Off, Exact, Doubled, NeedsAttention
<1> QED
  BY <1>1, <1>2 DEF Agrees

\* Reading keeps a sound cache sound, and leaves it at the newest version read.
LEMMA ReadSound ==
  ASSUME Typed, NEW e \in Entries, NEW hidden \in BOOLEAN,
         cache = NoCache \/ Agrees(cache, hub.log, hidden)
  PROVE  Agrees(Remembered(e), hub.log, hidden)
<1>0. /\ hub.log \in Logs /\ hub.clock \in Nat /\ LogWell(hub.log, hub.clock)
      /\ cache \in CacheRecs /\ cache.version \in Versions
  BY DEF Typed, HubWell, HubRecs, CacheWell, CacheRecs
<1> DEFINE t == latestRecordVersion(hub.log)
<1>1. t \in Nat /\ (\A r \in hub.log : r.v <= t /\ r.v \in Nat)
  BY <1>0, Top DEF Logs, LogRecs
<1>2. CASE Quiet(e)
  BY <1>2 DEF Quiet, Remembered
<1>3. CASE ~Quiet(e)
  <2> DEFINE S == {IF cache = NoCache THEN 0 ELSE cache.version} \cup {r.v : r \in Pulled}
             V == Max(S)
             R == Remembered(e)
  <2>1. R.version = V /\ R.records = fullLog(e)
    BY <1>3 DEF Remembered
  <2>2. V \in S /\ V \in Nat /\ \A x \in S : x <= V
    BY Synced
  <2>3. /\ cache = NoCache => V = 0 \/ \E r \in hub.log : r.v = V
        /\ cache # NoCache => cache.version <= V /\ (V = cache.version \/ \E r \in hub.log : r.v = V /\ r.v > cache.version)
    BY <2>2 DEF Pulled
  <2>4. \A r \in Pulled : r.v <= V
    BY <2>2
  <2> HIDE DEF R, S, V, t
  <2>5. CASE cache = NoCache
    <3>1. R.records = hub.log /\ \A r \in hub.log : r.v <= V
      BY <1>3, <2>1, <2>4, <2>5 DEF fullLog, Pulled
    <3>2. V <= t
      BY <1>1, <2>2, <2>3, <2>5
    <3>3. Exact(R, hub.log)
      BY <2>1, <3>1, <3>2 DEF Exact, t
    <3> QED
      BY <3>3, ExactIsOff DEF Agrees, R
  <2>6. CASE cache # NoCache
    <3>1. R.records = cache.records \cup {r \in hub.log : r.v > cache.version}
      BY <1>3, <2>1, <2>6 DEF fullLog, Pulled
    <3>2. Pulled = {r \in hub.log : r.v > cache.version}
      BY <2>6 DEF Pulled
    <3>a. \A r \in hub.log : r.v <= V
      BY <1>0, <1>1, <2>2, <2>3, <2>4, <2>6, <3>2 DEF Versions
    <3>b. \A r \in hub.log : ~(r.v > cache.version) => r.v <= cache.version
      BY <1>0, <1>1 DEF Versions
    <3>3. ASSUME Exact(cache, hub.log) PROVE Exact(R, hub.log)
      <4>1. R.records = hub.log
        BY <3>1, <3>3, <3>b DEF Exact
      <4>2. V <= t
        BY <1>1, <2>2, <2>3, <2>6, <3>3 DEF Exact, t
      <4> QED
        BY <2>1, <3>a, <4>1, <4>2 DEF Exact, t
    <3>4. ASSUME Off(cache, hub.log) PROVE Off(R, hub.log)
      <4>1. V <= t
        BY <1>1, <2>2, <2>3, <2>6, <3>4 DEF Off, t
      <4>2. \A r \in hub.log : r \notin R.records => r.v <= cache.version /\ r \notin cache.records
        BY <3>1, <3>b
      <4> QED
        BY <2>1, <3>1, <3>4, <4>1, <4>2 DEF Off, t
    <3>5. ASSUME Ahead(cache, hub.log) PROVE Ahead(R, hub.log)
      <4>1. t < cache.version /\ cache.version <= V
        BY <2>3, <2>6, <3>5 DEF Ahead, t
      <4>2. t < V
        BY <1>0, <1>1, <2>2, <4>1 DEF Versions
      <4> QED
        BY <2>1, <4>2 DEF Ahead, t
    <3> QED
      BY <2>6, <3>3, <3>4, <3>5 DEF Agrees, R
  <2> QED
    BY <2>5, <2>6
<1> QED
  BY <1>2, <1>3

LEMMA ReadTop ==
  ASSUME Typed, NEW e \in Entries, CacheTop
  PROVE  /\ Remembered(e) # NoCache
         /\ Remembered(e).version = 0 \/ \E r \in fullLog(e) : r.v = Remembered(e).version
         /\ Remembered(e).version <= latestRecordVersion(fullLog(e))
         /\ cache # NoCache => cache.version <= Remembered(e).version
<1>0. Remembered(e).version \in Nat /\ Remembered(e) # NoCache /\ cache.version \in Versions
  BY RememberedWell, NoCacheIsWell, Named DEF Typed, CacheWell, CacheRecs
<1>1. /\ Remembered(e).version = 0 \/ \E r \in fullLog(e) : r.v = Remembered(e).version
      /\ cache # NoCache => cache.version <= Remembered(e).version
  <2>1. CASE Quiet(e)
    <3>1. Remembered(e) = cache /\ fullLog(e) = cache.records /\ cache # NoCache
      BY <2>1 DEF Quiet, Remembered, fullLog
    <3> QED
      BY <1>0, <3>1 DEF CacheTop
  <2>2. CASE ~Quiet(e)
    <3> DEFINE S == {IF cache = NoCache THEN 0 ELSE cache.version} \cup {r.v : r \in Pulled}
    <3>1. Remembered(e).version = Max(S)
      BY <2>2 DEF Remembered
    <3>2. Max(S) \in S /\ \A x \in S : x <= Max(S)
      BY Synced
    <3>3. Pulled \subseteq fullLog(e) /\ (cache # NoCache => cache.records \subseteq fullLog(e))
      BY <2>2 DEF fullLog
    <3>4. Remembered(e).version \in S /\ \A x \in S : x <= Remembered(e).version
      BY <3>1, <3>2
    <3> QED
      BY <1>0, <3>3, <3>4 DEF CacheTop
  <2> QED
    BY <2>1, <2>2
<1>2. latestRecordVersion(fullLog(e)) \in Nat /\ \A r \in fullLog(e) : r.v <= latestRecordVersion(fullLog(e))
  BY FullLogTyped, VersionsOf
<1> QED
  BY <1>0, <1>1, <1>2

LEMMA ReadWhole ==
  ASSUME Typed, RoundWell, round.step # "idle", round.state # Absent,
         cache = NoCache \/ Exact(cache, hub.log)
  PROVE  /\ WholeLog(fullLog(round.state))
         /\ fullLog(round.state) \subseteq hub.log
         /\ \A r \in hub.log : r.v <= round.state.version => r \in fullLog(round.state)
<1>0. /\ hub.log \in Logs /\ round.state.version \in Nat /\ cache.version \in Versions
      /\ \A r \in hub.log : r.v \in Nat
  BY DEF Typed, HubWell, HubRecs, RoundRecs, Entries, CacheWell, CacheRecs, Logs, LogRecs
<1>1. Truthful
  BY DEF RoundWell
<1>2. CASE ~Quiet(round.state)
  <2>1. fullLog(round.state) = hub.log
    <3>1. CASE cache = NoCache
      BY <1>2, <3>1 DEF fullLog, Pulled
    <3>2. CASE cache # NoCache
      <4>1. fullLog(round.state) = cache.records \cup {r \in hub.log : r.v > cache.version}
        BY <1>2, <3>2 DEF fullLog, Pulled
      <4>2. \A r \in hub.log : ~(r.v > cache.version) => r.v <= cache.version
        BY <1>0 DEF Versions
      <4> QED
        BY <3>2, <4>1, <4>2 DEF Exact
    <3> QED
      BY <3>1, <3>2
  <2> QED
    BY <2>1 DEF WholeLog
<1>3. CASE Quiet(round.state)
  <2>1. fullLog(round.state) = {r \in hub.log : r.v <= cache.version} /\ cache.version >= round.state.version
    BY <1>3 DEF fullLog, Quiet, Exact
  <2>2. \A r \in hub.log : r.v <= round.state.version => r.v <= cache.version
    BY <1>0, <2>1 DEF Versions
  <2> QED
    BY <1>1, <2>1, <2>2 DEF WholeLog, Truthful
<1> QED
  BY <1>2, <1>3

\* A step that neither reads nor changes the log.
LEMMA CacheFrame ==
  ASSUME CacheInv, RoundWell', UNCHANGED <<cache, snap>>, hub'.log = hub.log,
         past'.hidden = past.hidden, past'.forgot = past.forgot, past'.reads = past.reads,
         round' = round \/ (round.step # "observe" /\ round'.step # "mark")
  PROVE  CacheInv'
<1>1. CacheTop'
  BY DEF CacheInv, CacheTop
<1>2. CacheSound'
  <2>1. CASE Shows(cache)
    BY <2>1 DEF Shows, CacheSound
  <2>2. CASE ~Shows(cache)
    BY <2>2 DEF CacheInv, CacheSound
  <2> QED
    BY <2>1, <2>2
<1> QED
  BY <1>1, <1>2 DEF CacheInv

LEMMA CacheRead ==
  ASSUME Typed, CacheInv, RoundWell', cache' = Remembered(round.state), UNCHANGED <<hub, snap>>,
         past'.hidden = past.hidden, past'.forgot = past.forgot,
         round.step \in {"decide", "catchup", "launch"}, Launchable(round.state)
  PROVE  CacheTop' /\ CacheSound' /\ (cache = NoCache \/ Agrees(cache, hub.log, past.hidden) \/ past.forgot)
<1>0. round.state \in Entries /\ past.hidden \in BOOLEAN
  BY DEF Typed, RoundRecs, PastRecs
<1>1. ~snap.entry.attn
  BY LaunchableIsThere DEF CacheInv, RoundWell
<1>2. cache = NoCache \/ Agrees(cache, hub.log, past.hidden) \/ past.forgot
  BY <1>1 DEF CacheInv, CacheSound, Shows
<1>3. CacheTop'
  <2>1. Remembered(round.state).version = 0
        \/ \E r \in fullLog(round.state) : r.v = Remembered(round.state).version
    BY <1>0, ReadTop DEF CacheInv
  <2> QED
    BY <1>0, <2>1, RememberedWell DEF CacheTop
<1>4. CacheSound'
  BY <1>0, <1>2, ReadSound DEF CacheSound
<1> QED
  BY <1>2, <1>3, <1>4

LEMMA CacheObserve ==
  ASSUME Typed, CacheInv, RoundWell', Observe
  PROVE  CacheInv'
<1>0. round \in RoundRecs /\ past \in PastRecs /\ round.step = "observe" /\ cache \in CacheRecs
  BY DEF Typed, Observe, CacheWell
<1>1. cache' = reconcileLogCache(round.state, snap.entry, round.place # "gone")
  BY DEF Observe
<1>2. /\ UNCHANGED hub /\ snap'.entry = round.state
      /\ past'.hidden = past.hidden /\ past'.reads = past.reads
      /\ past'.forgot = (cache' # NoCache /\ ~round.state.attn
                         /\ (past.forgot \/ (snap.entry.attn /\ round.state = Absent)))
      /\ round'.step # "mark"
  BY <1>0 DEF Observe, PastRecs, RoundRecs
<1>3. cache' = NoCache \/ cache' = cache
  BY <1>1 DEF reconcileLogCache
<1>4. CASE cache' = NoCache
  BY <1>2, <1>4 DEF CacheInv, CacheTop, CacheSound
<1>5. CASE cache' = cache /\ cache # NoCache
  <2>1. ~Evicted(round.state, snap.entry, round.place # "gone")
    BY <1>1, <1>5 DEF reconcileLogCache
  <2>2. CASE Agrees(cache, hub.log, past.hidden)
    BY <1>2, <1>5, <2>2 DEF CacheInv, CacheTop, CacheSound
  <2>3. CASE snap.entry.attn \/ past.forgot
    <3>1. snap'.entry.attn \/ past'.forgot
      BY <1>2, <1>5, <2>1, <2>3 DEF Evicted
    <3> QED
      BY <1>2, <1>5, <3>1 DEF CacheInv, CacheTop, CacheSound
  <2>4. CASE Shows(cache)
    <3>1. cache.version \in Versions /\ round.state.version \in Nat
      BY <1>0 DEF CacheRecs, RoundRecs, Entries
    <3>2. round.state.attn
      BY <2>1, <2>4, <3>1 DEF Shows, Evicted, Versions
    <3> QED
      BY <1>2, <1>5, <3>2 DEF CacheInv, CacheTop, CacheSound
  <2> QED
    BY <1>5, <2>2, <2>3, <2>4 DEF CacheInv, CacheSound
<1> QED
  BY <1>3, <1>4, <1>5

LEMMA CacheFetch ==
  ASSUME Typed, CacheInv, RoundWell', Fetch
  PROVE  CacheInv'
<1>0. /\ past \in PastRecs /\ HubWell /\ hub.log \in Logs /\ hub.clock \in Nat /\ LogWell(hub.log, hub.clock)
      /\ cache \in CacheRecs /\ \A r \in cache.records : r.v <= cache.version
  BY DEF Typed, HubWell, HubRecs, CacheWell
<1>1. /\ UNCHANGED <<hub, cache, snap>> /\ past'.forgot = past.forgot /\ past'.reads = past.reads
      /\ past'.hidden = (past.hidden /\ hub.place # "tasks")
      /\ round'.step = "observe" /\ round.step = "idle"
      /\ round'.state = IF hub.place = "tasks" THEN Entry ELSE Absent
  BY <1>0 DEF Fetch, PastRecs, Idle
<1>2. CASE cache = NoCache \/ snap.entry.attn \/ past.forgot
  BY <1>1, <1>2 DEF CacheInv, CacheTop, CacheSound
<1>3. CASE Agrees(cache, hub.log, past.hidden)
  <2>1. CASE past'.hidden = past.hidden
    BY <1>1, <1>3, <2>1 DEF CacheInv, CacheTop, CacheSound
  <2>2. CASE past'.hidden # past.hidden
    <3>1. hub.place = "tasks" /\ ~past'.hidden
      BY <1>0, <1>1, <2>2 DEF PastRecs
    <3>2. round'.state # Absent /\ round'.state.version = latestRecordVersion(hub.log)
          /\ round'.state.attn = NeedsAttention(hub.log)
      BY <1>0, <1>1, <3>1, EntryTyped DEF Entry
    <3>3. Exact(cache, hub.log) \/ latestRecordVersion(hub.log) < cache.version \/ NeedsAttention(hub.log)
      BY <1>0, <1>3, AgreesIsOff, AgreesSeen
    <3>4. Agrees(cache, hub.log, past'.hidden) \/ Shows(cache)'
      BY <1>1, <3>1, <3>2, <3>3 DEF Agrees, Shows
    <3> QED
      BY <1>1, <3>4 DEF CacheInv, CacheTop, CacheSound
  <2> QED
    BY <2>1, <2>2
<1> QED
  BY <1>1, <1>2, <1>3 DEF CacheInv, CacheSound, Shows

\* A record arrives above all others.
LEMMA CacheArrival ==
  ASSUME Typed, CacheInv, RoundWell', NEW r, Arrives(r), r.v > latestRecordVersion(hub.log), HubWell',
         UNCHANGED <<cache, snap>>,
         past'.hidden = past.hidden, past'.forgot = past.forgot, past'.reads = past.reads,
         past.hidden => r.kind # "ack" /\ cache.version <= latestRecordVersion(hub.log),
         round' = round \/ (round.step # "observe" /\ round'.step # "mark")
  PROVE  CacheInv'
<1>0. /\ hub.log \in Logs /\ hub.clock \in Nat /\ LogWell(hub.log, hub.clock)
      /\ cache \in CacheRecs /\ past.hidden \in BOOLEAN /\ cache.version \in Versions
      /\ latestRecordVersion(hub.log) \in Nat
  BY Top DEF Typed, HubWell, HubRecs, CacheWell, PastRecs, CacheRecs
<1>1. r \in LogRecs /\ hub'.log = hub.log \cup {r} /\ LogWell(hub.log \cup {r}, hub.clock + 1)
  BY DEF Arrives, HubWell
<1>2. CacheTop'
  BY DEF CacheInv, CacheTop
<1>3. CASE Agrees(cache, hub.log, past.hidden)
  <2>1. past.hidden => r.kind # "ack" /\ ~Ahead(cache, hub.log)
    BY <1>0 DEF Ahead, Versions
  <2>2. Agrees(cache, hub.log \cup {r}, past.hidden)
    BY <1>0, <1>1, <1>3, <2>1, AgreesAdd
  <2>3. CacheSound'
    BY <1>1, <2>2 DEF CacheSound
  <2> QED
    BY <1>2, <2>3 DEF CacheInv
<1>4. CASE Shows(cache)
  <2>1. round' = round
    BY <1>4 DEF Shows
  <2> QED
    BY <1>2, <1>4, <2>1 DEF CacheInv, CacheSound, Shows
<1>5. CASE cache = NoCache \/ snap.entry.attn \/ past.forgot
  BY <1>2, <1>5 DEF CacheInv, CacheSound
<1> QED
  BY <1>3, <1>4, <1>5 DEF CacheInv, CacheSound

LEMMA CachePublish ==
  ASSUME Typed, CacheInv, RoundWell', Publish, HubWell', Unwatched = FALSE
  PROVE  CacheInv'
<1>1. PICK k \in Kinds, to \in Tos : Append(k, to)
  BY Named DEF Publish, Tos
<1> DEFINE r == Record(Entry.version + 1, k, to)
<1>2. Arrives(r)
  BY <1>1, AppendArrives DEF Typed
<1>3. r.v = Entry.version + 1
  BY DEF Record
<1>4. ~past.hidden /\ UNCHANGED <<cache, snap, round, past>>
  BY <1>1 DEF Append, Publish
<1> HIDE DEF r
<1>5. r.v > latestRecordVersion(hub.log)
  BY <1>3, HubTop DEF Typed
<1> QED
  BY <1>2, <1>4, <1>5, CacheArrival

LEMMA CacheMark ==
  ASSUME Typed, CacheInv, RoundWell', MarkLands, HubWell'
  PROVE  CacheInv'
<1>0. past \in PastRecs /\ hub \in HubRecs /\ HubWell /\ round \in RoundRecs
  BY DEF Typed, HubWell
<1> DEFINE r == Record(round.base + 1, "marker", round.state.to)
<1>1. r.v = round.base + 1 /\ r.kind = "marker"
  BY DEF Record
<1>2. /\ hub' = [hub EXCEPT !.log = hub.log \cup {r}, !.upd = hub.upd + 1, !.clock = hub.clock + 1]
      /\ latestRecordVersion(hub.log) = round.base /\ round.step = "mark"
      /\ UNCHANGED <<cache, snap>> /\ round' = Idle
  BY <1>0 DEF MarkLands, HubRecs
<1>3. round.base \in Nat /\ round.base + 1 >= 1 /\ round.base + 1 <= hub.clock + 1 /\ round.state.to \in Tos
      /\ round.base + 1 \in Nat
  BY <1>0, <1>2, HubTop DEF RoundRecs, Entries, HubRecs
<1>4. r \in LogRecs /\ r.v >= 1 /\ r.v <= hub.clock + 1 /\ r.at = hub.clock + 1
  BY <1>0, <1>3, RecordTyped, Named
<1> HIDE DEF r
<1>5. Arrives(r)
  BY <1>0, <1>2, <1>4, Added
<1>6. past'.hidden = past.hidden /\ past'.forgot = past.forgot /\ past'.reads = past.reads
  BY <1>0 DEF MarkLands, Told, PastRecs
<1>7. r.v > latestRecordVersion(hub.log) /\ cache.version <= latestRecordVersion(hub.log)
  BY <1>1, <1>2, <1>3 DEF CacheInv
<1>8. round'.step # "mark" /\ round.step # "observe" /\ r.kind # "ack"
  BY <1>1, <1>2 DEF Idle
<1> QED
  BY <1>2, <1>5, <1>6, <1>7, <1>8, CacheArrival

LEMMA CacheForeign ==
  ASSUME Typed, CacheInv, RoundWell', ForeignDuplicate \/ ForeignRewind, HubWell'
  PROVE  CacheInv'
<1>0. /\ past \in PastRecs /\ hub \in HubRecs /\ HubWell /\ hub.log \in Logs /\ hub.clock \in Nat
      /\ LogWell(hub.log, hub.clock) /\ cache \in CacheRecs /\ \A r \in cache.records : r.v <= cache.version
  BY DEF Typed, HubWell, HubRecs, CacheWell
<1>1. past' = [past EXCEPT !.hidden = TRUE] /\ UNCHANGED <<snap, round, cache>>
  BY DEF ForeignDuplicate, ForeignRewind
<1>2. past'.hidden = TRUE /\ past'.forgot = past.forgot /\ past'.reads = past.reads
  BY <1>0, <1>1 DEF PastRecs
<1>3. CacheTop'
  BY <1>1 DEF CacheInv, CacheTop
<1>4. ASSUME Agrees(cache, hub.log, TRUE) PROVE Agrees(cache, hub'.log, TRUE)
  <2>1. CASE ForeignDuplicate
    <3>1. PICK x \in hub.log, kind \in {"human", "marker"}, to \in Agents :
             /\ ~\E a \in hub.log : a.kind = "ack" /\ a.v > x.v
             /\ hub' = [hub EXCEPT !.log = hub.log \cup {Record(x.v, kind, to)}, !.clock = hub.clock + 1]
      BY <1>0, <2>1 DEF ForeignDuplicate, HubRecs
    <3> DEFINE r == Record(x.v, kind, to)
    <3>2. x.v \in Nat /\ x.v >= 1 /\ x.v <= hub.clock + 1
      BY <1>0 DEF Logs, LogRecs, LogWell
    <3>3. r \in LogRecs /\ r.v = x.v /\ r.kind # "ack" /\ r.at = hub.clock + 1
      BY <1>0, <3>2, RecordTyped, Named
    <3>4. hub'.log = hub.log \cup {r} /\ hub'.clock = hub.clock + 1
      BY <1>0, <3>1 DEF HubRecs
    <3> HIDE DEF r
    <3>5. LogWell(hub.log \cup {r}, hub.clock + 1)
      BY <3>4 DEF HubWell
    <3>6. r \notin hub.log
      BY <1>0, <3>3 DEF LogWell
    <3> QED
      BY <1>0, <1>4, <3>1, <3>3, <3>4, <3>5, <3>6, AgreesDouble
  <2>2. CASE ForeignRewind
    <3>1. hub'.log = {r \in hub.log : r.v < latestRecordVersion(hub.log)} /\ hub'.clock = hub.clock
      BY <1>0, <2>2, HubTop DEF ForeignRewind, HubRecs
    <3>2. LogWell(hub'.log, hub.clock)
      BY <3>1 DEF HubWell
    <3> QED
      BY <1>0, <1>4, <3>1, <3>2, AgreesRewind
  <2> QED
    BY <2>1, <2>2
<1>5. CacheSound'
  BY <1>1, <1>2, <1>4, AgreesIsOff DEF CacheInv, CacheSound, Shows
<1> QED
  BY <1>1, <1>2, <1>3, <1>5 DEF CacheInv

LEMMA NextCache ==
  ASSUME Typed, CacheInv, Next, Unwatched = FALSE
  PROVE  CacheInv'
<1>0. /\ past \in PastRecs /\ round \in RoundRecs /\ hub \in HubRecs /\ round.state \in Entries
      /\ HubWell'
  BY HubStays DEF Typed, HubWell, RoundRecs
<1>1. RoundWell'
  BY NextRound DEF CacheInv
<1>2. CASE Fetch
  BY <1>1, <1>2, CacheFetch
<1>3. CASE Observe
  BY <1>1, <1>3, CacheObserve
<1>4. CASE Decide
  <2>1. cache' = Remembered(round.state) /\ round.step = "decide" /\ Launchable(round.state)
        /\ UNCHANGED <<hub, snap>>
    BY <1>4 DEF Decide, Reads
  <2>2. PICK l, w, readable : Finish(l, w, readable)
    BY <1>4, Decisions
  <2>3. past'.hidden = past.hidden /\ past'.forgot = past.forgot /\ past'.reads = past.reads
    BY <1>0, <2>2 DEF Finish, PastRecs
  <2>4. round'.step # "mark"
    <3>1. \A v : round' = [round EXCEPT !.step = "launch", !.wake = v] => round'.step = "launch"
      BY <1>0 DEF RoundRecs
    <3>2. round' = Idle => round'.step = "idle"
      BY DEF Idle
    <3> QED
      BY <2>2, <3>1, <3>2, RoundToLaunch
  <2> QED
    BY <1>1, <2>1, <2>3, <2>4, CacheRead DEF CacheInv
<1>5. CASE DecideUnread \/ DecideReadFails
  <2>1. PICK l, w, readable : Finish(l, w, readable)
    BY <1>5, Decisions
  <2>2. past'.hidden = past.hidden /\ past'.forgot = past.forgot /\ past'.reads = past.reads
    BY <1>0, <2>1 DEF Finish, PastRecs
  <2>3. UNCHANGED <<hub, cache, snap>> /\ round.step = "decide"
    BY <1>5 DEF DecideUnread, DecideReadFails
  <2>4. round'.step # "mark"
    <3>1. \A v : round' = [round EXCEPT !.step = "launch", !.wake = v] => round'.step = "launch"
      BY <1>0 DEF RoundRecs
    <3>2. round' = Idle => round'.step = "idle"
      BY DEF Idle
    <3> QED
      BY <2>1, <3>1, <3>2, RoundToLaunch
  <2> QED
    BY <1>1, <2>2, <2>3, <2>4, CacheFrame
<1>6. CASE CatchupDecides
  <2>1. cache' = Remembered(round.state) /\ round.step = "catchup" /\ UNCHANGED <<hub, snap>>
    BY <1>6 DEF CatchupDecides
  <2>2. Launchable(round.state)
    BY <2>1 DEF CacheInv, RoundWell
  <2>3. past'.hidden = past.hidden /\ past'.forgot = past.forgot /\ past'.reads = past.reads
    BY <1>0, <1>6 DEF CatchupDecides, PastRecs
  <2>4. round'.step # "mark"
    <3>1. round' = [round EXCEPT !.step = "launch"] => round'.step = "launch"
      BY <1>0 DEF RoundRecs
    <3>2. round' = Idle => round'.step = "idle"
      BY DEF Idle
    <3> QED
      BY <1>6, <3>1, <3>2 DEF CatchupDecides
  <2> QED
    BY <1>1, <2>1, <2>2, <2>3, <2>4, CacheRead DEF CacheInv
<1>7. CASE LaunchPlans
  <2> DEFINE rs == fullLog(round.state)
  <2>1. cache' = Remembered(round.state) /\ round.step = "launch" /\ UNCHANGED <<hub, snap>>
    BY <1>7 DEF LaunchPlans
  <2>2. Launchable(round.state)
    BY <2>1 DEF CacheInv, RoundWell
  <2>3. past'.hidden = past.hidden /\ past'.forgot = past.forgot
    BY <1>0, <1>7 DEF LaunchPlans, PastRecs
  <2>4. CacheTop' /\ CacheSound' /\ (cache = NoCache \/ Agrees(cache, hub.log, past.hidden) \/ past.forgot)
    BY <1>1, <2>1, <2>2, <2>3, CacheRead
  <2>5. past'.reads = (past.reads /\ (past.hidden \/ past.forgot \/ WholeLog(rs)))
    BY <1>0, <1>7 DEF LaunchPlans, PastRecs
  <2>6. ASSUME ~past.hidden, ~past.forgot PROVE WholeLog(rs)
    <3>1. cache = NoCache \/ Exact(cache, hub.log)
      BY <2>4, <2>6 DEF Agrees
    <3>2. round.step # "idle" /\ round.state # Absent
      BY <2>1, <2>2, LaunchableIsThere
    <3> QED
      BY <3>1, <3>2, ReadWhole DEF CacheInv
  <2>7. past'.reads
    BY <1>0, <2>5, <2>6 DEF CacheInv, PastRecs
  <2>8. round'.step = "mark" => cache' # NoCache /\ cache'.version <= round'.base
    <3>1. Planned(rs).base = latestRecordVersion(rs)
      BY DEF Planned
    <3>2. round' = [round EXCEPT !.step = "mark", !.base = Planned(rs).base, !.human = onlineHumanVersion(lane)]
             => round'.base = Planned(rs).base
      BY <1>0 DEF RoundRecs
    <3>3. round' = Idle => round'.step # "mark"
      BY DEF Idle
    <3>4. cache' # NoCache /\ cache'.version <= latestRecordVersion(rs)
      BY <1>0, <2>1, ReadTop DEF CacheInv
    <3> HIDE DEF rs
    <3> QED
      BY <1>7, <3>1, <3>2, <3>3, <3>4 DEF LaunchPlans, rs
  <2> QED
    BY <1>1, <2>4, <2>7, <2>8 DEF CacheInv
<1>8. CASE LaunchDropped \/ LaunchReadFails \/ MarkConflicts
  <2>1. UNCHANGED <<hub, cache, snap>> /\ round' = Idle /\ round.step # "observe"
    BY <1>8 DEF LaunchDropped, LaunchReadFails, MarkConflicts
  <2>2. past'.hidden = past.hidden /\ past'.forgot = past.forgot /\ past'.reads = past.reads
    BY <1>0, <1>8 DEF LaunchDropped, LaunchReadFails, MarkConflicts, Told, PastRecs
  <2> QED
    BY <1>1, <2>1, <2>2, CacheFrame DEF Idle
<1>9. CASE MarkLands
  BY <1>0, <1>1, <1>9, CacheMark
<1>10. CASE StartSettles \/ RunEnds \/ StopRequested \/ PlaceChanges \/ ModeSwitches
  <2>1. UNCHANGED <<cache, snap, round, past>> /\ hub'.log = hub.log
    BY <1>0, <1>10 DEF StartSettles, RunEnds, StopRequested, PlaceChanges, ModeSwitches, HubRecs
  <2> QED
    BY <1>1, <2>1, CacheFrame
<1>11. CASE Publish
  BY <1>0, <1>1, <1>11, CachePublish
<1>12. CASE ForeignDuplicate \/ ForeignRewind
  BY <1>0, <1>1, <1>12, CacheForeign
<1>13. CASE Restart
  <2>1. cache' = NoCache /\ round' = Idle /\ past'.reads = past.reads
    BY <1>13 DEF Restart, NoneSoFar
  <2> QED
    BY <1>1, <2>1 DEF CacheInv, CacheTop, CacheSound, Idle
<1> QED
  BY <1>2, <1>3, <1>4, <1>5, <1>6, <1>7, <1>8, <1>9, <1>10, <1>11, <1>12, <1>13 DEF Next, Round

LEMMA InitCache == Init => CacheInv
BY DEF Init, CacheInv, RoundWell, CacheTop, CacheSound, NoneSoFar, Idle

LEMMA CacheStutters == CacheInv /\ UNCHANGED vars => CacheInv'
BY DEF vars, CacheInv, RoundWell, Truthful, CacheTop, CacheSound, Shows

LEMMA CacheHolds ==
  ASSUME Unwatched = FALSE
  PROVE  Spec => [](Typed /\ CacheInv)
<1>1. Typed /\ CacheInv /\ [Next]_vars => (Typed /\ CacheInv)'
  BY CacheStutters, NextTyped, StutterTyped, NextCache
<1> QED
  BY <1>1, InitTyped, InitCache, PTL DEF Spec

(* The launch gate judges the whole log whenever it reads, if foreign       *)
(* changes are followed up only after a poll has seen them, and no degraded *)
(* stay has made the Notifier forget one (log-cache.ts fullLog,             *)
(* reconcileLogCache).                                                      *)
THEOREM GateIsWellRead ==
  ASSUME Unwatched = FALSE
  PROVE  Spec => []GateReadsWholeLog
<1>1. CacheInv => GateReadsWholeLog
  BY DEF CacheInv, GateReadsWholeLog
<1> QED
  BY <1>1, CacheHolds, PTL

-----------------------------------------------------------------------------
(***************************************************************************)
(* Stops.  Once a round has seen the stop, no instruction from before it   *)
(* is remembered as one (HumanOk) or can still be scanned: the boundary    *)
(* keeps it out, or it lies at or below everything a scan can start from   *)
(* (LowOk).  A plan that reaches the marker was made on the very log the   *)
(* marker lands on (MarkOk).                                               *)
(***************************************************************************)
\* No instruction from before the stop that stands alone has version h.
HumanOk(h, log, stop) ==
    \A r \in log : IsHuman(r) /\ r.v = h /\ r.at < stop => \E y \in log : y # r /\ y.v = h

\* Whatever arrived before the stop is at or below version v.
Under(v, log, stop) == \A r \in log : r.at < stop => r.v <= v

LowOk ==
    /\ snap.entry # Absent => Under(snap.entry.version, hub.log, run.stop)
    /\ lane.scan # NoScan => Under(lane.scan.version, hub.log, run.stop)
    /\ round.step = "decide" /\ round.prev # Absent /\ round.state # Absent
          => Under(round.prev.version, hub.log, run.stop)

SeatWell ==
    /\ run.seat = "starting" => run.stop = 0
    /\ run.stop = 0 => ~run.stopSeen
    /\ run.stop > 0 => run.stopSeen \/ run.seat = "held"
    /\ run.stop <= hub.clock + 1
    /\ round.step \in {"launch", "mark"} => run.seat = "free"

\* What the cache still knows of a record taken back is older than what has its version now.
Phantoms(records, log) ==
    \A x \in records, r \in log : x \notin log /\ r.v = x.v => x.at < r.at

PhantomsOk == Phantoms(cache.records, hub.log) /\ \A x \in cache.records : x.at <= hub.clock

StopsSeen ==
    run.stopSeen =>
        /\ HumanOk(lane.human, hub.log, run.stop) /\ HumanOk(lane.pending.human, hub.log, run.stop)
        /\ lane.boundary = run.stop \/ LowOk
        /\ round.step = "observe" /\ round.state # Absent => Under(round.state.version, hub.log, run.stop)

MarkOk ==
    round.step = "mark" =>
        /\ round.human = onlineHumanVersion(lane)
        /\ ~past.hidden /\ ~past.forgot =>
              /\ round.base = round.state.version
              /\ ~headlessGeneration(round.truth, round.state.to, round.human)

StopInv == SeatWell /\ PhantomsOk /\ lane.boundary \in {0, run.stop} /\ StopsSeen /\ MarkOk

\* What a step can do to the log: add what is newer, or take back whole versions.
LEMMA LogSteps ==
  ASSUME Typed, Next
  PROVE  /\ \A r \in hub'.log : r \in hub.log \/ r.at = hub.clock + 1
         /\ \A r, y \in hub.log : r.v = y.v /\ r \in hub'.log => y \in hub'.log
         /\ hub'.clock \in Nat /\ hub'.clock >= hub.clock
<1>0. hub \in HubRecs /\ hub.clock \in Nat
  BY DEF Typed, HubWell, HubRecs
<1>1. CASE UNCHANGED hub
  BY <1>0, <1>1
<1>2. ASSUME NEW r, Arrives(r) PROVE hub'.log = hub.log \cup {r} /\ r.at = hub.clock + 1 /\ hub'.clock = hub.clock + 1
  BY <1>2 DEF Arrives
<1>3. CASE Rewinds
  BY <1>0, <1>3 DEF Rewinds, HubRecs
<1>4. CASE Moves
  BY <1>0, <1>4 DEF Moves, HubRecs
<1> QED
  BY <1>0, <1>1, <1>2, <1>3, <1>4, HubSteps

LEMMA NothingOld ==
  ASSUME Typed, SeatWell, Next
  PROVE  \A r \in hub'.log : r.at < run.stop => r \in hub.log
<1>1. run.stop \in Nat /\ hub.clock \in Nat /\ run.stop <= hub.clock + 1
  BY DEF Typed, RunRecs, HubWell, HubRecs, SeatWell
<1> QED
  BY <1>1, LogSteps

LEMMA HumanKept ==
  ASSUME Typed, SeatWell, Next
  PROVE  /\ \A h : HumanOk(h, hub.log, run.stop) => HumanOk(h, hub'.log, run.stop)
         /\ \A v : Under(v, hub.log, run.stop) => Under(v, hub'.log, run.stop)
<1>1. ASSUME NEW h, HumanOk(h, hub.log, run.stop) PROVE HumanOk(h, hub'.log, run.stop)
  <2> SUFFICES ASSUME NEW r \in hub'.log, IsHuman(r), r.v = h, r.at < run.stop
               PROVE  \E y \in hub'.log : y # r /\ y.v = h
    BY DEF HumanOk
  <2>1. r \in hub.log
    BY NothingOld
  <2>2. PICK y \in hub.log : y # r /\ y.v = h
    BY <1>1, <2>1 DEF HumanOk
  <2>3. y \in hub'.log
    BY <2>1, <2>2, LogSteps
  <2> QED
    BY <2>2, <2>3
<1>2. ASSUME NEW v, Under(v, hub.log, run.stop) PROVE Under(v, hub'.log, run.stop)
  BY <1>2, NothingOld DEF Under
<1> QED
  BY <1>1, <1>2

LEMMA NobodyIsFirst ==
  ASSUME Typed
  PROVE  HumanOk(0, hub.log, run.stop) /\ HumanOk(-1, hub.log, run.stop) /\ HumanOk(NoWake, hub.log, run.stop)
<1>1. \A r \in hub.log : r.v >= 1 /\ r.v \in Nat
  BY DEF Typed, HubWell, LogWell, HubRecs, Logs, LogRecs
<1> QED
  BY <1>1 DEF HumanOk, NoWake

LEMMA NextPhantoms ==
  ASSUME Typed, PhantomsOk, Next
  PROVE  PhantomsOk'
<1>0. /\ hub.log \in Logs /\ hub.clock \in Nat /\ LogWell(hub.log, hub.clock) /\ HubWell'
      /\ cache.records \in Logs /\ round.state \in Entries
  BY HubStays DEF Typed, HubWell, HubRecs, CacheWell, CacheRecs, RoundRecs
<1>a. \A x \in cache.records : x.at \in Nat
  BY <1>0 DEF Logs, LogRecs
<1>1. Phantoms(cache.records, hub'.log) /\ \A x \in cache.records : x.at <= hub'.clock
  <2>1. \A x \in cache.records : x.at <= hub.clock /\ x.at <= hub'.clock
    BY <1>0, <1>a, LogSteps DEF PhantomsOk
  <2>2. ASSUME NEW x \in cache.records, NEW r \in hub'.log, x \notin hub'.log, r.v = x.v PROVE x.at < r.at
    <3>1. CASE r \notin hub.log
      BY <1>0, <1>a, <2>1, <3>1, LogSteps
    <3>2. CASE r \in hub.log
      <4>1. x \notin hub.log
        BY <2>2, <3>2, LogSteps
      <4> QED
        BY <2>2, <3>2, <4>1 DEF PhantomsOk, Phantoms
    <3> QED
      BY <3>1, <3>2
  <2> QED
    BY <2>1, <2>2 DEF Phantoms
<1>2. CASE cache' = NoCache
  BY <1>2, NoCacheIsWell DEF PhantomsOk, Phantoms
<1>3. CASE UNCHANGED cache
  BY <1>1, <1>3 DEF PhantomsOk
<1>4. CASE cache' = Remembered(round.state) /\ UNCHANGED hub
  <2>1. cache'.records = fullLog(round.state)
    BY <1>0, <1>4, RememberedWell
  <2>2. fullLog(round.state) \subseteq cache.records \cup hub.log
    BY DEF fullLog, Pulled
  <2>3. \A x \in hub.log : x.at <= hub.clock
    BY <1>0 DEF LogWell
  <2> QED
    BY <1>4, <2>1, <2>2, <2>3 DEF PhantomsOk, Phantoms
<1>5. CASE Observe
  BY <1>2, <1>3, <1>5 DEF Observe, reconcileLogCache
<1> QED
  BY <1>2, <1>3, <1>4, <1>5 DEF Next, Round, Fetch, Decide, DecideUnread,
     DecideReadFails, CatchupDecides, LaunchDropped, LaunchPlans, LaunchReadFails, MarkLands, MarkConflicts,
     StartSettles, RunEnds, StopRequested, Publish, Append, ForeignDuplicate, ForeignRewind, PlaceChanges,
     ModeSwitches, Restart

LEMMA NextSeat ==
  ASSUME Typed, SeatWell, Next
  PROVE  SeatWell'
<1>0. /\ run \in RunRecs /\ run.stop \in Nat /\ run.stopSeen \in BOOLEAN /\ hub.clock \in Nat /\ round \in RoundRecs
      /\ hub'.clock \in Nat /\ hub'.clock >= hub.clock /\ hub \in HubRecs
  BY LogSteps DEF Typed, RunRecs, HubWell, HubRecs
<1>a. round' = Idle => round'.step = "idle"
  BY DEF Idle
<1>1. CASE UNCHANGED run /\ (round'.step \in {"launch", "mark"} => run.seat = "free")
  BY <1>0, <1>1 DEF SeatWell
<1>2. CASE Observe
  <2>1. /\ run'.stop = run.stop
        /\ run'.stopSeen <=> (run.stopSeen \/ (run.seat = "held" /\ run.stop > 0))
        /\ run'.seat = IF run.seat = "held" /\ run.done THEN "free" ELSE run.seat
    BY <1>0, <1>2 DEF Observe, SeatObserved, RunRecs
  <2>2. round'.step \in {"decide", "catchup", "idle"}
    BY <1>0, <1>2 DEF Observe, RoundRecs
  <2> QED
    BY <1>0, <2>1, <2>2 DEF SeatWell
<1>3. CASE MarkLands
  BY <1>0, <1>3 DEF MarkLands, SeatWell, FreshRun, Idle
<1>4. CASE StartSettles
  BY <1>0, <1>4 DEF StartSettles, SeatWell, FreshRun, RunRecs
<1>5. CASE RunEnds
  BY <1>0, <1>5 DEF RunEnds, SeatWell, RunRecs
<1>6. CASE StopRequested
  <2>1. run'.stop = hub.clock + 1 /\ run'.seat = "held" /\ run'.stopSeen = run.stopSeen /\ run.seat = "held"
        /\ UNCHANGED <<hub, round>>
    BY <1>0, <1>6 DEF StopRequested, RunRecs
  <2> QED
    BY <1>0, <2>1 DEF SeatWell
<1>7. CASE Restart
  <2>1. /\ run'.stop = run.stop /\ run'.stopSeen = (run.stop > 0)
        /\ run'.seat = (IF run.seat = "starting" THEN "held" ELSE run.seat)
        /\ round' = Idle /\ UNCHANGED hub
    BY <1>0, <1>7 DEF Restart, RunRecs
  <2> QED
    BY <1>0, <2>1 DEF SeatWell, Idle
<1>8. CASE Decide \/ DecideUnread \/ DecideReadFails
  <2>1. PICK l, w, readable : Finish(l, w, readable)
    BY <1>8, Decisions
  <2>2. UNCHANGED run
    BY <1>8 DEF Decide, DecideUnread, DecideReadFails
  <2> QED
    BY <1>1, <1>a, <2>1, <2>2, RoundToLaunch
<1>9. CASE CatchupDecides
  <2>1. UNCHANGED run /\ (round' = Idle \/ run.seat = "free")
    BY <1>9 DEF CatchupDecides
  <2> QED
    BY <1>1, <1>a, <2>1
<1>10. CASE LaunchPlans
  <2>1. UNCHANGED run /\ round.step = "launch"
    BY <1>10 DEF LaunchPlans
  <2> QED
    BY <1>1, <2>1 DEF SeatWell
<1>11. CASE Fetch \/ LaunchDropped \/ LaunchReadFails \/ MarkConflicts
  <2>1. UNCHANGED run
    BY <1>11 DEF Fetch, LaunchDropped, LaunchReadFails, MarkConflicts
  <2>2. Fetch => round'.step = "observe"
    BY DEF Fetch, Idle
  <2>3. ~Fetch => round' = Idle
    BY <1>11 DEF LaunchDropped, LaunchReadFails, MarkConflicts
  <2> QED
    BY <1>1, <1>a, <2>1, <2>2, <2>3
<1>12. CASE Publish \/ ForeignDuplicate \/ ForeignRewind \/ PlaceChanges \/ ModeSwitches
  <2>1. UNCHANGED <<run, round>>
    BY <1>12 DEF Publish, ForeignDuplicate, ForeignRewind, PlaceChanges, ModeSwitches
  <2> QED
    BY <1>1, <2>1 DEF SeatWell
<1> QED
  BY <1>2, <1>3, <1>4, <1>5, <1>6, <1>7, <1>8, <1>9, <1>10, <1>11, <1>12 DEF Next, Round

\* What the end of a decision makes of the lane it worked with.
LEMMA FinishLane ==
  ASSUME Typed, NEW l, LaneWell(l), NEW w, NEW readable, Finish(l, w, readable)
  PROVE  /\ lane'.boundary = l.boundary /\ lane'.scan = l.scan
         /\ lane'.human \in {l.human, l.pending.human}
         /\ lane'.pending.human \in {l.human, l.pending.human, -1, 0}
         /\ ~round.recovered /\ round.state # Absent => lane'.human = LaneReady(l).human
<1> DEFINE after == IF round.recovered \/ round.state = Absent THEN l ELSE LaneReady(l)
<1>1. l \in LaneRecs
  BY DEF LaneWell
<1>2. /\ LaneWell(after) /\ after.boundary = l.boundary /\ after.scan = l.scan
      /\ after.human \in {l.human, l.pending.human} /\ after.pending \in {l.pending, NoPending}
      /\ ~round.recovered /\ round.state # Absent => after.human = LaneReady(l).human
  BY ReadyWell
<1> DEFINE cand == Candidate(after)
<1>3. lane' \in {after, [after EXCEPT !.pending = cand], [after EXCEPT !.pending = NoPending]}
  BY DEF Finish
<1>4. cand \in Candidates /\ cand.human \in {0, after.human}
  BY <1>2, Online DEF LaneWell
<1>5. after \in LaneRecs /\ NoPending \in Candidates /\ NoPending.human = -1
  BY <1>2, FreshTyped DEF LaneWell, NoPending
<1> HIDE DEF after, cand
<1>6. ASSUME NEW p \in Candidates, lane' = [after EXCEPT !.pending = p]
      PROVE  lane'.boundary = after.boundary /\ lane'.scan = after.scan /\ lane'.human = after.human /\ lane'.pending = p
  BY <1>5, <1>6 DEF LaneRecs
<1>7. CASE lane' = after
  BY <1>2, <1>5, <1>7
<1>8. CASE lane' = [after EXCEPT !.pending = cand]
  BY <1>2, <1>4, <1>6, <1>8
<1>9. CASE lane' = [after EXCEPT !.pending = NoPending]
  BY <1>2, <1>5, <1>6, <1>9
<1> QED
  BY <1>3, <1>7, <1>8, <1>9

LEMMA ObserveLane ==
  ASSUME Typed, Observe
  PROVE  /\ round.state = Absent => /\ lane'.boundary = 0 /\ lane'.human = NoWake /\ lane'.pending = NoPending
                                    /\ lane'.scan = NoScan
         /\ round.state # Absent => /\ lane'.scan \in {lane.scan, NoScan}
                                    /\ StopObserved => /\ lane'.boundary = run.stop /\ lane'.human = NoWake
                                                       /\ lane'.pending = NoPending
                                    /\ ~StopObserved => /\ lane'.boundary = lane.boundary
                                                        /\ lane'.human = lane.human
                                                        /\ lane'.pending = lane.pending
<1> DEFINE l == LaneAfterStop
           m == IF round.state = Absent
                THEN [l EXCEPT !.pending = NoPending, !.human = NoWake, !.boundary = 0] ELSE l
<1>1. lane \in LaneRecs /\ run.stop \in Nat
  BY DEF Typed, LaneTyped, RunRecs
<1>2. /\ l \in LaneRecs /\ l.scan = lane.scan
      /\ StopObserved => l.boundary = run.stop /\ l.human = NoWake /\ l.pending = NoPending
      /\ ~StopObserved => l = lane
  BY <1>1, LaneObserved, FreshTyped, Named DEF LaneAfterStop, LaneWell, LaneRecs
<1> HIDE DEF l
<1>3. /\ m \in LaneRecs /\ m.scan = lane.scan
      /\ round.state = Absent => m.boundary = 0 /\ m.human = NoWake /\ m.pending = NoPending
      /\ round.state # Absent => m = l
  BY <1>2, FreshTyped, Named DEF LaneRecs
<1>4. lane' \in {m, [m EXCEPT !.scan = NoScan]}
  BY DEF Observe, ReconciledLane, l
<1>5. round.state = Absent /\ m.scan # NoScan => lane' = [m EXCEPT !.scan = NoScan]
  BY Named DEF Observe, ReconciledLane, l, Absent
<1> HIDE DEF m
<1>6. lane' = [m EXCEPT !.scan = NoScan] =>
         /\ lane'.scan = NoScan /\ lane'.boundary = m.boundary /\ lane'.human = m.human /\ lane'.pending = m.pending
  BY <1>3 DEF LaneRecs
<1> QED
  BY <1>2, <1>3, <1>4, <1>5, <1>6

\* A scan after the stop was seen finds no instruction from before it.
LEMMA ScanAfterStop ==
  ASSUME Typed, PhantomsOk, SeatWell, lane.boundary = run.stop \/ LowOk,
         round.step = "decide", round.state # Absent, Scans, HumanScanned(fullLog(round.state)) > 0
  PROVE  HumanOk(HumanScanned(fullLog(round.state)), hub.log, run.stop)
<1> DEFINE rs == fullLog(round.state)
           h == HumanScanned(rs)
<1>1. rs \in Logs /\ rs \subseteq cache.records \cup hub.log
  BY FullLogTyped DEF fullLog, Pulled
<1>2. PICK x \in rs : x.v = h /\ IsHuman(x) /\ x.at >= lane.boundary /\ InScan(x)
  BY <1>1, Found
<1>a. x.at \in Nat /\ x.v \in Nat /\ run.stop \in Nat /\ ScanFrom \in Nat
  BY <1>1 DEF Logs, LogRecs, Typed, RunRecs, LaneTyped, RoundRecs, Entries, ScanFrom
<1> HIDE DEF h, rs
<1>3. SUFFICES ASSUME NEW r \in hub.log, IsHuman(r), r.v = h, r.at < run.stop
               PROVE  \E y \in hub.log : y # r /\ y.v = h
  BY DEF HumanOk, h, rs
<1>b. r.at \in Nat /\ r.v \in Nat
  BY DEF Typed, HubWell, HubRecs, Logs, LogRecs
<1>4. CASE lane.boundary = run.stop
  <2>1. x.at >= run.stop
    BY <1>2, <1>4
  <2>2. ~(x.at < r.at)
    BY <1>3, <1>a, <1>b, <2>1
  <2>3. x \in hub.log
    BY <1>1, <1>2, <1>3, <2>2 DEF PhantomsOk, Phantoms
  <2>4. x # r
    BY <1>3, <1>a, <1>b, <2>1
  <2> QED
    BY <1>2, <2>3, <2>4
<1>5. CASE LowOk
  <2>1. r.v <= ScanFrom
    BY <1>3, <1>5 DEF LowOk, Under, ScanFrom, Scans
  <2>2. x.v > ScanFrom
    BY <1>2 DEF InScan
  <2> QED
    BY <1>2, <1>3, <1>a, <1>b, <2>1, <2>2
<1> QED
  BY <1>4, <1>5

StopLane == lane.boundary \in {0, run.stop} /\ StopsSeen

LEMMA StopFrame ==
  ASSUME Typed, SeatWell, StopLane, Next, UNCHANGED <<lane, snap>>, run'.stop = run.stop,
         run'.stopSeen = run.stopSeen,
         round' = round \/ round'.step \notin {"observe", "decide"}
  PROVE  StopLane'
<1>1. CASE ~run.stopSeen
  BY <1>1 DEF StopLane, StopsSeen
<1>2. CASE run.stopSeen
  <2>1. HumanOk(lane.human, hub'.log, run.stop) /\ HumanOk(lane.pending.human, hub'.log, run.stop)
    BY <1>2, HumanKept DEF StopLane, StopsSeen
  <2>2. LowOk => LowOk'
    <3> SUFFICES ASSUME LowOk PROVE LowOk'
      OBVIOUS
    <3>1. /\ snap.entry # Absent => Under(snap.entry.version, hub'.log, run.stop)
          /\ lane.scan # NoScan => Under(lane.scan.version, hub'.log, run.stop)
          /\ round.step = "decide" /\ round.prev # Absent /\ round.state # Absent
                => Under(round.prev.version, hub'.log, run.stop)
      BY HumanKept DEF LowOk
    <3> QED
      BY <3>1 DEF LowOk
  <2>3. round.step = "observe" /\ round.state # Absent => Under(round.state.version, hub'.log, run.stop)
    BY <1>2, HumanKept DEF StopLane, StopsSeen
  <2> QED
    BY <1>2, <2>1, <2>2, <2>3 DEF StopLane, StopsSeen
<1> QED
  BY <1>1, <1>2

LEMMA StopObserve ==
  ASSUME Typed, SeatWell, StopLane, Observe
  PROVE  StopLane'
<1>0. /\ run \in RunRecs /\ round \in RoundRecs /\ run.stop \in Nat /\ round.step = "observe"
  BY DEF Typed, RunRecs, Observe
<1>1. /\ run'.stop = run.stop /\ UNCHANGED hub
      /\ run'.stopSeen <=> (run.stopSeen \/ (run.seat = "held" /\ run.stop > 0))
  BY <1>0 DEF Observe, SeatObserved, RunRecs
<1>2. /\ round'.prev = snap.entry /\ round'.state = round.state /\ snap'.entry = round.state
      /\ round'.step # "observe"
  BY <1>0 DEF Observe, RoundRecs
<1>3. lane'.boundary \in {0, run'.stop}
  BY <1>1, ObserveLane DEF StopLane
<1>4. HumanOk(NoWake, hub.log, run.stop) /\ HumanOk(-1, hub.log, run.stop) /\ NoPending.human = -1
  BY NobodyIsFirst DEF NoPending
<1>5. CASE round.state = Absent
  <2>1. LowOk'
    BY <1>2, <1>5, ObserveLane DEF LowOk
  <2> QED
    BY <1>1, <1>2, <1>3, <1>4, <1>5, <2>1, ObserveLane DEF StopLane, StopsSeen
<1>6. CASE round.state # Absent /\ StopObserved
  BY <1>1, <1>2, <1>3, <1>4, <1>6, ObserveLane DEF StopLane, StopsSeen
<1>7. CASE round.state # Absent /\ ~StopObserved
  <2>1. run'.stopSeen => run.stopSeen
    BY <1>1, <1>7 DEF StopObserved
  <2>2. lane'.boundary = lane.boundary /\ lane'.human = lane.human /\ lane'.pending = lane.pending
        /\ lane'.scan \in {lane.scan, NoScan}
    BY <1>7, ObserveLane
  <2>3. ASSUME run.stopSeen PROVE LowOk => LowOk'
    <3>1. Under(round.state.version, hub.log, run.stop)
      BY <1>0, <1>7, <2>3 DEF StopLane, StopsSeen
    <3> QED
      BY <1>1, <1>2, <2>2, <3>1 DEF LowOk
  <2>4. ASSUME run.stopSeen
        PROVE  HumanOk(lane.human, hub.log, run.stop) /\ HumanOk(lane.pending.human, hub.log, run.stop)
               /\ (lane.boundary = run.stop \/ LowOk)
    BY <2>4 DEF StopLane, StopsSeen
  <2> QED
    BY <1>1, <1>2, <1>3, <2>1, <2>2, <2>3, <2>4 DEF StopLane, StopsSeen
<1> QED
  BY <1>5, <1>6, <1>7

\* The lane a decision works with.
LEMMA StopDecision ==
  ASSUME Typed, SeatWell, PhantomsOk, StopLane, Decide \/ DecideUnread \/ DecideReadFails
  PROVE  StopLane'
<1>1. PICK l, w, readable :
            /\ LaneWell(l) /\ w \in Versions /\ readable \in BOOLEAN
            /\ Finish(l, w, readable)
            /\ \/ /\ Decide /\ readable = TRUE
                  /\ l = LaneScanned(fullLog(round.state))
                  /\ w = IF Scans THEN WakeKept(l, NoteWakeOf(fullLog(round.state))) ELSE NoWake
               \/ DecideUnread /\ readable = TRUE /\ l = lane /\ w = NoWake
               \/ /\ DecideReadFails /\ readable = FALSE /\ w = NoWake
                  /\ l = IF Scans THEN [lane EXCEPT !.scan = [version |-> ScanFrom, to |-> round.state.to]]
                         ELSE lane
  BY Decisions
<1>2. UNCHANGED <<hub, run, snap>> /\ round.step = "decide"
  BY DEF Decide, DecideUnread, DecideReadFails
<1>3. /\ lane'.boundary = l.boundary /\ lane'.scan = l.scan
      /\ lane'.human \in {l.human, l.pending.human}
      /\ lane'.pending.human \in {l.human, l.pending.human, -1, 0}
  BY <1>1, FinishLane
<1>4. round'.step \notin {"decide", "observe"}
  <2>1. \A v : round' = [round EXCEPT !.step = "launch", !.wake = v] => round'.step = "launch"
    BY DEF Typed, RoundRecs
  <2>2. round' = Idle => round'.step = "idle"
    BY DEF Idle
  <2> QED
    BY <1>1, <2>1, <2>2, RoundToLaunch
<1>5. lane \in LaneRecs
  BY DEF Typed, LaneTyped
<1>6. Reads => round.state # Absent
  BY LaunchableIsThere DEF Reads
<1>7. l.boundary = lane.boundary /\ l.pending = lane.pending
  <2>1. LaneScanned(fullLog(round.state)).boundary = lane.boundary
        /\ LaneScanned(fullLog(round.state)).pending = lane.pending
    BY <1>5 DEF LaneScanned, LaneRecs
  <2>2. \A s : [lane EXCEPT !.scan = s].boundary = lane.boundary /\ [lane EXCEPT !.scan = s].pending = lane.pending
    BY <1>5 DEF LaneRecs
  <2> QED
    BY <1>1, <2>1, <2>2
<1>8. ASSUME run.stopSeen, LowOk PROVE LowOk'
  <2>1. l.scan # NoScan => Under(l.scan.version, hub.log, run.stop)
    <3>1. CASE l = LaneScanned(fullLog(round.state))
      <4>1. LaneScanned(fullLog(round.state)).scan = NoScan
        BY <1>5 DEF LaneScanned, LaneRecs
      <4> QED
        BY <3>1, <4>1
    <3>2. CASE l = lane
      BY <1>8, <3>2 DEF LowOk
    <3>3. CASE DecideReadFails /\ Scans /\ l = [lane EXCEPT !.scan = [version |-> ScanFrom, to |-> round.state.to]]
      <4>1. l.scan.version = ScanFrom
        BY <1>5, <3>3 DEF LaneRecs
      <4>2. Under(ScanFrom, hub.log, run.stop)
        BY <1>2, <1>6, <1>8, <3>3 DEF LowOk, ScanFrom, Scans, DecideReadFails
      <4> QED
        BY <4>1, <4>2
    <3> QED
      BY <1>1, <3>1, <3>2, <3>3
  <2> QED
    BY <1>2, <1>3, <1>4, <1>8, <2>1 DEF LowOk
<1>9. ASSUME run.stopSeen PROVE HumanOk(l.human, hub.log, run.stop)
  <2>1. HumanOk(lane.human, hub.log, run.stop) /\ HumanOk(NoWake, hub.log, run.stop)
        /\ (lane.boundary = run.stop \/ LowOk)
    BY <1>9, NobodyIsFirst DEF StopLane, StopsSeen
  <2>2. CASE Decide /\ l = LaneScanned(fullLog(round.state))
    <3>1. l.human = IF ~Scans THEN lane.human
                    ELSE IF HumanScanned(fullLog(round.state)) > 0 THEN HumanScanned(fullLog(round.state))
                    ELSE IF lane.pending = NoPending THEN NoWake ELSE lane.human
      BY <1>5, <2>2 DEF LaneScanned, LaneRecs
    <3>2. Scans /\ HumanScanned(fullLog(round.state)) > 0
             => HumanOk(HumanScanned(fullLog(round.state)), hub.log, run.stop)
      BY <1>2, <1>6, <2>1, <2>2, ScanAfterStop DEF Decide
    <3> QED
      BY <2>1, <3>1, <3>2
  <2>3. CASE l = lane
    BY <2>1, <2>3
  <2>4. CASE l = [lane EXCEPT !.scan = [version |-> ScanFrom, to |-> round.state.to]]
    <3>1. l.human = lane.human
      BY <1>5, <2>4 DEF LaneRecs
    <3> QED
      BY <2>1, <3>1
  <2> QED
    BY <1>1, <2>2, <2>3, <2>4
<1>10. ASSUME run.stopSeen
       PROVE  HumanOk(lane'.human, hub.log, run.stop) /\ HumanOk(lane'.pending.human, hub.log, run.stop)
  <2>1. HumanOk(lane.pending.human, hub.log, run.stop)
    BY <1>10 DEF StopLane, StopsSeen
  <2> QED
    BY <1>3, <1>7, <1>9, <1>10, <2>1, NobodyIsFirst
<1>11. CASE ~run.stopSeen
  BY <1>2, <1>3, <1>7, <1>11 DEF StopLane, StopsSeen
<1>12. CASE run.stopSeen
  <2>1. lane'.boundary = run.stop \/ LowOk'
    BY <1>3, <1>7, <1>8, <1>12 DEF StopLane, StopsSeen
  <2> QED
    BY <1>2, <1>3, <1>4, <1>7, <1>10, <1>12, <2>1 DEF StopLane, StopsSeen
<1> QED
  BY <1>11, <1>12

LEMMA NextStopLane ==
  ASSUME Typed, SeatWell, PhantomsOk, StopLane, Next
  PROVE  StopLane'
<1>0. /\ run \in RunRecs /\ round \in RoundRecs /\ lane \in LaneRecs /\ hub \in HubRecs /\ HubWell
      /\ run.stop \in Nat /\ run.stopSeen \in BOOLEAN
  BY DEF Typed, LaneTyped, HubWell, RunRecs
<1>a. round' = Idle => round'.step = "idle"
  BY DEF Idle
<1>1. CASE Fetch
  <2>1. /\ UNCHANGED <<hub, run, snap, lane>> /\ round'.step = "observe"
        /\ round'.state = IF hub.place = "tasks" THEN Entry ELSE Absent
    BY <1>1 DEF Fetch, Idle
  <2>2. Under(Entry.version, hub.log, run.stop)
    BY <1>0, HubTop DEF Under
  <2>3. LowOk => LowOk'
    BY <2>1 DEF LowOk
  <2> QED
    BY <2>1, <2>2, <2>3 DEF StopLane, StopsSeen
<1>2. CASE Observe
  BY <1>2, StopObserve
<1>3. CASE Decide \/ DecideUnread \/ DecideReadFails
  BY <1>3, StopDecision
<1>4. CASE CatchupDecides
  <2>1. /\ UNCHANGED <<hub, run, snap>> /\ round'.step \notin {"observe", "decide"}
    <3>1. round' = [round EXCEPT !.step = "launch"] => round'.step = "launch"
      BY <1>0 DEF RoundRecs
    <3> QED
      BY <1>4, <1>a, <3>1 DEF CatchupDecides
  <2>2. lane' = lane \/ lane' = [lane EXCEPT !.pending = Candidate(lane)]
    BY <1>4 DEF CatchupDecides
  <2>3. /\ lane'.boundary = lane.boundary /\ lane'.scan = lane.scan /\ lane'.human = lane.human
        /\ lane'.pending.human \in {lane.pending.human, lane.human, 0}
    BY <1>0, <2>2, Online DEF LaneRecs
  <2>4. LowOk => LowOk'
    BY <2>1, <2>3 DEF LowOk
  <2> QED
    BY <2>1, <2>3, <2>4, NobodyIsFirst DEF StopLane, StopsSeen
<1>5. CASE MarkLands
  <2>1. lane'.boundary = 0 /\ run'.stop = 0 /\ ~run'.stopSeen
    BY <1>0, <1>5 DEF MarkLands, LaneRecs, FreshRun
  <2> QED
    BY <2>1 DEF StopLane, StopsSeen
<1>6. CASE StartSettles
  <2>1. run.stop = 0 /\ run'.stop = 0 /\ ~run'.stopSeen /\ UNCHANGED lane
    BY <1>0, <1>6 DEF StartSettles, SeatWell, FreshRun, RunRecs
  <2> QED
    BY <2>1 DEF StopLane, StopsSeen
<1>7. CASE StopRequested
  <2>1. run.stop = 0 /\ ~run'.stopSeen /\ UNCHANGED lane
    BY <1>0, <1>7 DEF StopRequested, SeatWell, RunRecs
  <2> QED
    BY <2>1 DEF StopLane, StopsSeen
<1>8. CASE Restart
  <2>1. run'.stop = run.stop /\ UNCHANGED hub
    BY <1>0, <1>8 DEF Restart, RunRecs
  <2>2. lane' = FreshLane /\ snap'.entry = Absent /\ round' = Idle
    BY <1>8 DEF Restart
  <2>3. lane'.boundary = 0 /\ lane'.human = NoWake /\ lane'.pending.human = -1 /\ lane'.scan = NoScan
    BY <2>2 DEF FreshLane, NoPending
  <2>4. LowOk'
    BY <1>a, <2>2, <2>3 DEF LowOk
  <2> QED
    BY <1>a, <2>1, <2>2, <2>3, <2>4, NobodyIsFirst DEF StopLane, StopsSeen
<1>9. CASE RunEnds
  <2>1. run'.stop = run.stop /\ run'.stopSeen = run.stopSeen /\ UNCHANGED <<lane, snap, round>>
    BY <1>0, <1>9 DEF RunEnds, RunRecs
  <2> QED
    BY <2>1, StopFrame
<1>10. CASE LaunchDropped \/ LaunchReadFails \/ MarkConflicts
  <2>1. UNCHANGED <<run, lane, snap>> /\ round' = Idle
    BY <1>10 DEF LaunchDropped, LaunchReadFails, MarkConflicts
  <2> QED
    BY <1>a, <2>1, StopFrame
<1>11. CASE LaunchPlans
  <2>1. UNCHANGED <<run, lane, snap>>
    BY <1>11 DEF LaunchPlans
  <2>2. round'.step \notin {"observe", "decide"}
    <3>1. \A b, h : round' = [round EXCEPT !.step = "mark", !.base = b, !.human = h] => round'.step = "mark"
      BY <1>0 DEF RoundRecs
    <3> QED
      BY <1>11, <1>a, <3>1 DEF LaunchPlans
  <2> QED
    BY <2>1, <2>2, StopFrame
<1>12. CASE Publish \/ ForeignDuplicate \/ ForeignRewind \/ PlaceChanges \/ ModeSwitches
  <2>1. UNCHANGED <<run, lane, snap, round>>
    BY <1>12 DEF Publish, ForeignDuplicate, ForeignRewind, PlaceChanges, ModeSwitches
  <2> QED
    BY <2>1, StopFrame
<1> QED
  BY <1>1, <1>2, <1>3, <1>4, <1>5, <1>6, <1>7, <1>8, <1>9, <1>10, <1>11, <1>12 DEF Next, Round

LEMMA NextMark ==
  ASSUME Typed, CacheInv, SeatWell, MarkOk, Next
  PROVE  MarkOk'
<1>0. /\ round \in RoundRecs /\ past \in PastRecs /\ hub.log \in Logs /\ lane \in LaneRecs
      /\ onlineHumanVersion(lane) \in Nat
  BY Online DEF Typed, HubWell, HubRecs, LaneTyped
<1>1. CASE LaunchPlans
  <2> DEFINE rs == fullLog(round.state)
  <2>1. /\ UNCHANGED lane /\ round.step = "launch"
        /\ round' = IF Planned(rs).ok
                    THEN [round EXCEPT !.step = "mark", !.base = Planned(rs).base, !.human = onlineHumanVersion(lane)]
                    ELSE Idle
    BY <1>1 DEF LaunchPlans
  <2>2. past'.hidden = past.hidden /\ past'.forgot = past.forgot
    BY <1>0, <1>1 DEF LaunchPlans, PastRecs
  <2>3. SUFFICES ASSUME round'.step = "mark" PROVE MarkOk'
    BY DEF MarkOk
  <2>4. /\ Planned(rs).ok
        /\ round'.base = Planned(rs).base /\ round'.human = onlineHumanVersion(lane)
        /\ round'.state = round.state /\ round'.truth = round.truth
    <3>1. Planned(rs).ok
      <4> HIDE DEF rs
      <4> QED
        BY <2>1, <2>3 DEF Idle
    <3> HIDE DEF rs
    <3> QED
      BY <1>0, <2>1, <3>1 DEF RoundRecs
  <2>5. /\ ~headlessGeneration(rs, round.state.to, onlineHumanVersion(lane))
        /\ latestRecordVersion(rs) = round.state.version
        /\ Planned(rs).base = round.state.version
    <3> HIDE DEF rs
    <3> QED
      BY <2>4 DEF Planned
  <2>6. ASSUME ~past.hidden, ~past.forgot PROVE rs = round.truth
    <3>1. Launchable(round.state) /\ round.state = snap.entry /\ RoundWell
      BY <2>1 DEF CacheInv, RoundWell
    <3>2. round.state # Absent /\ ~snap.entry.attn
      BY <3>1, LaunchableIsThere
    <3>3. cache = NoCache \/ Exact(cache, hub.log)
      BY <2>1, <2>6, <3>2 DEF CacheInv, CacheSound, Agrees, Shows
    <3>4. /\ rs \subseteq hub.log
          /\ \A r \in hub.log : r.v <= round.state.version => r \in rs
      BY <2>1, <3>1, <3>2, <3>3, ReadWhole
    <3>5. Truthful
      BY <2>1, <3>1, <3>2 DEF RoundWell
    <3>6. \A r \in rs : r.v <= round.state.version /\ r.v \in Nat
      <4>1. rs \in Logs /\ \E b \in Nat : \A r \in rs : r.v <= b
        BY FullLogTyped
      <4> HIDE DEF rs
      <4> QED
        BY <2>5, <4>1, VersionsOf DEF Logs, LogRecs
    <3>7. round.state.version \in Nat
      BY <1>0 DEF RoundRecs, Entries
    <3> HIDE DEF rs
    <3>8. rs \subseteq round.truth
      BY <2>6, <3>4, <3>5, <3>6, <3>7 DEF Truthful
    <3>9. round.truth \subseteq rs
      BY <2>6, <3>4, <3>5 DEF Truthful
    <3> QED
      BY <3>8, <3>9
  <2> HIDE DEF rs
  <2> QED
    BY <2>1, <2>2, <2>4, <2>5, <2>6 DEF MarkOk
<1>2. ASSUME round'.step # "mark" PROVE MarkOk'
  BY <1>2 DEF MarkOk
<1>3. CASE StartSettles \/ RunEnds \/ StopRequested \/ Publish \/ PlaceChanges \/ ModeSwitches
  <2>1. UNCHANGED <<lane, round, past>>
    BY <1>3 DEF StartSettles, RunEnds, StopRequested, Publish, PlaceChanges, ModeSwitches
  <2> QED
    BY <2>1 DEF MarkOk
<1>4. CASE ForeignDuplicate \/ ForeignRewind
  <2>1. UNCHANGED <<lane, round>> /\ past' = [past EXCEPT !.hidden = TRUE]
    BY <1>4 DEF ForeignDuplicate, ForeignRewind
  <2>2. past'.hidden
    BY <1>0, <2>1 DEF PastRecs
  <2> QED
    BY <2>1, <2>2 DEF MarkOk
<1>5. CASE Fetch
  <2>1. round'.step = "observe"
    BY <1>5 DEF Fetch, Idle
  <2> QED
    BY <1>2, <2>1
<1>6. CASE Observe
  <2>1. round'.step \in {"decide", "catchup", "idle"}
    BY <1>0, <1>6 DEF Observe, RoundRecs
  <2> QED
    BY <1>2, <2>1
<1>7. CASE Decide \/ DecideUnread \/ DecideReadFails
  <2>1. PICK l, w, readable : Finish(l, w, readable)
    BY <1>7, Decisions
  <2>2. \A v : round' = [round EXCEPT !.step = "launch", !.wake = v] => round'.step = "launch"
    BY <1>0 DEF RoundRecs
  <2>3. round' = Idle => round'.step = "idle"
    BY DEF Idle
  <2> QED
    BY <1>2, <2>1, <2>2, <2>3, RoundToLaunch
<1>8. CASE CatchupDecides
  <2>1. round' = [round EXCEPT !.step = "launch"] => round'.step = "launch"
    BY <1>0 DEF RoundRecs
  <2>2. round' = Idle => round'.step = "idle"
    BY DEF Idle
  <2> QED
    BY <1>2, <1>8, <2>1, <2>2 DEF CatchupDecides
<1>9. CASE LaunchDropped \/ LaunchReadFails \/ MarkLands \/ MarkConflicts \/ Restart
  <2>1. round' = Idle
    BY <1>9 DEF LaunchDropped, LaunchReadFails, MarkLands, MarkConflicts, Restart
  <2>2. round'.step = "idle"
    BY <2>1 DEF Idle
  <2> QED
    BY <1>2, <2>2
<1> QED
  BY <1>1, <1>3, <1>4, <1>5, <1>6, <1>7, <1>8, <1>9 DEF Next, Round

\* A role that is not blocked was handed the task, or asked for, above all its markers.
LEMMA Unblocked ==
  ASSUME NEW log \in Logs, NEW clock \in Nat, LogWell(log, clock), NEW to, NEW h,
         ~headlessGeneration(log, to, h)
  PROVE  \/ \E r \in log : r.kind = "work" /\ \A m \in log : m.kind = "marker" /\ m.to = to => m.v <= r.v
         \/ \E r \in log : IsHuman(r) /\ r.v = h /\ \A y \in log : y.v = h => y = r
<1> DEFINE wake == IF \E r \in log : r.v = h /\ IsHuman(r) THEN h ELSE NoWake
           candidates == {r \in log : r.v = wake}
           W == {r.v : r \in {x \in log : x.kind = "work"}}
           N == {r.v : r \in {x \in candidates : Cardinality(candidates) = 1 /\ isWakeNote(x)}}
           S == {0} \cup W \cup N
<1>0. \A r \in log : r.v \in Nat /\ r.v >= 1 /\ r.v <= clock
  BY DEF Logs, LogRecs, LogWell
<1>1. ~launchBlocked(log, to, wake)
  BY DEF headlessGeneration
<1>2. \A m \in log : m.kind = "marker" /\ m.to = to => ~(m.v > Max(S))
  BY <1>1 DEF launchBlocked
<1>3. S \in SUBSET Nat /\ S # {} /\ \A x \in S : x <= clock
  <2>1. W \in SUBSET Nat /\ (\A x \in W : x <= clock)
    BY <1>0
  <2>2. N \in SUBSET Nat /\ (\A x \in N : x <= clock)
    BY <1>0
  <2> HIDE DEF W, N
  <2> QED
    BY <2>1, <2>2
<1>4. 1 \in W
  BY DEF LogWell
<1>5. Max(S) \in S /\ \A x \in S : x <= Max(S)
  <2> HIDE DEF S
  <2> QED
    BY <1>3, Greatest
<1>6. Max(S) \in Nat /\ Max(S) # 0
  <2>1. 1 \in S
    BY <1>4
  <2> HIDE DEF S
  <2>2. 1 <= Max(S) /\ Max(S) \in Nat
    BY <1>3, <1>5, <2>1
  <2> QED
    BY <2>2
<1> DEFINE b == Max(S)
<1>7. b \in W \/ b \in N
  BY <1>5, <1>6
<1>8. \A m \in log : m.kind = "marker" /\ m.to = to => m.v <= b
  <2> HIDE DEF S
  <2> QED
    BY <1>0, <1>2, <1>6
<1> HIDE DEF b
<1>9. CASE b \in W
  BY <1>8, <1>9
<1>10. CASE b \in N
  <2>1. PICK x \in candidates : x.v = b /\ Cardinality(candidates) = 1 /\ isWakeNote(x)
    BY <1>10
  <2>2. IsFiniteSet(candidates)
    BY FS_Subset DEF LogWell
  <2>3. \A y \in candidates : y = x
    BY <2>1, <2>2, FS_Singleton
  <2>4. wake # NoWake
    BY <1>0, <2>1 DEF NoWake
  <2>5. wake = h /\ \E r \in log : r.v = h /\ IsHuman(r)
    BY <2>4
  <2> QED
    BY <2>3, <2>5
<1> QED
  BY <1>7, <1>9, <1>10

LEMMA StopsHold ==
  ASSUME Unwatched = FALSE
  PROVE  Spec => [](Typed /\ CacheInv /\ StopInv)
<1>1. Typed /\ CacheInv /\ StopInv /\ Next => StopInv'
  BY NextSeat, NextPhantoms, NextStopLane, NextMark DEF StopInv, StopLane
<1>2. StopInv /\ UNCHANGED vars => StopInv'
  BY DEF vars, StopInv, SeatWell, PhantomsOk, StopsSeen, LowOk, MarkOk
<1>3. Init => StopInv
  <2> SUFFICES ASSUME Init PROVE StopInv
    OBVIOUS
  <2>1. hub.clock = 1
    BY DEF Init
  <2>2. SeatWell
    BY <2>1 DEF Init, SeatWell, FreshRun, Idle
  <2>3. PhantomsOk
    BY NoCacheIsWell DEF Init, PhantomsOk, Phantoms
  <2>4. lane.boundary = 0 /\ StopsSeen /\ MarkOk
    BY DEF Init, StopsSeen, MarkOk, FreshRun, FreshLane, Idle
  <2> QED
    BY <2>2, <2>3, <2>4 DEF StopInv
<1>4. Typed /\ CacheInv /\ StopInv /\ [Next]_vars => (Typed /\ CacheInv /\ StopInv)'
  BY <1>1, <1>2, CacheStutters, NextTyped, StutterTyped, NextCache
<1> QED
  BY <1>3, <1>4, InitTyped, InitCache, PTL DEF Spec

LEMMA StopSticksStep ==
  ASSUME Typed, CacheInv, StopInv, Next,
         run.stop > 0, run'.seat = "starting", ~past.hidden, ~past.forgot
  PROVE  \E r \in hub.log : \/ IsHuman(r) /\ r.at >= run.stop
                            \/ /\ r.kind = "work"
                               /\ \A m \in hub.log : m.kind = "marker" /\ m.to = round.state.to
                                                        /\ m.at < run.stop => m.v <= r.v
<1>0. /\ run \in RunRecs /\ run.seat # "starting" /\ run.stop \in Nat /\ hub.log \in Logs /\ hub.clock \in Nat
      /\ LogWell(hub.log, hub.clock) /\ HubWell
  BY DEF Typed, RunRecs, HubWell, HubRecs, StopInv, SeatWell
<1>1. MarkLands
  <2>1. Observe => run'.seat # "starting"
    BY <1>0 DEF Observe, SeatObserved, RunRecs
  <2>2. StartSettles \/ RunEnds \/ StopRequested => run'.seat # "starting"
    BY <1>0 DEF StartSettles, RunEnds, StopRequested, FreshRun, RunRecs
  <2>3. Restart => run'.seat # "starting"
    BY <1>0 DEF Restart, RunRecs
  <2>4. UNCHANGED run => run'.seat # "starting"
    BY <1>0
  <2> QED
    BY <2>1, <2>2, <2>3, <2>4 DEF Next, Round, Fetch, Decide, DecideUnread,
     DecideReadFails, CatchupDecides, LaunchDropped, LaunchPlans, LaunchReadFails, MarkConflicts,
     Publish, ForeignDuplicate, ForeignRewind, PlaceChanges, ModeSwitches
<1>2. round.step = "mark" /\ latestRecordVersion(hub.log) = round.base
  BY <1>1 DEF MarkLands
<1>3. /\ round.human = onlineHumanVersion(lane) /\ round.base = round.state.version
      /\ ~headlessGeneration(round.truth, round.state.to, round.human)
  BY <1>2 DEF StopInv, MarkOk
<1>4. round.truth = hub.log
  <2>1. Truthful
    BY <1>2, LaunchableIsThere DEF CacheInv, RoundWell
  <2>2. \A r \in hub.log : r.v <= round.state.version /\ r.v \in Nat
    BY <1>0, <1>2, <1>3, HubTop DEF Logs, LogRecs
  <2>3. round.state.version \in Nat
    BY DEF Typed, RoundRecs, Entries
  <2>4. \A r \in hub.log : ~(r.v > round.state.version)
    BY <2>2, <2>3
  <2>5. round.truth \subseteq hub.log /\ \A r \in hub.log \ round.truth : r.v > round.state.version
    BY <2>1 DEF Truthful
  <2> QED
    BY <2>4, <2>5
<1>5. ~headlessGeneration(hub.log, round.state.to, onlineHumanVersion(lane))
  BY <1>3, <1>4
<1>6. run.stopSeen
  BY <1>2 DEF StopInv, SeatWell
<1>7. HumanOk(onlineHumanVersion(lane), hub.log, run.stop)
  BY <1>6, NobodyIsFirst, Online DEF StopInv, StopsSeen, Typed, LaneTyped
<1>8. CASE \E r \in hub.log : r.kind = "work"
                             /\ \A m \in hub.log : m.kind = "marker" /\ m.to = round.state.to => m.v <= r.v
  BY <1>8
<1>9. ASSUME NEW r \in hub.log, IsHuman(r), r.v = onlineHumanVersion(lane),
             \A y \in hub.log : y.v = onlineHumanVersion(lane) => y = r
      PROVE  r.at >= run.stop
  <2>1. ~(r.at < run.stop)
    BY <1>7, <1>9 DEF HumanOk
  <2>2. r.at \in Nat
    BY <1>0 DEF Logs, LogRecs
  <2> QED
    BY <1>0, <2>1, <2>2
<1> QED
  BY <1>0, <1>5, <1>8, <1>9, Unblocked

(* A stop stays a stop: no launch follows it in that process unless the     *)
(* task was handed over since the markers of the role from before the stop, *)
(* or a human asked for work after it was requested, foreign changes that   *)
(* no poll has seen aside (detached-lane.ts observe, scanHumanWake,         *)
(* filterStoppedWakes).                                                     *)
THEOREM StopsStick ==
  ASSUME Unwatched = FALSE
  PROVE  Spec => StopSticks
<1>1. Typed /\ CacheInv /\ StopInv /\ [Next]_vars =>
         [run.stop > 0 /\ run'.seat = "starting" /\ ~past.hidden /\ ~past.forgot =>
             \E r \in hub.log : \/ IsHuman(r) /\ r.at >= run.stop
                                \/ /\ r.kind = "work"
                                   /\ \A m \in hub.log : m.kind = "marker" /\ m.to = round.state.to
                                                            /\ m.at < run.stop => m.v <= r.v]_vars
  BY StopSticksStep
<1> QED
  BY <1>1, StopsHold, PTL DEF Spec, StopSticks

-----------------------------------------------------------------------------
(***************************************************************************)
(* Every turn is answered.  What the rounds have dealt with is below       *)
(* past.upto, and the next scan starts there (UptoWell).  The cache may    *)
(* miss a record of a version it has only if a finished round has dealt    *)
(* with it, or while the next snapshot must still show it (TurnSound); so  *)
(* a scan finds every instruction of its snapshot that was not dealt with  *)
(* (ScanIsWhole).                                                          *)
(***************************************************************************)
Misses(c, log) == {r \in log : r.v <= c.version /\ r \notin c.records}

Follows(c, log, hidden, u) ==
    IF hidden THEN Ahead(c, log) \/ \A r \in Misses(c, log) : r.v <= u \/ Doubled(r, log)
    ELSE ~Ahead(c, log) /\ \A r \in Misses(c, log) : r.v <= u

UptoWell ==
    /\ past.upto <= snap.entry.version
    /\ ~snap.baseline => /\ cache = NoCache /\ lane.scan = NoScan /\ snap.entry = Absent
                         /\ round.step \in {"idle", "observe"}
    /\ lane.scan # NoScan => lane.scan.version <= past.upto
    /\ lane.scan = NoScan =>
          IF round.step = "decide"
          THEN round.prev # Absent => round.prev.version <= past.upto \/ round.state.version <= past.upto
          ELSE snap.entry # Absent => snap.entry.version <= past.upto

\* The round that finds the task back deals with everything it sees.
JustBack == round.step = "decide" /\ round.prev = Absent

TurnSound ==
    \/ cache = NoCache \/ snap.entry = Absent \/ snap.entry.attn
    \/ JustBack /\ cache.version <= round.state.version
    \/ Follows(cache, hub.log, past.hidden, past.upto) \/ Shows(cache)

ScanIsWhole ==
    round.step \in {"observe", "decide"} /\ round.state # Absent =>
        \/ cache = NoCache \/ round.state.attn \/ JustBack
        \/ /\ round.step = "observe"
           /\ snap.entry = Absent \/ snap.entry.attn \/ round.state.version < cache.version
        \/ \A r \in Misses(cache, round.truth \cap hub.log) : r.v <= past.upto

-----------------------------------------------------------------------------
LEMMA UptoFrame ==
  ASSUME UptoWell, UNCHANGED snap, lane'.scan = lane.scan, past'.upto = past.upto,
         snap.baseline \/ cache' = cache,
         \/ round' = round
         \/ /\ round.step # "decide" /\ round'.step # "decide"
            /\ snap.baseline \/ round'.step \in {"idle", "observe"}
  PROVE  UptoWell'
BY DEF UptoWell

LEMMA UptoObserve ==
  ASSUME Typed, UptoWell, Observe
  PROVE  UptoWell'
<1>0. /\ round \in RoundRecs /\ past \in PastRecs /\ lane \in LaneRecs /\ round.step = "observe"
      /\ round.state.version \in Nat /\ snap.entry.version \in Nat /\ past.upto \in Nat
  BY DEF Typed, Observe, LaneTyped, RoundRecs, SnapRecs, Entries, PastRecs
<1>1. /\ snap'.baseline = TRUE /\ snap'.entry = round.state
      /\ round'.prev = snap.entry /\ round'.state = round.state
      /\ ~snap.baseline => round'.step # "decide"
  BY <1>0 DEF Observe, RoundRecs
<1>2. past'.upto = IF ~snap.baseline \/ round.state.version < snap.entry.version
                   THEN round.state.version
                   ELSE IF lane.scan # NoScan /\ lane'.scan = NoScan
                   THEN snap.entry.version ELSE past.upto
  BY <1>0 DEF Observe, PastRecs
<1>3. /\ past.upto <= snap.entry.version
      /\ ~snap.baseline => lane.scan = NoScan /\ snap.entry = Absent
      /\ lane.scan # NoScan => lane.scan.version <= past.upto
      /\ lane.scan = NoScan => (snap.entry # Absent => snap.entry.version <= past.upto)
  BY <1>0 DEF UptoWell
<1>4. lane'.scan # NoScan => /\ lane'.scan = lane.scan
                             /\ snap.entry # Absent => round.state.version >= snap.entry.version
  <2> DEFINE l == LaneAfterStop
             m == IF round.state = Absent
                  THEN [l EXCEPT !.pending = NoPending, !.human = NoWake, !.boundary = 0] ELSE l
             keep == /\ round.auto /\ ~round.state.attn /\ round.state.to = l.scan.to
                     /\ round.state.to \in Agents
                     /\ round.state.version >= IF snap.entry # Absent THEN snap.entry.version
                                               ELSE l.scan.version
  <2>1. lane' = IF m.scan # NoScan /\ ~keep THEN [m EXCEPT !.scan = NoScan] ELSE m
    BY DEF Observe, ReconciledLane
  <2>2. l \in LaneRecs
    BY LaneObserved DEF LaneWell
  <2> HIDE DEF l
  <2>3. m \in LaneRecs
    BY <2>2, FreshTyped, Named DEF LaneRecs
  <2> HIDE DEF m, keep
  <2>4. [m EXCEPT !.scan = NoScan].scan = NoScan
    BY <2>3 DEF LaneRecs
  <2>5. lane'.scan # NoScan => keep
    BY <2>1, <2>4
  <2>6. lane'.scan \in {lane.scan, NoScan}
    BY ObserveLane
  <2> QED
    BY <2>5, <2>6 DEF keep
<1>5. past'.upto <= round.state.version
  BY <1>0, <1>2, <1>3
<1>6. lane'.scan # NoScan => lane'.scan.version <= past'.upto
  <2>1. Absent.version = 0
    BY DEF Absent
  <2>2. ASSUME lane'.scan # NoScan PROVE past'.upto = past.upto /\ lane'.scan = lane.scan
    <3>1. snap.baseline /\ lane'.scan = lane.scan
      BY <1>3, <1>4, <2>2
    <3>2. ~(round.state.version < snap.entry.version)
      BY <1>0, <1>4, <2>1, <2>2
    <3> QED
      BY <1>2, <2>2, <3>1, <3>2
  <2> QED
    BY <1>3, <2>2
<1>7. lane'.scan = NoScan => (snap.entry # Absent => \/ snap.entry.version <= past'.upto
                                                     \/ round.state.version <= past'.upto)
  BY <1>0, <1>2, <1>3
<1>8. ~snap.baseline => past'.upto = round.state.version
  BY <1>2
<1>9. CASE round'.step = "decide"
  BY <1>1, <1>5, <1>6, <1>7, <1>9 DEF UptoWell
<1>10. CASE round'.step # "decide"
  <2>1. ~snap.baseline
    BY <1>10 DEF Observe, Typed, RoundRecs
  <2>2. round.state.version <= past'.upto
    BY <1>0, <1>8, <2>1
  <2> QED
    BY <1>1, <1>5, <1>6, <1>10, <2>2 DEF UptoWell
<1> QED
  BY <1>9, <1>10

\* What the end of a decision leaves behind.
LEMMA Decided ==
  ASSUME Typed, Decide \/ DecideUnread \/ DecideReadFails
  PROVE  /\ UNCHANGED <<hub, run, snap>> /\ round.step = "decide"
         /\ past'.hidden = past.hidden /\ round'.step \in {"idle", "launch"}
         /\ \/ /\ cache' = Remembered(round.state) /\ Launchable(round.state)
               /\ past'.upto = round.state.version /\ lane'.scan = NoScan
            \/ cache' = cache /\ past'.upto = round.state.version /\ lane'.scan = lane.scan
            \/ /\ cache' = cache
               /\ past'.upto = IF round.recovered \/ round.prev = Absent
                               THEN round.state.version ELSE past.upto
               /\ lane'.scan = IF Scans THEN [version |-> ScanFrom, to |-> round.state.to] ELSE lane.scan
<1>0. round \in RoundRecs /\ past \in PastRecs /\ lane \in LaneRecs
  BY DEF Typed, LaneTyped
<1>1. PICK l, w, readable :
            /\ LaneWell(l) /\ w \in Versions /\ readable \in BOOLEAN
            /\ Finish(l, w, readable)
            /\ \/ /\ Decide /\ readable = TRUE
                  /\ l = LaneScanned(fullLog(round.state))
                  /\ w = IF Scans THEN WakeKept(l, NoteWakeOf(fullLog(round.state))) ELSE NoWake
               \/ DecideUnread /\ readable = TRUE /\ l = lane /\ w = NoWake
               \/ /\ DecideReadFails /\ readable = FALSE /\ w = NoWake
                  /\ l = IF Scans THEN [lane EXCEPT !.scan = [version |-> ScanFrom, to |-> round.state.to]]
                         ELSE lane
  BY Decisions
<1>2. UNCHANGED <<hub, run, snap>> /\ round.step = "decide"
  BY DEF Decide, DecideUnread, DecideReadFails
<1>3. /\ past'.hidden = past.hidden
      /\ past'.upto = IF readable \/ round.recovered \/ round.prev = Absent
                      THEN round.state.version ELSE past.upto
  BY <1>0, <1>1 DEF Finish, PastRecs
<1>4. round'.step \in {"idle", "launch"}
  <2>1. \A v : round' = [round EXCEPT !.step = "launch", !.wake = v] => round'.step = "launch"
    BY <1>0 DEF RoundRecs
  <2>2. round' = Idle => round'.step = "idle"
    BY DEF Idle
  <2> QED
    BY <1>1, <2>1, <2>2, RoundToLaunch
<1>5. lane'.scan = l.scan
  BY <1>1, FinishLane
<1>6. CASE Decide /\ readable = TRUE /\ l = LaneScanned(fullLog(round.state))
  <2>1. cache' = Remembered(round.state) /\ Launchable(round.state)
    BY <1>6 DEF Decide, Reads
  <2>2. LaneScanned(fullLog(round.state)).scan = NoScan
    BY <1>0 DEF LaneScanned, LaneRecs
  <2> QED
    BY <1>2, <1>3, <1>4, <1>5, <1>6, <2>1, <2>2
<1>7. CASE DecideUnread /\ readable = TRUE /\ l = lane
  <2>1. cache' = cache
    BY <1>7 DEF DecideUnread
  <2> QED
    BY <1>2, <1>3, <1>4, <1>5, <1>7, <2>1
<1>8. CASE /\ DecideReadFails /\ readable = FALSE
           /\ l = IF Scans THEN [lane EXCEPT !.scan = [version |-> ScanFrom, to |-> round.state.to]] ELSE lane
  <2>1. cache' = cache
    BY <1>8 DEF DecideReadFails
  <2>2. \A s : [lane EXCEPT !.scan = s].scan = s
    BY <1>0 DEF LaneRecs
  <2>3. l.scan = IF Scans THEN [version |-> ScanFrom, to |-> round.state.to] ELSE lane.scan
    BY <1>8, <2>2
  <2> QED
    BY <1>2, <1>3, <1>4, <1>5, <1>8, <2>1, <2>3
<1> QED
  BY <1>1, <1>6, <1>7, <1>8

LEMMA UptoDecided ==
  ASSUME Typed, RoundWell, UptoWell, Decide \/ DecideUnread \/ DecideReadFails
  PROVE  UptoWell'
<1>0. /\ round.state.version \in Nat /\ round.prev.version \in Nat /\ past.upto \in Nat
      /\ lane.scan = NoScan \/ lane.scan.version \in Nat
  BY DEF Typed, LaneTyped, RoundRecs, Entries, PastRecs
<1>1. /\ UNCHANGED snap /\ round.step = "decide" /\ round'.step # "decide"
      /\ snap.entry = round.state /\ snap.baseline
  BY Decided DEF RoundWell, UptoWell
<1>2. /\ past.upto <= round.state.version
      /\ lane.scan # NoScan => lane.scan.version <= past.upto
      /\ lane.scan = NoScan =>
            (round.prev # Absent => round.prev.version <= past.upto \/ round.state.version <= past.upto)
  BY <1>1 DEF UptoWell
<1>3. SUFFICES /\ past'.upto <= round.state.version
               /\ lane'.scan # NoScan => lane'.scan.version <= past'.upto
               /\ lane'.scan = NoScan => round.state.version <= past'.upto
  BY <1>1 DEF UptoWell
<1>4. CASE past'.upto = round.state.version /\ lane'.scan \in {NoScan, lane.scan}
  BY <1>0, <1>2, <1>4
<1>5. CASE /\ past'.upto = IF round.recovered \/ round.prev = Absent
                            THEN round.state.version ELSE past.upto
           /\ lane'.scan = IF Scans THEN [version |-> ScanFrom, to |-> round.state.to] ELSE lane.scan
  <2>1. past.upto <= past'.upto /\ past'.upto <= round.state.version
    BY <1>0, <1>2, <1>5
  <2>2. CASE Scans
    <3>1. lane'.scan.version = ScanFrom /\ lane'.scan # NoScan
      <4>1. ScanFrom # -1 /\ lane'.scan.version = ScanFrom
        BY <1>0, <1>5, <2>2 DEF ScanFrom
      <4> QED
        BY <4>1 DEF NoScan
    <3>2. ~round.recovered /\ round.state.version > ScanFrom /\ (lane.scan # NoScan \/ round.prev # Absent)
      BY <2>2 DEF Scans
    <3>3. ScanFrom <= past'.upto
      <4>1. CASE lane.scan # NoScan
        BY <1>0, <1>2, <2>1, <4>1, <1>5 DEF ScanFrom
      <4>2. CASE lane.scan = NoScan
        <5>1. ScanFrom = round.prev.version /\ round.prev # Absent
          BY <3>2, <4>2 DEF ScanFrom
        <5> QED
          BY <1>0, <1>2, <1>5, <3>2, <4>2, <5>1
      <4> QED
        BY <4>1, <4>2
    <3> QED
      BY <2>1, <3>1, <3>3
  <2>3. CASE ~Scans
    <3>1. lane'.scan = lane.scan
      BY <1>5, <2>3
    <3>2. CASE lane.scan # NoScan
      BY <1>0, <1>2, <1>5, <2>1, <3>1, <3>2
    <3>3. CASE lane.scan = NoScan
      <4>1. round.recovered \/ round.prev = Absent \/ ~(round.state.version > round.prev.version)
        BY <2>3, <3>3 DEF Scans, ScanFrom
      <4>2. round.state.version <= past'.upto
        BY <1>0, <1>2, <1>5, <3>3, <4>1
      <4> QED
        BY <2>1, <3>1, <3>3, <4>2
    <3> QED
      BY <3>2, <3>3
  <2> QED
    BY <2>2, <2>3
<1> QED
  BY <1>4, <1>5, Decided

LEMMA NextUpto ==
  ASSUME Typed, RoundWell, UptoWell, Next
  PROVE  UptoWell'
<1>0. /\ round \in RoundRecs /\ past \in PastRecs /\ lane \in LaneRecs
      /\ round.step \notin {"idle", "observe"} => snap.baseline
  BY DEF Typed, LaneTyped, UptoWell
<1>a. round' = Idle => round'.step = "idle"
  BY DEF Idle
<1>1. CASE Fetch
  <2>1. UNCHANGED <<snap, cache, lane>> /\ past'.upto = past.upto /\ round'.step = "observe" /\ round.step = "idle"
    BY <1>0, <1>1 DEF Fetch, Idle, PastRecs
  <2> QED
    BY <2>1, UptoFrame
<1>2. CASE Observe
  BY <1>2, UptoObserve
<1>3. CASE Decide \/ DecideUnread \/ DecideReadFails
  BY <1>3, UptoDecided
<1>4. CASE CatchupDecides
  <2>1. UNCHANGED snap /\ past'.upto = past.upto /\ round.step = "catchup"
    BY <1>0, <1>4 DEF CatchupDecides, PastRecs
  <2>2. round'.step # "decide"
    BY <1>0, <1>4, <1>a DEF CatchupDecides, RoundRecs
  <2>3. lane'.scan = lane.scan
    BY <1>0, <1>4 DEF CatchupDecides, LaneRecs
  <2> QED
    BY <1>0, <2>1, <2>2, <2>3, UptoFrame
<1>5. CASE LaunchDropped \/ LaunchPlans \/ LaunchReadFails \/ MarkConflicts
  <2>1. UNCHANGED <<snap, lane>> /\ round.step \in {"launch", "mark"}
    BY <1>5 DEF LaunchDropped, LaunchPlans, LaunchReadFails, MarkConflicts
  <2>2. past'.upto = past.upto
    BY <1>0, <1>5 DEF LaunchDropped, LaunchPlans, LaunchReadFails, MarkConflicts, Told, PastRecs
  <2>3. round'.step # "decide"
    <3>1. \A b, h : round' = [round EXCEPT !.step = "mark", !.base = b, !.human = h] => round'.step = "mark"
      BY <1>0 DEF RoundRecs
    <3> QED
      BY <1>5, <1>a, <3>1 DEF LaunchDropped, LaunchPlans, LaunchReadFails, MarkConflicts
  <2> QED
    BY <1>0, <2>1, <2>2, <2>3, UptoFrame
<1>6. CASE MarkLands
  <2>1. UNCHANGED snap /\ round.step = "mark" /\ round' = Idle
    BY <1>6 DEF MarkLands
  <2>2. past'.upto = past.upto /\ lane'.scan = lane.scan
    BY <1>0, <1>6 DEF MarkLands, Told, PastRecs, LaneRecs
  <2> QED
    BY <1>0, <1>a, <2>1, <2>2, UptoFrame
<1>7. CASE StartSettles \/ RunEnds \/ StopRequested \/ Publish \/ PlaceChanges \/ ModeSwitches
  <2>1. UNCHANGED <<snap, lane, cache, round, past>>
    BY <1>7 DEF StartSettles, RunEnds, StopRequested, Publish, PlaceChanges, ModeSwitches
  <2> QED
    BY <2>1, UptoFrame
<1>8. CASE ForeignDuplicate \/ ForeignRewind
  <2>1. UNCHANGED <<snap, lane, cache, round>> /\ past' = [past EXCEPT !.hidden = TRUE]
    BY <1>8 DEF ForeignDuplicate, ForeignRewind
  <2>2. past'.upto = past.upto
    BY <1>0, <2>1 DEF PastRecs
  <2> QED
    BY <2>1, <2>2, UptoFrame
<1>9. CASE Restart
  <2>1. /\ snap'.entry = Absent /\ snap'.baseline = FALSE /\ round'.step = "idle" /\ cache' = NoCache
        /\ lane'.scan = NoScan /\ past'.upto = 0
    BY <1>9, <1>a DEF Restart, FreshLane, NoneSoFar
  <2>2. Absent.version = 0
    BY DEF Absent
  <2> QED
    BY <2>1, <2>2 DEF UptoWell
<1> QED
  BY <1>1, <1>2, <1>3, <1>4, <1>5, <1>6, <1>7, <1>8, <1>9 DEF Next, Round

-----------------------------------------------------------------------------
(***************************************************************************)
(* What a change of the log does to what the cache misses.                 *)
(***************************************************************************)
LEMMA FollowsMore ==
  ASSUME NEW log \in Logs, NEW c, NEW hidden \in BOOLEAN, NEW u \in Nat, NEW v \in Nat, u <= v,
         Follows(c, log, hidden, u)
  PROVE  Follows(c, log, hidden, v) /\ Follows(c, log, TRUE, u)
<1>1. \A r \in Misses(c, log) : r.v \in Nat
  BY DEF Misses, Logs, LogRecs
<1>2. \A r \in Misses(c, log) : r.v <= u => r.v <= v
  BY <1>1
<1> QED
  BY <1>2 DEF Follows

LEMMA FollowsAdd ==
  ASSUME NEW log \in Logs, NEW clock \in Nat, LogWell(log, clock),
         NEW r \in LogRecs, LogWell(log \cup {r}, clock + 1), r.v > latestRecordVersion(log),
         NEW c \in CacheRecs, NEW hidden \in BOOLEAN, NEW b, Follows(c, log, hidden, b),
         hidden => r.kind # "ack" /\ ~Ahead(c, log)
  PROVE  Follows(c, log \cup {r}, hidden, b)
<1> DEFINE t == latestRecordVersion(log)
           u == latestRecordVersion(log \cup {r})
<1>0. c.version \in Versions /\ r.v \in Nat /\ \A x \in log : x.v \in Nat
  BY DEF CacheRecs, Logs, LogRecs
<1>1. t \in Nat /\ \A x \in log : x.v <= t
  BY Top
<1>2. log \cup {r} \in Logs /\ clock + 1 \in Nat
  BY DEF Logs
<1>3. u \in Nat /\ \A x \in log \cup {r} : x.v <= u
  BY <1>2, Top
<1>4. t < r.v /\ r.v <= u /\ ~(t < c.version)
  BY <1>3 DEF Follows, Ahead
<1> HIDE DEF t, u
<1>5. ~(u < c.version) /\ ~(r.v <= c.version)
  BY <1>0, <1>1, <1>3, <1>4 DEF Versions
<1>6. Misses(c, log \cup {r}) \subseteq Misses(c, log)
  BY <1>5 DEF Misses
<1>7. \A x \in log : x.v <= c.version => ~(r.v <= x.v)
  BY <1>0, <1>1, <1>4
<1>8. r.kind # "ack" => \A x \in log : Doubled(x, log) => Doubled(x, log \cup {r})
  BY DEF Doubled
<1>9. Misses(c, log) \subseteq log
  BY DEF Misses
<1> QED
  BY <1>5, <1>6, <1>8, <1>9 DEF Follows, Ahead, u

LEMMA FollowsDouble ==
  ASSUME NEW log \in Logs, NEW clock \in Nat, LogWell(log, clock),
         NEW r \in LogRecs, LogWell(log \cup {r}, clock + 1), r \notin log, r.kind # "ack",
         NEW x \in log, r.v = x.v, ~\E a \in log : a.kind = "ack" /\ a.v > x.v,
         NEW c \in CacheRecs, NEW b, Follows(c, log, TRUE, b)
  PROVE  Follows(c, log \cup {r}, TRUE, b)
<1> DEFINE t == latestRecordVersion(log)
           u == latestRecordVersion(log \cup {r})
<1>0. c.version \in Versions /\ r.v \in Nat /\ \A y \in log : y.v \in Nat
  BY DEF CacheRecs, Logs, LogRecs
<1>1. t \in Nat /\ (\A y \in log : y.v <= t) /\ \E y \in log : y.v = t
  BY Top
<1>2. log \cup {r} \in Logs /\ clock + 1 \in Nat
  BY DEF Logs
<1>3. u \in Nat /\ (\A y \in log \cup {r} : y.v <= u) /\ \E y \in log \cup {r} : y.v = u
  BY <1>2, Top
<1>4. t = u
  <2>1. t <= u /\ u <= t
    BY <1>1, <1>3
  <2> HIDE DEF t, u
  <2> QED
    BY <1>1, <1>3, <2>1
<1>5. Ahead(c, log) => Ahead(c, log \cup {r})
  BY <1>4 DEF Ahead
<1>6. Doubled(r, log \cup {r})
  BY DEF Doubled
<1>7. \A y \in log : Doubled(y, log) => Doubled(y, log \cup {r})
  BY DEF Doubled
<1>8. \A y \in Misses(c, log \cup {r}) : y = r \/ y \in Misses(c, log)
  BY DEF Misses
<1>9. Misses(c, log) \subseteq log
  BY DEF Misses
<1> QED
  BY <1>5, <1>6, <1>7, <1>8, <1>9 DEF Follows

LEMMA FollowsRewind ==
  ASSUME NEW log \in Logs, NEW clock \in Nat, LogWell(log, clock),
         NEW back, back = {r \in log : r.v < latestRecordVersion(log)}, LogWell(back, clock),
         NEW c \in CacheRecs, NEW b, Follows(c, log, TRUE, b)
  PROVE  Follows(c, back, TRUE, b)
<1> DEFINE t == latestRecordVersion(log)
           u == latestRecordVersion(back)
<1>0. c.version \in Versions /\ (\A y \in log : y.v \in Nat) /\ back \in Logs
  BY DEF CacheRecs, Logs, LogRecs
<1>1. t \in Nat
  BY Top
<1>2. u \in Nat /\ \E y \in back : y.v = u
  BY <1>0, Top
<1>3. u < t
  BY <1>2
<1> HIDE DEF t, u
<1>4. t < c.version => u < c.version
  BY <1>0, <1>1, <1>2, <1>3 DEF Versions
<1>5. Misses(c, back) \subseteq Misses(c, log)
  BY DEF Misses
<1>6. \A y \in back : Doubled(y, log) => Doubled(y, back)
  BY DEF Doubled
<1>7. Misses(c, back) \subseteq back
  BY DEF Misses
<1> QED
  BY <1>4, <1>5, <1>6, <1>7 DEF Follows, Ahead, t, u

\* A snapshot of the log shows what the cache misses, or it misses nothing new.
LEMMA FollowsSeen ==
  ASSUME NEW c, NEW log, NEW u, Follows(c, log, TRUE, u)
  PROVE  Follows(c, log, FALSE, u) \/ Ahead(c, log) \/ NeedsAttention(log)
<1>1. ASSUME ~Ahead(c, log), NEW r \in Misses(c, log), ~(r.v <= u) PROVE NeedsAttention(log)
  <2>1. Doubled(r, log) /\ r \in log
    BY <1>1 DEF Follows, Misses
  <2> QED
    BY <2>1 DEF Doubled, NeedsAttention
<1> QED
  BY <1>1 DEF Follows

\* Reading the log misses nothing new.
LEMMA ReadMisses ==
  ASSUME Typed, NEW e \in Entries, cache # NoCache
  PROVE  /\ Misses(Remembered(e), hub.log) \subseteq Misses(cache, hub.log)
         /\ Ahead(Remembered(e), hub.log) <=> Ahead(cache, hub.log)
<1>0. /\ hub.log \in Logs /\ hub.clock \in Nat /\ LogWell(hub.log, hub.clock)
      /\ cache \in CacheRecs /\ cache.version \in Versions
  BY DEF Typed, HubWell, HubRecs, CacheWell, CacheRecs
<1> DEFINE t == latestRecordVersion(hub.log)
<1>1. t \in Nat /\ (\A r \in hub.log : r.v <= t /\ r.v \in Nat)
  BY <1>0, Top DEF Logs, LogRecs
<1>2. CASE Quiet(e)
  BY <1>2 DEF Quiet, Remembered
<1>3. CASE ~Quiet(e)
  <2> DEFINE S == {IF cache = NoCache THEN 0 ELSE cache.version} \cup {r.v : r \in Pulled}
             V == Max(S)
             R == Remembered(e)
  <2>1. R.version = V /\ R.records = fullLog(e)
    BY <1>3 DEF Remembered
  <2>2. V \in S /\ V \in Nat /\ \A x \in S : x <= V
    BY Synced
  <2>3. Pulled = {r \in hub.log : r.v > cache.version}
    BY DEF Pulled
  <2>4. cache.version <= V /\ (V = cache.version \/ \E r \in hub.log : r.v = V)
    BY <2>2, <2>3
  <2>5. R.records = cache.records \cup {r \in hub.log : r.v > cache.version}
    BY <1>3, <2>1, <2>3 DEF fullLog
  <2> HIDE DEF R, S, V, t
  <2>6. Misses(R, hub.log) \subseteq Misses(cache, hub.log)
    <3>1. \A r \in hub.log : ~(r.v > cache.version) => r.v <= cache.version
      BY <1>0, <1>1 DEF Versions
    <3> QED
      BY <2>5, <3>1 DEF Misses
  <2>7. t < V <=> t < cache.version
    BY <1>0, <1>1, <2>2, <2>4 DEF Versions
  <2> QED
    BY <2>1, <2>6, <2>7 DEF Ahead, R, t
<1> QED
  BY <1>2, <1>3

LEMMA FollowsRead ==
  ASSUME Typed, NEW e \in Entries, NEW hidden \in BOOLEAN, NEW u,
         cache = NoCache \/ Follows(cache, hub.log, hidden, u)
  PROVE  Follows(Remembered(e), hub.log, hidden, u)
<1>1. CASE cache # NoCache
  BY <1>1, ReadMisses DEF Follows
<1>2. CASE cache = NoCache
  <2> DEFINE R == Remembered(e)
  <2>1. Agrees(R, hub.log, FALSE)
    BY <1>2, ReadSound
  <2>2. R.records = {r \in hub.log : r.v <= R.version} /\ R.version <= latestRecordVersion(hub.log)
    BY <2>1 DEF Agrees, Exact
  <2>3. R.version \in Nat /\ latestRecordVersion(hub.log) \in Nat
    BY RememberedWell, HubTop DEF Typed
  <2> HIDE DEF R
  <2>4. Misses(R, hub.log) = {} /\ ~Ahead(R, hub.log)
    BY <2>2, <2>3 DEF Misses, Ahead
  <2> QED
    BY <2>4 DEF Follows, R
<1> QED
  BY <1>1, <1>2

-----------------------------------------------------------------------------
(***************************************************************************)
(* The cache misses only what was dealt with.                              *)
(***************************************************************************)
LEMMA TurnFrame ==
  ASSUME TurnSound, UNCHANGED <<cache, snap>>, hub'.log = hub.log,
         past'.hidden = past.hidden, past'.upto = past.upto,
         round' = round \/ round.step \notin {"observe", "decide"}
  PROVE  TurnSound'
<1>1. CASE round' = round
  BY <1>1 DEF TurnSound, JustBack, Shows
<1>2. CASE round.step \notin {"observe", "decide"}
  BY <1>2 DEF TurnSound, JustBack, Shows
<1> QED
  BY <1>1, <1>2

\* What the snapshot shows of the cache.
LEMMA FetchSees ==
  ASSUME Typed, TurnSound, Fetch
  PROVE  /\ UNCHANGED <<hub, cache, snap>> /\ past'.upto = past.upto
         /\ past'.hidden = (past.hidden /\ hub.place # "tasks") /\ round'.step = "observe"
         /\ round'.truth = hub.log
         /\ hub.place # "tasks" => round'.state = Absent
         /\ hub.place = "tasks" =>
              /\ round'.state # Absent /\ ~past'.hidden
              /\ \/ cache = NoCache \/ snap.entry = Absent \/ snap.entry.attn
                 \/ Follows(cache, hub.log, FALSE, past.upto)
                 \/ round'.state.version < cache.version \/ round'.state.attn
<1>0. past \in PastRecs /\ past.hidden \in BOOLEAN /\ hub.log \in Logs /\ past.upto \in Nat
      /\ HubWell /\ past.upto <= past.upto
  BY DEF Typed, HubWell, HubRecs, PastRecs
<1>1. /\ UNCHANGED <<hub, cache, snap>> /\ past'.upto = past.upto
      /\ past'.hidden = (past.hidden /\ hub.place # "tasks") /\ round'.step = "observe"
      /\ round.step = "idle" /\ round'.truth = hub.log
      /\ round'.state = IF hub.place = "tasks" THEN Entry ELSE Absent
  BY <1>0 DEF Fetch, PastRecs, Idle
<1>2. ASSUME hub.place = "tasks"
      PROVE  /\ round'.state # Absent /\ round'.state.version = latestRecordVersion(hub.log)
             /\ round'.state.attn = NeedsAttention(hub.log) /\ ~past'.hidden
  <2>1. round'.state = Entry
    BY <1>1, <1>2
  <2>2. Entry # Absent /\ Entry.version = latestRecordVersion(hub.log)
        /\ Entry.attn = NeedsAttention(hub.log)
    BY <1>0, EntryTyped DEF Entry
  <2> QED
    BY <1>1, <1>2, <2>1, <2>2
<1>3. \/ cache = NoCache \/ snap.entry = Absent \/ snap.entry.attn
      \/ Follows(cache, hub.log, past.hidden, past.upto)
  BY <1>1 DEF TurnSound, JustBack, Shows
<1>4. ASSUME hub.place = "tasks", Follows(cache, hub.log, past.hidden, past.upto)
      PROVE  \/ Follows(cache, hub.log, FALSE, past.upto)
             \/ round'.state.version < cache.version \/ round'.state.attn
  <2>1. Follows(cache, hub.log, TRUE, past.upto)
    BY <1>0, <1>4, FollowsMore
  <2> QED
    BY <1>2, <1>4, <2>1, FollowsSeen DEF Ahead
<1> QED
  BY <1>1, <1>2, <1>3, <1>4

LEMMA TurnFetch ==
  ASSUME Typed, TurnSound, Fetch
  PROVE  TurnSound'
<1>1. CASE hub.place = "tasks"
  BY <1>1, FetchSees DEF TurnSound, Shows
<1>2. CASE hub.place # "tasks"
  <2>1. past'.hidden = past.hidden
    BY <1>2, FetchSees DEF Typed, PastRecs
  <2> QED
    BY <2>1, FetchSees, TurnFrame DEF Fetch
<1> QED
  BY <1>1, <1>2

LEMMA FetchScan ==
  ASSUME Typed, TurnSound, Fetch
  PROVE  ScanIsWhole'
<1>1. CASE hub.place = "tasks"
  <2>1. Misses(cache, hub.log \cap hub.log) = Misses(cache, hub.log)
    BY DEF Misses
  <2> QED
    BY <1>1, <2>1, FetchSees DEF ScanIsWhole, Follows
<1>2. CASE hub.place # "tasks"
  BY <1>2, FetchSees DEF ScanIsWhole
<1> QED
  BY <1>1, <1>2

\* A cache that outlives a round's Observe.
LEMMA ObserveKeeps ==
  ASSUME Typed, UptoWell, Observe, cache' # NoCache
  PROVE  /\ cache' = cache /\ snap.baseline
         /\ UNCHANGED hub /\ past'.hidden = past.hidden
         /\ snap'.entry = round.state /\ round'.prev = snap.entry /\ round'.state = round.state
         /\ round'.truth = round.truth /\ round.step = "observe" /\ round'.step = "decide"
         /\ past'.upto \in Nat
         /\ round.state # Absent =>
              /\ cache.version <= round.state.version
              /\ snap.entry.attn => round.state.attn
              /\ past.upto <= past'.upto \/ cache.version <= past'.upto
<1>0. /\ round \in RoundRecs /\ past \in PastRecs /\ cache \in CacheRecs /\ cache.version \in Versions
      /\ round.state.version \in Nat /\ snap.entry.version \in Nat /\ past.upto \in Nat
  BY DEF Typed, RoundRecs, SnapRecs, Entries, PastRecs, CacheWell, CacheRecs
<1>1. /\ cache' = cache /\ cache # NoCache
      /\ ~Evicted(round.state, snap.entry, round.place # "gone")
  BY DEF Observe, reconcileLogCache
<1>2. snap.baseline
  BY <1>1 DEF UptoWell
<1>3. /\ UNCHANGED hub /\ past'.hidden = past.hidden
      /\ snap'.entry = round.state /\ round'.prev = snap.entry /\ round'.state = round.state
      /\ round'.truth = round.truth /\ round.step = "observe" /\ round'.step = "decide"
      /\ past'.upto = IF round.state.version < snap.entry.version
                      THEN round.state.version
                      ELSE IF lane.scan # NoScan /\ lane'.scan = NoScan
                      THEN snap.entry.version ELSE past.upto
  BY <1>0, <1>2 DEF Observe, RoundRecs, PastRecs
<1>4. ASSUME round.state # Absent
      PROVE  cache.version <= round.state.version /\ (snap.entry.attn => round.state.attn)
  BY <1>0, <1>1, <1>4 DEF Evicted, Versions
<1>5. past.upto <= snap.entry.version
  BY DEF UptoWell
<1>6. past'.upto \in Nat
  BY <1>0, <1>3
<1>7. ASSUME round.state # Absent PROVE past.upto <= past'.upto \/ cache.version <= past'.upto
  BY <1>0, <1>3, <1>4, <1>5, <1>7
<1> QED
  BY <1>1, <1>2, <1>3, <1>4, <1>6, <1>7

\* What the cache misses is at or below its version.
LEMMA MissesLow ==
  ASSUME NEW c \in CacheRecs, NEW log \in Logs, NEW u \in Nat, c.version <= u
  PROVE  \A r \in Misses(c, log) : r.v <= u
<1>1. c.version \in Versions /\ \A r \in log : r.v \in Nat
  BY DEF CacheRecs, Logs, LogRecs
<1> QED
  BY <1>1 DEF Misses, Versions

LEMMA TurnObserve ==
  ASSUME Typed, UptoWell, TurnSound, Observe
  PROVE  TurnSound'
<1>0. /\ past.hidden \in BOOLEAN /\ past.upto \in Nat /\ hub.log \in Logs /\ cache \in CacheRecs
      /\ cache.version \in Versions /\ round.state.version \in Nat
  BY DEF Typed, HubWell, HubRecs, PastRecs, CacheWell, CacheRecs, RoundRecs, Entries
<1>1. SUFFICES ASSUME cache' # NoCache, round.state # Absent, ~round.state.attn, snap.entry # Absent
               PROVE  Follows(cache, hub.log, past.hidden, past'.upto)
  BY ObserveKeeps DEF TurnSound, JustBack
<1>2. /\ past'.upto \in Nat /\ cache.version <= round.state.version /\ ~snap.entry.attn
      /\ past.upto <= past'.upto \/ cache.version <= past'.upto
      /\ cache' = cache /\ round.step = "observe"
  BY <1>1, ObserveKeeps
<1>3. ~Shows(cache)
  BY <1>0, <1>1, <1>2 DEF Shows, Versions
<1>4. Follows(cache, hub.log, past.hidden, past.upto)
  BY <1>1, <1>2, <1>3 DEF TurnSound, JustBack
<1>5. CASE past.upto <= past'.upto
  BY <1>0, <1>2, <1>4, <1>5, FollowsMore
<1>6. CASE cache.version <= past'.upto
  <2>1. \A r \in Misses(cache, hub.log) : r.v <= past'.upto
    BY <1>0, <1>2, <1>6, MissesLow
  <2> QED
    BY <1>4, <2>1 DEF Follows
<1> QED
  BY <1>2, <1>5, <1>6

LEMMA ObserveScan ==
  ASSUME Typed, UptoWell, ScanIsWhole, Observe
  PROVE  ScanIsWhole'
<1>0. /\ past.upto \in Nat /\ hub.log \in Logs /\ round.truth \cap hub.log \in Logs /\ cache \in CacheRecs
      /\ cache.version \in Versions /\ round.state.version \in Nat
  BY DEF Typed, HubWell, HubRecs, PastRecs, CacheWell, CacheRecs, RoundRecs, Entries, Logs
<1>1. SUFFICES ASSUME cache' # NoCache, round.state # Absent, ~round.state.attn, snap.entry # Absent
               PROVE  \A r \in Misses(cache, round.truth \cap hub.log) : r.v <= past'.upto
  BY ObserveKeeps DEF ScanIsWhole, JustBack
<1>2. /\ past'.upto \in Nat /\ cache.version <= round.state.version /\ ~snap.entry.attn
      /\ past.upto <= past'.upto \/ cache.version <= past'.upto
      /\ cache' = cache /\ round.step = "observe"
  BY <1>1, ObserveKeeps
<1>3. \A r \in Misses(cache, round.truth \cap hub.log) : r.v <= past.upto
  BY <1>0, <1>1, <1>2 DEF ScanIsWhole, JustBack, Versions
<1>4. CASE past.upto <= past'.upto
  <2>1. \A r \in Misses(cache, round.truth \cap hub.log) : r.v \in Nat
    BY <1>0 DEF Misses, Logs, LogRecs
  <2>2. SUFFICES ASSUME NEW r \in Misses(cache, round.truth \cap hub.log)
                 PROVE  r.v <= past'.upto
    OBVIOUS
  <2>3. r.v \in Nat /\ r.v <= past.upto
    BY <1>3, <2>1
  <2> QED
    BY <1>0, <1>2, <1>4, <2>3
<1>5. CASE cache.version <= past'.upto
  BY <1>0, <1>2, <1>5, MissesLow
<1> QED
  BY <1>2, <1>4, <1>5

LEMMA TurnDecided ==
  ASSUME Typed, RoundWell, UptoWell, TurnSound, Decide \/ DecideUnread \/ DecideReadFails
  PROVE  TurnSound'
<1>0. /\ past.hidden \in BOOLEAN /\ past.upto \in Nat /\ hub.log \in Logs /\ cache \in CacheRecs
      /\ cache.version \in Versions /\ round.state.version \in Nat /\ round.state \in Entries
  BY DEF Typed, HubWell, HubRecs, PastRecs, CacheWell, CacheRecs, RoundRecs, Entries
<1>1. UNCHANGED <<hub, snap>> /\ past'.hidden = past.hidden /\ round.step = "decide" /\ round.state = snap.entry
  BY Decided DEF RoundWell
<1>2. SUFFICES ASSUME cache' # NoCache, round.state # Absent, ~round.state.attn
               PROVE  Follows(cache', hub.log, past.hidden, past'.upto)
  BY <1>1 DEF TurnSound
<1>3. /\ past'.upto \in Nat /\ past.upto <= past'.upto
      /\ round.prev = Absent => past'.upto = round.state.version
      /\ cache' = cache \/ cache' = Remembered(round.state)
  <2>1. past.upto <= round.state.version
    BY <1>1 DEF UptoWell
  <2>2. /\ past'.upto \in {past.upto, round.state.version}
        /\ round.prev = Absent => past'.upto = round.state.version
        /\ cache' = cache \/ cache' = Remembered(round.state)
    BY Decided
  <2> QED
    BY <1>0, <2>1, <2>2
<1>4. ASSUME cache # NoCache PROVE Follows(cache, hub.log, past.hidden, past'.upto)
  <2>1. CASE JustBack /\ cache.version <= round.state.version
    <3>1. \A r \in Misses(cache, hub.log) : r.v <= past'.upto
      BY <1>0, <1>3, <2>1, MissesLow DEF JustBack
    <3>2. ~past.hidden => ~Ahead(cache, hub.log)
      <4>1. Truthful
        BY <1>1, <1>2 DEF RoundWell
      <4>2. ASSUME ~past.hidden PROVE \E r \in hub.log : r.v = round.state.version
        BY <4>1, <4>2 DEF Truthful
      <4>3. ASSUME ~past.hidden PROVE round.state.version <= latestRecordVersion(hub.log)
        BY <4>2, <4>3, HubTop DEF Typed
      <4>4. latestRecordVersion(hub.log) \in Nat
        BY HubTop DEF Typed
      <4> QED
        BY <1>0, <2>1, <4>3, <4>4 DEF Ahead, Versions
    <3> QED
      BY <3>1, <3>2 DEF Follows
  <2>2. CASE Follows(cache, hub.log, past.hidden, past.upto)
    BY <1>0, <1>3, <2>2, FollowsMore
  <2> QED
    BY <1>1, <1>2, <1>4, <2>1, <2>2 DEF TurnSound, Shows
<1>5. CASE cache' = cache
  BY <1>2, <1>4, <1>5
<1>6. CASE cache' = Remembered(round.state)
  BY <1>0, <1>4, <1>6, FollowsRead
<1> QED
  BY <1>3, <1>5, <1>6

LEMMA TurnRead ==
  ASSUME Typed, RoundWell, TurnSound, UNCHANGED <<hub, snap>>, cache' = Remembered(round.state),
         past'.hidden = past.hidden, past'.upto = past.upto, round.step \in {"catchup", "launch"}
  PROVE  TurnSound'
<1>0. past.hidden \in BOOLEAN /\ round.state \in Entries
  BY DEF Typed, PastRecs, RoundRecs
<1>1. snap.entry # Absent /\ ~snap.entry.attn
  BY LaunchableIsThere DEF RoundWell
<1>2. cache = NoCache \/ Follows(cache, hub.log, past.hidden, past.upto)
  BY <1>1 DEF TurnSound, JustBack, Shows
<1> QED
  BY <1>0, <1>2, FollowsRead DEF TurnSound

\* A record arrives above all others.
LEMMA TurnArrival ==
  ASSUME Typed, TurnSound, NEW r, Arrives(r), r.v > latestRecordVersion(hub.log), HubWell',
         UNCHANGED <<cache, snap>>, past'.hidden = past.hidden, past'.upto = past.upto,
         past.hidden => r.kind # "ack" /\ cache.version <= latestRecordVersion(hub.log),
         round' = round \/ round.step \notin {"observe", "decide"}
  PROVE  TurnSound'
<1>0. /\ hub.log \in Logs /\ hub.clock \in Nat /\ LogWell(hub.log, hub.clock)
      /\ cache \in CacheRecs /\ past.hidden \in BOOLEAN /\ cache.version \in Versions
      /\ latestRecordVersion(hub.log) \in Nat
  BY Top DEF Typed, HubWell, HubRecs, CacheWell, PastRecs, CacheRecs
<1>1. r \in LogRecs /\ hub'.log = hub.log \cup {r} /\ LogWell(hub.log \cup {r}, hub.clock + 1)
  BY DEF Arrives, HubWell
<1>2. CASE Follows(cache, hub.log, past.hidden, past.upto)
  <2>1. past.hidden => r.kind # "ack" /\ ~Ahead(cache, hub.log)
    BY <1>0 DEF Ahead, Versions
  <2>2. Follows(cache, hub.log \cup {r}, past.hidden, past.upto)
    BY <1>0, <1>1, <1>2, <2>1, FollowsAdd
  <2> QED
    BY <1>1, <2>2 DEF TurnSound
<1>3. CASE cache = NoCache \/ snap.entry = Absent \/ snap.entry.attn
  BY <1>3 DEF TurnSound
<1>4. CASE (JustBack /\ cache.version <= round.state.version) \/ Shows(cache)
  <2>1. round' = round
    BY <1>4 DEF JustBack, Shows
  <2> QED
    BY <1>4, <2>1 DEF TurnSound, JustBack, Shows
<1> QED
  BY <1>2, <1>3, <1>4 DEF TurnSound

LEMMA TurnPublish ==
  ASSUME Typed, TurnSound, Publish, HubWell', Unwatched = FALSE
  PROVE  TurnSound'
<1>1. PICK k \in Kinds, to \in Tos : Append(k, to)
  BY Named DEF Publish, Tos
<1> DEFINE r == Record(Entry.version + 1, k, to)
<1>2. Arrives(r)
  BY <1>1, AppendArrives DEF Typed
<1>3. r.v = Entry.version + 1
  BY DEF Record
<1>4. ~past.hidden /\ UNCHANGED <<cache, snap, round, past>>
  BY <1>1 DEF Append, Publish
<1> HIDE DEF r
<1>5. r.v > latestRecordVersion(hub.log)
  BY <1>3, HubTop DEF Typed
<1> QED
  BY <1>2, <1>4, <1>5, TurnArrival

LEMMA TurnMark ==
  ASSUME Typed, CacheInv, TurnSound, MarkLands, HubWell'
  PROVE  TurnSound'
<1>0. past \in PastRecs /\ hub \in HubRecs /\ HubWell /\ round \in RoundRecs
  BY DEF Typed, HubWell
<1> DEFINE r == Record(round.base + 1, "marker", round.state.to)
<1>1. r.v = round.base + 1 /\ r.kind = "marker"
  BY DEF Record
<1>2. /\ hub' = [hub EXCEPT !.log = hub.log \cup {r}, !.upd = hub.upd + 1, !.clock = hub.clock + 1]
      /\ latestRecordVersion(hub.log) = round.base /\ round.step = "mark"
      /\ UNCHANGED <<cache, snap>>
  BY <1>0 DEF MarkLands, HubRecs
<1>3. round.base \in Nat /\ round.base + 1 >= 1 /\ round.base + 1 <= hub.clock + 1 /\ round.state.to \in Tos
      /\ round.base + 1 \in Nat
  BY <1>0, <1>2, HubTop DEF RoundRecs, Entries, HubRecs
<1>4. r \in LogRecs /\ r.v >= 1 /\ r.v <= hub.clock + 1 /\ r.at = hub.clock + 1
  BY <1>0, <1>3, RecordTyped, Named
<1> HIDE DEF r
<1>5. Arrives(r)
  BY <1>0, <1>2, <1>4, Added
<1>6. past'.hidden = past.hidden /\ past'.upto = past.upto
  BY <1>0 DEF MarkLands, Told, PastRecs
<1>7. r.v > latestRecordVersion(hub.log) /\ cache.version <= latestRecordVersion(hub.log)
  BY <1>1, <1>2, <1>3 DEF CacheInv
<1>8. round.step \notin {"observe", "decide"} /\ r.kind # "ack"
  BY <1>1, <1>2
<1> QED
  BY <1>2, <1>5, <1>6, <1>7, <1>8, TurnArrival

LEMMA TurnForeign ==
  ASSUME Typed, TurnSound, ForeignDuplicate \/ ForeignRewind, HubWell'
  PROVE  TurnSound'
<1>0. /\ past \in PastRecs /\ hub \in HubRecs /\ HubWell /\ hub.log \in Logs /\ hub.clock \in Nat
      /\ LogWell(hub.log, hub.clock) /\ cache \in CacheRecs /\ past.upto \in Nat /\ past.hidden \in BOOLEAN
      /\ past.upto <= past.upto
  BY DEF Typed, HubWell, HubRecs, CacheWell, PastRecs
<1>1. past' = [past EXCEPT !.hidden = TRUE] /\ UNCHANGED <<snap, round, cache>>
  BY DEF ForeignDuplicate, ForeignRewind
<1>2. past'.hidden = TRUE /\ past'.upto = past.upto
  BY <1>0, <1>1 DEF PastRecs
<1>3. ASSUME Follows(cache, hub.log, past.hidden, past.upto) PROVE Follows(cache, hub'.log, TRUE, past.upto)
  <2>a. Follows(cache, hub.log, TRUE, past.upto)
    BY <1>0, <1>3, FollowsMore
  <2>1. CASE ForeignDuplicate
    <3>1. PICK x \in hub.log, kind \in {"human", "marker"}, to \in Agents :
             /\ ~\E a \in hub.log : a.kind = "ack" /\ a.v > x.v
             /\ hub' = [hub EXCEPT !.log = hub.log \cup {Record(x.v, kind, to)}, !.clock = hub.clock + 1]
      BY <1>0, <2>1 DEF ForeignDuplicate, HubRecs
    <3> DEFINE r == Record(x.v, kind, to)
    <3>2. x.v \in Nat /\ x.v >= 1 /\ x.v <= hub.clock + 1
      BY <1>0 DEF Logs, LogRecs, LogWell
    <3>3. r \in LogRecs /\ r.v = x.v /\ r.kind # "ack" /\ r.at = hub.clock + 1
      BY <1>0, <3>2, RecordTyped, Named
    <3>4. hub'.log = hub.log \cup {r} /\ hub'.clock = hub.clock + 1
      BY <1>0, <3>1 DEF HubRecs
    <3> HIDE DEF r
    <3>5. LogWell(hub.log \cup {r}, hub.clock + 1)
      BY <3>4 DEF HubWell
    <3>6. r \notin hub.log
      BY <1>0, <3>3 DEF LogWell
    <3>7. Follows(cache, hub.log \cup {r}, TRUE, past.upto)
      BY <1>0, <2>a, <3>1, <3>3, <3>5, <3>6, FollowsDouble
    <3> QED
      BY <3>4, <3>7
  <2>2. CASE ForeignRewind
    <3>1. hub'.log = {r \in hub.log : r.v < latestRecordVersion(hub.log)} /\ hub'.clock = hub.clock
      BY <1>0, <2>2, HubTop DEF ForeignRewind, HubRecs
    <3>2. LogWell(hub'.log, hub.clock)
      BY <3>1 DEF HubWell
    <3> QED
      BY <1>0, <2>a, <3>1, <3>2, FollowsRewind
  <2> QED
    BY <2>1, <2>2
<1> QED
  BY <1>1, <1>2, <1>3 DEF TurnSound, JustBack, Shows

LEMMA NextTurn ==
  ASSUME Typed, CacheInv, UptoWell, TurnSound, Next, Unwatched = FALSE
  PROVE  TurnSound'
<1>0. past \in PastRecs /\ hub \in HubRecs /\ HubWell' /\ RoundWell
  BY HubStays DEF Typed, HubWell, CacheInv
<1>1. CASE Fetch
  BY <1>1, TurnFetch
<1>2. CASE Observe
  BY <1>2, TurnObserve
<1>3. CASE Decide \/ DecideUnread \/ DecideReadFails
  BY <1>0, <1>3, TurnDecided
<1>4. CASE CatchupDecides
  <2>1. UNCHANGED <<hub, snap>> /\ cache' = Remembered(round.state) /\ round.step = "catchup"
    BY <1>4 DEF CatchupDecides
  <2>2. past'.hidden = past.hidden /\ past'.upto = past.upto
    BY <1>0, <1>4 DEF CatchupDecides, PastRecs
  <2> QED
    BY <1>0, <2>1, <2>2, TurnRead
<1>5. CASE LaunchPlans
  <2>1. UNCHANGED <<hub, snap>> /\ cache' = Remembered(round.state) /\ round.step = "launch"
    BY <1>5 DEF LaunchPlans
  <2>2. past'.hidden = past.hidden /\ past'.upto = past.upto
    BY <1>0, <1>5 DEF LaunchPlans, PastRecs
  <2> QED
    BY <1>0, <2>1, <2>2, TurnRead
<1>6. CASE LaunchDropped \/ LaunchReadFails \/ MarkConflicts
  <2>1. UNCHANGED <<hub, cache, snap>> /\ round.step \notin {"observe", "decide"}
    BY <1>6 DEF LaunchDropped, LaunchReadFails, MarkConflicts
  <2>2. past'.hidden = past.hidden /\ past'.upto = past.upto
    BY <1>0, <1>6 DEF LaunchDropped, LaunchReadFails, MarkConflicts, Told, PastRecs
  <2> QED
    BY <2>1, <2>2, TurnFrame
<1>7. CASE MarkLands
  BY <1>0, <1>7, TurnMark
<1>8. CASE StartSettles \/ RunEnds \/ StopRequested \/ PlaceChanges \/ ModeSwitches
  <2>1. UNCHANGED <<cache, snap, round, past>> /\ hub'.log = hub.log
    BY <1>0, <1>8 DEF StartSettles, RunEnds, StopRequested, PlaceChanges, ModeSwitches, HubRecs
  <2> QED
    BY <2>1, TurnFrame
<1>9. CASE Publish
  BY <1>0, <1>9, TurnPublish
<1>10. CASE ForeignDuplicate \/ ForeignRewind
  BY <1>0, <1>10, TurnForeign
<1>11. CASE Restart
  BY <1>11 DEF Restart, TurnSound
<1> QED
  BY <1>1, <1>2, <1>3, <1>4, <1>5, <1>6, <1>7, <1>8, <1>9, <1>10, <1>11 DEF Next, Round

-----------------------------------------------------------------------------
(***************************************************************************)
(* What a round saw is old.  So nothing that arrives later counts as       *)
(* missing from what it read.                                              *)
(***************************************************************************)
TruthOld == \A r \in round.truth : r.at <= hub.clock

\* The steps in which the round has not decided yet.
Early == {"observe", "decide"}

\* What each step does to the round.
LEMMA RoundSteps ==
  ASSUME Typed, Next
  PROVE  \/ Fetch
         \/ Observe
         \/ UNCHANGED <<round, cache, snap>> /\ past'.upto = past.upto
         \/ round'.step \notin Early /\ round'.truth \in {{}, round.truth}
<1>0. round \in RoundRecs /\ past \in PastRecs
  BY DEF Typed
<1>a. round' = Idle => round'.step \notin Early /\ round'.truth = {}
  BY DEF Idle, Early
<1>b. \A v : round' = [round EXCEPT !.step = "launch", !.wake = v]
                => round'.step \notin Early /\ round'.truth = round.truth
  BY <1>0 DEF RoundRecs, Early
<1>c. round' = [round EXCEPT !.step = "launch"] => round'.step \notin Early /\ round'.truth = round.truth
  BY <1>0 DEF RoundRecs, Early
<1>d. \A b, h : round' = [round EXCEPT !.step = "mark", !.base = b, !.human = h]
                   => round'.step \notin Early /\ round'.truth = round.truth
  BY <1>0 DEF RoundRecs, Early
<1>1. CASE Fetch \/ Observe
  BY <1>1
<1>2. CASE Decide \/ DecideUnread \/ DecideReadFails
  BY <1>2, <1>a, <1>b, Decisions, RoundToLaunch
<1>3. CASE CatchupDecides
  BY <1>3, <1>a, <1>c DEF CatchupDecides
<1>4. CASE LaunchPlans
  BY <1>4, <1>a, <1>d DEF LaunchPlans
<1>5. CASE LaunchDropped \/ LaunchReadFails \/ MarkConflicts \/ MarkLands \/ Restart
  BY <1>5, <1>a DEF LaunchDropped, LaunchReadFails, MarkConflicts, MarkLands, Restart
<1>6. CASE StartSettles \/ RunEnds \/ StopRequested \/ Publish \/ PlaceChanges \/ ModeSwitches
  BY <1>6 DEF StartSettles, RunEnds, StopRequested, Publish, PlaceChanges, ModeSwitches
<1>7. CASE ForeignDuplicate \/ ForeignRewind
  <2>1. past' = [past EXCEPT !.hidden = TRUE] /\ UNCHANGED <<round, cache, snap>>
    BY <1>7 DEF ForeignDuplicate, ForeignRewind
  <2>2. past'.upto = past.upto
    BY <1>0, <2>1 DEF PastRecs
  <2> QED
    BY <2>1, <2>2
<1> QED
  BY <1>1, <1>2, <1>3, <1>4, <1>5, <1>6, <1>7 DEF Next, Round

LEMMA NextTruthOld ==
  ASSUME Typed, TruthOld, Next
  PROVE  TruthOld'
<1>0. round \in RoundRecs /\ hub.clock \in Nat /\ hub'.clock \in Nat /\ hub'.clock >= hub.clock
  BY LogSteps DEF Typed, HubWell, HubRecs
<1>1. \A r \in round.truth : r.at \in Nat
  BY <1>0 DEF RoundRecs, Logs, LogRecs
<1>2. ASSUME NEW r \in round.truth PROVE r.at <= hub'.clock
  BY <1>0, <1>1 DEF TruthOld
<1>3. CASE Fetch
  <2>1. round'.truth = hub.log /\ UNCHANGED hub
    BY <1>3 DEF Fetch, Idle
  <2> QED
    BY <2>1 DEF TruthOld, Typed, HubWell, LogWell
<1>4. CASE Observe
  <2>1. round'.truth = round.truth
    BY <1>0, <1>4 DEF Observe, RoundRecs
  <2> QED
    BY <1>2, <2>1 DEF TruthOld
<1>5. CASE round'.truth \in {{}, round.truth}
  BY <1>2, <1>5 DEF TruthOld
<1> QED
  BY <1>3, <1>4, <1>5, RoundSteps

LEMMA NextScan ==
  ASSUME Typed, UptoWell, TurnSound, ScanIsWhole, TruthOld, Next
  PROVE  ScanIsWhole'
<1>1. CASE Fetch
  BY <1>1, FetchScan
<1>2. CASE Observe
  BY <1>2, ObserveScan
<1>3. CASE UNCHANGED <<round, cache, snap>> /\ past'.upto = past.upto
  <2>0. hub.clock \in Nat /\ \A r \in round.truth : r.at \in Nat
    BY DEF Typed, HubWell, HubRecs, RoundRecs, Logs, LogRecs
  <2>1. round.truth \cap hub'.log \subseteq hub.log
    BY <2>0, LogSteps DEF TruthOld
  <2>2. Misses(cache, round.truth \cap hub'.log) \subseteq Misses(cache, round.truth \cap hub.log)
    BY <2>1 DEF Misses
  <2> QED
    BY <1>3, <2>2 DEF ScanIsWhole, JustBack
<1>4. CASE round'.step \notin Early
  BY <1>4 DEF ScanIsWhole, Early
<1> QED
  BY <1>1, <1>2, <1>3, <1>4, RoundSteps

-----------------------------------------------------------------------------
(***************************************************************************)
(* Where no poll finds a worker's note together with a hand-over.  A log   *)
(* that has grown since a snapshot names another role only if a content    *)
(* record came, and then no note of a worker did.                          *)
(***************************************************************************)
Newer(log, kind, v) == \E r \in log : r.kind = kind /\ r.v > v

\* The newest content record up to a version names the role.
TurnAt(log, v, to) ==
    \E r \in log : /\ r.kind = "work" /\ r.v <= v /\ r.to = to
                   /\ \A y \in log : y.kind = "work" /\ y.v <= v =>
                                        y.v < r.v \/ (y.v = r.v /\ y.at <= r.at)

PollsApart(log, e, hidden) ==
    e # Absent =>
        /\ ~(Newer(log, "worker", e.version) /\ Newer(log, "work", e.version))
        /\ ~hidden => e.version <= latestRecordVersion(log)
        /\ e.version <= latestRecordVersion(log) => TurnAt(log, e.version, e.to)

ApartInv == /\ PollsApart(hub.log, Seen, past.hidden)
            /\ round.step = "mark" => round.base = round.state.version

LEMMA ApartAdd ==
  ASSUME NEW log \in Logs, NEW clock \in Nat, LogWell(log, clock),
         NEW r \in LogRecs, LogWell(log \cup {r}, clock + 1), r.v > latestRecordVersion(log),
         NEW e \in Entries, NEW hidden \in BOOLEAN, PollsApart(log, e, hidden),
         e # Absent => /\ e.version <= latestRecordVersion(log)
                       /\ r.kind = "worker" => ~Newer(log, "work", e.version)
                       /\ r.kind = "work" => ~Newer(log, "worker", e.version)
  PROVE  PollsApart(log \cup {r}, e, hidden)
<1> SUFFICES ASSUME e # Absent PROVE PollsApart(log \cup {r}, e, hidden)
  BY DEF PollsApart
<1>0. e.version \in Nat /\ r.v \in Nat /\ latestRecordVersion(log) \in Nat
  BY Top DEF Entries, LogRecs
<1>1. log \cup {r} \in Logs /\ clock + 1 \in Nat
  BY DEF Logs
<1>2. latestRecordVersion(log \cup {r}) \in Nat /\ r.v <= latestRecordVersion(log \cup {r})
  BY <1>1, Top
<1>3. e.version <= latestRecordVersion(log \cup {r}) /\ ~(r.v <= e.version)
  BY <1>0, <1>2
<1>4. ~(Newer(log \cup {r}, "worker", e.version) /\ Newer(log \cup {r}, "work", e.version))
  BY DEF PollsApart, Newer
<1>5. TurnAt(log \cup {r}, e.version, e.to)
  <2>1. TurnAt(log, e.version, e.to)
    BY DEF PollsApart
  <2> QED
    BY <1>3, <2>1 DEF TurnAt
<1> QED
  BY <1>3, <1>4, <1>5 DEF PollsApart

LEMMA ApartDouble ==
  ASSUME NEW log \in Logs, NEW clock \in Nat, LogWell(log, clock),
         NEW r \in LogRecs, LogWell(log \cup {r}, clock + 1), r.kind \notin {"work", "worker"},
         r.v <= latestRecordVersion(log),
         NEW e \in Entries, NEW hidden \in BOOLEAN, PollsApart(log, e, hidden)
  PROVE  /\ PollsApart(log \cup {r}, e, TRUE)
         /\ latestRecordVersion(log \cup {r}) = latestRecordVersion(log)
<1> DEFINE t == latestRecordVersion(log)
           u == latestRecordVersion(log \cup {r})
<1>1. t \in Nat /\ (\A y \in log : y.v <= t) /\ \E y \in log : y.v = t
  BY Top
<1>2. log \cup {r} \in Logs /\ clock + 1 \in Nat
  BY DEF Logs
<1>3. u \in Nat /\ (\A y \in log \cup {r} : y.v <= u) /\ \E y \in log \cup {r} : y.v = u
  BY <1>2, Top
<1>4. t = u
  <2>1. t <= u /\ u <= t
    BY <1>1, <1>3
  <2> HIDE DEF t, u
  <2> QED
    BY <1>1, <1>3, <2>1
<1>5. \A k \in {"work", "worker"} : Newer(log \cup {r}, k, e.version) => Newer(log, k, e.version)
  BY DEF Newer
<1>6. TurnAt(log, e.version, e.to) => TurnAt(log \cup {r}, e.version, e.to)
  BY DEF TurnAt
<1> QED
  BY <1>4, <1>5, <1>6 DEF PollsApart

LEMMA ApartRewind ==
  ASSUME NEW log \in Logs, NEW clock \in Nat, LogWell(log, clock),
         NEW back \in Logs, back = {r \in log : r.v < latestRecordVersion(log)}, LogWell(back, clock),
         NEW e \in Entries, NEW hidden \in BOOLEAN, PollsApart(log, e, hidden)
  PROVE  /\ PollsApart(back, e, TRUE)
         /\ latestRecordVersion(back) < latestRecordVersion(log)
<1> DEFINE t == latestRecordVersion(log)
           u == latestRecordVersion(back)
<1>0. back \in Logs /\ e.version \in Nat /\ \A y \in log : y.v \in Nat
  BY DEF Logs, LogRecs, Entries
<1>1. t \in Nat
  BY Top
<1>2. u \in Nat /\ \E y \in back : y.v = u
  BY <1>0, Top
<1>3. u < t
  BY <1>2
<1>4. \A k : Newer(back, k, e.version) => Newer(log, k, e.version)
  BY DEF Newer
<1>5. e.version <= u => e.version <= t
  <2> HIDE DEF t, u
  <2> QED
    BY <1>0, <1>1, <1>2, <1>3
<1>6. ASSUME e.version <= u, TurnAt(log, e.version, e.to) PROVE TurnAt(back, e.version, e.to)
  <2>1. \A y \in log : y.v <= e.version => y.v < t
    <3> HIDE DEF t, u
    <3> QED
      BY <1>0, <1>1, <1>2, <1>3, <1>6
  <2>2. \A y \in log : y.v <= e.version => y \in back
    BY <2>1
  <2>3. back \subseteq log
    OBVIOUS
  <2> HIDE DEF t, u
  <2> QED
    BY <1>6, <2>2, <2>3 DEF TurnAt
<1> QED
  BY <1>3, <1>4, <1>5, <1>6 DEF PollsApart

\* A snapshot is apart from nothing, and the next one shows what came since.
LEMMA ApartEntry ==
  ASSUME HubWell, NEW hidden \in BOOLEAN
  PROVE  /\ PollsApart(hub.log, Entry, hidden)
         /\ \A e \in Entries : PollsApart(hub.log, e, hidden) /\ e # Absent /\ Entry.to # e.to =>
               \A x \in hub.log : x.kind = "worker" => x.v <= e.version
<1>0. /\ hub.log \in Logs /\ hub.clock \in Nat /\ LogWell(hub.log, hub.clock)
      /\ \A x \in hub.log : x.v \in Nat /\ x.at \in Nat
  BY DEF HubWell, HubRecs, Logs, LogRecs
<1>1. /\ Entry.version = latestRecordVersion(hub.log) /\ Entry.version \in Nat
      /\ \A x \in hub.log : x.v <= Entry.version
  BY HubTop
<1> DEFINE w == Latest(hub.log, {"work"})
<1>2. /\ w \in hub.log /\ w.kind = "work" /\ Entry.to = w.to
      /\ \A x \in hub.log : x.kind = "work" => x.v < w.v \/ (x.v = w.v /\ x.at <= w.at)
  BY <1>0, NewestWork DEF Entry
<1> HIDE DEF w
<1>3. PollsApart(hub.log, Entry, hidden)
  <2>1. \A k : ~Newer(hub.log, k, Entry.version)
    BY <1>0, <1>1 DEF Newer
  <2>2. TurnAt(hub.log, Entry.version, Entry.to)
    BY <1>1, <1>2 DEF TurnAt
  <2>3. Entry.version <= latestRecordVersion(hub.log)
    BY <1>1
  <2> QED
    BY <2>1, <2>2, <2>3 DEF PollsApart
<1>4. ASSUME NEW e \in Entries, PollsApart(hub.log, e, hidden), e # Absent, Entry.to # e.to,
             NEW x \in hub.log, x.kind = "worker"
      PROVE  x.v <= e.version
  <2>0. e.version \in Nat
    BY DEF Entries
  <2>1. CASE ~(e.version <= latestRecordVersion(hub.log))
    BY <1>0, <1>1, <2>0, <2>1
  <2>2. CASE e.version <= latestRecordVersion(hub.log)
    <3>1. PICK r \in hub.log : /\ r.kind = "work" /\ r.v <= e.version /\ r.to = e.to
                               /\ \A y \in hub.log : y.kind = "work" /\ y.v <= e.version =>
                                        y.v < r.v \/ (y.v = r.v /\ y.at <= r.at)
      BY <1>4, <2>2 DEF PollsApart, TurnAt
    <3>2. ~(w.v <= e.version)
      <4>1. ASSUME w.v <= e.version PROVE w = r
        <5>1. w.v = r.v /\ w.at = r.at
          BY <1>0, <1>2, <3>1, <4>1
        <5> QED
          BY <1>0, <1>2, <5>1 DEF LogWell
      <4> QED
        BY <1>2, <1>4, <3>1, <4>1
    <3>3. Newer(hub.log, "work", e.version)
      BY <1>0, <1>2, <2>0, <3>2 DEF Newer
    <3>4. ~Newer(hub.log, "worker", e.version)
      BY <1>4, <3>3 DEF PollsApart
    <3> QED
      BY <1>0, <1>4, <2>0, <3>4 DEF Newer
  <2> QED
    BY <2>1, <2>2
<1> QED
  BY <1>3, <1>4

LEMMA ApartFrame ==
  ASSUME Typed, RoundWell, PollsApart(hub.log, Seen, past.hidden), hub'.log = hub.log, past'.hidden = past.hidden,
         UNCHANGED <<snap, round>> \/ (UNCHANGED snap /\ round.step # "observe" /\ round'.step # "observe")
  PROVE  PollsApart(hub.log, Seen, past.hidden)'
BY DEF Seen, PollsApart, Newer, TurnAt

\* What is added to the log while a round is under way.
LEMMA ApartArrival ==
  ASSUME Typed, HubWell', ApartInv, NEW r, Arrives(r), r.v > latestRecordVersion(hub.log),
         past'.hidden = past.hidden, UNCHANGED snap,
         round' = round \/ (round.step # "observe" /\ round'.step \notin {"observe", "mark"}),
         Seen # Absent => /\ Seen.version <= latestRecordVersion(hub.log)
                          /\ r.kind = "worker" => ~Newer(hub.log, "work", Seen.version)
                          /\ r.kind = "work" => ~Newer(hub.log, "worker", Seen.version)
  PROVE  ApartInv'
<1>1. /\ hub.log \in Logs /\ hub.clock \in Nat /\ LogWell(hub.log, hub.clock)
      /\ past.hidden \in BOOLEAN /\ Seen \in Entries
  BY DEF Typed, HubWell, HubRecs, PastRecs, Seen, RoundRecs, SnapRecs
<1>2. r \in LogRecs /\ hub'.log = hub.log \cup {r} /\ LogWell(hub.log \cup {r}, hub.clock + 1)
  BY DEF Arrives, HubWell
<1>3. Seen' = Seen
  BY DEF Seen
<1>4. PollsApart(hub.log \cup {r}, Seen, past.hidden)
  BY <1>1, <1>2, ApartAdd DEF ApartInv
<1>5. PollsApart(hub.log, Seen, past.hidden)'
  BY <1>2, <1>3, <1>4
<1> QED
  BY <1>5 DEF ApartInv

LEMMA ApartPublish ==
  ASSUME Typed, HubWell', ApartInv, Publish, Unwatched = FALSE, Crowded = FALSE
  PROVE  ApartInv'
<1>1. PICK k \in Kinds, to \in Tos : Append(k, to)
  BY Named DEF Publish, Tos
<1> DEFINE r == Record(Entry.version + 1, k, to)
<1>2. Arrives(r)
  BY <1>1, AppendArrives DEF Typed
<1>3. r.v = Entry.version + 1 /\ r.kind = k
  BY DEF Record
<1>4. ~past.hidden /\ (Seen = Absent \/ Apart(k)) /\ UNCHANGED <<snap, round, past>>
  BY <1>1 DEF Append, Publish
<1> HIDE DEF r
<1>5. r.v > latestRecordVersion(hub.log)
  BY <1>3, HubTop DEF Typed
<1>6. Seen # Absent => /\ Seen.version <= latestRecordVersion(hub.log)
                       /\ r.kind = "worker" => ~Newer(hub.log, "work", Seen.version)
                       /\ r.kind = "work" => ~Newer(hub.log, "worker", Seen.version)
  BY <1>3, <1>4 DEF ApartInv, PollsApart, Apart, Unseen, Newer
<1> QED
  BY <1>2, <1>4, <1>5, <1>6, ApartArrival

LEMMA ApartMark ==
  ASSUME Typed, HubWell', RoundWell, ApartInv, MarkLands
  PROVE  ApartInv'
<1>0. past \in PastRecs /\ hub \in HubRecs /\ HubWell /\ round \in RoundRecs
  BY DEF Typed, HubWell
<1> DEFINE r == Record(round.base + 1, "marker", round.state.to)
<1>1. r.v = round.base + 1 /\ r.kind = "marker"
  BY DEF Record
<1>2. /\ hub' = [hub EXCEPT !.log = hub.log \cup {r}, !.upd = hub.upd + 1, !.clock = hub.clock + 1]
      /\ latestRecordVersion(hub.log) = round.base /\ round.step = "mark"
      /\ UNCHANGED snap /\ round' = Idle
  BY <1>0 DEF MarkLands, HubRecs
<1>3. round.base \in Nat /\ round.base + 1 >= 1 /\ round.base + 1 <= hub.clock + 1 /\ round.state.to \in Tos
      /\ round.base + 1 \in Nat
  BY <1>0, <1>2, HubTop DEF RoundRecs, Entries, HubRecs
<1>4. r \in LogRecs /\ r.v >= 1 /\ r.v <= hub.clock + 1 /\ r.at = hub.clock + 1
  BY <1>0, <1>3, RecordTyped, Named
<1> HIDE DEF r
<1>5. Arrives(r)
  BY <1>0, <1>2, <1>4, Added
<1>6. past'.hidden = past.hidden
  BY <1>0 DEF MarkLands, Told, PastRecs
<1>7. r.v > latestRecordVersion(hub.log)
  BY <1>1, <1>2, <1>3
<1>8. Seen.version <= latestRecordVersion(hub.log)
  BY <1>2, <1>3 DEF Seen, ApartInv, RoundWell
<1>9. round.step # "observe" /\ round'.step \notin {"observe", "mark"}
  BY <1>2 DEF Idle
<1> QED
  BY <1>1, <1>2, <1>5, <1>6, <1>7, <1>8, <1>9, ApartArrival

LEMMA ApartForeign ==
  ASSUME Typed, HubWell', ApartInv, ForeignDuplicate \/ ForeignRewind
  PROVE  /\ ApartInv'
         /\ latestRecordVersion(hub'.log) <= latestRecordVersion(hub.log)
         /\ \A x \in hub.log : x \in hub'.log \/ latestRecordVersion(hub'.log) < x.v
         /\ \A x \in hub'.log : x \in hub.log \/ x.kind # "worker"
<1>0. /\ past \in PastRecs /\ hub \in HubRecs /\ HubWell /\ hub.log \in Logs /\ hub.clock \in Nat
      /\ LogWell(hub.log, hub.clock) /\ past.hidden \in BOOLEAN /\ Seen \in Entries
      /\ latestRecordVersion(hub.log) \in Nat
  BY Top DEF Typed, HubWell, HubRecs, PastRecs, Seen, RoundRecs, SnapRecs
<1>1. past' = [past EXCEPT !.hidden = TRUE] /\ UNCHANGED <<snap, round, cache>>
  BY DEF ForeignDuplicate, ForeignRewind
<1>2. past'.hidden = TRUE /\ Seen' = Seen
  BY <1>0, <1>1 DEF PastRecs, Seen
<1>3. PollsApart(hub.log, Seen, past.hidden)
  BY DEF ApartInv
<1>4. /\ PollsApart(hub'.log, Seen, TRUE)
      /\ latestRecordVersion(hub'.log) <= latestRecordVersion(hub.log)
      /\ \A x \in hub.log : x \in hub'.log \/ latestRecordVersion(hub'.log) < x.v
      /\ \A x \in hub'.log : x \in hub.log \/ x.kind # "worker"
  <2>1. CASE ForeignDuplicate
    <3>1. PICK x \in hub.log, kind \in {"human", "marker"}, to \in Agents :
             /\ ~\E a \in hub.log : a.kind = "ack" /\ a.v > x.v
             /\ hub' = [hub EXCEPT !.log = hub.log \cup {Record(x.v, kind, to)}, !.clock = hub.clock + 1]
      BY <1>0, <2>1 DEF ForeignDuplicate, HubRecs
    <3> DEFINE r == Record(x.v, kind, to)
    <3>2. x.v \in Nat /\ x.v >= 1 /\ x.v <= hub.clock + 1
      BY <1>0 DEF Logs, LogRecs, LogWell
    <3>3. r \in LogRecs /\ r.v = x.v /\ r.kind = kind
      BY <1>0, <3>2, RecordTyped, Named
    <3>4. hub'.log = hub.log \cup {r} /\ hub'.clock = hub.clock + 1
      BY <1>0, <3>1 DEF HubRecs
    <3> HIDE DEF r
    <3>5. LogWell(hub.log \cup {r}, hub.clock + 1)
      BY <3>4 DEF HubWell
    <3>6. r.v <= latestRecordVersion(hub.log)
      BY <1>0, <3>3, Top
    <3>7. /\ PollsApart(hub.log \cup {r}, Seen, TRUE)
          /\ latestRecordVersion(hub.log \cup {r}) = latestRecordVersion(hub.log)
      BY <1>0, <1>3, <3>3, <3>5, <3>6, ApartDouble
    <3>8. latestRecordVersion(hub'.log) = latestRecordVersion(hub.log) /\ PollsApart(hub'.log, Seen, TRUE)
      BY <3>4, <3>7
    <3>9. latestRecordVersion(hub'.log) <= latestRecordVersion(hub.log)
      BY <1>0, <3>8
    <3>10. r.kind # "worker"
      BY <3>3
    <3> QED
      BY <3>4, <3>8, <3>9, <3>10
  <2>2. CASE ForeignRewind
    <3>1. hub'.log = {r \in hub.log : r.v < latestRecordVersion(hub.log)} /\ hub'.clock = hub.clock
      BY <1>0, <2>2, HubTop DEF ForeignRewind, HubRecs
    <3>2. LogWell(hub'.log, hub.clock) /\ hub'.log \in Logs
      BY <3>1 DEF HubWell, HubRecs
    <3> DEFINE back == hub'.log
    <3>a. back = {r \in hub.log : r.v < latestRecordVersion(hub.log)} /\ LogWell(back, hub.clock)
          /\ back \in Logs
      BY <3>1, <3>2
    <3> HIDE DEF back
    <3>0. hub.log \in Logs /\ hub.clock \in Nat /\ LogWell(hub.log, hub.clock)
      BY <1>0
    <3>b. \A e \in Entries, h \in BOOLEAN : PollsApart(hub.log, e, h) =>
             PollsApart(back, e, TRUE) /\ latestRecordVersion(back) < latestRecordVersion(hub.log)
      BY <3>0, <3>a, ApartRewind
    <3>c. PollsApart(back, Seen, TRUE) /\ latestRecordVersion(back) < latestRecordVersion(hub.log)
      BY <1>0, <1>3, <3>b
    <3>3. PollsApart(hub'.log, Seen, TRUE) /\ latestRecordVersion(hub'.log) < latestRecordVersion(hub.log)
      BY <3>c DEF back
    <3>4. latestRecordVersion(hub'.log) \in Nat
      BY <1>0, <3>2, Top
    <3>5. ASSUME NEW x \in hub.log, x \notin hub'.log PROVE latestRecordVersion(hub'.log) < x.v
      <4>1. x.v \in Nat /\ ~(x.v < latestRecordVersion(hub.log))
        BY <1>0, <3>1, <3>5 DEF Logs, LogRecs
      <4> QED
        BY <1>0, <3>3, <3>4, <4>1
    <3>6. latestRecordVersion(hub'.log) <= latestRecordVersion(hub.log)
      BY <1>0, <3>3, <3>4
    <3>7. hub'.log \subseteq hub.log
      BY <3>1
    <3> QED
      BY <3>3, <3>5, <3>6, <3>7
  <2> QED
    BY <2>1, <2>2
<1>5. (round.step = "mark" => round.base = round.state.version)'
  BY <1>1 DEF ApartInv
<1> QED
  BY <1>2, <1>4, <1>5 DEF ApartInv

\* The steps that are no part of a round.
Outside == StartSettles \/ RunEnds \/ StopRequested \/ Publish \/ PlaceChanges \/ ModeSwitches
           \/ ForeignDuplicate \/ ForeignRewind

\* What a step does to the round that is under way.
LEMMA RoundLeaves ==
  ASSUME Typed, Next
  PROVE  \/ Fetch
         \/ Observe
         \/ LaunchPlans
         \/ Restart
         \/ Outside /\ UNCHANGED <<round, snap, cache>>
         \/ /\ round.step \notin {"idle", "observe"} /\ round'.step \notin {"observe", "decide", "mark"}
            /\ UNCHANGED snap /\ past'.hidden = past.hidden /\ (hub' = hub \/ MarkLands)
            /\ cache' \in {cache, Remembered(round.state)}
<1>0. round \in RoundRecs /\ past \in PastRecs
  BY DEF Typed
<1>a. round' = Idle => round'.step \notin {"observe", "decide", "mark"}
  BY DEF Idle
<1>b. \A v : round' = [round EXCEPT !.step = "launch", !.wake = v] => round'.step = "launch"
  BY <1>0 DEF RoundRecs
<1>c. round' = [round EXCEPT !.step = "launch"] => round'.step = "launch"
  BY <1>0 DEF RoundRecs
<1>1. CASE Decide \/ DecideUnread \/ DecideReadFails
  <2>1. PICK l, w, readable : Finish(l, w, readable)
    BY <1>1, Decisions
  <2>2. past'.hidden = past.hidden
    BY <1>0, <2>1 DEF Finish, PastRecs
  <2>3. round' = Idle \/ \E v : round' = [round EXCEPT !.step = "launch", !.wake = v]
    BY <2>1, RoundToLaunch
  <2>4. round'.step \notin {"observe", "decide", "mark"}
    BY <1>a, <1>b, <2>3
  <2>5. round.step = "decide" /\ UNCHANGED <<snap, hub>> /\ cache' \in {cache, Remembered(round.state)}
    BY <1>1 DEF Decide, DecideUnread, DecideReadFails
  <2> QED
    BY <2>2, <2>4, <2>5
<1>2. CASE CatchupDecides
  <2>1. past'.hidden = past.hidden
    BY <1>0, <1>2 DEF CatchupDecides, PastRecs
  <2>2. round'.step \notin {"observe", "decide", "mark"}
    BY <1>2, <1>a, <1>c DEF CatchupDecides
  <2>3. round.step = "catchup" /\ UNCHANGED <<snap, hub>> /\ cache' = Remembered(round.state)
    BY <1>2 DEF CatchupDecides
  <2> QED
    BY <2>1, <2>2, <2>3
<1>3. CASE LaunchDropped \/ LaunchReadFails \/ MarkConflicts \/ MarkLands
  <2>1. past'.hidden = past.hidden
    BY <1>0, <1>3 DEF LaunchDropped, LaunchReadFails, MarkConflicts, MarkLands, Told, PastRecs
  <2>2. round.step \in {"launch", "mark"} /\ round' = Idle /\ UNCHANGED <<snap, cache>>
        /\ (hub' = hub \/ MarkLands)
    BY <1>3 DEF LaunchDropped, LaunchReadFails, MarkConflicts, MarkLands
  <2> QED
    BY <1>a, <2>1, <2>2
<1>4. CASE Outside
  BY <1>4 DEF Outside, StartSettles, RunEnds, StopRequested, Publish, PlaceChanges, ModeSwitches,
              ForeignDuplicate, ForeignRewind
<1> QED
  BY <1>1, <1>2, <1>3, <1>4 DEF Next, Round, Outside

LEMMA NextApart ==
  ASSUME Typed, RoundWell, ApartInv, Next, Unwatched = FALSE, Crowded = FALSE
  PROVE  ApartInv'
<1>0. /\ round \in RoundRecs /\ past \in PastRecs /\ HubWell /\ HubWell' /\ hub \in HubRecs
      /\ past'.hidden \in BOOLEAN /\ Typed'
  BY HubStays, NextTyped DEF Typed, HubWell, PastRecs
<1>1. CASE Fetch
  <2>1. /\ round'.step = "observe" /\ UNCHANGED hub
        /\ round'.state = IF hub.place = "tasks" THEN Entry ELSE Absent
    BY <1>1 DEF Fetch, Idle
  <2>2. PollsApart(hub.log, Entry, past'.hidden) /\ PollsApart(hub.log, Absent, past'.hidden)
    BY <1>0, ApartEntry DEF PollsApart
  <2>3. Seen' = round'.state
    BY <2>1 DEF Seen
  <2> QED
    BY <2>1, <2>2, <2>3 DEF ApartInv
<1>2. CASE Observe
  <2>1. /\ round.step = "observe" /\ UNCHANGED hub /\ snap'.entry = round.state
        /\ round'.step \in {"decide", "catchup", "idle"}
    BY <1>0, <1>2 DEF Observe, RoundRecs
  <2>2. past'.hidden = past.hidden
    BY <1>0, <1>2 DEF Observe, PastRecs
  <2>3. Seen' = Seen
    BY <2>1 DEF Seen
  <2> QED
    BY <2>1, <2>2, <2>3 DEF ApartInv
<1>3. CASE LaunchPlans
  <2> DEFINE rs == fullLog(round.state)
  <2>1. /\ UNCHANGED <<hub, snap>> /\ round.step = "launch"
        /\ round' = IF Planned(rs).ok
                    THEN [round EXCEPT !.step = "mark", !.base = Planned(rs).base, !.human = onlineHumanVersion(lane)]
                    ELSE Idle
    BY <1>3 DEF LaunchPlans
  <2>2. past'.hidden = past.hidden
    BY <1>0, <1>3 DEF LaunchPlans, PastRecs
  <2>3. Planned(rs).ok => Planned(rs).base = round.state.version
    <3> HIDE DEF rs
    <3> QED
      BY DEF Planned
  <2> HIDE DEF rs
  <2>4. round'.step # "observe" /\ (round'.step = "mark" => round'.base = round'.state.version)
    <3>1. \A b, h : round' = [round EXCEPT !.step = "mark", !.base = b, !.human = h] =>
                       round'.step = "mark" /\ round'.base = b /\ round'.state = round.state
      BY <1>0 DEF RoundRecs
    <3> QED
      BY <2>1, <2>3, <3>1 DEF Idle
  <2>5. PollsApart(hub.log, Seen, past.hidden)'
    BY <2>1, <2>2, <2>4, ApartFrame DEF ApartInv
  <2> QED
    BY <2>4, <2>5 DEF ApartInv
<1>4. CASE Restart
  <2>1. round'.step = "idle" /\ snap'.entry = Absent
    BY <1>4 DEF Restart, Idle
  <2> QED
    BY <2>1 DEF ApartInv, PollsApart, Seen
<1>5. CASE MarkLands
  BY <1>0, <1>5, ApartMark
<1>6. CASE /\ round.step \notin {"idle", "observe"} /\ round'.step \notin {"observe", "decide", "mark"}
           /\ UNCHANGED snap /\ past'.hidden = past.hidden /\ hub' = hub
  <2>1. PollsApart(hub.log, Seen, past.hidden)'
    BY <1>6, ApartFrame DEF ApartInv
  <2> QED
    BY <1>6, <2>1 DEF ApartInv
<1>7. CASE Publish
  BY <1>0, <1>7, ApartPublish
<1>8. CASE ForeignDuplicate \/ ForeignRewind
  BY <1>0, <1>8, ApartForeign
<1>9. CASE StartSettles \/ RunEnds \/ StopRequested \/ PlaceChanges \/ ModeSwitches
  <2>1. UNCHANGED <<snap, round, past>> /\ hub'.log = hub.log
    BY <1>0, <1>9 DEF StartSettles, RunEnds, StopRequested, PlaceChanges, ModeSwitches, HubRecs
  <2>2. PollsApart(hub.log, Seen, past.hidden)'
    BY <2>1, ApartFrame DEF ApartInv
  <2> QED
    BY <2>1, <2>2 DEF ApartInv
<1> QED
  BY <1>1, <1>2, <1>3, <1>4, <1>5, <1>6, <1>7, <1>8, <1>9, RoundLeaves DEF Outside

-----------------------------------------------------------------------------
\* What the cache knows of records that are gone lies above the log, or above
\* the snapshot that is about to drop the cache.
GhostsAbove ==
    \A x \in cache.records :
        \/ x \in hub.log
        \/ past.hidden /\ latestRecordVersion(hub.log) < x.v
        \/ round.step = "observe" /\ round.state # Absent /\ round.state.version < x.v

\* What the steps outside of a round do to the log.
LEMMA OutsideLog ==
  ASSUME Typed, HubWell', ApartInv, Outside, Unwatched = FALSE
  PROVE  \/ hub'.log = hub.log /\ past'.hidden = past.hidden
         \/ /\ hub.log \subseteq hub'.log /\ ~past.hidden /\ ~past'.hidden
            /\ \A x \in hub'.log \ hub.log : x.v > latestRecordVersion(hub.log)
         \/ /\ past'.hidden /\ latestRecordVersion(hub'.log) <= latestRecordVersion(hub.log)
            /\ \A x \in hub.log : x \in hub'.log \/ latestRecordVersion(hub'.log) < x.v
            /\ \A x \in hub'.log : x \in hub.log \/ x.kind # "worker"
<1>0. hub \in HubRecs /\ past \in PastRecs /\ HubWell
  BY DEF Typed, HubWell
<1>1. CASE StartSettles \/ RunEnds \/ StopRequested \/ PlaceChanges \/ ModeSwitches
  <2>1. UNCHANGED past /\ hub'.log = hub.log
    BY <1>0, <1>1 DEF StartSettles, RunEnds, StopRequested, PlaceChanges, ModeSwitches, HubRecs
  <2> QED
    BY <2>1
<1>2. CASE Publish
  <2>1. PICK k \in Kinds, to \in Tos : Append(k, to)
    BY <1>2, Named DEF Publish, Tos
  <2> DEFINE r == Record(Entry.version + 1, k, to)
  <2>2. Arrives(r) /\ r.v = Entry.version + 1
    BY <1>0, <2>1, AppendArrives DEF Record
  <2>3. ~past.hidden /\ UNCHANGED past
    BY <1>2, <2>1 DEF Append, Publish
  <2> HIDE DEF r
  <2>4. r.v > latestRecordVersion(hub.log)
    BY <1>0, <2>2, HubTop
  <2> QED
    BY <2>2, <2>3, <2>4 DEF Arrives
<1>3. CASE ForeignDuplicate \/ ForeignRewind
  <2>1. past' = [past EXCEPT !.hidden = TRUE]
    BY <1>3 DEF ForeignDuplicate, ForeignRewind
  <2>2. past'.hidden
    BY <1>0, <2>1 DEF PastRecs
  <2> QED
    BY <1>0, <1>3, <2>2, ApartForeign
<1> QED
  BY <1>1, <1>2, <1>3 DEF Outside

LEMMA GhostsRead ==
  ASSUME Typed, GhostsAbove, round.step # "observe",
         past'.hidden = past.hidden, UNCHANGED hub, cache' \in {cache, Remembered(round.state)}
  PROVE  GhostsAbove'
<1>1. round.state \in Entries
  BY DEF Typed, RoundRecs
<1>2. cache'.records \subseteq cache.records \cup hub.log
  <2>1. CASE cache' = cache
    BY <2>1
  <2>2. CASE cache' = Remembered(round.state)
    <3>1. cache'.records = fullLog(round.state)
      BY <1>1, <2>2, RememberedWell
    <3> QED
      BY <3>1 DEF fullLog, Pulled
  <2> QED
    BY <2>1, <2>2
<1>3. \A x \in cache'.records : x \in hub.log \/ (past.hidden /\ latestRecordVersion(hub.log) < x.v)
  BY <1>2 DEF GhostsAbove
<1> QED
  BY <1>3 DEF GhostsAbove

LEMMA NextGhosts ==
  ASSUME Typed, CacheInv, ApartInv, GhostsAbove, Next, Unwatched = FALSE
  PROVE  GhostsAbove'
<1>0. /\ round \in RoundRecs /\ past \in PastRecs /\ HubWell /\ HubWell' /\ hub \in HubRecs
      /\ past.hidden \in BOOLEAN /\ cache \in CacheRecs /\ \A x \in cache.records : x.v <= cache.version /\ x.v \in Nat
      /\ cache.version \in Versions /\ round.state.version \in Nat
      /\ latestRecordVersion(hub.log) \in Nat /\ latestRecordVersion(hub'.log) \in Nat
  BY HubStays, Top DEF Typed, HubWell, HubRecs, PastRecs, CacheWell, CacheRecs, Logs, LogRecs, RoundRecs, Entries
<1>1. CASE Fetch
  <2>1. /\ round.step = "idle" /\ round'.step = "observe" /\ UNCHANGED <<hub, cache>>
        /\ round'.state = IF hub.place = "tasks" THEN Entry ELSE Absent
    BY <1>1 DEF Fetch, Idle
  <2>2. past'.hidden = (past.hidden /\ hub.place # "tasks")
    BY <1>0, <1>1 DEF Fetch, PastRecs
  <2>3. Entry # Absent /\ Entry.version = latestRecordVersion(hub.log)
    BY <1>0, EntryTyped
  <2>4. ASSUME NEW x \in cache.records
        PROVE  x \in hub.log \/ (past.hidden /\ latestRecordVersion(hub.log) < x.v)
    BY <2>1, <2>4 DEF GhostsAbove
  <2> QED
    BY <1>0, <2>1, <2>2, <2>3, <2>4 DEF GhostsAbove
<1>2. CASE Observe
  <2>1. /\ round.step = "observe" /\ UNCHANGED hub
        /\ cache' = reconcileLogCache(round.state, snap.entry, round.place # "gone")
    BY <1>2 DEF Observe
  <2>2. past'.hidden = past.hidden
    BY <1>0, <1>2 DEF Observe, PastRecs
  <2>3. CASE cache' = NoCache
    BY <2>3 DEF GhostsAbove, NoCache
  <2>4. CASE cache' # NoCache
    <3>1. cache' = cache /\ ~Evicted(round.state, snap.entry, round.place # "gone")
      BY <2>1, <2>4 DEF reconcileLogCache
    <3>2. ~(round.state # Absent /\ cache.version > round.state.version)
      BY <3>1 DEF Evicted
    <3>3. ASSUME NEW x \in cache.records, round.state # Absent PROVE ~(round.state.version < x.v)
      <4>1. x.v <= cache.version /\ x.v \in Nat
        BY <1>0
      <4>2. ~(cache.version > round.state.version)
        BY <3>2, <3>3
      <4> QED
        BY <1>0, <4>1, <4>2 DEF Versions
    <3> QED
      BY <2>1, <2>2, <3>1, <3>3 DEF GhostsAbove
  <2> QED
    BY <2>3, <2>4
<1>3. CASE LaunchPlans
  <2>1. past'.hidden = past.hidden
    BY <1>0, <1>3 DEF LaunchPlans, PastRecs
  <2>2. round.step = "launch" /\ UNCHANGED hub /\ cache' = Remembered(round.state)
    BY <1>3 DEF LaunchPlans
  <2> QED
    BY <2>1, <2>2, GhostsRead
<1>4. CASE Restart
  BY <1>4 DEF Restart, GhostsAbove, NoCache
<1>5. CASE Outside /\ UNCHANGED <<round, snap, cache>>
  <2> SUFFICES ASSUME NEW x \in cache.records
               PROVE  \/ x \in hub'.log
                      \/ past'.hidden /\ latestRecordVersion(hub'.log) < x.v
                      \/ round.step = "observe" /\ round.state # Absent /\ round.state.version < x.v
    BY <1>5 DEF GhostsAbove
  <2>1. x.v \in Nat
    BY <1>0
  <2>2. CASE hub'.log = hub.log /\ past'.hidden = past.hidden
    BY <2>2 DEF GhostsAbove
  <2>3. CASE hub.log \subseteq hub'.log /\ ~past.hidden
    BY <2>3 DEF GhostsAbove
  <2>4. CASE /\ past'.hidden /\ latestRecordVersion(hub'.log) <= latestRecordVersion(hub.log)
             /\ \A y \in hub.log : y \in hub'.log \/ latestRecordVersion(hub'.log) < y.v
    <3>1. latestRecordVersion(hub.log) < x.v => latestRecordVersion(hub'.log) < x.v
      BY <1>0, <2>1, <2>4
    <3> QED
      BY <2>4, <3>1 DEF GhostsAbove
  <2> QED
    BY <1>0, <1>5, <2>2, <2>3, <2>4, OutsideLog
<1>6. CASE MarkLands
  <2>1. /\ UNCHANGED cache /\ round.step = "mark" /\ latestRecordVersion(hub.log) = round.base
        /\ cache.version <= round.base
    BY <1>6 DEF MarkLands, CacheInv
  <2>2. hub.log \subseteq hub'.log
    BY <1>0, <1>6 DEF MarkLands, HubRecs
  <2>3. \A x \in cache.records : ~(latestRecordVersion(hub.log) < x.v)
    BY <1>0, <2>1 DEF Versions
  <2> QED
    BY <2>1, <2>2, <2>3 DEF GhostsAbove
<1>7. CASE /\ round.step \notin {"idle", "observe"} /\ past'.hidden = past.hidden /\ hub' = hub
           /\ cache' \in {cache, Remembered(round.state)}
  BY <1>7, GhostsRead
<1> QED
  BY <1>1, <1>2, <1>3, <1>4, <1>5, <1>6, <1>7, RoundLeaves

-----------------------------------------------------------------------------
\* The snapshot the round compares with.
Before == IF round.step = "observe" THEN snap.entry ELSE round.prev

\* A round that sees a hand-over sees no new note of a worker, and can read none.
HandOverAlone ==
    round.step \in Early /\ round.state # Absent =>
        /\ Before # Absent /\ Before.to # round.state.to =>
              \A x \in round.truth : x.kind = "worker" => x.v <= Before.version
        /\ \A x \in cache.records \cup hub.log :
              x.kind = "worker" => x \in round.truth \/ round.state.version < x.v

LEMMA NextAlone ==
  ASSUME Typed, RoundWell, ApartInv, GhostsAbove, HandOverAlone, Next, Unwatched = FALSE
  PROVE  HandOverAlone'
<1>0. /\ round \in RoundRecs /\ past \in PastRecs /\ HubWell /\ HubWell' /\ hub \in HubRecs
      /\ past.hidden \in BOOLEAN /\ snap.entry \in Entries
      /\ latestRecordVersion(hub.log) \in Nat
  BY HubStays, Top DEF Typed, HubWell, HubRecs, PastRecs, SnapRecs
<1>1. CASE Fetch
  <2>1. /\ round.step = "idle" /\ round'.step = "observe" /\ UNCHANGED <<hub, cache, snap>>
        /\ round'.state = IF hub.place = "tasks" THEN Entry ELSE Absent
        /\ round'.truth = hub.log
    BY <1>1 DEF Fetch, Idle
  <2>2. SUFFICES ASSUME round'.state # Absent PROVE HandOverAlone'
    BY DEF HandOverAlone
  <2>3. round'.state = Entry /\ Entry.version = latestRecordVersion(hub.log)
    BY <1>0, <2>1, <2>2, HubTop
  <2>4. PollsApart(hub.log, snap.entry, past.hidden)
    BY <2>1 DEF ApartInv, Seen
  <2>5. snap.entry # Absent /\ snap.entry.to # Entry.to =>
           \A x \in hub.log : x.kind = "worker" => x.v <= snap.entry.version
    BY <1>0, <2>4, ApartEntry
  <2>6. \A x \in cache.records : x \in hub.log \/ latestRecordVersion(hub.log) < x.v
    BY <2>1 DEF GhostsAbove
  <2> QED
    BY <2>1, <2>3, <2>5, <2>6 DEF HandOverAlone, Before
<1>2. CASE Observe
  <2>1. /\ round.step = "observe" /\ UNCHANGED hub
        /\ round'.state = round.state /\ round'.truth = round.truth /\ round'.prev = snap.entry
        /\ cache' \in {cache, NoCache} /\ round'.step # "observe"
    BY <1>0, <1>2 DEF Observe, RoundRecs, reconcileLogCache
  <2>2. cache'.records \subseteq cache.records
    BY <2>1 DEF NoCache
  <2> QED
    BY <2>1, <2>2 DEF HandOverAlone, Before, Early
<1>3. CASE round'.step \notin Early
  BY <1>3 DEF HandOverAlone
<1>4. CASE Outside /\ UNCHANGED <<round, snap, cache>>
  <2>1. SUFFICES ASSUME round.step \in Early, round.state # Absent,
                        NEW x \in hub'.log, x \notin hub.log, x.kind = "worker"
                 PROVE  round.state.version < x.v
    BY <1>4 DEF HandOverAlone, Before
  <2>2. \A y \in hub'.log \ hub.log : y.v > latestRecordVersion(hub.log)
    BY <1>0, <1>4, <2>1, OutsideLog
  <2>3. ~past.hidden
    BY <1>0, <1>4, <2>1, OutsideLog
  <2>4. Seen = round.state
    BY <2>1 DEF Seen, Early, RoundWell
  <2>5. round.state.version <= latestRecordVersion(hub.log)
    BY <2>1, <2>3, <2>4 DEF ApartInv, PollsApart
  <2>6. x.v \in Nat /\ round.state.version \in Nat
    BY <1>0 DEF HubWell, HubRecs, Logs, LogRecs, RoundRecs, Entries
  <2>7. x.v > latestRecordVersion(hub.log)
    BY <2>1, <2>2
  <2> QED
    BY <1>0, <2>5, <2>6, <2>7
<1>5. CASE LaunchPlans \/ Restart
  <2>1. \A b, h : round' = [round EXCEPT !.step = "mark", !.base = b, !.human = h] => round'.step = "mark"
    BY <1>0 DEF RoundRecs
  <2>2. round' = Idle => round'.step = "idle"
    BY DEF Idle
  <2> QED
    BY <1>3, <1>5, <2>1, <2>2 DEF LaunchPlans, Restart, Early
<1> QED
  BY <1>1, <1>2, <1>3, <1>4, <1>5, RoundLeaves DEF Early

-----------------------------------------------------------------------------
\* A scan that is carried on belongs to the turn of the last snapshot.
ScanSame ==
    lane.scan # NoScan =>
        /\ snap.entry # Absent /\ lane.scan.to = snap.entry.to
        /\ round.step = "decide" => round.prev # Absent /\ round.prev.to = round.state.to

LEMMA NextScanSame ==
  ASSUME Typed, RoundWell, ScanSame, Next
  PROVE  ScanSame'
<1>0. /\ round \in RoundRecs /\ lane \in LaneRecs
  BY DEF Typed, LaneTyped
<1>1. CASE Fetch
  <2>1. UNCHANGED <<lane, snap>> /\ round'.step = "observe"
    BY <1>1 DEF Fetch, Idle
  <2> QED
    BY <2>1 DEF ScanSame
<1>2. CASE Observe
  <2>1. /\ snap'.entry = round.state /\ round'.state = round.state /\ round'.prev = snap.entry
    BY <1>0, <1>2 DEF Observe, RoundRecs
  <2>2. SUFFICES ASSUME lane'.scan # NoScan PROVE ScanSame'
    BY DEF ScanSame
  <2>3. round.state # Absent /\ lane'.scan = lane.scan
    BY <1>2, <2>2, ObserveLane
  <2>4. round.state.to = lane.scan.to
    <3> DEFINE m == LaneAfterStop
    <3>1. m.scan = lane.scan
      BY <1>0 DEF LaneAfterStop, LaneRecs
    <3>2. ReconciledLane(m) = lane'
      BY <1>2 DEF Observe
    <3> HIDE DEF m
    <3>3. m.scan # NoScan
      BY <2>2, <2>3, <3>1
    <3>4. m \in LaneRecs
      <4>1. LaneWell(LaneAfterStop)
        BY LaneObserved DEF Typed
      <4> QED
        BY <4>1 DEF LaneWell, m
    <3>5. [m EXCEPT !.scan = NoScan].scan = NoScan
      BY <3>4 DEF LaneRecs
    <3> QED
      BY <2>2, <2>3, <3>1, <3>2, <3>3, <3>5 DEF ReconciledLane
  <2>5. snap.entry # Absent /\ lane.scan.to = snap.entry.to
    BY <2>2, <2>3 DEF ScanSame
  <2> QED
    BY <2>1, <2>3, <2>4, <2>5 DEF ScanSame
<1>3. CASE Decide \/ DecideUnread \/ DecideReadFails
  <2>1. /\ UNCHANGED snap /\ round.step = "decide" /\ round'.step # "decide"
        /\ \/ lane'.scan \in {NoScan, lane.scan}
           \/ Scans /\ lane'.scan = [version |-> ScanFrom, to |-> round.state.to]
    BY <1>3, Decided
  <2>2. snap.entry = round.state
    BY <2>1 DEF RoundWell
  <2>3. CASE lane'.scan \in {NoScan, lane.scan}
    BY <2>1, <2>3 DEF ScanSame
  <2>4. CASE Scans /\ lane'.scan = [version |-> ScanFrom, to |-> round.state.to]
    <3>1. ScanFrom \in Nat /\ round.state.version \in Nat
      BY DEF Typed, LaneTyped, RoundRecs, Entries, ScanFrom
    <3>2. round.state # Absent
      BY <2>4, <3>1 DEF Scans, Absent
    <3>3. lane'.scan.to = round.state.to
      BY <2>4
    <3> QED
      BY <2>1, <2>2, <3>2, <3>3 DEF ScanSame
  <2> QED
    BY <2>1, <2>3, <2>4
<1>4. CASE CatchupDecides \/ MarkLands
  <2>1. lane'.scan = lane.scan
    BY <1>0, <1>4 DEF CatchupDecides, MarkLands, LaneRecs
  <2>2. UNCHANGED snap /\ round'.step # "decide"
    <3>1. round' = [round EXCEPT !.step = "launch"] => round'.step = "launch"
      BY <1>0 DEF RoundRecs
    <3> QED
      BY <1>4, <3>1 DEF CatchupDecides, MarkLands, Idle
  <2> QED
    BY <2>1, <2>2 DEF ScanSame
<1>5. CASE LaunchDropped \/ LaunchPlans \/ LaunchReadFails \/ MarkConflicts
  <2>1. \A b, h : round' = [round EXCEPT !.step = "mark", !.base = b, !.human = h] => round'.step = "mark"
    BY <1>0 DEF RoundRecs
  <2>2. round' = Idle => round'.step = "idle"
    BY DEF Idle
  <2>3. UNCHANGED <<lane, snap>> /\ round'.step # "decide"
    BY <1>5, <2>1, <2>2 DEF LaunchDropped, LaunchPlans, LaunchReadFails, MarkConflicts
  <2> QED
    BY <2>3 DEF ScanSame
<1>6. CASE Outside
  <2>1. UNCHANGED <<lane, snap, round>>
    BY <1>6 DEF Outside, StartSettles, RunEnds, StopRequested, Publish, PlaceChanges, ModeSwitches,
                ForeignDuplicate, ForeignRewind
  <2> QED
    BY <2>1 DEF ScanSame
<1>7. CASE Restart
  BY <1>7 DEF Restart, FreshLane, ScanSame
<1> QED
  BY <1>1, <1>2, <1>3, <1>4, <1>5, <1>6, <1>7 DEF Next, Round, Outside

-----------------------------------------------------------------------------
(***************************************************************************)
(* A decision answers what it owes, and a launch it owes is not refused by *)
(* the lane.                                                               *)
(***************************************************************************)
Owed == past.edge \/ past.instruction

Answered ==
    /\ Owed => past.did # "nothing"
    /\ round.step \in Early \cup {"catchup"} => round.wake = NoWake
    /\ round.step = "launch" /\ Owed => ~Disallowed

\* A wake that comes with a hand-over is an instruction seen online.
LEMMA WakeIsOnline ==
  ASSUME Typed, HandOverAlone, ScanSame, round.step = "decide", round.state # Absent, WfChanged,
         NEW rs, rs = fullLog(round.state), Scans, WakeKept(LaneScanned(rs), NoteWakeOf(rs)) # NoWake
  PROVE  LaneScanned(rs).human # NoWake
<1>0. rs \in Logs /\ lane \in LaneRecs /\ lane.boundary \in Nat /\ ScanFrom \in Nat
  BY FullLogTyped DEF Typed, LaneTyped, LaneRecs, RoundRecs, Entries, ScanFrom
<1>1. LaneScanned(rs).boundary = lane.boundary
  BY <1>0 DEF LaneScanned, LaneRecs
<1>2. SUFFICES ASSUME lane.boundary = 0 PROVE LaneScanned(rs).human # NoWake
  BY <1>0, <1>1 DEF WakeKept
<1>3. NoteWakeOf(rs) # NoWake
  BY DEF WakeKept
<1>4. PICK x \in rs : InScan(x) /\ isWakeNote(x)
  BY <1>0, <1>3, Found
<1>a. lane.scan = NoScan
  BY DEF ScanSame, WfChanged
<1>b. round.prev # Absent /\ ScanFrom = round.prev.version
  BY <1>a DEF Scans, ScanFrom
<1>c. x.at \in Nat /\ x.v \in Nat /\ round.state.version \in Nat
  BY <1>0, <1>4 DEF Logs, LogRecs, Typed, RoundRecs, Entries
<1>5. IsHuman(x)
  <2>1. SUFFICES ASSUME x.kind = "worker" PROVE FALSE
    BY <1>4 DEF isWakeNote, IsHuman
  <2>2. x \in hub.log \cup cache.records
    BY <1>4 DEF fullLog, Pulled
  <2>3. ~(round.state.version < x.v) /\ ~(x.v <= round.prev.version)
    BY <1>0, <1>4, <1>b, <1>c DEF InScan
  <2>4. x \in round.truth
    BY <2>1, <2>2, <2>3 DEF HandOverAlone, Early
  <2> QED
    BY <1>b, <2>1, <2>3, <2>4 DEF HandOverAlone, Early, Before, WfChanged
<1>6. HumanScanned(rs) \in Nat
  BY <1>0, Found
<1>7. x.at >= lane.boundary
  BY <1>2, <1>c
<1>8. x.v <= HumanScanned(rs)
  BY <1>0, <1>4, <1>5, <1>7, Found
<1>9. x.v > 0
  BY <1>0, <1>4, <1>c DEF InScan
<1>10. HumanScanned(rs) > 0 /\ HumanScanned(rs) # NoWake
  BY <1>6, <1>8, <1>9, <1>c, Named
<1>11. LaneScanned(rs).human = HumanScanned(rs)
  BY <1>0, <1>10 DEF LaneScanned, LaneRecs
<1> QED
  BY <1>10, <1>11

\* The scan finds the instruction that is due.
LEMMA InstructionFound ==
  ASSUME Typed, RoundWell, UptoWell, ScanIsWhole, lane.boundary \in {0, run.stop},
         round.step = "decide", DueInstruction, NEW rs, rs = fullLog(round.state)
  PROVE  Scans /\ WakeKept(LaneScanned(rs), NoteWakeOf(rs)) # NoWake /\ LaneScanned(rs).human # NoWake
<1>0. /\ rs \in Logs /\ lane \in LaneRecs /\ run.stop \in Nat /\ past.upto \in Nat
      /\ cache.version \in Versions /\ hub.log \in Logs
      /\ round.state.version \in Nat /\ round.prev.version \in Nat
      /\ lane.scan = NoScan \/ lane.scan.version \in Nat
  BY FullLogTyped DEF Typed, LaneTyped, RunRecs, PastRecs, CacheWell, CacheRecs, RoundRecs, Entries,
     HubWell, HubRecs
<1>1. PICK r \in round.truth \cap hub.log : IsHuman(r) /\ r.v > past.upto /\ r.at >= run.stop
  BY DEF DueInstruction
<1>2. r.v \in Nat /\ r.at \in Nat /\ r.at >= lane.boundary
  <2>1. r.v \in Nat /\ r.at \in Nat
    BY <1>0 DEF Logs, LogRecs
  <2> QED
    BY <1>0, <1>1, <2>1
<1>3. round.state # Absent /\ ~round.state.attn /\ ~round.recovered /\ round.prev # Absent
  BY LaunchableIsThere DEF DueInstruction
<1>4. r.v <= round.state.version
  BY <1>1, <1>3 DEF RoundWell, Truthful
<1>5. ScanFrom <= past.upto /\ ScanFrom \in Nat
  <2>1. CASE lane.scan # NoScan
    BY <1>0, <2>1 DEF UptoWell, ScanFrom
  <2>2. CASE lane.scan = NoScan
    <3>1. round.prev.version <= past.upto \/ round.state.version <= past.upto
      BY <1>3, <2>2 DEF UptoWell
    <3>2. ~(round.state.version <= past.upto)
      BY <1>0, <1>1, <1>2, <1>4
    <3> QED
      BY <1>0, <2>2, <3>1, <3>2 DEF ScanFrom
  <2> QED
    BY <2>1, <2>2
<1>6. Scans /\ InScan(r)
  <2>1. r.v > ScanFrom /\ round.state.version > ScanFrom
    BY <1>0, <1>1, <1>2, <1>4, <1>5
  <2> QED
    BY <1>3, <1>4, <2>1 DEF Scans, InScan
<1>7. r \in rs
  <2>1. cache = NoCache => r \in rs
    BY <1>1 DEF fullLog, Pulled, Quiet
  <2>2. cache # NoCache => \A x \in Misses(cache, round.truth \cap hub.log) : x.v <= past.upto
    BY <1>3 DEF ScanIsWhole, JustBack
  <2>3. ~(r.v <= past.upto)
    BY <1>0, <1>1, <1>2
  <2>4. cache # NoCache /\ r.v <= cache.version => r \in cache.records
    BY <1>1, <2>2, <2>3 DEF Misses
  <2>5. ~(r.v <= cache.version) => r.v > cache.version /\ ~Quiet(round.state)
    <3>1. cache.version >= round.state.version => r.v <= cache.version
      BY <1>0, <1>2, <1>4 DEF Versions
    <3> QED
      BY <1>0, <1>2, <3>1 DEF Versions, Quiet
  <2> QED
    BY <1>1, <2>1, <2>4, <2>5 DEF fullLog, Pulled
<1>8. r.v <= HumanScanned(rs) /\ HumanScanned(rs) \in Nat /\ NoteWakeOf(rs) # NoWake
  BY <1>0, <1>1, <1>2, <1>6, <1>7, Found DEF isWakeNote, IsHuman
<1>9. HumanScanned(rs) > 0 /\ HumanScanned(rs) # NoWake
  BY <1>0, <1>1, <1>2, <1>8, Named
<1>10. LaneScanned(rs).human = HumanScanned(rs)
  BY <1>0, <1>6, <1>9 DEF LaneScanned, LaneRecs
<1> QED
  BY <1>6, <1>8, <1>9, <1>10 DEF WakeKept

LEMMA ReadyReads ==
  ASSUME NEW l, l \in LaneRecs, Ready(l)
  PROVE  round.auto /\ Launchable(round.state) /\ run.seat = "free"
<1>1. [l EXCEPT !.pending = NoPending].pending = NoPending
  BY DEF LaneRecs
<1>2. round.auto /\ ~round.state.attn /\ round.state.to \in Agents /\ run.seat = "free"
  BY <1>1 DEF Ready, PendingKept
<1> QED
  BY <1>2, Named DEF Launchable, autoGateReason

LEMMA FinishAnswers ==
  ASSUME Typed, NEW l, LaneWell(l), NEW w \in Versions, NEW readable \in BOOLEAN, Finish(l, w, readable),
         w # NoWake /\ (WfChanged \/ (readable /\ DueInstruction)) => l.human # NoWake,
         readable /\ DueInstruction => w # NoWake
  PROVE  Answered'
<1> DEFINE after == IF round.recovered \/ round.state = Absent THEN l ELSE LaneReady(l)
           wake == IF round.recovered THEN NoWake ELSE WakeReady(l, w)
           does == IF round.recovered \/ round.state = Absent THEN "nothing" ELSE Verdict(after, wake)
<1>0. round \in RoundRecs /\ past \in PastRecs /\ l \in LaneRecs
  BY DEF Typed, LaneWell
<1>1. /\ round' = IF does = "launch" THEN [round EXCEPT !.step = "launch", !.wake = wake] ELSE Idle
      /\ past'.did = does /\ past'.edge = DueEdge(l) /\ past'.instruction = (readable /\ DueInstruction)
  BY <1>0 DEF Finish, PastRecs
<1>2. ~round.recovered /\ round.state # Absent => /\ lane'.human = LaneReady(l).human
                                                  /\ does = Verdict(LaneReady(l), WakeReady(l, w))
                                                  /\ wake = WakeReady(l, w)
  BY FinishLane
<1>3. does = "launch" => ~round.recovered /\ round.state # Absent
  OBVIOUS
<1> HIDE DEF after, wake, does
<1>4. /\ Ready(l) => l.pending.human # NoWake /\ LaneReady(l).human # NoWake /\ run.seat = "free"
      /\ ~Ready(l) => LaneReady(l).human = l.human
  BY ReadyWell, Named DEF Ready
<1>5. WakeReady(l, w) # NoWake /\ (DueEdge(l) \/ (readable /\ DueInstruction)) => LaneReady(l).human # NoWake
  BY <1>4 DEF WakeReady, DueEdge
<1>6. ASSUME does = "launch", DueEdge(l) \/ (readable /\ DueInstruction)
      PROVE  round'.step = "launch" /\ ~Disallowed'
  <2>1. round'.step = "launch" /\ round'.wake = wake
    BY <1>0, <1>1, <1>6 DEF RoundRecs
  <2> QED
    BY <1>2, <1>3, <1>5, <1>6, <2>1 DEF Disallowed
<1>7. ASSUME DueEdge(l) \/ (readable /\ DueInstruction) PROVE does # "nothing"
  <2>1. ~round.recovered /\ round.auto /\ Launchable(round.state)
    BY <1>0, <1>7, ReadyReads DEF DueEdge, DueInstruction
  <2>2. round.state # Absent /\ round.state.to # "none"
    BY <2>1, LaunchableIsThere, Named
  <2>3. WfChanged \/ WakeReady(l, w) # NoWake
    BY <1>4, <1>7 DEF DueEdge, WakeReady
  <2>4. Parked(LaneReady(l), WakeReady(l, w))
    BY <1>5, <1>7 DEF Parked
  <2>5. Verdict(LaneReady(l), WakeReady(l, w)) # "nothing"
    BY <2>1, <2>2, <2>3, <2>4 DEF Verdict
  <2> QED
    BY <1>2, <2>1, <2>2, <2>5
<1>8. round'.step \notin Early \cup {"catchup"}
  <2>1. round' = Idle => round'.step = "idle"
    BY DEF Idle
  <2>2. round' = [round EXCEPT !.step = "launch", !.wake = wake] => round'.step = "launch"
    BY <1>0 DEF RoundRecs
  <2> QED
    BY <1>1, <2>1, <2>2 DEF Early
<1>9. round'.step = "launch" /\ Owed' => ~Disallowed'
  <2>1. round' = Idle => round'.step # "launch"
    BY DEF Idle
  <2> QED
    BY <1>1, <1>6, <2>1 DEF Owed
<1>10. Owed' => past'.did # "nothing"
  BY <1>1, <1>7 DEF Owed
<1> QED
  BY <1>8, <1>9, <1>10 DEF Answered

LEMMA DecisionAnswers ==
  ASSUME Typed, RoundWell, UptoWell, ScanIsWhole, HandOverAlone, ScanSame, lane.boundary \in {0, run.stop},
         Decide \/ DecideUnread \/ DecideReadFails
  PROVE  Answered'
<1>1. PICK l, w, readable :
            /\ LaneWell(l) /\ w \in Versions /\ readable \in BOOLEAN
            /\ Finish(l, w, readable)
            /\ \/ /\ Decide /\ readable = TRUE
                  /\ l = LaneScanned(fullLog(round.state))
                  /\ w = IF Scans THEN WakeKept(l, NoteWakeOf(fullLog(round.state))) ELSE NoWake
               \/ DecideUnread /\ readable = TRUE /\ l = lane /\ w = NoWake
               \/ /\ DecideReadFails /\ readable = FALSE /\ w = NoWake
                  /\ l = IF Scans THEN [lane EXCEPT !.scan = [version |-> ScanFrom, to |-> round.state.to]]
                         ELSE lane
  BY Decisions
<1>2. CASE /\ Decide /\ l = LaneScanned(fullLog(round.state))
           /\ w = IF Scans THEN WakeKept(l, NoteWakeOf(fullLog(round.state))) ELSE NoWake
  <2>0. round.step = "decide" /\ round.state # Absent
    BY <1>2, LaunchableIsThere DEF Decide, Reads
  <2>1. w # NoWake /\ WfChanged => l.human # NoWake
    BY <1>2, <2>0, WakeIsOnline
  <2>2. DueInstruction => w # NoWake /\ l.human # NoWake
    BY <1>2, <2>0, InstructionFound
  <2> QED
    BY <1>1, <2>1, <2>2, FinishAnswers
<1>3. CASE DecideUnread /\ w = NoWake
  <2>1. ~DueInstruction
    BY <1>3 DEF DecideUnread, Reads, DueInstruction
  <2> QED
    BY <1>1, <1>3, <2>1, FinishAnswers
<1>4. CASE readable = FALSE /\ w = NoWake
  BY <1>1, <1>4, FinishAnswers
<1> QED
  BY <1>1, <1>2, <1>3, <1>4

LEMMA NextAnswered ==
  ASSUME Typed, RoundWell, UptoWell, ScanIsWhole, HandOverAlone, ScanSame, Answered,
         lane.boundary \in {0, run.stop}, Next
  PROVE  Answered'
<1>0. round \in RoundRecs /\ past \in PastRecs
  BY DEF Typed
<1>a. round' = Idle => round'.step = "idle" /\ round'.wake = NoWake
  BY DEF Idle
<1>b. \A d : past' = [past EXCEPT !.did = d] => past'.did = d /\ (Owed' <=> Owed)
  BY <1>0 DEF Owed, PastRecs
<1>1. CASE Fetch
  <2>1. past'.edge = FALSE /\ past'.instruction = FALSE
    BY <1>0, <1>1 DEF Fetch, PastRecs
  <2>2. round'.step = "observe" /\ round'.wake = NoWake
    BY <1>1 DEF Fetch, Idle
  <2> QED
    BY <2>1, <2>2 DEF Answered, Owed
<1>2. CASE Observe
  <2>1. past'.did = past.did /\ past'.edge = past.edge /\ past'.instruction = past.instruction
    BY <1>0, <1>2 DEF Observe, PastRecs
  <2>2. round'.wake = round.wake /\ round'.step # "launch" /\ round.step = "observe"
    BY <1>0, <1>2 DEF Observe, RoundRecs
  <2> QED
    BY <2>1, <2>2 DEF Answered, Owed, Early
<1>3. CASE Decide \/ DecideUnread \/ DecideReadFails
  BY <1>3, DecisionAnswers
<1>4. CASE CatchupDecides
  <2>1. Owed' => past'.did # "nothing"
    BY <1>4, <1>b DEF CatchupDecides, Answered, Owed
  <2>2. round' = Idle \/ round' = [round EXCEPT !.step = "launch"]
    BY <1>4 DEF CatchupDecides
  <2>3. round' = [round EXCEPT !.step = "launch"] => round'.step = "launch" /\ round'.wake = round.wake
    BY <1>0 DEF RoundRecs
  <2>4. round.wake = NoWake
    BY <1>4 DEF CatchupDecides, Answered
  <2> QED
    BY <1>a, <2>1, <2>2, <2>3, <2>4 DEF Answered, Disallowed, Early
<1>5. CASE LaunchDropped
  <2>1. ~Owed /\ (Owed' <=> Owed) /\ round' = Idle
    BY <1>5, <1>b DEF LaunchDropped, Told, Answered
  <2> QED
    BY <1>a, <2>1 DEF Answered, Early
<1>6. CASE LaunchPlans
  <2>1. past'.did \in {past.did, "told"} /\ (Owed' <=> Owed)
    BY <1>0, <1>6 DEF LaunchPlans, Owed, PastRecs
  <2>2. \A b, h : round' = [round EXCEPT !.step = "mark", !.base = b, !.human = h] => round'.step = "mark"
    BY <1>0 DEF RoundRecs
  <2>3. round'.step \in {"idle", "mark"}
    BY <1>6, <1>a, <2>2 DEF LaunchPlans
  <2> QED
    BY <2>1, <2>3 DEF Answered, Early
<1>7. CASE LaunchReadFails \/ MarkLands \/ MarkConflicts
  <2>1. round' = Idle /\ past'.did # "nothing"
    BY <1>7, <1>b DEF LaunchReadFails, MarkLands, MarkConflicts, Told
  <2> QED
    BY <1>a, <2>1 DEF Answered, Early
<1>8. CASE StartSettles \/ RunEnds \/ StopRequested \/ Publish \/ PlaceChanges \/ ModeSwitches
  <2>1. UNCHANGED <<round, past, lane>>
    BY <1>8 DEF StartSettles, RunEnds, StopRequested, Publish, PlaceChanges, ModeSwitches
  <2> QED
    BY <2>1 DEF Answered, Owed, Disallowed
<1>9. CASE ForeignDuplicate \/ ForeignRewind
  <2>1. UNCHANGED <<round, lane>> /\ past' = [past EXCEPT !.hidden = TRUE]
    BY <1>9 DEF ForeignDuplicate, ForeignRewind
  <2>2. past'.did = past.did /\ past'.edge = past.edge /\ past'.instruction = past.instruction
    BY <1>0, <2>1 DEF PastRecs
  <2> QED
    BY <2>1, <2>2 DEF Answered, Owed, Disallowed
<1>10. CASE Restart
  <2>1. round' = Idle /\ past'.edge = FALSE /\ past'.instruction = FALSE
    BY <1>10 DEF Restart, NoneSoFar
  <2> QED
    BY <1>a, <2>1 DEF Answered, Owed, Early
<1> QED
  BY <1>1, <1>2, <1>3, <1>4, <1>5, <1>6, <1>7, <1>8, <1>9, <1>10 DEF Next, Round

-----------------------------------------------------------------------------
Polled == GhostsAbove /\ HandOverAlone /\ ScanSame

LEMMA InitTurn == Init => UptoWell /\ TurnSound /\ ScanIsWhole /\ TruthOld /\ ApartInv /\ Polled /\ Answered
<1> SUFFICES ASSUME Init
             PROVE  UptoWell /\ TurnSound /\ ScanIsWhole /\ TruthOld /\ ApartInv /\ Polled /\ Answered
  OBVIOUS
<1>1. /\ round = Idle /\ cache = NoCache /\ past = NoneSoFar /\ lane = FreshLane
      /\ snap = [baseline |-> FALSE, entry |-> Absent, place |-> "gone"]
  BY DEF Init
<1>2. /\ round.step = "idle" /\ round.truth = {} /\ past.upto = 0 /\ lane.scan = NoScan
      /\ past.edge = FALSE /\ past.instruction = FALSE /\ snap.entry = Absent /\ Absent.version = 0
      /\ snap.baseline = FALSE
  BY <1>1 DEF Idle, NoneSoFar, FreshLane, Absent
<1>3. UptoWell /\ TurnSound /\ ScanIsWhole /\ TruthOld
  BY <1>1, <1>2 DEF UptoWell, TurnSound, ScanIsWhole, TruthOld
<1>4. ApartInv /\ Polled
  BY <1>1, <1>2 DEF ApartInv, PollsApart, Seen, Polled, GhostsAbove, NoCache, HandOverAlone, Early, ScanSame
<1>5. Answered
  BY <1>2 DEF Answered, Owed, Early
<1> QED
  BY <1>3, <1>4, <1>5

LEMMA TurnsHold ==
  ASSUME Unwatched = FALSE, Crowded = FALSE
  PROVE  Spec => [](UptoWell /\ TurnSound /\ ScanIsWhole /\ TruthOld /\ ApartInv /\ Polled /\ Answered)
<1> DEFINE More == UptoWell /\ TurnSound /\ ScanIsWhole /\ TruthOld /\ ApartInv /\ Polled /\ Answered
           Base == Typed /\ CacheInv /\ StopInv
<1>1. Base /\ More /\ Next => More'
  <2> SUFFICES ASSUME Base, More, Next PROVE More'
    OBVIOUS
  <2>1. Typed /\ CacheInv /\ RoundWell /\ lane.boundary \in {0, run.stop}
        /\ GhostsAbove /\ HandOverAlone /\ ScanSame
    BY DEF CacheInv, StopInv, Polled
  <2>2. UptoWell'
    BY <2>1, NextUpto
  <2>3. TurnSound'
    BY <2>1, NextTurn
  <2>4. ScanIsWhole' /\ TruthOld'
    BY <2>1, NextScan, NextTruthOld
  <2>5. ApartInv'
    BY <2>1, NextApart
  <2>6. Polled'
    BY <2>1, NextGhosts, NextAlone, NextScanSame DEF Polled
  <2>7. Answered'
    BY <2>1, NextAnswered
  <2> QED
    BY <2>2, <2>3, <2>4, <2>5, <2>6, <2>7
<1>2. More /\ UNCHANGED vars => More'
  <2>1. UptoWell /\ TurnSound /\ ScanIsWhole /\ TruthOld /\ UNCHANGED vars
           => (UptoWell /\ TurnSound /\ ScanIsWhole /\ TruthOld)'
    BY DEF vars, UptoWell, TurnSound, JustBack, Shows, ScanIsWhole, TruthOld
  <2>2. ApartInv /\ UNCHANGED vars => ApartInv'
    BY DEF vars, ApartInv, Seen
  <2>3. Polled /\ UNCHANGED vars => Polled'
    BY DEF vars, Polled, GhostsAbove, HandOverAlone, Before, ScanSame
  <2>4. Answered /\ UNCHANGED vars => Answered'
    BY DEF vars, Answered, Owed, Disallowed
  <2> QED
    BY <2>1, <2>2, <2>3, <2>4
<1>3. Base /\ More /\ [Next]_vars => More'
  BY <1>1, <1>2
<1>4. Init => More
  BY InitTurn
<1> HIDE DEF Base, More
<1>5. Spec => []Base
  BY StopsHold DEF Base
<1>6. Spec => []More
  BY <1>3, <1>4, <1>5, PTL DEF Spec
<1> QED
  BY <1>6 DEF More

(* Every turn a round saw arrive is answered in that round: the next role  *)
(* of a whitelisted hand-over, a candidate that was parked until the seat  *)
(* came free, and a human instruction issued after the last stop, are      *)
(* launched, parked behind the run that still holds the seat, or reported  *)
(* to the human (engine.ts diffTask, autoLaunch; detached-lane.ts          *)
(* takeReadyWake), as long as no poll finds a note of a worker together    *)
(* with the hand-over.                                                     *)
THEOREM TurnsAreAnswered ==
  ASSUME Unwatched = FALSE, Crowded = FALSE
  PROVE  Spec => []TurnAnswered
<1>1. Answered => TurnAnswered
  BY DEF Answered, Owed, TurnAnswered
<1> QED
  BY <1>1, TurnsHold, PTL

=============================================================================
