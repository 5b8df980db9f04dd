-------------------------- MODULE RunArchiveProofs --------------------------
(***************************************************************************)
(* The run archive: a native session has one agent at a time, for any      *)
(* number of resumes, repairs, runs, faults and power losses, and a repair *)
(* keeps the evidence and stays away from runs that may still be written.  *)
(***************************************************************************)
EXTENDS RunArchive, FunctionTheorems, FiniteSetTheorems, SequenceTheorems, WellFoundedInduction,
        TLAPS

Procs == Resumers \cup Repairers
SupSteps == {"none", "born", "spawned", "initializing", "watching", "updating", "failing",
             "leaving", "gone", "failed"}
JobRecs == [pc : {"idle", "planned", "admitted", "reserved", "handshake", "promote"},
            run : 0 .. OldRun]

Typed ==
    /\ command \in {"codex", "pi", "unrecoverable"} /\ native \in BOOLEAN
    /\ runs \in Session
    /\ meta \in [Runs -> Content]
    /\ tmps \in [Runs -> Seq(Content)] /\ broken \in [Runs -> Seq(Content)]
    /\ intent \in [Runs -> {"none", "pending", "failed"}]
    /\ sup \in [Runs -> SupSteps]
    /\ agent \in [Runs -> BOOLEAN]
    /\ job \in [Procs -> JobRecs]
    /\ admission \in Procs \cup {None}
    /\ faults \in Nat /\ losses \in Nat

-----------------------------------------------------------------------------
(***************************************************************************)
(* The inductive invariant.                                                *)
(***************************************************************************)

\* The run r has an agent, or its startup may still give it one.
MayLive(r) ==
    \/ agent[r]
    \/ sup[r] = "born"
    \/ \E p \in Procs : job[p] = At("reserved", r)

Started == {"none", "born", "failed"}
Writing == {"initializing", "updating"}

\* Directories that were not created yet hold nothing.
Fresh ==
    \A r \in Session : r > runs =>
        sup[r] = "none" /\ meta[r] = Other("absent") /\ tmps[r] = <<>>

\* A supervisor without an agent, and an artifact in flight with one that is writing it.
Supervised ==
    /\ \A r \in Session : sup[r] \in Started => ~agent[r]
    /\ \A r \in Session : sup[r] \in Writing => tmps[r] # <<>> /\ Valid(Last(tmps[r]))
    /\ sup[OldRun] = "none"
    /\ \A r \in Session : meta[r].kind \notin {"oldRunning", "oldExited"}

\* From its second look at the archive to the end of its handshake a resume holds the lock.
Admitted ==
    /\ \A p \in Procs : job[p].pc \in {"admitted", "reserved", "handshake"} => admission = p
    /\ \A p \in Procs : job[p].pc \in {"reserved", "handshake"} =>
          job[p].run \in Session /\ job[p].run <= runs /\ job[p].run # 1
    /\ \A p \in Procs : job[p].pc = "reserved" => sup[job[p].run] = "none"

\* Between its two renames an adoption is alone with a dead run and an artifact to adopt.
Promoting ==
    /\ \A p \in Procs : job[p].pc = "promote" =>
          /\ p \in Repairers /\ job[p].run \in Runs
          /\ sup[job[p].run] \in {"gone", "failed"} /\ ~agent[job[p].run]
          /\ meta[job[p].run] = Other("absent") /\ Adoptable(job[p].run) # {}
    /\ \A p, q \in Procs :
          job[p].pc = "promote" /\ job[q].pc = "promote" /\ job[p].run = job[q].run => p = q

\* No file of a run that may live says that it ended.
EndIsFinal ==
    \A r \in Session : MayLive(r) =>
        ~meta[r].ended /\ \A i \in DOMAIN tmps[r] : ~tmps[r][i].ended

\* The first run may not show its session while it lives; but nobody resumes it then.
FirstAlone ==
    MayLive(1) => /\ runs = 1 /\ Valid(meta[1])
                  /\ \A p \in Procs : job[p].pc \in {"idle", "promote"}

\* Every other run that may live occupies the session, through its meta or its intent.
Occupies ==
    \A r \in Session : MayLive(r) /\ r # 1 =>
        r <= runs /\ (Valid(meta[r]) \/ intent[r] = "pending")

AtMostOneLives == \A r, s \in Session : MayLive(r) /\ MayLive(s) => r = s

ArchiveInv ==
    /\ Typed /\ Fresh /\ Supervised /\ Admitted /\ Promoting
    /\ EndIsFinal /\ FirstAlone /\ Occupies /\ AtMostOneLives

-----------------------------------------------------------------------------
(***************************************************************************)
(* Runs, contents and sequences of contents.                               *)
(***************************************************************************)
LEMMA RunNumbers ==
    /\ Session \subseteq Runs /\ Runs \subseteq Nat /\ 1 \in Session
    /\ OldRun \in Runs /\ OldRun \notin Session
    /\ Runs = Session \cup {OldRun}
    /\ \A r \in Session : r <= MaxRuns /\ r >= 1
    /\ 0 \in 0 .. OldRun /\ Runs \subseteq 0 .. OldRun
    /\ \A r \in Nat : r < MaxRuns => r + 1 \in Session
    /\ \A r \in Nat : 1 <= r /\ r <= MaxRuns => r \in Session
BY BoundsAssumption DEF Session, Runs, OldRun

LEMMA Contents ==
    /\ \A k \in {"absent", "torn", "oldRunning", "oldExited"} :
          Other(k) \in Content /\ ~Valid(Other(k)) /\ ~Other(k).ended /\ Other(k).kind = k
    /\ \A c \in Content : Valid(c) => c \in Doc
    /\ \A c \in Content : c.ended \in BOOLEAN /\ c.session \in BOOLEAN
    /\ \A c \in Content : ~Valid(c) =>
          c.kind \in {"absent", "torn", "oldRunning", "oldExited"} /\ c = Other(c.kind)
    /\ Doc \subseteq Content
<1>1. \A k \in {"absent", "torn", "oldRunning", "oldExited"} :
          Other(k) \in Content /\ ~Valid(Other(k)) /\ ~Other(k).ended /\ Other(k).kind = k
  BY DEF Content, Other, Valid
<1>2. \A c \in Content : Valid(c) => c \in Doc
  BY DEF Content, Other, Valid
<1>3. \A c \in Content : c.ended \in BOOLEAN /\ c.session \in BOOLEAN
  <2>1. \A c \in Doc : c.ended \in BOOLEAN /\ c.session \in BOOLEAN
    BY DEF Doc
  <2>2. \A k : Other(k).ended \in BOOLEAN /\ Other(k).session \in BOOLEAN
    BY DEF Other
  <2>3. QED
    BY <2>1, <2>2 DEF Content
<1>4. \A c \in Content : ~Valid(c) =>
          c.kind \in {"absent", "torn", "oldRunning", "oldExited"} /\ c = Other(c.kind)
  BY DEF Content, Other, Valid, Doc
<1>5. QED
  BY <1>1, <1>2, <1>3, <1>4 DEF Content

\* The three documents a supervisor writes.
LEMMA Documents ==
    /\ [kind |-> "valid", session |-> FALSE, ended |-> FALSE] \in Doc
    /\ \A c \in Doc : /\ Valid(c) /\ [c EXCEPT !.session = TRUE] \in Doc
                      /\ [c EXCEPT !.ended = TRUE] \in Doc
                      /\ Valid([c EXCEPT !.session = TRUE]) /\ Valid([c EXCEPT !.ended = TRUE])
                      /\ [c EXCEPT !.session = TRUE].ended = c.ended
BY DEF Doc, Valid

LEMMA Appended ==
  ASSUME NEW s \in Seq(Content), NEW c \in Content
  PROVE  /\ Append(s, c) \in Seq(Content) /\ Append(s, c) # <<>>
         /\ Last(Append(s, c)) = c
         /\ \A i \in DOMAIN Append(s, c) : Append(s, c)[i] = c \/ \E j \in DOMAIN s : Append(s, c)[i] = s[j]
BY DEF Last

LEMMA Fronted ==
  ASSUME NEW s \in Seq(Content), s # <<>>
  PROVE  /\ Front(s) \in Seq(Content) /\ Last(s) \in Content
         /\ \E j \in DOMAIN s : Last(s) = s[j]
         /\ \A i \in DOMAIN Front(s) : \E j \in DOMAIN s : Front(s)[i] = s[j]
BY DEF Front, Last

LEMMA Removed ==
  ASSUME NEW s \in Seq(Content), NEW n \in DOMAIN s
  PROVE  /\ RemoveAt(s, n) \in Seq(Content)
         /\ Len(RemoveAt(s, n)) = Len(s) - 1
         /\ \A i \in 1 .. Len(s) - 1 : RemoveAt(s, n)[i] = IF i < n THEN s[i] ELSE s[i + 1]
<1>1. n \in 1 .. Len(s) /\ Len(s) \in Nat
  OBVIOUS
<1>2. /\ SubSeq(s, 1, n - 1) \in Seq(Content) /\ Len(SubSeq(s, 1, n - 1)) = n - 1
      /\ \A i \in 1 .. n - 1 : SubSeq(s, 1, n - 1)[i] = s[i]
  BY <1>1
<1>3. /\ SubSeq(s, n + 1, Len(s)) \in Seq(Content) /\ Len(SubSeq(s, n + 1, Len(s))) = Len(s) - n
      /\ \A i \in 1 .. Len(s) - n : SubSeq(s, n + 1, Len(s))[i] = s[n + i]
  BY <1>1
<1>4. QED
  <2> DEFINE a == SubSeq(s, 1, n - 1)
             b == SubSeq(s, n + 1, Len(s))
  <2> HIDE DEF a, b
  <2>1. a \in Seq(Content) /\ b \in Seq(Content) /\ Len(a) = n - 1 /\ Len(b) = Len(s) - n
    BY <1>2, <1>3 DEF a, b
  <2>2. /\ a \o b \in Seq(Content) /\ Len(a \o b) = Len(a) + Len(b)
        /\ \A i \in 1 .. Len(a) + Len(b) : (a \o b)[i] = IF i <= Len(a) THEN a[i] ELSE b[i - Len(a)]
    BY <2>1, ConcatProperties
  <2>3. \A i \in 1 .. Len(s) - 1 : (a \o b)[i] = IF i < n THEN s[i] ELSE s[i + 1]
    <3> TAKE i \in 1 .. Len(s) - 1
    <3>1. CASE i < n
      <4>1. i \in 1 .. n - 1 /\ i <= Len(a) /\ i \in 1 .. Len(a) + Len(b)
        BY <1>1, <2>1, <3>1
      <4>2. QED
        BY <2>2, <4>1, <1>2, <3>1 DEF a
    <3>2. CASE ~(i < n)
      <4>1. i - (n - 1) \in 1 .. Len(s) - n /\ ~(i <= Len(a)) /\ i \in 1 .. Len(a) + Len(b)
        BY <1>1, <2>1, <3>2
      <4>2. b[i - (n - 1)] = s[n + (i - (n - 1))]
        BY <4>1, <1>3 DEF b
      <4>4. n + (i - (n - 1)) = i + 1
        BY <1>1
      <4>3. QED
        BY <2>1, <2>2, <4>1, <4>2, <4>4, <3>2
    <3>3. QED
      BY <3>1, <3>2
  <2>4. RemoveAt(s, n) = a \o b /\ Len(a) + Len(b) = Len(s) - 1
    BY <1>1, <2>1 DEF RemoveAt, a, b
  <2>5. QED
    BY <2>2, <2>3, <2>4

\* A repair that finds artifacts to adopt has a newest one.
LEMMA NewestIs ==
  ASSUME Typed, NEW r \in Runs, Adoptable(r) # {}
  PROVE  /\ Newest(r) \in DOMAIN tmps[r] /\ Valid(tmps[r][Newest(r)])
         /\ tmps[r][Newest(r)] \in Doc
<1> DEFINE S == Adoptable(r)
           b == Len(tmps[r])
           R == {ss \in Nat \X Nat : ss[1] < ss[2]}
           T == {n \in Nat : \E x \in S : n = b - x}
<1>1. tmps[r] \in Seq(Content)
  BY DEF Typed
<1>2. b \in Nat /\ \A x \in S : x \in Nat /\ x <= b
  BY <1>1 DEF Adoptable
<1> HIDE DEF S, b
<1>3. T \subseteq Nat /\ T # {}
  <2>1. PICK x \in S : TRUE
    BY DEF S
  <2>2. b - x \in Nat
    BY <1>2
  <2>3. QED
    BY <2>1, <2>2
<1>4. IsWellFoundedOn(R, Nat)
  BY NatLessThanWellFounded DEF OpToRel
<1> HIDE DEF R
<1>5. PICK n \in T : \A y \in T : ~(<<y, n>> \in R)
  BY <1>3, <1>4, WFMin
<1>6. PICK m \in S : n = b - m
  OBVIOUS
<1>7. ASSUME NEW x \in S PROVE x <= m
  <2>1. b - x \in T /\ x \in Nat /\ m \in Nat
    BY <1>2
  <2>2. ~(<<b - x, n>> \in R)
    BY <2>1, <1>5
  <2>3. ~(b - x < n)
    BY <2>1, <2>2 DEF R
  <2>4. QED
    BY <2>1, <2>3, <1>6, <1>2
<1>8. Newest(r) \in S
  BY <1>7 DEF Newest, S
<1>9. QED
  BY <1>8, <1>1, Contents DEF S, Adoptable

-----------------------------------------------------------------------------
(***************************************************************************)
(* Types.                                                                  *)
(***************************************************************************)
LEMMA Jobs ==
    /\ Idle \in JobRecs /\ Idle.pc = "idle"
    /\ \A r \in Runs : /\ At("planned", r) \in JobRecs /\ At("reserved", r) \in JobRecs
                       /\ At("promote", r) \in JobRecs
    /\ \A pc, r : At(pc, r).pc = pc /\ At(pc, r).run = r
    /\ \A j \in JobRecs :
          /\ [j EXCEPT !.pc = "admitted"] \in JobRecs /\ [j EXCEPT !.pc = "handshake"] \in JobRecs
          /\ [j EXCEPT !.pc = "admitted"].pc = "admitted"
          /\ [j EXCEPT !.pc = "handshake"].pc = "handshake"
          /\ [j EXCEPT !.pc = "admitted"].run = j.run
          /\ [j EXCEPT !.pc = "handshake"].run = j.run
          /\ j = At(j.pc, j.run)
<1>1. \A r \in Runs : r \in 0 .. OldRun
  BY RunNumbers
<1>2. QED
  BY <1>1, RunNumbers DEF Idle, At, JobRecs

LEMMA SupervisorTypes ==
  ASSUME ArchiveInv, NEW r \in Session, Supervisor(r)
  PROVE  Typed'
<1>1. Typed /\ r \in Runs
  BY RunNumbers DEF ArchiveInv
<1>2. /\ meta[r] \in Content /\ tmps[r] \in Seq(Content) /\ meta \in [Runs -> Content]
      /\ tmps \in [Runs -> Seq(Content)]
  BY <1>1 DEF Typed
<1> DEFINE first == [kind |-> "valid", session |-> FALSE, ended |-> FALSE]
<1>3. first \in Content
  BY Documents, Contents
<1> HIDE DEF first
<1>4. CASE SupSpawn(r)
  BY <1>1, <1>4 DEF SupSpawn, Typed, SupSteps
<1>5. CASE initialize(r)
  <2>1. tmps' \in [Runs -> Seq(Content)]
    BY <1>1, <1>2, <1>3, <1>5, Appended DEF initialize, WriteTmp, first
  <2>2. QED
    BY <1>1, <1>5, <2>1 DEF initialize, Typed, SupSteps
<1>6. CASE updateMeta(r)
  <2>1. meta[r] \in Doc
    BY <1>2, <1>6, Contents DEF updateMeta
  <2>2. [meta[r] EXCEPT !.session = TRUE] \in Content /\ [meta[r] EXCEPT !.ended = TRUE] \in Content
    BY <2>1, Documents, Contents
  <2>3. tmps' \in [Runs -> Seq(Content)]
    <3>1. PICK c \in Content : tmps' = [tmps EXCEPT ![r] = Append(@, c)]
      BY <1>6, <2>2 DEF updateMeta, WriteTmp
    <3>2. Append(tmps[r], c) \in Seq(Content)
      BY <1>2, Appended
    <3>3. QED
      BY <1>1, <1>2, <3>1, <3>2
  <2>4. QED
    BY <1>1, <1>6, <2>3 DEF updateMeta, Typed, SupSteps
<1>7. CASE SupRename(r)
  <2>1. tmps[r] # <<>>
    BY <1>7 DEF SupRename, ArchiveInv, Supervised, Writing
  <2>2. Last(tmps[r]) \in Content /\ Front(tmps[r]) \in Seq(Content)
    BY <1>2, <2>1, Fronted
  <2>3. meta' \in [Runs -> Content] /\ tmps' \in [Runs -> Seq(Content)]
    BY <1>2, <1>7, <2>2 DEF SupRename, Rename
  <2>4. QED
    BY <1>1, <1>7, <2>3 DEF SupRename, Typed, SupSteps
<1>8. CASE SupRenameFails(r)
  BY <1>1, <1>8 DEF SupRenameFails, Typed, SupSteps
<1>9. CASE SupKills(r)
  BY <1>1, <1>9 DEF SupKills, Typed, SupSteps
<1>10. CASE SupExits(r)
  BY <1>1, <1>10 DEF SupExits, Typed, SupSteps
<1>11. CASE SpawnFails(r)
  BY <1>1, <1>11 DEF SpawnFails, Typed, SupSteps
<1>12. CASE SupDies(r)
  <2>1. tmps' \in [Runs -> Seq(Content)]
    <3>1. CASE UNCHANGED tmps
      BY <1>2, <3>1
    <3>2. CASE sup[r] \in Writing /\ tmps' = [tmps EXCEPT ![r] = Append(Front(tmps[r]), Other("torn"))]
      <4>1. tmps[r] # <<>>
        BY <3>2 DEF ArchiveInv, Supervised
      <4>2. Front(tmps[r]) \in Seq(Content) /\ Other("torn") \in Content
        BY <1>2, <4>1, Fronted, Contents
      <4>3. Append(Front(tmps[r]), Other("torn")) \in Seq(Content)
        BY <4>2, Appended
      <4>4. QED
        BY <1>2, <3>2, <4>3
    <3>3. QED
      BY <1>12, <3>1, <3>2 DEF SupDies, Writing
  <2>2. sup' \in [Runs -> SupSteps] /\ faults' \in Nat
    BY <1>1, <1>12 DEF SupDies, Typed, SupSteps
  <2>3. UNCHANGED <<command, native, runs, meta, broken, intent, agent, job, admission, losses>>
    BY <1>12 DEF SupDies
  <2>4. QED
    BY <1>1, <2>1, <2>2, <2>3 DEF Typed
<1>13. CASE StopDies(r)
  <2>1. tmps' \in [Runs -> Seq(Content)]
    BY <1>1, <1>2, <1>13, Appended DEF StopDies, WriteTmp
  <2>2. QED
    BY <1>1, <1>13, <2>1 DEF StopDies, Typed
<1>14. QED
  BY <1>4, <1>5, <1>6, <1>7, <1>8, <1>9, <1>10, <1>11, <1>12, <1>13 DEF Supervisor

LEMMA ResumeTypes ==
  ASSUME ArchiveInv, NEW p \in Resumers, Resume(p)
  PROVE  Typed'
<1>1. Typed /\ p \in Procs /\ job[p] \in JobRecs /\ job \in [Procs -> JobRecs]
  BY DEF ArchiveInv, Typed, Procs
<1>2. ASSUME NEW r \in Session, planResume(p, r) PROVE Typed'
  <2>1. job' \in [Procs -> JobRecs]
    BY <1>1, <1>2, Jobs, RunNumbers DEF planResume
  <2>2. QED
    BY <1>1, <1>2, <2>1 DEF planResume, Typed
<1>3. CASE withAdmissionLock(p)
  <2>1. [job[p] EXCEPT !.pc = "admitted"] \in JobRecs
    BY <1>1, Jobs
  <2>2. job' \in [Procs -> JobRecs]
    BY <1>1, <1>3, <2>1 DEF withAdmissionLock
  <2>3. QED
    BY <1>1, <1>3, <2>2 DEF withAdmissionLock, Typed
<1>4. CASE SessionBusy(p)
  <2>1. job' \in [Procs -> JobRecs]
    BY <1>1, <1>4, Jobs DEF SessionBusy
  <2>2. QED
    BY <1>1, <1>4, <2>1 DEF SessionBusy, Typed
<1>5. CASE startRun(p)
  <2>1. runs + 1 \in Session /\ runs + 1 \in Runs
    <3>1. runs \in Nat /\ runs < MaxRuns
      BY <1>1, <1>5, RunNumbers DEF Typed, startRun
    <3>2. QED
      BY <3>1, RunNumbers
  <2>2. job' \in [Procs -> JobRecs]
    BY <1>1, <1>5, <2>1, Jobs DEF startRun
  <2>3. intent' \in [Runs -> {"none", "pending", "failed"}]
    BY <1>1, <1>5, <2>1 DEF startRun, writeResumeIntent, Typed
  <2>4. QED
    BY <1>1, <1>5, <2>1, <2>2, <2>3 DEF startRun, Typed
<1>6. CASE Fork(p)
  <2>1. [job[p] EXCEPT !.pc = "handshake"] \in JobRecs
    BY <1>1, Jobs
  <2>2. job' \in [Procs -> JobRecs]
    BY <1>1, <1>6, <2>1 DEF Fork
  <2>3. sup' \in [Runs -> SupSteps]
    BY <1>1, <1>6 DEF Fork, Typed, SupSteps
  <2>4. QED
    BY <1>1, <1>6, <2>2, <2>3 DEF Fork, Typed
<1>7. CASE Handshake(p)
  <2>1. job' \in [Procs -> JobRecs]
    BY <1>1, <1>7, Jobs DEF Handshake
  <2>2. job[p].run \in Runs
    BY <1>1, <1>7, RunNumbers DEF Handshake, ArchiveInv, Admitted
  <2>3. intent' \in [Runs -> {"none", "pending", "failed"}]
    BY <1>1, <1>7, <2>2 DEF Handshake, writeResumeIntent, Typed
  <2>4. QED
    BY <1>1, <1>7, <2>1, <2>3 DEF Handshake, Typed
<1>8. CASE CommandDies(p)
  <2>1. job' \in [Procs -> JobRecs]
    BY <1>1, <1>8, Jobs DEF CommandDies
  <2>2. QED
    BY <1>1, <1>8, <2>1 DEF CommandDies, Typed
<1>9. QED
  BY <1>2, <1>3, <1>4, <1>5, <1>6, <1>7, <1>8 DEF Resume

LEMMA RepairTypes ==
  ASSUME ArchiveInv, NEW p \in Repairers, Repair(p)
  PROVE  Typed'
<1>1. Typed /\ p \in Procs /\ job[p] \in JobRecs /\ job \in [Procs -> JobRecs]
  BY DEF ArchiveInv, Typed, Procs
<1>2. Other("absent") \in Content
  BY Contents
<1>3. ASSUME NEW r \in Runs, Isolate(p, r) PROVE Typed'
  <2>1. broken' \in [Runs -> Seq(Content)]
    BY <1>1, <1>3, Appended DEF Isolate, isolateMetaEvidence, Typed
  <2>2. meta' \in [Runs -> Content]
    BY <1>1, <1>2, <1>3 DEF Isolate, Typed
  <2>3. QED
    BY <1>1, <1>3, <2>1, <2>2 DEF Isolate, Typed
<1>4. ASSUME NEW r \in Runs, AdoptIsolates(p, r) PROVE Typed'
  <2>1. broken' \in [Runs -> Seq(Content)] /\ meta' \in [Runs -> Content]
    <3>1. CASE meta[r].kind = "absent"
      BY <1>1, <1>4, <3>1 DEF AdoptIsolates, Typed
    <3>2. CASE meta[r].kind # "absent"
      <4>1. broken' = [broken EXCEPT ![r] = Append(@, meta[r])]
            /\ meta' = [meta EXCEPT ![r] = Other("absent")]
        BY <1>4, <3>2 DEF AdoptIsolates, isolateMetaEvidence
      <4>2. Append(broken[r], meta[r]) \in Seq(Content)
        BY <1>1, Appended DEF Typed
      <4>3. QED
        BY <1>1, <1>2, <4>1, <4>2 DEF Typed
    <3>3. QED
      BY <3>1, <3>2
  <2>2. job' \in [Procs -> JobRecs]
    BY <1>1, <1>4, Jobs DEF AdoptIsolates
  <2>3. QED
    BY <1>1, <1>4, <2>1, <2>2 DEF AdoptIsolates, Typed
<1>5. CASE AdoptRenames(p)
  <2> DEFINE r == job[p].run
  <2>1. r \in Runs /\ Adoptable(r) # {}
    BY <1>1, <1>5 DEF AdoptRenames, ArchiveInv, Promoting
  <2> HIDE DEF r
  <2>2. Newest(r) \in DOMAIN tmps[r] /\ tmps[r][Newest(r)] \in Content
    BY <1>1, <2>1, NewestIs, Contents
  <2>3. tmps[r] \in Seq(Content)
    BY <1>1, <2>1 DEF Typed
  <2>4. RemoveAt(tmps[r], Newest(r)) \in Seq(Content)
    BY <2>2, <2>3, Removed
  <2>5. meta' \in [Runs -> Content] /\ tmps' \in [Runs -> Seq(Content)]
    BY <1>1, <1>5, <2>1, <2>2, <2>4 DEF AdoptRenames, Typed, r
  <2>6. job' \in [Procs -> JobRecs]
    BY <1>1, <1>5, Jobs DEF AdoptRenames
  <2>7. QED
    BY <1>1, <1>5, <2>5, <2>6 DEF AdoptRenames, Typed
<1>6. CASE CommandDies(p)
  <2>1. job' \in [Procs -> JobRecs]
    BY <1>1, <1>6, Jobs DEF CommandDies
  <2>2. QED
    BY <1>1, <1>6, <2>1 DEF CommandDies, Typed
<1>7. QED
  BY <1>3, <1>4, <1>5, <1>6 DEF Repair

LEMMA WorldTypes ==
  ASSUME ArchiveInv
  PROVE  /\ \A r \in Runs : AgentExits(r) => Typed'
         /\ PiOpensSession => Typed'
         /\ PowerLoss => Typed'
<1>1. Typed
  BY DEF ArchiveInv
<1>2. ASSUME NEW r \in Runs, AgentExits(r) PROVE Typed'
  <2>1. Other("oldExited") \in Content
    BY Contents
  <2>2. meta' \in [Runs -> Content]
    BY <1>1, <1>2, <2>1 DEF AgentExits, Typed
  <2>3. QED
    BY <1>1, <1>2, <2>2 DEF AgentExits, Typed
<1>3. ASSUME PiOpensSession PROVE Typed'
  BY <1>1, <1>3 DEF PiOpensSession, Typed
<1>4. ASSUME PowerLoss PROVE Typed'
  <2>1. Other("torn") \in Content
    BY Contents
  <2>2. meta' \in [Runs -> Content]
    BY <1>1, <1>4, <2>1 DEF PowerLoss, Typed
  <2>3. tmps' \in [Runs -> Seq(Content)]
    <3>1. CASE UNCHANGED tmps
      BY <1>1, <3>1 DEF Typed
    <3>2. CASE tmps' = [r \in Runs |-> IF sup[r] \in {"initializing", "updating"}
                          THEN Append(Front(tmps[r]), Other("torn")) ELSE tmps[r]]
      <4>1. ASSUME NEW r \in Runs, sup[r] \in {"initializing", "updating"}
            PROVE  Append(Front(tmps[r]), Other("torn")) \in Seq(Content)
        <5>1. r \in Session /\ tmps[r] \in Seq(Content)
          BY <1>1, <4>1, RunNumbers DEF ArchiveInv, Supervised, Typed
        <5>2. tmps[r] # <<>>
          BY <4>1, <5>1 DEF ArchiveInv, Supervised, Writing
        <5>3. Front(tmps[r]) \in Seq(Content)
          BY <5>1, <5>2, Fronted
        <5>4. QED
          BY <2>1, <5>3, Appended
      <4>2. QED
        BY <1>1, <3>2, <4>1 DEF Typed
    <3>3. QED
      BY <1>4, <3>1, <3>2 DEF PowerLoss
  <2>4. job' \in [Procs -> JobRecs]
    BY <1>4, Jobs DEF PowerLoss, Procs
  <2>5. sup' \in [Runs -> SupSteps] /\ agent' \in [Runs -> BOOLEAN]
    BY <1>4 DEF PowerLoss, SupSteps
  <2>6. QED
    BY <1>1, <1>4, <2>2, <2>3, <2>4, <2>5 DEF PowerLoss, Typed
<1>5. QED
  BY <1>2, <1>3, <1>4

-----------------------------------------------------------------------------
(***************************************************************************)
(* The steps of a supervisor.                                              *)
(***************************************************************************)

\* What a supervisor that is there may do to its run: no new agent comes to life, what it
\* has in flight is valid, and while the agent lives no file says that it ended.
LEMMA RunMoves ==
  ASSUME ArchiveInv, Typed', NEW r \in Session,
         UNCHANGED <<runs, intent, job, admission>>,
         \A s \in Runs \ {r} : /\ sup'[s] = sup[s] /\ meta'[s] = meta[s]
                               /\ tmps'[s] = tmps[s] /\ agent'[s] = agent[s],
         sup[r] \notin {"none", "gone", "failed"}, sup'[r] \notin {"none", "born"},
         sup'[r] \in Started => ~agent'[r],
         sup'[r] \in Writing => tmps'[r] # <<>> /\ Valid(Last(tmps'[r])),
         meta'[r].kind \notin {"oldRunning", "oldExited"},
         Valid(meta[r]) => Valid(meta'[r]),
         agent'[r] => MayLive(r),
         agent'[r] => /\ ~meta'[r].ended
                      /\ \A i \in DOMAIN tmps'[r] : ~tmps'[r][i].ended
  PROVE  ArchiveInv'
<1>1. r \in Runs /\ r # OldRun /\ r <= runs /\ runs' = runs /\ intent' = intent /\ job' = job
      /\ admission' = admission
  <2>1. r \in Runs /\ r # OldRun /\ r \in Nat /\ runs \in Nat
    BY RunNumbers DEF ArchiveInv, Typed
  <2>2. ~(r > runs)
    BY DEF ArchiveInv, Fresh
  <2>3. QED
    BY <2>1, <2>2
<1>2. \A p \in Procs : job[p].pc \in {"reserved", "promote"} => job[p].run # r
  BY DEF ArchiveInv, Admitted, Promoting
<1>3. ASSUME NEW s \in Session PROVE MayLive(s)' => MayLive(s)
  <2>1. s \in Runs
    BY RunNumbers
  <2>2. CASE s = r
    <3>1. \A p \in Procs : job[p] # At("reserved", r)
      BY <1>2, Jobs
    <3>2. QED
      BY <1>1, <2>2, <3>1 DEF MayLive
  <2>3. CASE s # r
    BY <1>1, <2>1, <2>3 DEF MayLive
  <2>4. QED
    BY <2>2, <2>3
<1>4. ASSUME NEW s \in Session, MayLive(s)', s = r PROVE agent'[r]
  <2>1. \A p \in Procs : job[p] # At("reserved", r)
    BY <1>2, Jobs
  <2>2. QED
    BY <1>1, <1>4, <2>1 DEF MayLive
<1>5. Fresh'
  BY <1>1, RunNumbers DEF ArchiveInv, Fresh
<1>6. Supervised'
  BY <1>1, RunNumbers DEF ArchiveInv, Supervised
<1>7. Admitted'
  <2>1. \A p \in Procs : job[p].pc \in {"reserved", "handshake"} => job[p].run \in Runs
    BY RunNumbers DEF ArchiveInv, Admitted
  <2>2. QED
    BY <1>1, <1>2, <2>1 DEF ArchiveInv, Admitted
<1>8. Promoting'
  <2>1. ASSUME NEW p \in Procs, job[p].pc = "promote"
        PROVE  /\ p \in Repairers /\ job[p].run \in Runs
               /\ sup'[job[p].run] \in {"gone", "failed"} /\ ~agent'[job[p].run]
               /\ meta'[job[p].run] = Other("absent") /\ Adoptable(job[p].run)' # {}
    <3>1. job[p].run \in Runs \ {r}
      BY <1>2, <2>1 DEF ArchiveInv, Promoting
    <3>2. Adoptable(job[p].run)' = Adoptable(job[p].run)
      BY <1>1, <3>1 DEF Adoptable
    <3>3. QED
      BY <2>1, <3>1, <3>2 DEF ArchiveInv, Promoting
  <2>2. QED
    BY <1>1, <2>1 DEF ArchiveInv, Promoting, Adoptable
<1>9. EndIsFinal'
  <2>1. ASSUME NEW s \in Session, MayLive(s)'
        PROVE  ~meta'[s].ended /\ \A i \in DOMAIN tmps'[s] : ~tmps'[s][i].ended
    <3>1. CASE s = r
      BY <1>4, <2>1, <3>1
    <3>2. CASE s # r
      <4>1. s \in Runs \ {r} /\ MayLive(s)
        BY <1>3, <2>1, <3>2, RunNumbers
      <4>2. QED
        BY <4>1 DEF ArchiveInv, EndIsFinal
    <3>3. QED
      BY <3>1, <3>2
  <2>2. QED
    BY <2>1 DEF EndIsFinal, MayLive
<1>10. FirstAlone'
  <2>1. ASSUME MayLive(1)' PROVE runs' = 1 /\ Valid(meta'[1])
                                /\ \A p \in Procs : job'[p].pc \in {"idle", "promote"}
    <3>1. MayLive(1) /\ 1 \in Runs
      BY <1>3, <2>1, RunNumbers
    <3>2. Valid(meta'[1])
      BY <3>1 DEF ArchiveInv, FirstAlone
    <3>3. QED
      BY <1>1, <3>1, <3>2 DEF ArchiveInv, FirstAlone
  <2>2. QED
    BY <2>1 DEF FirstAlone, MayLive, Valid
<1>11. Occupies'
  <2>1. ASSUME NEW s \in Session, MayLive(s)', s # 1
        PROVE  s <= runs' /\ (Valid(meta'[s]) \/ intent'[s] = "pending")
    <3>1. MayLive(s) /\ s \in Runs
      BY <1>3, <2>1, RunNumbers
    <3>2. s <= runs /\ (Valid(meta[s]) \/ intent[s] = "pending")
      BY <2>1, <3>1 DEF ArchiveInv, Occupies
    <3>3. QED
      BY <1>1, <3>1, <3>2
  <2>2. QED
    BY <2>1 DEF Occupies, MayLive, Valid
<1>12. AtMostOneLives'
  <2>1. ASSUME NEW s \in Session, NEW t \in Session, MayLive(s)', MayLive(t)' PROVE s = t
    BY <1>3, <2>1 DEF ArchiveInv, AtMostOneLives
  <2>2. QED
    BY <2>1 DEF AtMostOneLives, MayLive
<1>13. QED
  BY <1>5, <1>6, <1>7, <1>8, <1>9, <1>10, <1>11, <1>12 DEF ArchiveInv

LEMMA SupervisorKeeps ==
  ASSUME ArchiveInv, NEW r \in Session, Supervisor(r)
  PROVE  ArchiveInv'
<1>1. Typed' /\ Typed /\ r \in Runs
  BY SupervisorTypes, RunNumbers DEF ArchiveInv
<1>2. /\ meta \in [Runs -> Content] /\ tmps \in [Runs -> Seq(Content)]
      /\ sup \in [Runs -> SupSteps] /\ agent \in [Runs -> BOOLEAN]
      /\ meta[r] \in Content /\ tmps[r] \in Seq(Content)
  BY <1>1 DEF Typed
<1>3. /\ sup[r] \in Started => ~agent[r]
      /\ sup[r] \in Writing => tmps[r] # <<>> /\ Valid(Last(tmps[r]))
      /\ meta[r].kind \notin {"oldRunning", "oldExited"}
      /\ agent[r] => MayLive(r)
      /\ MayLive(r) => ~meta[r].ended /\ \A i \in DOMAIN tmps[r] : ~tmps[r][i].ended
  BY DEF ArchiveInv, Supervised, MayLive, EndIsFinal
<1> DEFINE first == [kind |-> "valid", session |-> FALSE, ended |-> FALSE]
<1>4. CASE SupSpawn(r)
  <2>1. MayLive(r)
    BY <1>4 DEF SupSpawn, MayLive
  <2>2. sup'[r] = "spawned" /\ sup[r] = "born"
    BY <1>1, <1>2, <1>4 DEF SupSpawn
  <2>3. \A s \in Runs \ {r} : /\ sup'[s] = sup[s] /\ meta'[s] = meta[s]
                              /\ tmps'[s] = tmps[s] /\ agent'[s] = agent[s]
    BY <1>1, <1>2, <1>4 DEF SupSpawn
  <2>4. UNCHANGED <<runs, intent, job, admission>> /\ meta' = meta /\ tmps' = tmps
    BY <1>4 DEF SupSpawn
  <2>5. QED
    BY <1>1, <1>3, <2>1, <2>2, <2>3, <2>4, RunMoves DEF Started, Writing
<1>5. CASE initialize(r)
  <2>1. /\ sup'[r] = "initializing" /\ sup[r] = "spawned" /\ agent' = agent /\ meta' = meta
        /\ tmps'[r] = Append(tmps[r], first)
    BY <1>1, <1>2, <1>5 DEF initialize, WriteTmp
  <2>2. first \in Content /\ Valid(first) /\ ~first.ended
    BY Documents, Contents DEF Valid
  <2> HIDE DEF first
  <2>3. /\ tmps'[r] # <<>> /\ Last(tmps'[r]) = first
        /\ \A i \in DOMAIN tmps'[r] : tmps'[r][i] = first \/ \E j \in DOMAIN tmps[r] : tmps'[r][i] = tmps[r][j]
    BY <1>2, <2>1, <2>2, Appended
  <2>4. agent'[r] => ~meta'[r].ended /\ \A i \in DOMAIN tmps'[r] : ~tmps'[r][i].ended
    BY <1>3, <2>1, <2>2, <2>3
  <2>5. \A s \in Runs \ {r} : /\ sup'[s] = sup[s] /\ meta'[s] = meta[s]
                              /\ tmps'[s] = tmps[s] /\ agent'[s] = agent[s]
    BY <1>1, <1>2, <1>5 DEF initialize, WriteTmp
  <2>6. UNCHANGED <<runs, intent, job, admission>>
    BY <1>5 DEF initialize
  <2>7. QED
    BY <1>1, <1>3, <2>1, <2>2, <2>3, <2>4, <2>5, <2>6, RunMoves DEF Started, Writing
<1>6. CASE updateMeta(r)
  <2>1. meta[r] \in Doc
    BY <1>2, <1>6, Contents DEF updateMeta
  <2>2. PICK c \in Content : /\ tmps' = [tmps EXCEPT ![r] = Append(@, c)]
                             /\ Valid(c) /\ (agent[r] => ~c.ended)
    <3>1. CASE agent[r] /\ WriteTmp(r, [meta[r] EXCEPT !.session = TRUE])
      <4>1. ~[meta[r] EXCEPT !.session = TRUE].ended
        BY <1>3, <2>1, <3>1, Documents
      <4>2. QED
        BY <2>1, <3>1, <4>1, Documents, Contents DEF WriteTmp
    <3>2. CASE ~agent[r] /\ WriteTmp(r, [meta[r] EXCEPT !.ended = TRUE])
      BY <2>1, <3>2, Documents, Contents DEF WriteTmp
    <3>3. QED
      BY <1>6, <3>1, <3>2 DEF updateMeta
  <2>3. /\ sup'[r] = "updating" /\ sup[r] = "watching" /\ agent' = agent /\ meta' = meta
        /\ tmps'[r] = Append(tmps[r], c)
    BY <1>1, <1>2, <1>6, <2>2 DEF updateMeta
  <2>4. /\ tmps'[r] # <<>> /\ Last(tmps'[r]) = c
        /\ \A i \in DOMAIN tmps'[r] : tmps'[r][i] = c \/ \E j \in DOMAIN tmps[r] : tmps'[r][i] = tmps[r][j]
    BY <1>2, <2>3, Appended
  <2>5. agent'[r] => ~meta'[r].ended /\ \A i \in DOMAIN tmps'[r] : ~tmps'[r][i].ended
    BY <1>3, <2>2, <2>3, <2>4
  <2>6. \A s \in Runs \ {r} : /\ sup'[s] = sup[s] /\ meta'[s] = meta[s]
                              /\ tmps'[s] = tmps[s] /\ agent'[s] = agent[s]
    BY <1>1, <1>2, <1>6, <2>2 DEF updateMeta
  <2>7. UNCHANGED <<runs, intent, job, admission>>
    BY <1>6 DEF updateMeta
  <2>8. QED
    BY <1>1, <1>3, <2>2, <2>3, <2>4, <2>5, <2>6, <2>7, RunMoves DEF Started, Writing
<1>7. CASE SupRename(r)
  <2>1. sup[r] \in Writing /\ tmps[r] # <<>> /\ Valid(Last(tmps[r]))
    BY <1>3, <1>7 DEF SupRename, Writing
  <2>2. /\ Last(tmps[r]) \in Content
        /\ \E j \in DOMAIN tmps[r] : Last(tmps[r]) = tmps[r][j]
        /\ \A i \in DOMAIN Front(tmps[r]) : \E j \in DOMAIN tmps[r] : Front(tmps[r])[i] = tmps[r][j]
    BY <1>2, <2>1, Fronted
  <2>3. /\ meta'[r] = Last(tmps[r]) /\ tmps'[r] = Front(tmps[r]) /\ agent' = agent
        /\ sup'[r] \in {"gone", "watching"}
    BY <1>1, <1>2, <1>7 DEF SupRename, Rename
  <2>4. agent'[r] => ~meta'[r].ended /\ \A i \in DOMAIN tmps'[r] : ~tmps'[r][i].ended
    BY <1>3, <2>2, <2>3
  <2>5. Valid(meta'[r]) /\ meta'[r].kind \notin {"oldRunning", "oldExited"}
    BY <2>1, <2>3 DEF Valid
  <2>6. \A s \in Runs \ {r} : /\ sup'[s] = sup[s] /\ meta'[s] = meta[s]
                              /\ tmps'[s] = tmps[s] /\ agent'[s] = agent[s]
    BY <1>1, <1>2, <1>7 DEF SupRename, Rename
  <2>7. UNCHANGED <<runs, intent, job, admission>>
    BY <1>7 DEF SupRename
  <2>8. QED
    BY <1>1, <1>3, <2>1, <2>3, <2>4, <2>5, <2>6, <2>7, RunMoves DEF Started, Writing
<1>8. CASE SupRenameFails(r) \/ SupExits(r) \/ SpawnFails(r) \/ SupKills(r)
  <2>1. /\ sup[r] \notin {"none", "gone", "failed"}
        /\ sup'[r] \in {"failing", "leaving", "gone", "failed"}
        /\ sup'[r] = "failed" => sup[r] = "born"
    BY <1>1, <1>2, <1>8 DEF SupRenameFails, SupExits, SpawnFails, SupKills
  <2>2. meta' = meta /\ tmps' = tmps /\ (agent'[r] => agent[r])
        /\ (sup'[r] = "failed" => agent' = agent)
    BY <1>1, <1>2, <1>8 DEF SupRenameFails, SupExits, SpawnFails, SupKills
  <2>3. \A s \in Runs \ {r} : /\ sup'[s] = sup[s] /\ meta'[s] = meta[s]
                              /\ tmps'[s] = tmps[s] /\ agent'[s] = agent[s]
    BY <1>1, <1>2, <1>8 DEF SupRenameFails, SupExits, SpawnFails, SupKills
  <2>4. UNCHANGED <<runs, intent, job, admission>>
    BY <1>8 DEF SupRenameFails, SupExits, SpawnFails, SupKills
  <2>5. QED
    BY <1>1, <1>3, <2>1, <2>2, <2>3, <2>4, RunMoves DEF Started, Writing
<1>9. CASE SupDies(r)
  <2>1. /\ sup[r] \notin {"none", "gone", "failed"} /\ sup'[r] = "gone"
        /\ meta' = meta /\ agent' = agent
    BY <1>1, <1>2, <1>9 DEF SupDies
  <2>2. /\ \A i \in DOMAIN tmps'[r] : ~tmps'[r][i].ended \/ \E j \in DOMAIN tmps[r] : tmps'[r][i] = tmps[r][j]
        /\ \A s \in Runs \ {r} : tmps'[s] = tmps[s]
    <3>1. CASE UNCHANGED tmps
      BY <3>1
    <3>2. CASE sup[r] \in Writing /\ tmps' = [tmps EXCEPT ![r] = Append(Front(tmps[r]), Other("torn"))]
      <4>1. tmps[r] # <<>>
        BY <1>3, <3>2
      <4>2. /\ Front(tmps[r]) \in Seq(Content) /\ Other("torn") \in Content /\ ~Other("torn").ended
            /\ \A i \in DOMAIN Front(tmps[r]) : \E j \in DOMAIN tmps[r] : Front(tmps[r])[i] = tmps[r][j]
        BY <1>2, <4>1, Fronted, Contents
      <4>3. tmps'[r] = Append(Front(tmps[r]), Other("torn"))
        BY <1>1, <1>2, <3>2
      <4>4. \A i \in DOMAIN tmps'[r] : tmps'[r][i] = Other("torn")
                \/ \E j \in DOMAIN Front(tmps[r]) : tmps'[r][i] = Front(tmps[r])[j]
        BY <4>2, <4>3, Appended
      <4>5. \A s \in Runs \ {r} : tmps'[s] = tmps[s]
        BY <1>2, <3>2
      <4>6. QED
        BY <4>2, <4>4, <4>5
    <3>3. QED
      BY <1>9, <3>1, <3>2 DEF SupDies, Writing
  <2>3. agent'[r] => ~meta'[r].ended /\ \A i \in DOMAIN tmps'[r] : ~tmps'[r][i].ended
    BY <1>3, <2>1, <2>2
  <2>4. \A s \in Runs \ {r} : /\ sup'[s] = sup[s] /\ meta'[s] = meta[s]
                              /\ tmps'[s] = tmps[s] /\ agent'[s] = agent[s]
    BY <1>1, <1>2, <1>9, <2>1, <2>2 DEF SupDies
  <2>5. UNCHANGED <<runs, intent, job, admission>>
    BY <1>9 DEF SupDies
  <2>6. QED
    BY <1>1, <1>3, <2>1, <2>3, <2>4, <2>5, RunMoves DEF Started, Writing
<1>10. CASE StopDies(r)
  <2>1. /\ sup[r] = "watching" /\ sup' = sup /\ meta' = meta /\ agent' = agent
        /\ tmps'[r] = Append(tmps[r], meta[r]) /\ \A s \in Runs \ {r} : tmps'[s] = tmps[s]
    BY <1>1, <1>2, <1>10 DEF StopDies, WriteTmp
  <2>2. \A i \in DOMAIN tmps'[r] : tmps'[r][i] = meta[r] \/ \E j \in DOMAIN tmps[r] : tmps'[r][i] = tmps[r][j]
    BY <1>2, <2>1, Appended
  <2>3. agent'[r] => ~meta'[r].ended /\ \A i \in DOMAIN tmps'[r] : ~tmps'[r][i].ended
    BY <1>3, <2>1, <2>2
  <2>4. UNCHANGED <<runs, intent, job, admission>>
    BY <1>10 DEF StopDies
  <2>5. QED
    BY <1>1, <1>3, <2>1, <2>3, <2>4, RunMoves DEF Started, Writing
<1>11. QED
  BY <1>4, <1>5, <1>6, <1>7, <1>8, <1>9, <1>10 DEF Supervisor

-----------------------------------------------------------------------------
(***************************************************************************)
(* The steps of a resume.                                                  *)
(***************************************************************************)

\* What a command may do to itself, the lock and an intent nobody needs any more.
LEMMA JobMoves ==
  ASSUME ArchiveInv, Typed', NEW p \in Procs,
         UNCHANGED <<runs, meta, tmps, sup, agent>>,
         \A q \in Procs \ {p} : job'[q] = job[q],
         job'[p].pc \in {"idle", "planned", "admitted"},
         job'[p].pc # "idle" => ~MayLive(1),
         job'[p].pc = "admitted" => admission' = p,
         \A q \in Procs \ {p} : admission = q => admission' = q,
         \A s \in Session : MayLive(s) => intent'[s] = intent[s]
  PROVE  ArchiveInv'
<1>1. ASSUME NEW s \in Session, MayLive(s)' PROVE MayLive(s)
  <2>1. ASSUME NEW q \in Procs, job'[q] = At("reserved", s) PROVE job[q] = At("reserved", s)
    <3>1. job'[q].pc = "reserved"
      BY <2>1, Jobs
    <3>2. QED
      BY <2>1, <3>1
  <2>2. QED
    BY <1>1, <2>1 DEF MayLive
<1>2. Fresh'
  BY DEF ArchiveInv, Fresh
<1>3. Supervised'
  BY DEF ArchiveInv, Supervised
<1>4. Admitted'
  BY DEF ArchiveInv, Admitted
<1>5. Promoting'
  BY DEF ArchiveInv, Promoting, Adoptable
<1>6. EndIsFinal'
  <2>1. ASSUME NEW s \in Session, MayLive(s)'
        PROVE  ~meta'[s].ended /\ \A i \in DOMAIN tmps'[s] : ~tmps'[s][i].ended
    BY <1>1, <2>1 DEF ArchiveInv, EndIsFinal
  <2>2. QED
    BY <2>1 DEF EndIsFinal, MayLive
<1>7. FirstAlone'
  <2>1. ASSUME MayLive(1)' PROVE runs' = 1 /\ Valid(meta'[1])
                                /\ \A q \in Procs : job'[q].pc \in {"idle", "promote"}
    BY <1>1, <2>1, RunNumbers DEF ArchiveInv, FirstAlone
  <2>2. QED
    BY <2>1 DEF FirstAlone, MayLive, Valid
<1>8. Occupies'
  <2>1. ASSUME NEW s \in Session, MayLive(s)', s # 1
        PROVE  s <= runs' /\ (Valid(meta'[s]) \/ intent'[s] = "pending")
    BY <1>1, <2>1 DEF ArchiveInv, Occupies
  <2>2. QED
    BY <2>1 DEF Occupies, MayLive, Valid
<1>9. AtMostOneLives'
  <2>1. ASSUME NEW s \in Session, NEW t \in Session, MayLive(s)', MayLive(t)' PROVE s = t
    BY <1>1, <2>1 DEF ArchiveInv, AtMostOneLives
  <2>2. QED
    BY <2>1 DEF AtMostOneLives, MayLive
<1>10. QED
  BY <1>2, <1>3, <1>4, <1>5, <1>6, <1>7, <1>8, <1>9 DEF ArchiveInv

\* Under the lock and with no occupant in sight nobody lives: an occupant would show.
LEMMA NobodyLives ==
  ASSUME ArchiveInv, NEW p \in Procs, job[p].pc = "admitted", sessionOccupants = {}
  PROVE  \A s \in Session : ~MayLive(s)
<1> SUFFICES ASSUME NEW s \in Session, MayLive(s) PROVE FALSE
  OBVIOUS
<1>1. s # 1
  BY DEF ArchiveInv, FirstAlone
<1>2. s \in 1 .. runs /\ ~meta[s].ended /\ s > 1
  BY <1>1, RunNumbers DEF ArchiveInv, Occupies, EndIsFinal, Typed
<1>3. s \in sessionOccupants
  BY <1>1, <1>2 DEF sessionOccupants, metaCarriesSession, complete, ResumePending,
                    ArchiveInv, Occupies
<1>4. QED
  BY <1>3

LEMMA ReserveKeeps ==
  ASSUME ArchiveInv, NEW p \in Resumers, startRun(p)
  PROVE  ArchiveInv'
<1> DEFINE n == runs + 1
<1>1. Typed' /\ Typed /\ p \in Procs /\ job \in [Procs -> JobRecs] /\ intent \in [Runs -> {"none", "pending", "failed"}]
  BY ResumeTypes DEF Resume, ArchiveInv, Typed, Procs
<1>2. runs \in Nat /\ runs >= 1 /\ n \in Session /\ n \in Runs /\ n # 1 /\ n > runs /\ n \in Nat
  BY <1>1, RunNumbers DEF Typed, startRun
<1>3. \A s \in Session : ~MayLive(s)
  BY <1>1, NobodyLives DEF startRun
<1>4. sup[n] = "none" /\ meta[n] = Other("absent") /\ tmps[n] = <<>> /\ ~agent[n]
  BY <1>2 DEF ArchiveInv, Fresh, Supervised, Started
<1>5. /\ job'[p] = At("reserved", n) /\ \A q \in Procs \ {p} : job'[q] = job[q]
      /\ intent'[n] = "pending" /\ \A s \in Runs \ {n} : intent'[s] = intent[s]
      /\ runs' = n /\ meta' = meta /\ tmps' = tmps /\ sup' = sup /\ agent' = agent
      /\ admission' = admission /\ job[p].pc = "admitted"
  BY <1>1, <1>2 DEF startRun, writeResumeIntent
<1> HIDE DEF n
<1>6. job'[p].pc = "reserved" /\ job'[p].run = n /\ admission = p
  BY <1>1, <1>5, Jobs DEF ArchiveInv, Admitted
<1>7. ASSUME NEW s \in Session, MayLive(s)' PROVE s = n
  <2>1. ~agent[s] /\ sup[s] # "born"
    BY <1>3 DEF MayLive
  <2>2. PICK q \in Procs : job'[q] = At("reserved", s)
    BY <1>5, <1>7, <2>1 DEF MayLive
  <2>3. CASE q = p
    BY <1>6, <2>2, <2>3, Jobs
  <2>4. CASE q # p
    BY <1>3, <1>5, <2>2, <2>4 DEF MayLive
  <2>5. QED
    BY <2>3, <2>4
<1>8. Fresh'
  BY <1>2, <1>5, RunNumbers DEF ArchiveInv, Fresh
<1>9. Supervised'
  BY <1>5 DEF ArchiveInv, Supervised
<1>10. Admitted'
  <2>1. \A q \in Procs : job'[q].pc \in {"admitted", "reserved", "handshake"} => admission' = q
    BY <1>5, <1>6 DEF ArchiveInv, Admitted
  <2>2. ASSUME NEW q \in Procs, job'[q].pc \in {"reserved", "handshake"}
        PROVE  job'[q].run \in Session /\ job'[q].run <= runs' /\ job'[q].run # 1
    <3>1. CASE q = p
      BY <1>2, <1>5, <1>6, <3>1
    <3>2. CASE q # p
      BY <1>5, <1>6, <2>2, <3>2 DEF ArchiveInv, Admitted
    <3>3. QED
      BY <3>1, <3>2
  <2>3. \A q \in Procs : job'[q].pc = "reserved" => sup'[job'[q].run] = "none"
    BY <1>4, <1>5, <1>6 DEF ArchiveInv, Admitted
  <2>4. QED
    BY <2>1, <2>2, <2>3 DEF Admitted
<1>11. Promoting'
  BY <1>5, <1>6 DEF ArchiveInv, Promoting, Adoptable
<1>12. EndIsFinal'
  <2>1. ASSUME NEW s \in Session, MayLive(s)'
        PROVE  ~meta'[s].ended /\ \A i \in DOMAIN tmps'[s] : ~tmps'[s][i].ended
    BY <1>4, <1>5, <1>7, <2>1, Contents
  <2>2. QED
    BY <2>1 DEF EndIsFinal, MayLive
<1>13. FirstAlone'
  <2>1. ~MayLive(1)'
    BY <1>2, <1>7, RunNumbers
  <2>2. QED
    BY <2>1 DEF FirstAlone, MayLive, Valid
<1>14. Occupies'
  <2>1. ASSUME NEW s \in Session, MayLive(s)', s # 1
        PROVE  s <= runs' /\ (Valid(meta'[s]) \/ intent'[s] = "pending")
    BY <1>2, <1>5, <1>7, <2>1
  <2>2. QED
    BY <2>1 DEF Occupies, MayLive, Valid
<1>15. AtMostOneLives'
  <2>1. ASSUME NEW s \in Session, NEW t \in Session, MayLive(s)', MayLive(t)' PROVE s = t
    BY <1>7, <2>1
  <2>2. QED
    BY <2>1 DEF AtMostOneLives, MayLive
<1>16. QED
  BY <1>1, <1>8, <1>9, <1>10, <1>11, <1>12, <1>13, <1>14, <1>15 DEF ArchiveInv

LEMMA ForkKeeps ==
  ASSUME ArchiveInv, NEW p \in Resumers, Fork(p)
  PROVE  ArchiveInv'
<1> DEFINE n == job[p].run
<1>1. Typed' /\ Typed /\ p \in Procs /\ job \in [Procs -> JobRecs] /\ sup \in [Runs -> SupSteps]
      /\ job[p] \in JobRecs
  BY ResumeTypes DEF Resume, ArchiveInv, Typed, Procs
<1>2. /\ n \in Session /\ n \in Runs /\ n <= runs /\ n # 1 /\ sup[n] = "none" /\ n # OldRun
      /\ job[p].pc = "reserved" /\ admission = p
  BY <1>1, RunNumbers DEF Fork, ArchiveInv, Admitted
<1>3. MayLive(n) /\ ~agent[n] /\ job[p] = At("reserved", n)
  BY <1>1, <1>2, Jobs DEF MayLive, ArchiveInv, Supervised, Started
<1>4. /\ job'[p].pc = "handshake" /\ job'[p].run = n /\ \A q \in Procs \ {p} : job'[q] = job[q]
      /\ sup'[n] = "born" /\ \A s \in Runs \ {n} : sup'[s] = sup[s]
      /\ runs' = runs /\ meta' = meta /\ tmps' = tmps /\ intent' = intent /\ agent' = agent
      /\ admission' = admission
  <2>1. job' = [job EXCEPT ![p].pc = "handshake"] /\ sup' = [sup EXCEPT ![n] = "born"]
    BY DEF Fork
  <2>2. job'[p] = [job[p] EXCEPT !.pc = "handshake"] /\ \A q \in Procs \ {p} : job'[q] = job[q]
    BY <1>1, <2>1
  <2>3. QED
    BY <1>1, <1>2, <2>1, <2>2, Jobs DEF Fork
<1> HIDE DEF n
<1>5. ASSUME NEW s \in Session, MayLive(s)' PROVE MayLive(s)
  <2>1. CASE s = n
    BY <1>3, <2>1
  <2>2. CASE s # n
    <3>1. s \in Runs /\ sup'[s] = sup[s]
      BY <1>4, <2>2, RunNumbers
    <3>2. ASSUME NEW q \in Procs, job'[q] = At("reserved", s) PROVE job[q] = At("reserved", s)
      BY <1>4, <3>2, Jobs
    <3>3. QED
      BY <1>4, <1>5, <3>1, <3>2 DEF MayLive
  <2>3. QED
    BY <2>1, <2>2
<1>6. \A q \in Procs \ {p} : job[q].pc \notin {"admitted", "reserved", "handshake"}
  BY <1>2 DEF ArchiveInv, Admitted
<1>7. Fresh'
  <2>1. ASSUME NEW s \in Session, s > runs PROVE s \in Runs \ {n}
    <3>1. s \in Nat /\ runs \in Nat /\ n \in Nat /\ s \in Runs
      BY <1>1, <1>2, RunNumbers DEF Typed
    <3>2. QED
      BY <1>2, <2>1, <3>1
  <2>2. QED
    BY <1>4, <2>1 DEF ArchiveInv, Fresh
<1>8. Supervised'
  <2>1. \A s \in Session : s \in Runs
    BY RunNumbers
  <2>2. QED
    BY <1>2, <1>3, <1>4, <2>1, RunNumbers DEF ArchiveInv, Supervised, Started, Writing
<1>9. Admitted'
  BY <1>2, <1>4, <1>6 DEF ArchiveInv, Admitted
<1>10. Promoting'
  <2>1. \A q \in Procs : job'[q].pc = "promote" => job[q].pc = "promote" /\ job'[q] = job[q]
                                                   /\ job[q].run \in Runs \ {n}
    BY <1>2, <1>4 DEF ArchiveInv, Promoting
  <2>2. QED
    BY <1>4, <2>1 DEF ArchiveInv, Promoting, Adoptable
<1>11. EndIsFinal'
  <2>1. ASSUME NEW s \in Session, MayLive(s)'
        PROVE  ~meta'[s].ended /\ \A i \in DOMAIN tmps'[s] : ~tmps'[s][i].ended
    BY <1>4, <1>5, <2>1 DEF ArchiveInv, EndIsFinal
  <2>2. QED
    BY <2>1 DEF EndIsFinal, MayLive
<1>12. FirstAlone'
  <2>1. ~MayLive(1)'
    BY <1>2, <1>5, RunNumbers DEF ArchiveInv, FirstAlone
  <2>2. QED
    BY <2>1 DEF FirstAlone, MayLive, Valid
<1>13. Occupies'
  <2>1. ASSUME NEW s \in Session, MayLive(s)', s # 1
        PROVE  s <= runs' /\ (Valid(meta'[s]) \/ intent'[s] = "pending")
    BY <1>4, <1>5, <2>1 DEF ArchiveInv, Occupies
  <2>2. QED
    BY <2>1 DEF Occupies, MayLive, Valid
<1>14. AtMostOneLives'
  <2>1. ASSUME NEW s \in Session, NEW t \in Session, MayLive(s)', MayLive(t)' PROVE s = t
    BY <1>5, <2>1 DEF ArchiveInv, AtMostOneLives
  <2>2. QED
    BY <2>1 DEF AtMostOneLives, MayLive
<1>15. QED
  BY <1>1, <1>7, <1>8, <1>9, <1>10, <1>11, <1>12, <1>13, <1>14 DEF ArchiveInv

\* A command that dies gives up its job and, by the reclaiming of dead locks, its lock.
LEMMA DeathKeeps ==
  ASSUME ArchiveInv, NEW p \in Procs, CommandDies(p), Typed'
  PROVE  ArchiveInv'
<1>1. /\ job'[p] = Idle /\ \A q \in Procs \ {p} : job'[q] = job[q]
      /\ UNCHANGED <<runs, meta, tmps, sup, agent>> /\ intent' = intent
      /\ \A q \in Procs \ {p} : admission = q => admission' = q
  BY DEF CommandDies, ArchiveInv, Typed
<1>2. QED
  BY <1>1, Jobs, JobMoves

LEMMA ResumeKeeps ==
  ASSUME ArchiveInv, NEW p \in Resumers, Resume(p)
  PROVE  ArchiveInv'
<1>1. Typed' /\ Typed /\ p \in Procs /\ job \in [Procs -> JobRecs] /\ job[p] \in JobRecs
  BY ResumeTypes DEF ArchiveInv, Typed, Procs
<1>2. ASSUME NEW r \in Session, planResume(p, r) PROVE ArchiveInv'
  <2>1. ~MayLive(1)
    <3>1. ASSUME MayLive(1) PROVE FALSE
      <4>1. runs = 1 /\ r >= 1 /\ r <= runs /\ r \in Nat
        BY <1>2, <3>1, RunNumbers DEF planResume, ArchiveInv, FirstAlone
      <4>2. r = 1
        BY <4>1
      <4>3. QED
        BY <1>2, <3>1, <4>2, RunNumbers DEF planResume, complete, ArchiveInv, EndIsFinal
    <3>2. QED
      BY <3>1
  <2>2. /\ job'[p] = At("planned", r) /\ \A q \in Procs \ {p} : job'[q] = job[q]
        /\ UNCHANGED <<runs, meta, tmps, sup, agent>> /\ intent' = intent /\ admission' = admission
    BY <1>1, <1>2 DEF planResume
  <2>3. job'[p].pc = "planned"
    BY <2>2, Jobs
  <2>4. QED
    BY <1>1, <2>1, <2>2, <2>3, JobMoves
<1>3. CASE withAdmissionLock(p)
  <2>1. job'[p] = [job[p] EXCEPT !.pc = "admitted"] /\ \A q \in Procs \ {p} : job'[q] = job[q]
    BY <1>1, <1>3 DEF withAdmissionLock
  <2>2. job'[p].pc = "admitted"
    BY <1>1, <2>1, Jobs
  <2>3. /\ UNCHANGED <<runs, meta, tmps, sup, agent>> /\ intent' = intent /\ admission' = p
        /\ job[p].pc = "planned" /\ admission = None
    BY <1>3 DEF withAdmissionLock
  <2>4. ~MayLive(1)
    BY <1>1, <2>3 DEF ArchiveInv, FirstAlone
  <2>5. \A q \in Procs \ {p} : admission = q => admission' = q
    BY <2>3, BoundsAssumption DEF Procs
  <2>6. QED
    BY <1>1, <2>1, <2>2, <2>3, <2>4, <2>5, JobMoves
<1>4. CASE SessionBusy(p)
  <2>1. /\ job'[p] = Idle /\ \A q \in Procs \ {p} : job'[q] = job[q]
        /\ UNCHANGED <<runs, meta, tmps, sup, agent>> /\ intent' = intent
        /\ admission = p
    BY <1>1, <1>4 DEF SessionBusy, ArchiveInv, Admitted
  <2>2. QED
    BY <1>1, <2>1, Jobs, JobMoves
<1>5. CASE startRun(p)
  BY <1>5, ReserveKeeps
<1>6. CASE Fork(p)
  BY <1>6, ForkKeeps
<1>7. CASE Handshake(p)
  <2> DEFINE r == job[p].run
  <2>1. /\ job'[p] = Idle /\ \A q \in Procs \ {p} : job'[q] = job[q]
        /\ UNCHANGED <<runs, meta, tmps, sup, agent>> /\ admission = p
        /\ r \in Runs
    BY <1>1, <1>7, RunNumbers DEF Handshake, ArchiveInv, Admitted
  <2>2. intent' = [intent EXCEPT ![r] = IF sup[r] = "failed" THEN "failed" ELSE intent[r]]
    BY <1>7 DEF Handshake, writeResumeIntent
  <2> HIDE DEF r
  <2>3. ASSUME NEW s \in Session, MayLive(s) PROVE intent'[s] = intent[s]
    <3>1. sup[s] # "failed"
      <4>1. ASSUME sup[s] = "failed" PROVE FALSE
        <5>1. ~agent[s]
          BY <4>1 DEF ArchiveInv, Supervised, Started
        <5>2. PICK q \in Procs : job[q] = At("reserved", s)
          BY <2>3, <4>1, <5>1 DEF MayLive
        <5>3. QED
          BY <4>1, <5>2, Jobs DEF ArchiveInv, Admitted
      <4>2. QED
        BY <4>1
    <3>2. QED
      BY <1>1, <2>1, <2>2, <3>1, RunNumbers DEF Typed
  <2>4. QED
    BY <1>1, <2>1, <2>3, Jobs, JobMoves
<1>8. CASE CommandDies(p)
  BY <1>1, <1>8, DeathKeeps
<1>9. QED
  BY <1>2, <1>3, <1>4, <1>5, <1>6, <1>7, <1>8 DEF Resume

-----------------------------------------------------------------------------
(***************************************************************************)
(* The steps of a repair.                                                  *)
(***************************************************************************)

\* What a repair may do to a run that cannot live any more, when no other repair is at it.
LEMMA RepairMoves ==
  ASSUME ArchiveInv, Typed', NEW p \in Procs, NEW r \in Runs,
         r \in Session => ~MayLive(r) /\ r <= runs /\ meta'[r].kind \notin {"oldRunning", "oldExited"},
         sup[r] \notin Writing,
         UNCHANGED <<runs, intent, sup, agent, admission>>,
         \A s \in Runs \ {r} : meta'[s] = meta[s] /\ tmps'[s] = tmps[s],
         \A q \in Procs \ {p} : job'[q] = job[q],
         \A q \in Procs \ {p} : job[q].pc = "promote" => job[q].run # r,
         job'[p].pc \in {"idle", "promote"},
         job'[p].pc = "promote" =>
            /\ p \in Repairers /\ job'[p].run = r
            /\ sup[r] \in {"gone", "failed"} /\ ~agent[r]
            /\ meta'[r] = Other("absent") /\ Adoptable(r)' # {}
  PROVE  ArchiveInv'
<1>1. ASSUME NEW s \in Session, MayLive(s)' PROVE MayLive(s) /\ s # r /\ s \in Runs \ {r}
  <2>1. ASSUME NEW q \in Procs, job'[q] = At("reserved", s) PROVE job[q] = At("reserved", s)
    <3>1. job'[q].pc = "reserved"
      BY <2>1, Jobs
    <3>2. QED
      BY <2>1, <3>1
  <2>2. MayLive(s)
    BY <1>1, <2>1 DEF MayLive
  <2>3. QED
    BY <2>2, RunNumbers
<1>2. Fresh'
  <2>1. ASSUME NEW s \in Session, s > runs PROVE s \in Runs \ {r}
    <3>1. s \in Runs /\ s \in Nat /\ runs \in Nat
      BY RunNumbers DEF ArchiveInv, Typed
    <3>2. QED
      BY <2>1, <3>1
  <2>2. QED
    BY <2>1 DEF ArchiveInv, Fresh
<1>3. Supervised'
  <2>1. \A s \in Session : s \in Runs
    BY RunNumbers
  <2>2. QED
    BY <2>1 DEF ArchiveInv, Supervised
<1>4. Admitted'
  BY DEF ArchiveInv, Admitted
<1>5. Promoting'
  <2>1. ASSUME NEW q \in Procs, job'[q].pc = "promote", q # p
        PROVE  /\ q \in Repairers /\ job'[q].run \in Runs /\ job'[q].run # r
               /\ sup'[job'[q].run] \in {"gone", "failed"} /\ ~agent'[job'[q].run]
               /\ meta'[job'[q].run] = Other("absent")
               /\ {i \in DOMAIN tmps'[job'[q].run] : Valid(tmps'[job'[q].run][i])} # {}
    <3>1. job'[q] = job[q] /\ job[q].run \in Runs \ {r}
      BY <2>1 DEF ArchiveInv, Promoting
    <3>2. tmps'[job[q].run] = tmps[job[q].run]
      BY <3>1
    <3>3. QED
      BY <2>1, <3>1, <3>2 DEF ArchiveInv, Promoting, Adoptable
  <2>2. ASSUME job'[p].pc = "promote"
        PROVE  /\ p \in Repairers /\ job'[p].run \in Runs /\ job'[p].run = r
               /\ sup'[job'[p].run] \in {"gone", "failed"} /\ ~agent'[job'[p].run]
               /\ meta'[job'[p].run] = Other("absent")
               /\ {i \in DOMAIN tmps'[job'[p].run] : Valid(tmps'[job'[p].run][i])} # {}
    BY <2>2 DEF Adoptable
  <2>3. ASSUME NEW q \in Procs, NEW t \in Procs, job'[q].pc = "promote", job'[t].pc = "promote",
               job'[q].run = job'[t].run
        PROVE  q = t
    <3>1. CASE q # p /\ t # p
      BY <2>3, <3>1 DEF ArchiveInv, Promoting
    <3>2. CASE q = p \/ t = p
      BY <2>1, <2>2, <2>3, <3>2
    <3>3. QED
      BY <3>1, <3>2
  <2>4. \A q \in Procs : job'[q].pc = "promote" =>
               /\ q \in Repairers /\ job'[q].run \in Runs
               /\ sup'[job'[q].run] \in {"gone", "failed"} /\ ~agent'[job'[q].run]
               /\ meta'[job'[q].run] = Other("absent")
               /\ {i \in DOMAIN tmps'[job'[q].run] : Valid(tmps'[job'[q].run][i])} # {}
    BY <2>1, <2>2
  <2>5. QED
    BY <2>3, <2>4 DEF Promoting, Adoptable
<1>6. EndIsFinal'
  <2>1. ASSUME NEW s \in Session, MayLive(s)'
        PROVE  ~meta'[s].ended /\ \A i \in DOMAIN tmps'[s] : ~tmps'[s][i].ended
    BY <1>1, <2>1 DEF ArchiveInv, EndIsFinal
  <2>2. QED
    BY <2>1 DEF EndIsFinal, MayLive
<1>7. FirstAlone'
  <2>1. ASSUME MayLive(1)' PROVE runs' = 1 /\ Valid(meta'[1])
                                /\ \A q \in Procs : job'[q].pc \in {"idle", "promote"}
    <3>1. MayLive(1) /\ 1 \in Runs \ {r}
      BY <1>1, <2>1, RunNumbers
    <3>2. Valid(meta'[1])
      BY <3>1 DEF ArchiveInv, FirstAlone
    <3>3. \A q \in Procs : job'[q].pc \in {"idle", "promote"}
      BY <3>1 DEF ArchiveInv, FirstAlone
    <3>4. QED
      BY <3>1, <3>2, <3>3 DEF ArchiveInv, FirstAlone
  <2>2. QED
    BY <2>1 DEF FirstAlone, MayLive, Valid
<1>8. Occupies'
  <2>1. ASSUME NEW s \in Session, MayLive(s)', s # 1
        PROVE  s <= runs' /\ (Valid(meta'[s]) \/ intent'[s] = "pending")
    BY <1>1, <2>1 DEF ArchiveInv, Occupies
  <2>2. QED
    BY <2>1 DEF Occupies, MayLive, Valid
<1>9. AtMostOneLives'
  <2>1. ASSUME NEW s \in Session, NEW t \in Session, MayLive(s)', MayLive(t)' PROVE s = t
    BY <1>1, <2>1 DEF ArchiveInv, AtMostOneLives
  <2>2. QED
    BY <2>1 DEF AtMostOneLives, MayLive
<1>10. QED
  BY <1>2, <1>3, <1>4, <1>5, <1>6, <1>7, <1>8, <1>9 DEF ArchiveInv

\* What the classification of a repair says of the run: only an old archive is isolated,
\* and only a run whose writers are gone gets an artifact promoted.
LEMMA Classified ==
  ASSUME ArchiveInv, NEW r \in Runs
  PROVE  /\ classifyRepair(r) = "isolate" =>
               r = OldRun /\ meta[r].kind = "oldExited" /\ ~agent[r]
         /\ classifyRepair(r) = "adopt" =>
               /\ r \in Session /\ sup[r] \in {"gone", "failed"} /\ ~agent[r]
               /\ ~Valid(meta[r]) /\ Adoptable(r) # {}
<1>1. Typed
  BY DEF ArchiveInv
<1>2. ASSUME classifyRepair(r) = "isolate"
      PROVE  r = OldRun /\ meta[r].kind = "oldExited" /\ ~agent[r]
  <2>1. ~Valid(meta[r]) /\ Parsed(meta[r]) /\ ~writersBlocking(r, meta[r])
    BY <1>2 DEF classifyRepair
  <2>2. meta[r].kind = "oldExited" /\ ~agent[r]
    BY <2>1 DEF Valid, Parsed, writersBlocking
  <2>3. QED
    BY <2>2, RunNumbers DEF ArchiveInv, Supervised
<1>3. ASSUME classifyRepair(r) = "adopt"
      PROVE  /\ r \in Session /\ sup[r] \in {"gone", "failed"} /\ ~agent[r]
             /\ ~Valid(meta[r]) /\ Adoptable(r) # {}
  <2>1. ~Valid(meta[r]) /\ Adoptable(r) # {} /\ ~writersBlocking(r, tmps[r][Newest(r)])
    BY <1>3 DEF classifyRepair
  <2>2. Valid(tmps[r][Newest(r)])
    BY <1>1, <2>1, NewestIs
  <2>3. sup[r] \in {"gone", "failed"} /\ ~agent[r]
    BY <2>1, <2>2 DEF writersBlocking
  <2>4. QED
    BY <2>1, <2>3, RunNumbers DEF ArchiveInv, Supervised
<1>4. QED
  BY <1>2, <1>3

LEMMA RepairKeeps ==
  ASSUME ArchiveInv, NEW p \in Repairers, Repair(p)
  PROVE  ArchiveInv'
<1>1. Typed' /\ Typed /\ p \in Procs /\ job \in [Procs -> JobRecs] /\ job[p] \in JobRecs
      /\ meta \in [Runs -> Content] /\ tmps \in [Runs -> Seq(Content)]
  BY RepairTypes DEF ArchiveInv, Typed, Procs
<1>2. \A s \in Session : sup[s] \in {"gone", "failed"} /\ ~agent[s] => ~MayLive(s)
  <2>1. ASSUME NEW s \in Session, sup[s] \in {"gone", "failed"}, ~agent[s], MayLive(s) PROVE FALSE
    <3>1. PICK q \in Procs : job[q] = At("reserved", s)
      BY <2>1 DEF MayLive
    <3>2. QED
      BY <2>1, <3>1, Jobs DEF ArchiveInv, Admitted
  <2>2. QED
    BY <2>1
<1>3. ASSUME NEW r \in Runs, Isolate(p, r) PROVE ArchiveInv'
  <2>1. r = OldRun
    BY <1>3, Classified DEF Isolate
  <2>2. sup[r] \notin Writing /\ (r \in Session => FALSE)
    BY <2>1, RunNumbers DEF Writing, ArchiveInv, Supervised
  <2>3. \A q \in Procs : job[q].pc = "promote" => job[q].run # r
    BY <2>1 DEF ArchiveInv, Supervised, Promoting
  <2>4. /\ UNCHANGED <<runs, intent, sup, agent, admission, job>>
        /\ \A s \in Runs \ {r} : meta'[s] = meta[s] /\ tmps'[s] = tmps[s]
        /\ job'[p].pc = "idle"
    BY <1>1, <1>3, Jobs DEF Isolate
  <2>5. QED
    BY <1>1, <2>2, <2>3, <2>4, RepairMoves
<1>4. ASSUME NEW r \in Runs, AdoptIsolates(p, r) PROVE ArchiveInv'
  <2>1. /\ r \in Session /\ sup[r] \in {"gone", "failed"} /\ ~agent[r]
        /\ ~Valid(meta[r]) /\ Adoptable(r) # {}
    BY <1>4, Classified DEF AdoptIsolates
  <2>2. ~MetaLocked(r) /\ r <= runs
    BY <1>4, <2>1, RunNumbers DEF AdoptIsolates, Repairable
  <2>3. \A q \in Procs : job[q].pc = "promote" => job[q].run # r
    <3>1. ASSUME NEW q \in Procs, job[q].pc = "promote", job[q].run = r PROVE FALSE
      <4>1. job[q] \in JobRecs
        BY <1>1
      <4>2. job[q] = At("promote", r) /\ q \in Repairers
        BY <3>1, <4>1, Jobs DEF ArchiveInv, Promoting
      <4>3. QED
        BY <2>2, <4>2 DEF MetaLocked
    <3>2. QED
      BY <3>1
  <2>4. meta'[r] = Other("absent") /\ \A s \in Runs \ {r} : meta'[s] = meta[s]
    <3>1. CASE meta[r].kind = "absent"
      <4>1. meta[r] = Other("absent")
        BY <1>1, <2>1, <3>1, Contents
      <4>2. QED
        BY <1>4, <3>1, <4>1 DEF AdoptIsolates
    <3>2. CASE meta[r].kind # "absent"
      BY <1>1, <1>4, <3>2 DEF AdoptIsolates
    <3>3. QED
      BY <3>1, <3>2
  <2>5. /\ UNCHANGED <<runs, intent, sup, agent, admission>> /\ tmps' = tmps
        /\ job'[p] = At("promote", r) /\ \A q \in Procs \ {p} : job'[q] = job[q]
    BY <1>1, <1>4 DEF AdoptIsolates
  <2>6. meta'[r].kind \notin {"oldRunning", "oldExited"}
    BY <2>4, Contents
  <2>7. Adoptable(r)' # {}
    BY <2>1, <2>5 DEF Adoptable
  <2>8. job'[p].pc = "promote" /\ job'[p].run = r
    BY <2>5, Jobs
  <2>9. QED
    BY <1>1, <1>2, <2>1, <2>2, <2>3, <2>4, <2>5, <2>6, <2>7, <2>8, RepairMoves DEF Writing
<1>5. CASE AdoptRenames(p)
  <2> DEFINE r == job[p].run
  <2>1. /\ r \in Runs /\ sup[r] \in {"gone", "failed"} /\ ~agent[r] /\ Adoptable(r) # {}
        /\ meta[r] = Other("absent") /\ job[p].pc = "promote"
    BY <1>1, <1>5 DEF AdoptRenames, ArchiveInv, Promoting
  <2>2. /\ job'[p] = Idle /\ \A q \in Procs \ {p} : job'[q] = job[q]
        /\ UNCHANGED <<runs, intent, sup, agent, admission>>
        /\ meta' = [meta EXCEPT ![r] = tmps[r][Newest(r)]]
        /\ tmps' = [tmps EXCEPT ![r] = RemoveAt(@, Newest(r))]
    BY <1>1, <1>5 DEF AdoptRenames
  <2>3. \A q \in Procs \ {p} : job[q].pc = "promote" => job[q].run # r
    BY <1>1, <2>1 DEF ArchiveInv, Promoting
  <2> HIDE DEF r
  <2>4. /\ meta'[r] = tmps[r][Newest(r)] /\ Valid(tmps[r][Newest(r)])
        /\ \A s \in Runs \ {r} : meta'[s] = meta[s] /\ tmps'[s] = tmps[s]
    BY <1>1, <2>1, <2>2, NewestIs
  <2>5. r \in Session /\ r <= runs
    <3>1. r \in Session
      BY <2>1, RunNumbers DEF ArchiveInv, Supervised
    <3>2. r \in Nat /\ runs \in Nat /\ ~(r > runs)
      BY <1>1, <2>1, <3>1, RunNumbers DEF ArchiveInv, Fresh, Typed
    <3>3. QED
      BY <3>1, <3>2
  <2>6. meta'[r].kind \notin {"oldRunning", "oldExited"} /\ job'[p].pc = "idle"
    BY <2>2, <2>4, Jobs DEF Valid
  <2>7. QED
    BY <1>1, <1>2, <2>1, <2>2, <2>3, <2>4, <2>5, <2>6, RepairMoves DEF Writing
<1>6. CASE CommandDies(p)
  BY <1>1, <1>6, DeathKeeps
<1>7. QED
  BY <1>3, <1>4, <1>5, <1>6 DEF Repair

-----------------------------------------------------------------------------
(***************************************************************************)
(* What happens to the processes, and the invariant.                       *)
(***************************************************************************)

\* The first agent of a session may show its file; nothing else is looked at.
LEMMA QuietKeeps ==
  ASSUME ArchiveInv, Typed',
         UNCHANGED <<runs, meta, tmps, broken, intent, sup, agent, job, admission>>
  PROVE  ArchiveInv'
BY DEF ArchiveInv, Fresh, Supervised, Admitted, Promoting, Adoptable, EndIsFinal, FirstAlone,
       Occupies, AtMostOneLives, MayLive, Valid

LEMMA ExitKeeps ==
  ASSUME ArchiveInv, NEW r \in Runs, AgentExits(r)
  PROVE  ArchiveInv'
<1>1. Typed' /\ Typed /\ meta \in [Runs -> Content] /\ agent \in [Runs -> BOOLEAN]
  BY WorldTypes DEF ArchiveInv, Typed
<1>2. /\ UNCHANGED <<runs, tmps, intent, sup, job, admission>>
      /\ \A s \in Runs : agent'[s] => agent[s]
      /\ \A s \in Session : meta'[s] = meta[s]
      /\ \A s \in Runs : meta[s] = Other("absent") => meta'[s] = Other("absent")
  BY <1>1, RunNumbers, Contents DEF AgentExits
<1>3. ASSUME NEW s \in Session, MayLive(s)' PROVE MayLive(s)
  <2>1. s \in Runs
    BY RunNumbers
  <2>2. QED
    BY <1>2, <1>3, <2>1 DEF MayLive
<1>4. Fresh'
  BY <1>2 DEF ArchiveInv, Fresh
<1>5. Supervised'
  <2>1. \A s \in Session : s \in Runs
    BY RunNumbers
  <2>2. QED
    BY <1>2, <2>1 DEF ArchiveInv, Supervised
<1>6. Admitted'
  BY <1>2 DEF ArchiveInv, Admitted
<1>7. Promoting'
  BY <1>2 DEF ArchiveInv, Promoting, Adoptable
<1>8. EndIsFinal'
  <2>1. ASSUME NEW s \in Session, MayLive(s)'
        PROVE  ~meta'[s].ended /\ \A i \in DOMAIN tmps'[s] : ~tmps'[s][i].ended
    BY <1>2, <1>3, <2>1 DEF ArchiveInv, EndIsFinal
  <2>2. QED
    BY <2>1 DEF EndIsFinal, MayLive
<1>9. FirstAlone'
  <2>1. ASSUME MayLive(1)' PROVE runs' = 1 /\ Valid(meta'[1])
                                /\ \A q \in Procs : job'[q].pc \in {"idle", "promote"}
    BY <1>2, <1>3, <2>1, RunNumbers DEF ArchiveInv, FirstAlone
  <2>2. QED
    BY <2>1 DEF FirstAlone, MayLive, Valid
<1>10. Occupies'
  <2>1. ASSUME NEW s \in Session, MayLive(s)', s # 1
        PROVE  s <= runs' /\ (Valid(meta'[s]) \/ intent'[s] = "pending")
    BY <1>2, <1>3, <2>1 DEF ArchiveInv, Occupies
  <2>2. QED
    BY <2>1 DEF Occupies, MayLive, Valid
<1>11. AtMostOneLives'
  <2>1. ASSUME NEW s \in Session, NEW t \in Session, MayLive(s)', MayLive(t)' PROVE s = t
    BY <1>3, <2>1 DEF ArchiveInv, AtMostOneLives
  <2>2. QED
    BY <2>1 DEF AtMostOneLives, MayLive
<1>12. QED
  BY <1>1, <1>4, <1>5, <1>6, <1>7, <1>8, <1>9, <1>10, <1>11 DEF ArchiveInv

LEMMA PowerLossKeeps ==
  ASSUME ArchiveInv, PowerLoss
  PROVE  ArchiveInv'
<1>1. Typed' /\ Typed /\ meta \in [Runs -> Content] /\ sup \in [Runs -> SupSteps]
  BY WorldTypes DEF ArchiveInv, Typed
<1>2. /\ \A s \in Runs : ~agent'[s] /\ sup'[s] \in {"none", "gone"} /\ (sup'[s] = "none" <=> sup[s] = "none")
      /\ \A q \in Procs : job'[q] = Idle
      /\ runs' = runs
  BY DEF PowerLoss, Procs
<1>3. \A s \in Runs : meta'[s] = meta[s] \/ (Valid(meta[s]) /\ meta'[s] = Other("torn"))
  BY DEF PowerLoss
<1>4. \A s \in Runs : sup[s] \notin Writing => tmps'[s] = tmps[s]
  BY DEF PowerLoss, Writing
<1>5. \A s \in Session : ~MayLive(s)'
  <2>1. ASSUME NEW s \in Session, MayLive(s)' PROVE FALSE
    <3>1. s \in Runs
      BY RunNumbers
    <3>2. \E q \in Procs : job'[q] = At("reserved", s)
      BY <1>2, <2>1, <3>1 DEF MayLive
    <3>3. QED
      BY <1>2, <3>2, Jobs
  <2>2. QED
    BY <2>1
<1>6. Fresh'
  <2>1. ASSUME NEW s \in Session, s > runs
        PROVE  sup'[s] = "none" /\ meta'[s] = Other("absent") /\ tmps'[s] = <<>>
    <3>1. s \in Runs /\ sup[s] = "none" /\ meta[s] = Other("absent") /\ tmps[s] = <<>>
      BY <2>1, RunNumbers DEF ArchiveInv, Fresh
    <3>2. QED
      BY <1>2, <1>3, <1>4, <3>1, Contents DEF Writing
  <2>2. QED
    BY <1>2, <2>1 DEF Fresh
<1>7. Supervised'
  <2>1. \A s \in Session : s \in Runs
    BY RunNumbers
  <2>2. \A s \in Session : meta'[s].kind \notin {"oldRunning", "oldExited"}
    BY <1>3, <2>1, Contents DEF ArchiveInv, Supervised
  <2>3. sup'[OldRun] = "none"
    BY <1>2, RunNumbers DEF ArchiveInv, Supervised
  <2>4. QED
    BY <1>2, <2>1, <2>2, <2>3 DEF Supervised, Writing
<1>8. Admitted'
  BY <1>2, Jobs DEF Admitted
<1>9. Promoting'
  BY <1>2, Jobs DEF Promoting
<1>10. EndIsFinal' /\ Occupies' /\ AtMostOneLives'
  BY <1>5 DEF EndIsFinal, Occupies, AtMostOneLives, MayLive, Valid
<1>11. FirstAlone'
  BY <1>5, RunNumbers DEF FirstAlone, MayLive, Valid
<1>12. QED
  BY <1>1, <1>6, <1>7, <1>8, <1>9, <1>10, <1>11 DEF ArchiveInv

LEMMA ArchiveStarts == Init => ArchiveInv
<1> SUFFICES ASSUME Init PROVE ArchiveInv
  OBVIOUS
<1> DEFINE first == [kind |-> "valid", session |-> FALSE, ended |-> FALSE]
<1>1. first \in Content /\ Valid(first) /\ ~first.ended /\ first.kind = "valid"
  BY Documents, Contents DEF Valid
<1> HIDE DEF first
<1>2. /\ meta \in [Runs -> Content] /\ meta[1] = first
      /\ \A r \in Session : r # 1 => meta[r] = Other("absent")
  <2>1. meta = [r \in Runs |-> IF r = 1 THEN first
                               ELSE Other(IF r = OldRun THEN "oldRunning" ELSE "absent")]
    BY DEF Init, first
  <2>2. Other("oldRunning") \in Content /\ Other("absent") \in Content
    BY Contents
  <2>3. QED
    BY <1>1, <2>1, <2>2, RunNumbers
<1>3. /\ runs = 1 /\ sup[1] = "watching" /\ tmps \in [Runs -> {<<>>}] /\ broken \in [Runs -> {<<>>}]
      /\ \A r \in Runs : r # 1 => sup[r] = "none" /\ tmps[r] = <<>>
      /\ \A r \in Session : r # 1 => ~agent[r]
      /\ \A q \in Procs : job[q] = Idle
      /\ tmps[1] = <<>>
  BY RunNumbers DEF Init, Procs
<1>4. Typed
  <2>1. <<>> \in Seq(Content)
    OBVIOUS
  <2>2. tmps \in [Runs -> Seq(Content)] /\ broken \in [Runs -> Seq(Content)]
    BY <1>3, <2>1
  <2>3. job \in [Procs -> JobRecs]
    BY Jobs DEF Init, Procs
  <2>4. sup \in [Runs -> SupSteps] /\ agent \in [Runs -> BOOLEAN]
        /\ intent \in [Runs -> {"none", "pending", "failed"}]
    BY DEF Init, SupSteps
  <2>5. command \in {"codex", "pi", "unrecoverable"} /\ native \in BOOLEAN
        /\ admission \in Procs \cup {None} /\ faults \in Nat /\ losses \in Nat /\ runs \in Session
    BY <1>3, RunNumbers DEF Init
  <2>6. QED
    BY <1>2, <2>2, <2>3, <2>4, <2>5 DEF Typed
<1>5. \A r \in Session : MayLive(r) => r = 1
  <2>1. ASSUME NEW r \in Session, MayLive(r), r # 1 PROVE FALSE
    <3>1. r \in Runs /\ ~agent[r] /\ sup[r] = "none"
      BY <1>3, <2>1, RunNumbers
    <3>2. PICK q \in Procs : job[q] = At("reserved", r)
      BY <2>1, <3>1 DEF MayLive
    <3>3. QED
      BY <1>3, <3>2, Jobs
  <2>2. QED
    BY <2>1
<1>6. Fresh
  BY <1>2, <1>3, RunNumbers DEF Fresh
<1>7. Supervised
  <2>1. \A r \in Session : r \in Runs
    BY RunNumbers
  <2>2. \A r \in Session : meta[r].kind \notin {"oldRunning", "oldExited"}
    BY <1>1, <1>2, Contents
  <2>3. sup[OldRun] = "none"
    BY <1>3, RunNumbers
  <2>4. QED
    BY <1>3, <2>1, <2>2, <2>3 DEF Supervised, Started, Writing
<1>8. Admitted /\ Promoting
  BY <1>3, Jobs DEF Admitted, Promoting
<1>9. EndIsFinal
  BY <1>1, <1>2, <1>3, <1>5 DEF EndIsFinal
<1>10. FirstAlone
  BY <1>1, <1>2, <1>3, Jobs DEF FirstAlone
<1>11. Occupies /\ AtMostOneLives
  BY <1>5 DEF Occupies, AtMostOneLives
<1>12. QED
  BY <1>4, <1>6, <1>7, <1>8, <1>9, <1>10, <1>11 DEF ArchiveInv

LEMMA ArchiveSteps == ArchiveInv /\ [Next]_vars => ArchiveInv'
<1> SUFFICES ASSUME ArchiveInv, [Next]_vars PROVE ArchiveInv'
  OBVIOUS
<1>1. CASE \E r \in Session : Supervisor(r)
  BY <1>1, SupervisorKeeps
<1>2. CASE \E r \in Runs : AgentExits(r)
  BY <1>2, ExitKeeps
<1>3. CASE \E p \in Resumers : Resume(p)
  BY <1>3, ResumeKeeps
<1>4. CASE \E p \in Repairers : Repair(p)
  BY <1>4, RepairKeeps
<1>5. CASE PiOpensSession
  <2>1. Typed'
    BY <1>5, WorldTypes
  <2>2. QED
    BY <1>5, <2>1, QuietKeeps DEF PiOpensSession
<1>6. CASE PowerLoss
  BY <1>6, PowerLossKeeps
<1>7. CASE UNCHANGED vars
  <2>1. Typed'
    BY <1>7 DEF vars, ArchiveInv, Typed
  <2>2. QED
    BY <1>7, <2>1, QuietKeeps DEF vars
<1>8. QED
  BY <1>1, <1>2, <1>3, <1>4, <1>5, <1>6, <1>7 DEF Next

LEMMA ArchiveHolds == Spec => []ArchiveInv
BY ArchiveStarts, ArchiveSteps, PTL DEF Spec

-----------------------------------------------------------------------------
(***************************************************************************)
(* The promises.                                                           *)
(***************************************************************************)

Holders == {r \in Session : agent[r]}

\* The agents of a run: at most one run has any.
LEMMA OneHolder ==
  ASSUME ArchiveInv
  PROVE  \A r, s \in Holders : r = s
BY DEF ArchiveInv, AtMostOneLives, MayLive, Holders

\* A step that only takes agents away leaves the lease alone or gives it back.
LEMMA HoldersShrink ==
  ASSUME ArchiveInv, Holders' \subseteq Holders
  PROVE  Holders' = Holders \/ \E r \in Session : r \in Holders /\ Holders' = Holders \ {r}
<1>1. CASE Holders' = Holders
  BY <1>1
<1>2. CASE Holders' # Holders
  <2>1. PICK r \in Holders : r \notin Holders'
    BY <1>2
  <2>2. Holders = {r} /\ Holders' = {}
    BY <2>1, OneHolder
  <2>3. r \in Session
    BY DEF Holders
  <2>4. QED
    BY <2>1, <2>2, <2>3
<1>3. QED
  BY <1>1, <1>2

LEMMA HoldersStep ==
  ASSUME ArchiveInv, [Next]_vars
  PROVE  Holders' = Holders \/ \E r \in Session :
            \/ Holders = {} /\ Holders' = {r}
            \/ r \in Holders /\ Holders' = Holders \ {r}
<1>1. agent \in [Runs -> BOOLEAN] /\ sup \in [Runs -> SupSteps] /\ Session \subseteq Runs
  BY RunNumbers DEF ArchiveInv, Typed
<1>2. CASE \E r \in Session : SupSpawn(r)
  <2>1. PICK r \in Session : SupSpawn(r)
    BY <1>2
  <2>2. MayLive(r) /\ ~agent[r]
    BY <2>1 DEF SupSpawn, MayLive, ArchiveInv, Supervised, Started
  <2>3. Holders = {}
    BY <2>2 DEF ArchiveInv, AtMostOneLives, MayLive, Holders
  <2>4. agent' = [agent EXCEPT ![r] = TRUE]
    BY <2>1 DEF SupSpawn
  <2>5. Holders' = {r}
    BY <1>1, <2>3, <2>4 DEF Holders
  <2>6. QED
    BY <2>3, <2>5
<1>3. CASE ~\E r \in Session : SupSpawn(r)
  <2>1. \A s \in Session : agent'[s] => agent[s]
    <3>1. CASE \E r \in Session : Supervisor(r)
      BY <1>1, <1>3, <3>1 DEF Supervisor, initialize, updateMeta, SupRename, SupRenameFails,
             SupKills, SupExits, SpawnFails, SupDies, StopDies
    <3>2. CASE \E r \in Runs : AgentExits(r)
      BY <1>1, <3>2 DEF AgentExits
    <3>3. CASE \E p \in Resumers : Resume(p)
      BY <3>3 DEF Resume, planResume, withAdmissionLock, SessionBusy, startRun, Fork, Handshake,
             CommandDies
    <3>4. CASE \E p \in Repairers : Repair(p)
      BY <3>4 DEF Repair, Isolate, AdoptIsolates, AdoptRenames, CommandDies
    <3>5. CASE PiOpensSession \/ UNCHANGED vars
      BY <3>5 DEF PiOpensSession, vars
    <3>6. CASE PowerLoss
      BY <1>1, <3>6 DEF PowerLoss
    <3>7. QED
      BY <3>1, <3>2, <3>3, <3>4, <3>5, <3>6 DEF Next
  <2>2. Holders' \subseteq Holders
    BY <2>1 DEF Holders
  <2>3. QED
    BY <2>2, HoldersShrink
<1>4. QED
  BY <1>2, <1>3

(* A native session has one agent at a time, and it passes from one run to *)
(* the next only through a moment without any: the archive with its metas, *)
(* intents and the admission lock (admission.ts, resume.ts) implements the *)
(* lease of SessionLease, whatever dies in between.                        *)
THEOREM SessionIsLeased == Spec => LeaseImplemented
<1>1. Init => Lease!Init
  <2>1. ASSUME Init PROVE Holders \in SUBSET Session /\ \A r, s \in Holders : r = s
    BY <2>1, ArchiveStarts, OneHolder DEF Holders
  <2>2. QED
    BY <2>1 DEF Lease!Init, Holders
<1>2. ArchiveInv /\ [Next]_vars => [Lease!Next]_Holders
  BY HoldersStep DEF Lease!Next, Lease!Take, Lease!Leave, Holders
<1>3. QED
  BY <1>1, <1>2, ArchiveHolds, PTL DEF Spec, LeaseImplemented, Lease!Spec, Holders

(* A repair touches the files of a run only when its supervisor is gone    *)
(* and its process group is dead (writersBlocking in repair.ts), and what  *)
(* it found stays so until its last rename.                                *)
THEOREM DeadRunsAreRepaired == Spec => OnlyTheDeadRepaired
<1> DEFINE Touched(r) == \/ broken'[r] # broken[r]
                         \/ \E p \in Repairers : job[p] = At("promote", r) /\ meta'[r] # meta[r]
<1>1. ASSUME ArchiveInv, [Next]_vars, NEW r \in Runs, Touched(r)
      PROVE  sup[r] \in {"none", "gone", "failed"} /\ ~agent[r]
  <2>1. CASE \E p \in Repairers : job[p] = At("promote", r)
    <3>1. PICK p \in Repairers : job[p] = At("promote", r)
      BY <2>1
    <3>2. p \in Procs /\ job[p].pc = "promote" /\ job[p].run = r
      BY <3>1, Jobs DEF Procs
    <3>3. QED
      BY <1>1, <3>2 DEF ArchiveInv, Promoting
  <2>2. CASE broken'[r] # broken[r]
    <3>1. broken \in [Runs -> Seq(Content)]
      BY <1>1 DEF ArchiveInv, Typed
    <3>2. \E p \in Repairers : Isolate(p, r) \/ AdoptIsolates(p, r)
      <4>1. CASE \E s \in Session : Supervisor(s)
        BY <2>2, <4>1 DEF Supervisor, SupSpawn, initialize, updateMeta, SupRename, SupRenameFails,
               SupKills, SupExits, SpawnFails, SupDies, StopDies
      <4>2. CASE \E s \in Runs : AgentExits(s)
        BY <2>2, <4>2 DEF AgentExits
      <4>3. CASE \E p \in Resumers : Resume(p)
        BY <2>2, <4>3 DEF Resume, planResume, withAdmissionLock, SessionBusy, startRun, Fork,
               Handshake, CommandDies
      <4>4. CASE \E p \in Repairers : Repair(p)
        <5>1. PICK p \in Repairers : Repair(p)
          BY <4>4
        <5>2. PICK s \in Runs : Isolate(p, s) \/ AdoptIsolates(p, s)
          BY <2>2, <5>1 DEF Repair, AdoptRenames, CommandDies
        <5>3. \A t \in Runs \ {s} : broken'[t] = broken[t]
          BY <3>1, <5>2 DEF Isolate, AdoptIsolates, isolateMetaEvidence
        <5>4. QED
          BY <2>2, <5>2, <5>3
      <4>5. CASE PiOpensSession \/ UNCHANGED vars \/ PowerLoss
        BY <2>2, <4>5 DEF PiOpensSession, vars, PowerLoss
      <4>6. QED
        BY <1>1, <4>1, <4>2, <4>3, <4>4, <4>5 DEF Next
    <3>3. classifyRepair(r) \in {"isolate", "adopt"}
      BY <3>2 DEF Isolate, AdoptIsolates
    <3>4. QED
      BY <1>1, <3>3, Classified DEF ArchiveInv, Supervised
  <2>3. QED
    BY <1>1, <2>1, <2>2
<1>2. ArchiveInv /\ [Next]_vars =>
        [ \A r \in Runs :
            (broken'[r] # broken[r] \/ (\E p \in Repairers : job[p] = At("promote", r) /\ meta'[r] # meta[r]))
              => sup[r] \in {"none", "gone", "failed"} /\ ~agent[r] ]_vars
  BY <1>1
<1>3. QED
  BY <1>2, ArchiveHolds, PTL DEF Spec, OnlyTheDeadRepaired

-----------------------------------------------------------------------------
(***************************************************************************)
(* Evidence is counted: how often a content stands in a list of files.     *)
(***************************************************************************)
Where(s, c) == {i \in DOMAIN s : s[i] = c}

LEMMA WhereFinite ==
  ASSUME NEW s \in Seq(Content), NEW c
  PROVE  IsFiniteSet(Where(s, c)) /\ Cardinality(Where(s, c)) \in Nat
<1>1. Len(s) \in Nat /\ Where(s, c) \in SUBSET (1 .. Len(s))
  BY DEF Where
<1>2. IsFiniteSet(1 .. Len(s))
  BY <1>1, FS_Interval
<1>3. QED
  BY <1>1, <1>2, FS_Subset, FS_CardinalityType

LEMMA CountAppended ==
  ASSUME NEW s \in Seq(Content), NEW e \in Content, NEW c
  PROVE  Cardinality(Where(Append(s, e), c))
           = Cardinality(Where(s, c)) + (IF e = c THEN 1 ELSE 0)
<1> DEFINE n == Len(s) + 1
<1>1. /\ Len(s) \in Nat /\ DOMAIN s = 1 .. Len(s) /\ DOMAIN Append(s, e) = 1 .. n
      /\ Append(s, e)[n] = e /\ \A i \in 1 .. Len(s) : Append(s, e)[i] = s[i]
  OBVIOUS
<1>2. n \notin Where(s, c)
  BY <1>1 DEF Where
<1>3. Where(Append(s, e), c) = IF e = c THEN Where(s, c) \cup {n} ELSE Where(s, c)
  BY <1>1 DEF Where
<1>4. IsFiniteSet(Where(s, c)) /\ Cardinality(Where(s, c)) \in Nat
  BY WhereFinite
<1>5. Cardinality(Where(s, c) \cup {n}) = Cardinality(Where(s, c)) + 1
  <2> HIDE DEF n
  <2>1. QED
    BY <1>2, <1>4, FS_AddElement
<1>6. QED
  BY <1>3, <1>4, <1>5

LEMMA CountRemoved ==
  ASSUME NEW s \in Seq(Content), NEW n \in DOMAIN s, NEW c
  PROVE  Cardinality(Where(s, c))
           <= Cardinality(Where(RemoveAt(s, n), c)) + (IF s[n] = c THEN 1 ELSE 0)
<1> DEFINE t == RemoveAt(s, n)
           S == Where(s, c) \ {n}
           T == Where(t, c)
           f == [i \in S |-> IF i < n THEN i ELSE i - 1]
<1>1. /\ t \in Seq(Content) /\ Len(t) = Len(s) - 1
      /\ \A i \in 1 .. Len(s) - 1 : t[i] = IF i < n THEN s[i] ELSE s[i + 1]
  BY Removed
<1>2. Len(s) \in Nat /\ n \in 1 .. Len(s) /\ DOMAIN t = 1 .. Len(s) - 1 /\ DOMAIN s = 1 .. Len(s)
  BY <1>1
<1> HIDE DEF t
<1>3. ASSUME NEW i \in S PROVE f[i] \in T
  <2>1. i \in 1 .. Len(s) /\ i # n /\ s[i] = c
    BY <1>2 DEF Where
  <2>2. CASE i < n
    <3>1. f[i] = i /\ i \in 1 .. Len(s) - 1
      BY <1>2, <2>1, <2>2
    <3>2. t[i] = c
      BY <1>1, <2>1, <2>2, <3>1
    <3>3. QED
      BY <1>2, <3>1, <3>2 DEF Where
  <2>3. CASE ~(i < n)
    <3>1. f[i] = i - 1 /\ i - 1 \in 1 .. Len(s) - 1 /\ ~(i - 1 < n) /\ (i - 1) + 1 = i
      BY <1>2, <2>1, <2>3
    <3>2. t[i - 1] = c
      BY <1>1, <2>1, <3>1
    <3>3. QED
      BY <1>2, <3>1, <3>2 DEF Where
  <2>4. QED
    BY <2>2, <2>3
<1>4. ASSUME NEW i \in S, NEW j \in S, f[i] = f[j] PROVE i = j
  <2>1. i \in 1 .. Len(s) /\ i # n /\ j \in 1 .. Len(s) /\ j # n
    BY <1>2 DEF Where
  <2>2. QED
    BY <1>2, <1>4, <2>1
<1>5. f \in Injection(S, T)
  BY <1>3, <1>4 DEF Injection, IsInjective
<1>6. IsFiniteSet(T) /\ Cardinality(T) \in Nat /\ IsFiniteSet(Where(s, c))
      /\ Cardinality(Where(s, c)) \in Nat
  BY <1>1, WhereFinite
<1>7. Cardinality(S) <= Cardinality(T)
  <2> HIDE DEF S, T, f
  <2>1. QED
    BY <1>5, <1>6, FS_Injection
<1>8. Cardinality(S) = IF s[n] = c THEN Cardinality(Where(s, c)) - 1 ELSE Cardinality(Where(s, c))
  <2>1. n \in Where(s, c) <=> s[n] = c
    BY DEF Where
  <2>2. QED
    BY <1>6, <2>1, FS_RemoveElement
<1>9. QED
  <2> HIDE DEF S, T, f
  <2>1. QED
    BY <1>6, <1>7, <1>8 DEF T, t

\* What stands in the files of r.
Found(r, c) == (IF meta[r] = c THEN 1 ELSE 0)
               + Cardinality(Where(tmps[r], c)) + Cardinality(Where(broken[r], c))

LEMMA IsolationKeeps ==
  ASSUME ArchiveInv, NEW r \in Runs, NEW c \in Content \ {Other("absent")},
         isolateMetaEvidence(r), meta' = [meta EXCEPT ![r] = Other("absent")], tmps' = tmps
  PROVE  Found(r, c) <= Found(r, c)'
<1>1. /\ meta[r] \in Content /\ broken[r] \in Seq(Content) /\ tmps[r] \in Seq(Content)
      /\ meta'[r] = Other("absent") /\ broken'[r] = Append(broken[r], meta[r])
  BY DEF ArchiveInv, Typed, isolateMetaEvidence
<1>2. Cardinality(Where(broken'[r], c)) = Cardinality(Where(broken[r], c)) + (IF meta[r] = c THEN 1 ELSE 0)
  BY <1>1, CountAppended
<1>3. Cardinality(Where(broken[r], c)) \in Nat /\ Cardinality(Where(tmps[r], c)) \in Nat
  BY <1>1, WhereFinite
<1>4. Found(r, c)' = (IF meta'[r] = c THEN 1 ELSE 0)
               + Cardinality(Where(tmps[r], c)) + Cardinality(Where(broken'[r], c))
  BY DEF Found, Where
<1> DEFINE x == Cardinality(Where(tmps[r], c))
           y == Cardinality(Where(broken[r], c))
           z == Cardinality(Where(broken'[r], c))
<1>5. Found(r, c) = (IF meta[r] = c THEN 1 ELSE 0) + x + y
  BY DEF Found
<1> HIDE DEF x, y, z
<1>6. x \in Nat /\ y \in Nat /\ z = y + (IF meta[r] = c THEN 1 ELSE 0) /\ meta'[r] # c
  BY <1>1, <1>2, <1>3 DEF x, y, z
<1>7. Found(r, c)' = x + z
  BY <1>4, <1>6 DEF x, z
<1>8. QED
  BY <1>5, <1>6, <1>7

LEMMA PromotionKeeps ==
  ASSUME ArchiveInv, NEW p \in Repairers, AdoptRenames(p), NEW r \in Runs,
         NEW c \in Content \ {Other("absent")}
  PROVE  Found(r, c) <= Found(r, c)'
<1> DEFINE n == job[p].run
<1>1. /\ meta \in [Runs -> Content] /\ tmps \in [Runs -> Seq(Content)]
      /\ broken \in [Runs -> Seq(Content)] /\ p \in Procs
  BY DEF ArchiveInv, Typed, Procs
<1>2. n \in Runs /\ meta[n] = Other("absent") /\ Adoptable(n) # {}
  BY <1>1 DEF AdoptRenames, ArchiveInv, Promoting
<1>3. /\ meta' = [meta EXCEPT ![n] = tmps[n][Newest(n)]]
      /\ tmps' = [tmps EXCEPT ![n] = RemoveAt(@, Newest(n))] /\ broken' = broken
  BY DEF AdoptRenames
<1> HIDE DEF n
<1>4. Cardinality(Where(broken[r], c)) \in Nat /\ Cardinality(Where(tmps[r], c)) \in Nat
  BY <1>1, WhereFinite
<1>5. CASE r # n
  <2>1. meta'[r] = meta[r] /\ tmps'[r] = tmps[r] /\ broken'[r] = broken[r]
    BY <1>1, <1>3, <1>5
  <2>2. Found(r, c)' = Found(r, c)
    BY <2>1 DEF Found, Where
  <2>3. Found(r, c) \in Int
    BY <1>4 DEF Found
  <2>4. QED
    BY <2>2, <2>3
<1>6. CASE r = n
  <2>1. Newest(r) \in DOMAIN tmps[r]
    BY <1>2, <1>6, NewestIs DEF ArchiveInv
  <2>2. meta'[r] = tmps[r][Newest(r)] /\ tmps'[r] = RemoveAt(tmps[r], Newest(r))
    BY <1>1, <1>2, <1>3, <1>6
  <2>3. Cardinality(Where(tmps[r], c))
          <= Cardinality(Where(tmps'[r], c)) + (IF meta'[r] = c THEN 1 ELSE 0)
    BY <1>1, <2>1, <2>2, CountRemoved
  <2>4. Cardinality(Where(tmps'[r], c)) \in Nat
    <3>1. tmps'[r] \in Seq(Content)
      BY <1>1, <2>1, <2>2, Removed
    <3>2. QED
      BY <3>1, WhereFinite
  <2> DEFINE x == Cardinality(Where(tmps[r], c))
             x1 == Cardinality(Where(tmps'[r], c))
             y == Cardinality(Where(broken[r], c))
  <2>5. Found(r, c) = x + y
    BY <1>2, <1>4, <1>6 DEF Found
  <2>6. Found(r, c)' = (IF meta'[r] = c THEN 1 ELSE 0) + x1 + y
    BY <1>3 DEF Found, Where
  <2>7. x \in Nat /\ x1 \in Nat /\ y \in Nat /\ x <= x1 + (IF meta'[r] = c THEN 1 ELSE 0)
    BY <1>4, <2>3, <2>4
  <2> HIDE DEF x, x1, y
  <2>8. QED
    BY <2>5, <2>6, <2>7
<1>7. QED
  BY <1>5, <1>6

(* A repair loses nothing: every content it finds in the files of a run is *)
(* still there after its step, under some name and as often as before      *)
(* (store.ts: "no path deletes or overwrites evidence").                   *)
THEOREM EvidenceStays == Spec => EvidenceKept
<1>1. ASSUME ArchiveInv, NEW r \in Runs, NEW p \in Repairers,
             Isolate(p, r) \/ AdoptIsolates(p, r) \/ AdoptRenames(p),
             NEW c \in Content \ {Other("absent")}
      PROVE  Found(r, c) <= Found(r, c)'
  <2>1. CASE Isolate(p, r)
    BY <1>1, <2>1, IsolationKeeps DEF Isolate
  <2>2. CASE AdoptIsolates(p, r)
    <3>1. CASE meta[r].kind = "absent"
      <4>1. meta' = meta /\ broken' = broken /\ tmps' = tmps
        BY <2>2, <3>1 DEF AdoptIsolates
      <4>2. Found(r, c)' = Found(r, c)
        BY <4>1 DEF Found, Where
      <4>3. Found(r, c) \in Int
        BY <1>1, WhereFinite DEF Found, ArchiveInv, Typed
      <4>4. QED
        BY <4>2, <4>3
    <3>2. CASE meta[r].kind # "absent"
      BY <1>1, <2>2, <3>2, IsolationKeeps DEF AdoptIsolates
    <3>3. QED
      BY <3>1, <3>2
  <2>3. CASE AdoptRenames(p)
    BY <1>1, <2>3, PromotionKeeps
  <2>4. QED
    BY <1>1, <2>1, <2>2, <2>3
<1>2. ArchiveInv /\ [Next]_vars =>
        [ \A r \in Runs :
            \/ \A p \in Repairers : ~(Isolate(p, r) \/ AdoptIsolates(p, r) \/ AdoptRenames(p))
            \/ \A c \in Content \ {Other("absent")} :
                 Evidence(meta[r], tmps[r], broken[r], c)
                   <= Evidence(meta'[r], tmps'[r], broken'[r], c) ]_vars
  BY <1>1 DEF Found, Where, Evidence
<1>3. QED
  BY <1>2, ArchiveHolds, PTL DEF Spec, EvidenceKept

=============================================================================
