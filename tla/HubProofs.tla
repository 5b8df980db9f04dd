------------------------------ MODULE HubProofs ------------------------------
(***************************************************************************)
(* The Hub.  First the derivation (TaskLog): what holds of a derived task  *)
(* for every log, of any length and with any records, also those that land *)
(* out of band.  Then the file store (HubStore): what it promises its      *)
(* callers, for any number of publishes and readers, any names and any     *)
(* number of crashes, foreign files, damaged records and failed meta       *)
(* writes.                                                                 *)
(***************************************************************************)
EXTENDS TaskLog, HubStore, FunctionTheorems, FiniteSetTheorems, SequenceTheorems,
        WellFoundedInduction, TLAPS

(***************************************************************************)
(* TaskLog: the derivation.                                                *)
(***************************************************************************)
\* A status a flow has rows for.
FlowAllows(f, s) ==
    /\ f # "full" => s # "designing"
    /\ f = "solo" => s \notin {"reviewing", "revising"}

\* fold leads from a status of the flow to a status of the flow.
LEMMA FoldStays ==
    ASSUME NEW f \in Flows, NEW s \in Statuses, NEW r, FlowAllows(f, s)
    PROVE  fold(s, r, f).status \in Statuses /\ FlowAllows(f, fold(s, r, f).status)
<1> USE DEF Flows, Statuses, FlowAllows, Go, Stay
<1>1. FoldNote(s, r).status \in Statuses /\ FlowAllows(f, FoldNote(s, r).status)
  BY DEF FoldNote
<1>2. FoldDesign(s, f).status \in Statuses /\ FlowAllows(f, FoldDesign(s, f).status)
  BY DEF FoldDesign
<1>3. FoldCodeChanges(s, f).status \in Statuses /\ FlowAllows(f, FoldCodeChanges(s, f).status)
  BY DEF FoldCodeChanges
<1>4. FoldReview(s, r, f).status \in Statuses /\ FlowAllows(f, FoldReview(s, r, f).status)
  BY DEF FoldReview, TableVerdicts, Verdicts, VERDICT_TARGET
<1>5. FoldRevision(s, f).status \in Statuses /\ FlowAllows(f, FoldRevision(s, f).status)
  BY DEF FoldRevision
<1>6. FoldDecision(s, r, f).status \in Statuses /\ FlowAllows(f, FoldDecision(s, r, f).status)
  BY DEF FoldDecision
<1> QED
  BY <1>1, <1>2, <1>3, <1>4, <1>5, <1>6 DEF fold

\* A task leaves the approval gate only by a decision of the table.
LEMMA GateLeftByDecision ==
    ASSUME NEW f \in Flows, NEW r, fold("pending_approval", r, f).status # "pending_approval"
    PROVE  /\ r.content_type = "decision"
           /\ fold("pending_approval", r, f).warning = NoWarning
<1> USE DEF Go, Stay, NoWarning
<1>1. FoldNote("pending_approval", r).status = "pending_approval"
  BY DEF FoldNote
<1>2. FoldDesign("pending_approval", f).status = "pending_approval"
  BY DEF FoldDesign
<1>3. FoldCodeChanges("pending_approval", f).status = "pending_approval"
  BY DEF FoldCodeChanges
<1>4. FoldReview("pending_approval", r, f).status = "pending_approval"
  BY DEF FoldReview
<1>5. FoldRevision("pending_approval", f).status = "pending_approval"
  BY DEF FoldRevision
<1>6. \/ FoldDecision("pending_approval", r, f).status = "pending_approval"
      \/ FoldDecision("pending_approval", r, f).warning = NoWarning
  BY DEF FoldDecision
<1> QED
  BY <1>1, <1>2, <1>3, <1>4, <1>5, <1>6 DEF fold

\* A legal verdict outside its row parks the task at the approval gate.
LEMMA GateParks ==
    ASSUME NEW f \in Flows, NEW s \in Statuses, NEW r,
           r.content_type = "review", fold(s, r, f).warning = "OUT_OF_TABLE", r.arg \in Verdicts
    PROVE  fold(s, r, f).status = "pending_approval"
  BY DEF fold, FoldReview, Go, Stay, NoWarning, IsClose

\* Outside solo only a review leads to the gate, and one that is not in its row
\* warns about it.
LEMMA GateEnteredByReview ==
    ASSUME NEW f \in Flows, NEW s \in Statuses, NEW r, f # "solo",
           s # "pending_approval", fold(s, r, f).status = "pending_approval"
    PROVE  /\ r.content_type = "review"
           /\ \/ s = "reviewing" /\ fold(s, r, f).warning = NoWarning
              \/ fold(s, r, f).warning = "OUT_OF_TABLE" /\ r.arg \in Verdicts
<1> USE DEF Go, Stay, NoWarning, Flows, Statuses
<1>1. FoldNote(s, r).status # "pending_approval"
  BY DEF FoldNote
<1>2. FoldDesign(s, f).status # "pending_approval"
  BY DEF FoldDesign
<1>3. FoldCodeChanges(s, f).status # "pending_approval"
  BY DEF FoldCodeChanges
<1>4. FoldReview(s, r, f).status = "pending_approval" =>
         \/ s = "reviewing" /\ FoldReview(s, r, f).warning = NoWarning
         \/ FoldReview(s, r, f).warning = "OUT_OF_TABLE" /\ r.arg \in Verdicts
  BY DEF FoldReview
<1>5. FoldRevision(s, f).status # "pending_approval"
  BY DEF FoldRevision
<1>6. FoldDecision(s, r, f).status # "pending_approval"
  BY DEF FoldDecision
<1> QED
  BY <1>1, <1>2, <1>3, <1>4, <1>5, <1>6 DEF fold

\* closed is absorbing.
LEMMA ClosedAbsorbs ==
    ASSUME NEW f, NEW r PROVE fold("closed", r, f).status = "closed"
  BY DEF fold, FoldNote, Go, Stay

\* A review that meets its row ends the review; only a delivery begins one.
LEMMA ReviewingRow ==
    ASSUME NEW f \in Flows, NEW s \in Statuses, NEW r, fold(s, r, f).status = "reviewing"
    PROVE  /\ ~(r.content_type = "review" /\ s = "reviewing" /\ fold(s, r, f).warning = NoWarning)
           /\ s # "reviewing" => r.content_type \in {"code_changes", "revision"}
<1> USE DEF Go, Stay, NoWarning, Flows, Statuses
<1>1. FoldNote(s, r).status = "reviewing" => s = "reviewing"
  BY DEF FoldNote
<1>2. FoldDesign(s, f).status = "reviewing" => s = "reviewing"
  BY DEF FoldDesign
<1>4. FoldReview(s, r, f).status = "reviewing"
         => s = "reviewing" /\ FoldReview(s, r, f).warning # NoWarning
  <2>1. \A v \in Verdicts : VERDICT_TARGET[v] # "reviewing"
    BY DEF VERDICT_TARGET, Verdicts
  <2>2. CASE r.arg \in Verdicts
    BY <2>1, <2>2 DEF FoldReview
  <2>3. CASE r.arg \notin Verdicts
    BY <2>3 DEF FoldReview
  <2> QED
    BY <2>2, <2>3
<1>6. FoldDecision(s, r, f).status = "reviewing" => s = "reviewing"
  BY DEF FoldDecision
<1> QED
  BY <1>1, <1>2, <1>4, <1>6 DEF fold

-----------------------------------------------------------------------------
(***************************************************************************)
(* The lint overlay never touches a gate warning.                          *)
(***************************************************************************)
GatesOutOfTable(warnings) == \A w \in warnings : w.gate => w.code = "OUT_OF_TABLE"

SameGates(a, b) ==
    /\ \A w \in a : w.gate => w \in b
    /\ \A w \in b : w.gate => w \in a
    /\ GatesOutOfTable(b)

\* clear drops warnings of lint codes only.
LEMMA ClearKeepsGates ==
    ASSUME NEW o, NEW code \in LintCodes, NEW role, GatesOutOfTable(o.warnings)
    PROVE  SameGates(o.warnings, clear(o, code, role).warnings)
  BY DEF clear, Overlay, LintCodes, ReviewCodes, GatesOutOfTable, SameGates

\* warn adds a warning that is no gate.
LEMMA WarnKeepsGates ==
    ASSUME NEW o, NEW code \in LintCodes, NEW r, NEW ref, GatesOutOfTable(o.warnings)
    PROVE  SameGates(o.warnings, warn(o, code, r, ref).warnings)
<1>1. SameGates(o.warnings, clear(o, code, toLowerCase(r.role)).warnings)
  BY ClearKeepsGates
<1>2. warn(o, code, r, ref).warnings
        = clear(o, code, toLowerCase(r.role)).warnings
            \cup {[version |-> r.version, code |-> code, gate |-> FALSE]}
  BY DEF warn, Overlay
<1> QED
  BY <1>1, <1>2 DEF SameGates, GatesOutOfTable

\* The whole overlay of one record.
LEMMA LintKeepsGates ==
    ASSUME NEW c, NEW r, NEW f, NEW b, GatesOutOfTable(foldOntoCursor(c, r, f).warnings)
    PROVE  SameGates(foldOntoCursor(c, r, f).warnings, foldWithLint(c, r, f, b).warnings)
<1> DEFINE next    == foldOntoCursor(c, r, f)
           start   == Overlay(next.warnings, Acknowledged(c.lintIssues, r))
           roled   == LintRole(start, r)
           exited  == LintReview(roled, "REVIEW_EXIT_CONDITIONS_INCOMPLETE", r, b)
           scoped  == LintReview(exited, "REVIEW_SCOPE_SECTION_MISSING", r, b)
           pending == PendingAfterReview(c.pendingFailDesign, r, c.status, next.status, f, b)
           final   == LintRevision(scoped, pending, r, c.status, next.status)
<1>1. SameGates(next.warnings, start.warnings)
  BY DEF Overlay, SameGates
<1>2. SameGates(start.warnings, roled.warnings)
  <2> HIDE DEF start
  <2> QED
    BY <1>1, ClearKeepsGates, WarnKeepsGates DEF SameGates, LintRole, LintCodes
<1>3. SameGates(roled.warnings, exited.warnings)
  <2> HIDE DEF roled
  <2> QED
    BY <1>2, ClearKeepsGates, WarnKeepsGates DEF SameGates, LintReview, LintCodes, ReviewCodes
<1>4. SameGates(exited.warnings, scoped.warnings)
  <2> HIDE DEF exited
  <2> QED
    BY <1>3, ClearKeepsGates, WarnKeepsGates DEF SameGates, LintReview, LintCodes, ReviewCodes
<1>5. SameGates(scoped.warnings, final.warnings)
  <2> HIDE DEF scoped, pending
  <2> QED
    BY <1>4, ClearKeepsGates, WarnKeepsGates DEF SameGates, LintRevision, LintCodes
<1>6. foldWithLint(c, r, f, b).warnings = final.warnings
  BY DEF foldWithLint
<1> QED
  <2> HIDE DEF next, start, roled, exited, scoped, pending, final
  <2> QED
    BY <1>1, <1>2, <1>3, <1>4, <1>5, <1>6 DEF SameGates, next

-----------------------------------------------------------------------------
(***************************************************************************)
(* What one record does to the gate warnings: the table's decision drops   *)
(* them, a parking review adds its own, every other record keeps them.     *)
(***************************************************************************)
Drops(s, r, f) ==
    \/ IsClose(r)
    \/ /\ r.content_type = "decision" /\ s = "pending_approval"
       /\ fold(s, r, f).warning = NoWarning

Parks(s, r, f) ==
    /\ r.content_type = "review"
    /\ fold(s, r, f).warning = "OUT_OF_TABLE"
    /\ r.arg \in Verdicts

\* The gate warnings of the plain fold.
LEMMA FoldGates ==
    ASSUME NEW c, NEW r, NEW f, GatesOutOfTable(c.warnings),
           NEW ws, ws = foldOntoCursor(c, r, f).warnings
    PROVE  /\ GatesOutOfTable(ws)
           /\ Drops(c.status, r, f) => \A w \in ws : ~w.gate
           /\ ~Drops(c.status, r, f) => \A w \in c.warnings : w.gate => w \in ws
           /\ Parks(c.status, r, f) => \E w \in ws : w.gate
           /\ ~Parks(c.status, r, f) => \A w \in ws : w.gate => w \in c.warnings
<1> DEFINE step == fold(c.status, r, f)
           kept == WarningsKept(c, r, step)
           strange == StructuralWarning(c.prevVersion, r)
           own == StepWarning(r, step)
<1>1. ws = kept \cup strange \cup own
  BY DEF foldOntoCursor
<1>2. /\ \A w \in kept : w \in c.warnings
      /\ Drops(c.status, r, f) => \A w \in kept : ~w.gate
      /\ ~Drops(c.status, r, f) => \A w \in c.warnings : w.gate => w \in kept
  BY DEF WarningsKept, GateWarnings, Drops
<1>3. \A w \in strange : ~w.gate
  BY DEF StructuralWarning
<1>4. /\ \A w \in own : w.gate <=> Parks(c.status, r, f)
      /\ \A w \in own : w.code = step.warning
      /\ Parks(c.status, r, f) => \E w \in own : w.gate
      /\ Drops(c.status, r, f) => ~Parks(c.status, r, f)
  <2>1. Drops(c.status, r, f) => ~Parks(c.status, r, f)
    BY DEF Drops, Parks, IsClose
  <2>2. CASE step.warning = NoWarning
    BY <2>1, <2>2 DEF StepWarning, Parks, NoWarning
  <2>3. CASE step.warning # NoWarning
    <3> DEFINE gate == /\ r.content_type = "review"
                       /\ step.warning = "OUT_OF_TABLE"
                       /\ r.arg \in Verdicts
               mine == [version |-> r.version, code |-> step.warning, gate |-> gate]
    <3>1. own = {mine}
      BY <2>3 DEF StepWarning
    <3>2. mine.code = step.warning /\ mine.gate = gate
      OBVIOUS
    <3>3. gate <=> Parks(c.status, r, f)
      BY DEF Parks
    <3> QED
      <4> HIDE DEF mine, own, gate
      <4> QED
        BY <2>1, <3>1, <3>2, <3>3
  <2> QED
    BY <2>2, <2>3
<1>5. Parks(c.status, r, f) => step.warning = "OUT_OF_TABLE"
  BY DEF Parks
<1> QED
  <2> HIDE DEF kept, strange, own, step
  <2> QED
    BY <1>1, <1>2, <1>3, <1>4, <1>5 DEF GatesOutOfTable

-----------------------------------------------------------------------------
(***************************************************************************)
(* The inductive invariant.  That unreviewed work is flagged rests on the  *)
(* stronger fact that it is a gate warning that flags it: any other        *)
(* warning could be acknowledged away.                                     *)
(***************************************************************************)
GateFlagsUnjudged ==
    (cursor.status = "pending_approval" /\ flow # "solo" /\ judged = 0)
        => \E w \in cursor.warnings : w.gate

GateAtApproval == \A w \in cursor.warnings : w.gate => cursor.status = "pending_approval"

Counters == judged \in Nat /\ cursor.round_count \in Nat

LInv ==
    /\ flow \in Flows /\ cursor.status \in Statuses /\ Counters
    /\ FlowAllows(flow, cursor.status)
    /\ GatesOutOfTable(cursor.warnings) /\ GateAtApproval /\ GateFlagsUnjudged
    /\ ReviewsFollowDeliveries

\* A new task satisfies the invariant.
LEMMA InitLInv == Init => LInv
  BY DEF Init, LInv, Counters, FlowAllows, GatesOutOfTable, GateAtApproval, GateFlagsUnjudged,
         ReviewsFollowDeliveries, initialLintCursor, initialCursor, INITIAL_STATUS, Flows, Statuses

\* Whatever record lands, the invariant stays.
LEMMA LandLInv ==
    ASSUME LInv, NEW r, Land(r)
    PROVE  LInv'
<1> DEFINE s == cursor.status
           step == fold(s, r, flow)
           ws == foldOntoCursor(cursor, r, flow).warnings
<1>1. /\ cursor'.status = step.status
      /\ cursor'.round_count = cursor.round_count +
              (IF Delivered(r, s, step.status) THEN 1 ELSE 0)
      /\ flow' = flow
      /\ judged' = judged + (IF InTableReview(r) THEN 1 ELSE 0)
  BY DEF Land, foldWithLint, foldOntoCursor
<1>2. step.status \in Statuses /\ FlowAllows(flow, step.status)
  BY FoldStays DEF LInv
<1>3. SameGates(ws, cursor'.warnings)
  BY FoldGates, LintKeepsGates DEF LInv, Land
<1>4. Counters' /\ judged' >= judged
  BY <1>1 DEF LInv, Counters
<1>5. GateAtApproval'
  <2> SUFFICES ASSUME NEW w \in ws, w.gate PROVE step.status = "pending_approval"
    BY <1>1, <1>3 DEF GateAtApproval, SameGates
  <2>1. CASE Parks(s, r, flow)
    BY <2>1, GateParks DEF LInv, Parks
  <2>2. CASE ~Parks(s, r, flow)
    <3>1. w \in cursor.warnings /\ ~Drops(s, r, flow)
      BY <2>2, FoldGates DEF LInv
    <3>2. s = "pending_approval"
      BY <3>1 DEF LInv, GateAtApproval
    <3> QED
      BY <3>1, <3>2, GateLeftByDecision DEF LInv, Drops
  <2> QED
    BY <2>1, <2>2
<1>6. GateFlagsUnjudged'
  <2> SUFFICES ASSUME step.status = "pending_approval", flow # "solo", judged' = 0
               PROVE  \E w \in ws : w.gate
    BY <1>1, <1>3 DEF GateFlagsUnjudged, SameGates
  <2>1. judged = 0 /\ ~InTableReview(r)
    BY <1>1 DEF LInv, Counters
  <2>2. CASE s = "pending_approval"
    <3>1. PICK w \in cursor.warnings : w.gate
      BY <2>1, <2>2 DEF LInv, GateFlagsUnjudged
    <3>2. ~Drops(s, r, flow)
      BY <2>2 DEF Drops, IsClose, fold, FoldDecision, Go, Stay, NoWarning
    <3> QED
      BY <3>1, <3>2, FoldGates DEF LInv
  <2>3. CASE s # "pending_approval"
    <3>1. Parks(s, r, flow)
      BY <2>1, <2>3, GateEnteredByReview DEF LInv, Parks, InTableReview
    <3> QED
      BY <3>1, FoldGates DEF LInv
  <2> QED
    BY <2>2, <2>3
<1>7. ReviewsFollowDeliveries'
  <2>1. CASE step.status = "reviewing"
    <3>1. ~InTableReview(r)
      BY <2>1, ReviewingRow DEF LInv, InTableReview
    <3>2. s # "reviewing" => Delivered(r, s, step.status)
      BY <2>1, ReviewingRow DEF LInv, Delivered
    <3> QED
      BY <1>1, <2>1, <3>1, <3>2 DEF LInv, Counters, ReviewsFollowDeliveries
  <2>2. CASE step.status # "reviewing"
    <3>1. InTableReview(r) => s = "reviewing"
      BY DEF InTableReview
    <3> QED
      BY <1>1, <2>2, <3>1 DEF LInv, Counters, ReviewsFollowDeliveries
  <2> QED
    BY <2>1, <2>2
<1> QED
  BY <1>1, <1>2, <1>3, <1>4, <1>5, <1>6, <1>7 DEF LInv, SameGates

\* A step of the log lands one record.
LEMMA StepLands == Next => \E r : Land(r)
  BY DEF Next, AppendRecord, LandOutOfBand

\* The invariant holds of every log.
LEMMA AlwaysLInv == Spec => []LInv
<1>1. LInv /\ UNCHANGED vars => LInv'
  BY DEF LInv, vars, Counters, GateAtApproval, GateFlagsUnjudged, ReviewsFollowDeliveries
<1>2. LInv /\ [Next]_vars => LInv'
  BY <1>1, StepLands, LandLInv
<1> QED
  BY <1>2, InitLInv, PTL DEF Spec

\* direct is never sent back to design and solo is never in review or revision,
\* whatever is written into the log.
THEOREM FlowsKeepTheirRows == Spec => []FlowStatuses
<1>1. LInv => FlowStatuses
  BY DEF LInv, FlowAllows, FlowStatuses
<1> QED
  BY <1>1, AlwaysLInv, PTL

\* A task with an open gate warning awaits approval: nothing but a decision moves
\* a parked task on, in a log of any length.
THEOREM GateHolds == Spec => []GateHoldsApproval
<1>1. LInv => GateHoldsApproval
  BY DEF LInv, GateAtApproval, GateHoldsApproval, GateWarnings
<1> QED
  BY <1>1, AlwaysLInv, PTL

\* Work that no review ever judged is never put up for approval without
\* needs_attention, however many notes acknowledge its warnings.
THEOREM UnjudgedIsFlagged == Spec => []UnjudgedWorkIsFlagged
<1>1. LInv => UnjudgedWorkIsFlagged
  BY DEF LInv, GateFlagsUnjudged, UnjudgedWorkIsFlagged, needs_attention
<1> QED
  BY <1>1, AlwaysLInv, PTL

\* round_count never falls behind the reviews: each judged review, and the one
\* the task is waiting for, had a delivery of its own.
THEOREM DeliveriesFirst == Spec => []ReviewsFollowDeliveries
<1>1. LInv => ReviewsFollowDeliveries
  BY DEF LInv
<1> QED
  BY <1>1, AlwaysLInv, PTL

\* A closed task stays closed.
THEOREM ClosedForGood == Spec => ClosedStays
<1>1. [Next]_vars => [StaysClosed]_vars
  <2> SUFFICES ASSUME NEW r, Land(r), cursor.status = "closed" PROVE cursor'.status = "closed"
    BY StepLands DEF StaysClosed
  <2>1. cursor'.status = fold(cursor.status, r, flow).status
    BY DEF Land, foldWithLint, foldOntoCursor
  <2> QED
    BY <2>1, ClosedAbsorbs
<1> QED
  BY <1>1, PTL DEF Spec, ClosedStays

\* No record drops a gate warning and leaves the task at the gate: an ack cannot
\* turn a flagged approval into a clean one.
THEOREM GateNeedsDecision == Spec => GateClearedByDecision
<1>1. LInv /\ [Next]_vars => [DropsGateOnlyLeaving]_vars
  <2> SUFFICES ASSUME LInv, NEW r, Land(r), NEW w \in cursor.warnings, w.gate,
                      w \notin cursor'.warnings
               PROVE  cursor'.status # "pending_approval"
    BY StepLands DEF DropsGateOnlyLeaving, GateWarnings
  <2>1. w \notin foldOntoCursor(cursor, r, flow).warnings
    BY FoldGates, LintKeepsGates DEF LInv, Land, SameGates
  <2>2. Drops(cursor.status, r, flow)
    BY <2>1, FoldGates DEF LInv
  <2>3. cursor.status = "pending_approval"
    BY DEF LInv, GateAtApproval
  <2>4. cursor'.status = fold(cursor.status, r, flow).status
    BY DEF Land, foldWithLint, foldOntoCursor
  <2> QED
    BY <2>2, <2>3, <2>4 DEF Drops, IsClose, fold, FoldDecision, Go, Stay, NoWarning
<1> QED
  BY <1>1, AlwaysLInv, PTL DEF Spec, GateClearedByDecision

-----------------------------------------------------------------------------
(***************************************************************************)
(* Type correctness, operator by operator.                                 *)
(***************************************************************************)
Warnings == [version : Nat, code : WarningCodes, gate : BOOLEAN]

Overlays == [warnings : SUBSET Warnings, issues : [LintCodes -> [Roles -> Issues]]]

LogRecords == [version : Nat, content_type : ContentTypes, role : Roles \cup MixedRoles,
               arg : Args, ref_version : Nat, exitOk : BOOLEAN, scopeOk : BOOLEAN]

\* Every role folds to a canonical one.
LEMMA LowerCaseRole ==
    ASSUME NEW p \in Roles \cup MixedRoles PROVE toLowerCase(p) \in Roles
  BY DEF toLowerCase, Roles, MixedRoles

\* clear returns an overlay.
LEMMA ClearType ==
    ASSUME NEW o \in Overlays, NEW code \in LintCodes, NEW p \in Roles
    PROVE  clear(o, code, p) \in Overlays
<1>1. NoIssue \in Issues
  BY DEF NoIssue, Issues
<1>2. [o.issues EXCEPT ![code][p] = NoIssue] \in [LintCodes -> [Roles -> Issues]]
  BY <1>1 DEF Overlays
<1>3. {w \in o.warnings : ~(w.code = code /\ w.version = o.issues[code][p].last)} \in SUBSET Warnings
  BY DEF Overlays
<1> QED
  BY <1>2, <1>3 DEF clear, Overlay, Overlays

\* warn returns an overlay.
LEMMA WarnType ==
    ASSUME NEW o \in Overlays, NEW code \in LintCodes, NEW r \in LogRecords, NEW ref \in Nat
    PROVE  warn(o, code, r, ref) \in Overlays
<1> DEFINE p == toLowerCase(r.role)
           previous == o.issues[code][p]
           cleared == clear(o, code, p)
           issue == [root |-> IF IsIssue(previous) THEN previous.root ELSE r.version,
                     last |-> r.version, round |-> previous.round + 1, requiredRef |-> ref]
           mine == [version |-> r.version, code |-> code, gate |-> FALSE]
<1>1. p \in Roles
  BY LowerCaseRole DEF LogRecords
<1>2. cleared \in Overlays
  BY <1>1, ClearType
<1>3. previous \in Issues
  BY <1>1 DEF Overlays
<1>4. issue \in Issues
  BY <1>3 DEF Issues, LogRecords
<1>5. [cleared.issues EXCEPT ![code][p] = issue] \in [LintCodes -> [Roles -> Issues]]
  <2> HIDE DEF cleared, issue, p
  <2> QED
    BY <1>1, <1>2, <1>4 DEF Overlays
<1>6. mine \in Warnings
  BY DEF Warnings, WarningCodes, LogRecords
<1>7. cleared.warnings \cup {mine} \in SUBSET Warnings
  <2> HIDE DEF cleared, mine
  <2> QED
    BY <1>2, <1>6 DEF Overlays
<1> QED
  <2> HIDE DEF Overlays
  <2>1. warn(o, code, r, ref) = [warnings |-> cleared.warnings \cup {mine},
                                issues |-> [cleared.issues EXCEPT ![code][p] = issue]]
    BY DEF warn, Overlay
  <2>2. ASSUME NEW a \in SUBSET Warnings, NEW b \in [LintCodes -> [Roles -> Issues]]
        PROVE  [warnings |-> a, issues |-> b] \in Overlays
    BY DEF Overlays
  <2> HIDE DEF cleared, mine, issue, p
  <2> QED
    BY <1>5, <1>7, <2>1, <2>2

\* A record's own warning has one of the fold's codes.
LEMMA FoldWarningType ==
    ASSUME NEW f \in Flows, NEW s \in Statuses, NEW r
    PROVE  fold(s, r, f).warning \in FoldCodes \cup {NoWarning}
<1> USE DEF Go, Stay, FoldCodes, NoWarning
<1>1. FoldNote(s, r).warning \in FoldCodes \cup {NoWarning}
  BY DEF FoldNote
<1>2. FoldDesign(s, f).warning \in FoldCodes \cup {NoWarning}
  BY DEF FoldDesign
<1>3. FoldCodeChanges(s, f).warning \in FoldCodes \cup {NoWarning}
  BY DEF FoldCodeChanges
<1>4. FoldReview(s, r, f).warning \in FoldCodes \cup {NoWarning}
  BY DEF FoldReview
<1>5. FoldRevision(s, f).warning \in FoldCodes \cup {NoWarning}
  BY DEF FoldRevision
<1>6. FoldDecision(s, r, f).warning \in FoldCodes \cup {NoWarning}
  BY DEF FoldDecision
<1> QED
  BY <1>1, <1>2, <1>3, <1>4, <1>5, <1>6 DEF fold

\* The fold's warnings are warnings.
LEMMA FoldWarningsType ==
    ASSUME NEW c, NEW r \in LogRecords, NEW f \in Flows, c.status \in Statuses,
           c.warnings \in SUBSET Warnings
    PROVE  foldOntoCursor(c, r, f).warnings \in SUBSET Warnings
<1> DEFINE step == fold(c.status, r, f)
<1>1. WarningsKept(c, r, step) \in SUBSET Warnings
  BY DEF WarningsKept, GateWarnings
<1>2. StructuralWarning(c.prevVersion, r) \in SUBSET Warnings
  <2>1. r.version \in Nat
    BY DEF LogRecords
  <2>2. \A code \in {"VERSION_DUPLICATE", "VERSION_GAP"} :
            [version |-> r.version, code |-> code, gate |-> FALSE] \in Warnings
    BY <2>1 DEF Warnings, WarningCodes, FoldCodes
  <2> QED
    BY <2>2 DEF StructuralWarning
<1>3. StepWarning(r, step) \in SUBSET Warnings
  <2> DEFINE gate == /\ r.content_type = "review"
                     /\ step.warning = "OUT_OF_TABLE"
                     /\ r.arg \in Verdicts
             mine == [version |-> r.version, code |-> step.warning, gate |-> gate]
  <2>1. gate \in BOOLEAN
    OBVIOUS
  <2>2. step.warning # NoWarning => step.warning \in WarningCodes
    BY FoldWarningType DEF WarningCodes
  <2>3. step.warning # NoWarning => mine \in Warnings
    <3> HIDE DEF gate, step
    <3> QED
      BY <2>1, <2>2 DEF Warnings, LogRecords
  <2>4. StepWarning(r, step) = IF step.warning = NoWarning THEN {} ELSE {mine}
    BY DEF StepWarning
  <2> HIDE DEF mine, step
  <2> QED
    BY <2>3, <2>4
<1> QED
  BY <1>1, <1>2, <1>3 DEF foldOntoCursor

\* The lint steps return overlays, and the review a revision answers is a number.
LEMMA LintTypes ==
    ASSUME NEW o \in Overlays, NEW r \in LogRecords, NEW pending \in Nat
    PROVE  /\ LintRole(o, r) \in Overlays
           /\ \A code \in ReviewCodes, b \in BOOLEAN : LintReview(o, code, r, b) \in Overlays
           /\ ExpectedRef(pending, o, r) \in Nat
           /\ \A before, after : LintRevision(o, pending, r, before, after) \in Overlays
<1> USE DEF LintCodes, ReviewCodes
<1>1. toLowerCase(r.role) \in Roles
  BY LowerCaseRole DEF LogRecords
<1>2. LintRole(o, r) \in Overlays
  BY <1>1, ClearType, WarnType DEF LintRole, Targets
<1>3. \A code \in ReviewCodes, b \in BOOLEAN : LintReview(o, code, r, b) \in Overlays
  BY <1>1, ClearType, WarnType DEF LintReview
<1>4. ExpectedRef(pending, o, r) \in Nat
  BY <1>1 DEF ExpectedRef, Overlays, Issues
<1>5. \A before, after : LintRevision(o, pending, r, before, after) \in Overlays
  BY <1>1, <1>4, ClearType, WarnType DEF LintRevision
<1> QED
  BY <1>2, <1>3, <1>4, <1>5

\* One record keeps every part of the cursor in its type.
LEMMA LandTypeOK ==
    ASSUME TypeOK, NEW r \in LogRecords, Land(r), FlowAllows(flow, cursor.status)
    PROVE  TypeOK'
<1> DEFINE next    == foldOntoCursor(cursor, r, flow)
           start   == Overlay(next.warnings, Acknowledged(cursor.lintIssues, r))
           roled   == LintRole(start, r)
           exited  == LintReview(roled, "REVIEW_EXIT_CONDITIONS_INCOMPLETE", r, baseline)
           scoped  == LintReview(exited, "REVIEW_SCOPE_SECTION_MISSING", r, baseline)
           pending == PendingAfterReview(cursor.pendingFailDesign, r, cursor.status, next.status,
                                         flow, baseline)
           final   == LintRevision(scoped, pending, r, cursor.status, next.status)
           valid   == ValidRevision(pending, scoped, r, cursor.status, next.status)
<1>1. next.status \in Statuses /\ next.prevVersion \in Nat
  BY FoldStays DEF TypeOK, foldOntoCursor, LogRecords
<1>2. start \in Overlays
  <2>1. next.warnings \in SUBSET Warnings
    BY FoldWarningsType DEF TypeOK, Warnings
  <2>2. NoIssues \in [LintCodes -> [Roles -> Issues]]
    BY DEF NoIssues, NoIssue, Issues
  <2>3. Acknowledged(cursor.lintIssues, r) \in [LintCodes -> [Roles -> Issues]]
    BY <2>2 DEF TypeOK, Acknowledged
  <2> HIDE DEF next
  <2> QED
    BY <2>1, <2>3 DEF Overlay, Overlays
<1>3. roled \in Overlays
  <2> HIDE DEF start
  <2> QED
    BY <1>2, LintTypes
<1>4. exited \in Overlays
  <2> HIDE DEF roled
  <2> QED
    BY <1>3, LintTypes DEF TypeOK, ReviewCodes
<1>5. scoped \in Overlays
  <2> HIDE DEF exited
  <2> QED
    BY <1>4, LintTypes DEF TypeOK, ReviewCodes
<1>6. pending \in Nat
  BY DEF TypeOK, PendingAfterReview, LogRecords
<1>7. final \in Overlays
  <2> HIDE DEF scoped, pending
  <2> QED
    BY <1>5, <1>6, LintTypes
<1>8. PendingSince(cursor, r, next.status) \in Nat
  BY DEF TypeOK, PendingSince, LogRecords
<1>9. cursor' = [status |-> next.status, prevVersion |-> next.prevVersion,
                 warnings |-> final.warnings, lintIssues |-> final.issues,
                 pendingFailDesign |-> IF valid /\ r.ref_version = pending THEN 0 ELSE pending,
                 pending_since |-> PendingSince(cursor, r, next.status),
                 round_count |-> cursor.round_count +
                     (IF Delivered(r, cursor.status, next.status) THEN 1 ELSE 0)]
  BY DEF Land, foldWithLint
<1>10. cursor.round_count + (IF Delivered(r, cursor.status, next.status) THEN 1 ELSE 0) \in Nat
  BY DEF TypeOK
<1>11. (IF valid /\ r.ref_version = pending THEN 0 ELSE pending) \in Nat
  <2> HIDE DEF valid, pending
  <2> QED
    BY <1>6
<1>12. final.warnings \in SUBSET Warnings /\ final.issues \in [LintCodes -> [Roles -> Issues]]
  <2> HIDE DEF final
  <2> QED
    BY <1>7 DEF Overlays
<1>13. flow' \in Flows /\ baseline' \in BOOLEAN /\ landed' \in Nat /\ judged' \in Nat
  BY DEF Land, TypeOK
<1> QED
  <2> HIDE DEF next, final, pending, valid
  <2> QED
    BY <1>1, <1>8, <1>9, <1>10, <1>11, <1>12, <1>13 DEF TypeOK, Warnings

\* Every part of the cursor has its type, for every payload that may be
\* published and every version it may land with.
THEOREM TypeCorrect == Spec => []TypeOK
<1>1. Init => TypeOK
  <2> SUFFICES ASSUME Init PROVE TypeOK
    OBVIOUS
  <2>1. NoIssues \in [LintCodes -> [Roles -> Issues]]
    BY DEF NoIssues, NoIssue, Issues
  <2>2. INITIAL_STATUS[flow] \in Statuses
    BY DEF Init, INITIAL_STATUS, Flows, Statuses
  <2>3. cursor = [status |-> INITIAL_STATUS[flow], prevVersion |-> 0, warnings |-> {},
                  lintIssues |-> NoIssues, pendingFailDesign |-> 0, pending_since |-> 0,
                  round_count |-> 0]
    BY DEF Init, initialLintCursor, initialCursor
  <2>4. flow \in Flows /\ baseline \in BOOLEAN /\ landed \in Nat /\ judged \in Nat
    BY DEF Init
  <2> QED
    BY <2>1, <2>2, <2>3, <2>4 DEF TypeOK
<1>2. TypeOK /\ LInv /\ [Next]_vars => TypeOK'
  <2>1. TypeOK /\ UNCHANGED vars => TypeOK'
    BY DEF TypeOK, vars
  <2>2. ASSUME NEW p \in Payloads, NEW v \in Nat PROVE Record(p, v) \in LogRecords
    BY PayloadsAssumption DEF Record, LogRecords
  <2>3. ASSUME TypeOK, Next PROVE \E r \in LogRecords : Land(r)
    <3>1. PICK p \in Payloads : AppendRecord(p) \/ LandOutOfBand(p)
      BY <2>3 DEF Next
    <3>2. cursor.prevVersion \in Nat
      BY <2>3 DEF TypeOK
    <3>3. CASE AppendRecord(p)
      BY <2>2, <3>2, <3>3 DEF AppendRecord
    <3>4. CASE LandOutOfBand(p)
      BY <2>2, <3>2, <3>4 DEF LandOutOfBand
    <3> QED
      BY <3>1, <3>3, <3>4
  <2> QED
    BY <2>1, <2>3, LandTypeOK DEF LInv
<1> QED
  BY <1>1, <1>2, AlwaysLInv, PTL DEF Spec

\* What moves a task on, for every record that may land: a closed task stays
\* closed, and an open gate waits for its decision.
THEOREM DecisionsHold == Spec => DecisionsStand
<1>1. [StaysClosed]_vars /\ [DropsGateOnlyLeaving]_vars => [StaysClosed /\ DropsGateOnlyLeaving]_vars
  OBVIOUS
<1> QED
  BY <1>1, ClosedForGood, GateNeedsDecision, PTL DEF ClosedStays, GateClearedByDecision, DecisionsStand

\* All that the derived state promises whoever reads it, after logs of any
\* length.
THEOREM LogStaysSound == Spec => []LogSound
<1>1. TypeOK /\ FlowStatuses /\ GateHoldsApproval /\ UnjudgedWorkIsFlagged /\ ReviewsFollowDeliveries => LogSound
  BY DEF LogSound
<1> QED
  BY <1>1, TypeCorrect, FlowsKeepTheirRows, GateHolds, UnjudgedIsFlagged, DeliveriesFirst, PTL

-----------------------------------------------------------------------------
(***************************************************************************)
(* The lints.                                                              *)
(***************************************************************************)
\* designing is entered by the verdict of a review alone.
LEMMA DesigningRow ==
    ASSUME NEW f \in Flows, NEW s \in Statuses, NEW r, fold(s, r, f).status = "designing"
    PROVE  \/ s = "designing"
           \/ s = "reviewing" /\ r.content_type = "review" /\ r.arg = "fail_design"
<1> USE DEF Go, Stay
<1>1. FoldNote(s, r).status = "designing" => s = "designing"
  BY DEF FoldNote
<1>2. FoldDesign(s, f).status = "designing" => s = "designing"
  BY DEF FoldDesign
<1>3. FoldCodeChanges(s, f).status = "designing" => s = "designing"
  BY DEF FoldCodeChanges
<1>4. FoldReview(s, r, f).status = "designing"
        => s = "designing" \/ (s = "reviewing" /\ r.arg = "fail_design")
  <2>1. \A v \in Verdicts : VERDICT_TARGET[v] = "designing" => v = "fail_design"
    BY DEF VERDICT_TARGET, Verdicts
  <2>2. CASE r.arg \in Verdicts
    BY <2>1, <2>2 DEF FoldReview
  <2>3. CASE r.arg \notin Verdicts
    BY <2>3 DEF FoldReview
  <2> QED
    BY <2>2, <2>3
<1>5. FoldRevision(s, f).status = "designing" => s = "designing"
  BY DEF FoldRevision
<1>6. FoldDecision(s, r, f).status = "designing" => s = "designing"
  BY DEF FoldDecision
<1> QED
  BY <1>1, <1>2, <1>3, <1>4, <1>5, <1>6 DEF fold

\* A sent-back task remembers its review, whatever lands next.
LEMMA LandSentBack ==
    ASSUME TypeOK, LInv, SentBackRemembersReview, NEW r, r.version # 0, Land(r)
    PROVE  SentBackRemembersReview'
<1> DEFINE next    == foldOntoCursor(cursor, r, flow)
           start   == Overlay(next.warnings, Acknowledged(cursor.lintIssues, r))
           roled   == LintRole(start, r)
           exited  == LintReview(roled, "REVIEW_EXIT_CONDITIONS_INCOMPLETE", r, baseline)
           scoped  == LintReview(exited, "REVIEW_SCOPE_SECTION_MISSING", r, baseline)
           pending == PendingAfterReview(cursor.pendingFailDesign, r, cursor.status, next.status,
                                         flow, baseline)
           valid   == ValidRevision(pending, scoped, r, cursor.status, next.status)
<1>1. /\ cursor'.status = next.status
      /\ cursor'.pendingFailDesign = IF valid /\ r.ref_version = pending THEN 0 ELSE pending
      /\ cursor'.round_count = cursor.round_count +
            (IF Delivered(r, cursor.status, next.status) THEN 1 ELSE 0)
      /\ baseline' = baseline
  BY DEF Land, foldWithLint
<1>2. next.status = fold(cursor.status, r, flow).status
  BY DEF foldOntoCursor
<1>3. valid => next.status = "reviewing"
  BY DEF ValidRevision
<1>4. SUFFICES ASSUME baseline, next.status = "designing", cursor'.round_count > 0
               PROVE  pending # 0
  <2> HIDE DEF valid, pending, next
  <2> QED
    BY <1>1, <1>3, <1>4 DEF SentBackRemembersReview
<1>5. ~Delivered(r, cursor.status, next.status) /\ cursor.round_count > 0
  BY <1>1, <1>4 DEF Delivered, TypeOK
<1>6. flow \in Flows /\ cursor.status \in Statuses
  BY DEF TypeOK
<1>7. CASE cursor.status = "designing"
  <2>1. pending \in {cursor.pendingFailDesign, r.version}
    BY <1>4, <1>7 DEF PendingAfterReview
  <2> QED
    BY <1>4, <1>5, <1>7, <2>1 DEF SentBackRemembersReview
<1>8. CASE cursor.status # "designing"
  <2>1. cursor.status = "reviewing" /\ r.content_type = "review" /\ r.arg = "fail_design"
    BY <1>2, <1>4, <1>6, <1>8, DesigningRow
  <2>2. flow = "full"
    BY <1>2, <1>4, <1>6, FoldStays DEF FlowAllows, LInv, FlowStatuses
  <2> QED
    BY <1>4, <2>1, <2>2 DEF PendingAfterReview
<1> QED
  BY <1>7, <1>8

-----------------------------------------------------------------------------
\* The lint warnings shown are the open issues, one each.
Shown(o) ==
    \A c \in LintCodes, v \in Nat :
        (\E w \in o.warnings : w.code = c /\ w.version = v)
          <=> (\E p \in Roles : IsIssue(o.issues[c][p]) /\ o.issues[c][p].last = v)

\* No two issues of one code were diagnosed last at the same version.
Apart(o) ==
    \A c \in LintCodes : \A p, q \in Roles :
        (IsIssue(o.issues[c][p]) /\ IsIssue(o.issues[c][q])
            /\ o.issues[c][p].last = o.issues[c][q].last) => p = q

\* The issues of a code are older than version v.
Older(o, c, v) == \A p \in Roles : IsIssue(o.issues[c][p]) => o.issues[c][p].last < v

Linted(o) == o \in Overlays /\ Shown(o) /\ Apart(o)

\* clear closes one issue and drops its warning, and no other's: two issues of
\* a code never share the version that clear goes by.
LEMMA ClearLinted ==
    ASSUME NEW o, Linted(o), NEW code \in LintCodes, NEW p \in Roles
    PROVE  /\ Linted(clear(o, code, p))
           /\ ~IsIssue(clear(o, code, p).issues[code][p])
           /\ \A q \in Roles : q # p => clear(o, code, p).issues[code][q] = o.issues[code][q]
           /\ \A c \in LintCodes \ {code} : clear(o, code, p).issues[c] = o.issues[c]
           /\ \A c \in LintCodes, v \in Nat : Older(o, c, v) => Older(clear(o, code, p), c, v)
<1> DEFINE issue == o.issues[code][p]
           d == clear(o, code, p)
<1>1. CASE ~IsIssue(issue)
  <2>1. d = o
    BY <1>1 DEF clear
  <2> QED
    BY <1>1, <2>1
<1>2. CASE IsIssue(issue)
  <2>1. /\ d.warnings = {w \in o.warnings : ~(w.code = code /\ w.version = issue.last)}
        /\ d.issues = [o.issues EXCEPT ![code][p] = NoIssue]
    BY <1>2 DEF clear, Overlay
  <2>2. d \in Overlays
    BY ClearType DEF Linted
  <2>3. o.issues \in [LintCodes -> [Roles -> Issues]] /\ ~IsIssue(NoIssue)
    BY DEF Linted, Overlays, IsIssue, NoIssue
  <2>4. /\ d.issues[code][p] = NoIssue
        /\ \A q \in Roles : q # p => d.issues[code][q] = o.issues[code][q]
        /\ \A c \in LintCodes \ {code} : d.issues[c] = o.issues[c]
    BY <2>1, <2>3
  <2> HIDE DEF d
  <2>5. Apart(d)
    BY <2>3, <2>4 DEF Linted, Apart
  <2>6. \A c \in LintCodes, v \in Nat : Older(o, c, v) => Older(d, c, v)
    BY <2>3, <2>4 DEF Older
  <2>7. ASSUME NEW c \in LintCodes, NEW v \in Nat
        PROVE  (\E w \in d.warnings : w.code = c /\ w.version = v)
                 <=> (\E q \in Roles : IsIssue(d.issues[c][q]) /\ d.issues[c][q].last = v)
    <3>1. (\E w \in o.warnings : w.code = c /\ w.version = v)
            <=> (\E q \in Roles : IsIssue(o.issues[c][q]) /\ o.issues[c][q].last = v)
      BY DEF Linted, Shown
    <3>2. CASE c # code
      BY <2>1, <2>4, <3>1, <3>2
    <3>3. CASE c = code /\ v # issue.last
      BY <2>1, <2>3, <2>4, <3>1, <3>3
    <3>4. CASE c = code /\ v = issue.last
      <4>1. ~\E w \in d.warnings : w.code = c /\ w.version = v
        BY <2>1, <3>4
      <4>2. \A q \in Roles : IsIssue(o.issues[c][q]) /\ o.issues[c][q].last = v => q = p
        BY <1>2, <3>4 DEF Linted, Apart
      <4> QED
        BY <2>3, <2>4, <3>4, <4>1, <4>2
    <3> QED
      BY <3>2, <3>3, <3>4
  <2> QED
    BY <2>2, <2>3, <2>4, <2>5, <2>6, <2>7 DEF Linted, Shown, d
<1> QED
  BY <1>1, <1>2

\* warn opens one issue, or diagnoses it again, and shows it.
LEMMA WarnLinted ==
    ASSUME NEW o, Linted(o), NEW code \in LintCodes, NEW r \in LogRecords, r.version # 0,
           Older(o, code, r.version), NEW ref \in Nat
    PROVE  /\ Linted(warn(o, code, r, ref))
           /\ \A c \in LintCodes \ {code} : warn(o, code, r, ref).issues[c] = o.issues[c]
           /\ Older(warn(o, code, r, ref), code, r.version + 1)
<1> DEFINE p == toLowerCase(r.role)
           previous == o.issues[code][p]
           e == clear(o, code, p)
           issue == [root |-> IF IsIssue(previous) THEN previous.root ELSE r.version,
                     last |-> r.version, round |-> previous.round + 1, requiredRef |-> ref]
           mine == [version |-> r.version, code |-> code, gate |-> FALSE]
           d == warn(o, code, r, ref)
<1>1. p \in Roles /\ r.version \in Nat
  BY LowerCaseRole DEF LogRecords
<1>2. /\ Linted(e) /\ ~IsIssue(e.issues[code][p])
      /\ \A q \in Roles : q # p => e.issues[code][q] = o.issues[code][q]
      /\ \A c \in LintCodes \ {code} : e.issues[c] = o.issues[c]
      /\ Older(e, code, r.version)
  BY <1>1, ClearLinted
<1>3. d.warnings = e.warnings \cup {mine} /\ d.issues = [e.issues EXCEPT ![code][p] = issue]
  BY DEF warn, Overlay
<1>4. d \in Overlays
  BY WarnType DEF Linted
<1>5. IsIssue(issue) /\ issue.last = r.version
  BY DEF IsIssue
<1>6. mine.code = code /\ mine.version = r.version
  OBVIOUS
<1>7. e.issues \in [LintCodes -> [Roles -> Issues]]
  BY <1>2 DEF Linted, Overlays
<1> HIDE DEF d, e, issue, mine, p
<1>8. /\ d.issues[code][p] = issue
      /\ \A q \in Roles : q # p => d.issues[code][q] = e.issues[code][q]
      /\ \A c \in LintCodes \ {code} : d.issues[c] = e.issues[c]
  BY <1>1, <1>3, <1>7
<1>9. \A q \in Roles : q # p /\ IsIssue(d.issues[code][q]) => d.issues[code][q].last < r.version
  BY <1>2, <1>8 DEF Older
<1>10. \A q \in Roles, c \in LintCodes : e.issues[c][q].last \in Nat
  BY <1>7 DEF Issues
<1>11. Apart(d)
  <2> SUFFICES ASSUME NEW c \in LintCodes, NEW q \in Roles, NEW s \in Roles,
                      IsIssue(d.issues[c][q]), IsIssue(d.issues[c][s]),
                      d.issues[c][q].last = d.issues[c][s].last
               PROVE  q = s
    BY DEF Apart
  <2>1. CASE c # code \/ (q # p /\ s # p)
    BY <1>2, <1>8, <2>1 DEF Linted, Apart
  <2>2. CASE c = code /\ (q = p \/ s = p)
    BY <1>1, <1>5, <1>8, <1>9, <2>2
  <2> QED
    BY <2>1, <2>2
<1>12. Older(d, code, r.version + 1)
  BY <1>1, <1>5, <1>8, <1>9, <1>10 DEF Older
<1>13. ASSUME NEW c \in LintCodes, NEW v \in Nat
       PROVE  (\E w \in d.warnings : w.code = c /\ w.version = v)
                <=> (\E q \in Roles : IsIssue(d.issues[c][q]) /\ d.issues[c][q].last = v)
  <2>1. (\E w \in e.warnings : w.code = c /\ w.version = v)
          <=> (\E q \in Roles : IsIssue(e.issues[c][q]) /\ e.issues[c][q].last = v)
    BY <1>2 DEF Linted, Shown
  <2>2. CASE c # code
    BY <1>3, <1>6, <1>8, <2>1, <2>2
  <2>3. CASE c = code /\ v = r.version
    BY <1>1, <1>3, <1>5, <1>6, <1>8, <2>3
  <2>4. CASE c = code /\ v # r.version
    <3>1. (\E w \in d.warnings : w.code = c /\ w.version = v)
            <=> (\E w \in e.warnings : w.code = c /\ w.version = v)
      BY <1>3, <1>6, <2>4
    <3>2. (\E q \in Roles : IsIssue(d.issues[c][q]) /\ d.issues[c][q].last = v)
            <=> (\E q \in Roles : IsIssue(e.issues[c][q]) /\ e.issues[c][q].last = v)
      BY <1>1, <1>2, <1>5, <1>8, <2>4
    <3> QED
      BY <2>1, <3>1, <3>2
  <2> QED
    BY <2>2, <2>3, <2>4
<1> QED
  BY <1>2, <1>4, <1>8, <1>11, <1>12, <1>13 DEF Linted, Shown, d

\* What the lints leave to say of a version: their issues are no newer.
Aged(o, v) == \A c \in LintCodes : Older(o, c, v)

\* The fold below the lints touches no lint warning but by dropping them all.
LEMMA FoldLinted ==
    ASSUME TypeOK, GatesOutOfTable(cursor.warnings), NEW r \in LogRecords,
           FlowAllows(flow, cursor.status),
           Linted(Overlay(cursor.warnings, cursor.lintIssues)),
           NEW v \in Nat, Aged(Overlay(cursor.warnings, cursor.lintIssues), v),
           NEW o, o = Overlay(foldOntoCursor(cursor, r, flow).warnings,
                              Acknowledged(cursor.lintIssues, r))
    PROVE  Linted(o) /\ Aged(o, v)
<1> DEFINE step == fold(cursor.status, r, flow)
           ws == foldOntoCursor(cursor, r, flow).warnings
           is == Acknowledged(cursor.lintIssues, r)
           kept == WarningsKept(cursor, r, step)
<1>1. o.warnings = ws /\ o.issues = is
  BY DEF Overlay
<1>2. ws \in SUBSET Warnings
  BY FoldWarningsType DEF TypeOK, Warnings
<1>3. NoIssues \in [LintCodes -> [Roles -> Issues]]
      /\ \A c \in LintCodes, p \in Roles : ~IsIssue(NoIssues[c][p])
  BY DEF NoIssues, NoIssue, Issues, IsIssue
<1>4. is \in [LintCodes -> [Roles -> Issues]]
  BY <1>3 DEF TypeOK, Acknowledged
<1>5. o \in Overlays
  BY <1>2, <1>4 DEF Overlay, Overlays
<1>6. ws = kept \cup StructuralWarning(cursor.prevVersion, r) \cup StepWarning(r, step)
  BY DEF foldOntoCursor
<1>7. \A w \in StructuralWarning(cursor.prevVersion, r) : w.code \notin LintCodes
  BY DEF StructuralWarning, LintCodes, ReviewCodes
<1>8. \A w \in StepWarning(r, step) : w.code \notin LintCodes
  <2>1. step.warning \in FoldCodes \cup {NoWarning}
    BY FoldWarningType DEF TypeOK
  <2>2. \A w \in StepWarning(r, step) : w.code = step.warning /\ step.warning # NoWarning
    BY DEF StepWarning
  <2>3. \A c \in FoldCodes : c \notin LintCodes
    BY DEF FoldCodes, LintCodes, ReviewCodes
  <2> HIDE DEF step
  <2> QED
    BY <2>1, <2>2, <2>3
<1>9. \A w \in cursor.warnings : w.code \in LintCodes => ~w.gate
  BY DEF GatesOutOfTable, LintCodes, ReviewCodes
<1>10. CASE IsAck(r) \/ IsClose(r)
  <2>1. is = NoIssues
    BY <1>10 DEF Acknowledged
  <2>2. \A w \in kept : w.code \notin LintCodes
    BY <1>9, <1>10 DEF WarningsKept, GateWarnings, IsAck, IsClose
  <2>3. \A w \in ws : w.code \notin LintCodes
    BY <1>6, <1>7, <1>8, <2>2
  <2> HIDE DEF ws, is, kept, step
  <2> QED
    BY <1>1, <1>3, <1>5, <2>1, <2>3 DEF Linted, Shown, Apart, Aged, Older
<1>11. CASE ~(IsAck(r) \/ IsClose(r))
  <2>1. is = cursor.lintIssues
    BY <1>11 DEF Acknowledged
  <2>2. \A w : w.code \in LintCodes => (w \in kept <=> w \in cursor.warnings)
    BY <1>9, <1>11 DEF WarningsKept, GateWarnings
  <2>3. \A w : w.code \in LintCodes => (w \in ws <=> w \in cursor.warnings)
    BY <1>6, <1>7, <1>8, <2>2
  <2>4. /\ Overlay(cursor.warnings, cursor.lintIssues).warnings = cursor.warnings
        /\ Overlay(cursor.warnings, cursor.lintIssues).issues = cursor.lintIssues
    BY DEF Overlay
  <2> HIDE DEF ws, is, kept, step
  <2>5. Shown(o)
    <3> SUFFICES ASSUME NEW c \in LintCodes, NEW u \in Nat
                 PROVE  (\E w \in o.warnings : w.code = c /\ w.version = u)
                          <=> (\E p \in Roles : IsIssue(o.issues[c][p]) /\ o.issues[c][p].last = u)
      BY DEF Shown
    <3>1. (\E w \in cursor.warnings : w.code = c /\ w.version = u)
            <=> (\E p \in Roles : IsIssue(cursor.lintIssues[c][p]) /\ cursor.lintIssues[c][p].last = u)
      BY <2>4 DEF Linted, Shown
    <3> QED
      BY <1>1, <2>1, <2>3, <3>1
  <2>6. Apart(o) /\ Aged(o, v)
    BY <1>1, <2>1, <2>4 DEF Linted, Apart, Aged, Older
  <2> QED
    BY <1>5, <2>5, <2>6 DEF Linted
<1> QED
  BY <1>10, <1>11

\* One lint stage: it leaves the issues of its code no newer than the record,
\* and those of the other codes alone.
Staged(o, d, code, v) ==
    /\ Linted(d)
    /\ Older(d, code, v + 1)
    /\ \A c \in LintCodes \ {code} : d.issues[c] = o.issues[c]

\* Leaving, clearing and warning are stages.
LEMMA StageByStage ==
    ASSUME NEW o, Linted(o), NEW r \in LogRecords, r.version # 0, NEW code \in LintCodes,
           Older(o, code, r.version)
    PROVE  /\ Staged(o, o, code, r.version)
           /\ \A p \in Roles : Staged(o, clear(o, code, p), code, r.version)
           /\ \A ref \in Nat : Staged(o, warn(o, code, r, ref), code, r.version)
<1>1. r.version \in Nat
  BY DEF LogRecords
<1>2. \A c \in LintCodes, p \in Roles : o.issues[c][p].last \in Nat
  BY DEF Linted, Overlays, Issues
<1>3. Staged(o, o, code, r.version)
  BY <1>1, <1>2 DEF Staged, Older
<1>4. ASSUME NEW p \in Roles PROVE Staged(o, clear(o, code, p), code, r.version)
  <2>1. /\ Linted(clear(o, code, p)) /\ Older(clear(o, code, p), code, r.version + 1)
        /\ \A c \in LintCodes \ {code} : clear(o, code, p).issues[c] = o.issues[c]
    BY <1>1, <1>3, ClearLinted DEF Staged
  <2> QED
    BY <2>1 DEF Staged
<1>5. ASSUME NEW ref \in Nat PROVE Staged(o, warn(o, code, r, ref), code, r.version)
  BY WarnLinted DEF Staged
<1> QED
  BY <1>3, <1>4, <1>5

\* The lints of one record, in their order.
LEMMA StagesLinted ==
    ASSUME NEW o, Linted(o), NEW r \in LogRecords, r.version # 0
    PROVE  /\ Older(o, "NON_CANONICAL_ROLE", r.version)
                => Staged(o, LintRole(o, r), "NON_CANONICAL_ROLE", r.version)
           /\ \A code \in ReviewCodes, b \in BOOLEAN :
                Older(o, code, r.version) => Staged(o, LintReview(o, code, r, b), code, r.version)
           /\ \A pending \in Nat : \A before, after :
                Older(o, "EXPECTED_REVISION", r.version)
                  => Staged(o, LintRevision(o, pending, r, before, after), "EXPECTED_REVISION", r.version)
<1> USE DEF LintCodes
<1>1. toLowerCase(r.role) \in Roles /\ o \in Overlays
  BY LowerCaseRole DEF LogRecords, Linted
<1>2. Older(o, "NON_CANONICAL_ROLE", r.version)
        => Staged(o, LintRole(o, r), "NON_CANONICAL_ROLE", r.version)
  BY <1>1, StageByStage DEF LintRole, Targets
<1>3. ASSUME NEW code \in ReviewCodes, NEW b \in BOOLEAN, Older(o, code, r.version)
      PROVE  Staged(o, LintReview(o, code, r, b), code, r.version)
  BY <1>1, <1>3, StageByStage DEF LintReview
<1>4. ASSUME NEW pending \in Nat, NEW before, NEW after, Older(o, "EXPECTED_REVISION", r.version)
      PROVE  Staged(o, LintRevision(o, pending, r, before, after), "EXPECTED_REVISION", r.version)
  <2>1. ExpectedRef(pending, o, r) \in Nat
    BY <1>1, LintTypes
  <2> QED
    BY <1>1, <1>4, <2>1, StageByStage DEF LintRevision
<1> QED
  BY <1>2, <1>3, <1>4

LintInv ==
    /\ Linted(Overlay(cursor.warnings, cursor.lintIssues))
    /\ Aged(Overlay(cursor.warnings, cursor.lintIssues), cursor.prevVersion + 1)

\* A record of the store's own numbering keeps issues and warnings in step.
LEMMA LandLinted ==
    ASSUME TypeOK, LInv, LintInv, NEW r \in LogRecords, r.version = cursor.prevVersion + 1, Land(r)
    PROVE  LintInv'
<1> DEFINE next    == foldOntoCursor(cursor, r, flow)
           start   == Overlay(next.warnings, Acknowledged(cursor.lintIssues, r))
           roled   == LintRole(start, r)
           exited  == LintReview(roled, "REVIEW_EXIT_CONDITIONS_INCOMPLETE", r, baseline)
           scoped  == LintReview(exited, "REVIEW_SCOPE_SECTION_MISSING", r, baseline)
           pending == PendingAfterReview(cursor.pendingFailDesign, r, cursor.status, next.status,
                                         flow, baseline)
           final   == LintRevision(scoped, pending, r, cursor.status, next.status)
<1>0. /\ cursor.prevVersion \in Nat /\ r.version # 0 /\ r.version \in Nat /\ baseline \in BOOLEAN
      /\ GatesOutOfTable(cursor.warnings) /\ FlowAllows(flow, cursor.status)
  BY DEF TypeOK, LInv
<1>1. /\ cursor'.warnings = final.warnings /\ cursor'.lintIssues = final.issues
      /\ cursor'.prevVersion = r.version
  BY DEF Land, foldWithLint, foldOntoCursor
<1>2. pending \in Nat
  BY <1>0 DEF TypeOK, PendingAfterReview
<1>3. Linted(start) /\ Aged(start, r.version)
  BY <1>0, FoldLinted DEF LintInv
<1> HIDE DEF start, pending, next
<1>4. Staged(start, roled, "NON_CANONICAL_ROLE", r.version)
  BY <1>0, <1>3, StagesLinted DEF Aged, LintCodes
<1> HIDE DEF roled
<1>5. Staged(roled, exited, "REVIEW_EXIT_CONDITIONS_INCOMPLETE", r.version)
  <2>1. Older(roled, "REVIEW_EXIT_CONDITIONS_INCOMPLETE", r.version)
    BY <1>3, <1>4 DEF Staged, Aged, Older, LintCodes, ReviewCodes
  <2> QED
    BY <1>0, <1>4, <2>1, StagesLinted DEF Staged, ReviewCodes
<1> HIDE DEF exited
<1>6. Staged(exited, scoped, "REVIEW_SCOPE_SECTION_MISSING", r.version)
  <2>1. Older(exited, "REVIEW_SCOPE_SECTION_MISSING", r.version)
    BY <1>3, <1>4, <1>5 DEF Staged, Aged, Older, LintCodes, ReviewCodes
  <2> QED
    BY <1>0, <1>5, <2>1, StagesLinted DEF Staged, ReviewCodes
<1> HIDE DEF scoped
<1>7. Staged(scoped, final, "EXPECTED_REVISION", r.version)
  <2>1. Older(scoped, "EXPECTED_REVISION", r.version)
    BY <1>3, <1>4, <1>5, <1>6 DEF Staged, Aged, Older, LintCodes, ReviewCodes
  <2> QED
    BY <1>0, <1>2, <1>6, <2>1, StagesLinted DEF Staged
<1> HIDE DEF final
<1>8. Aged(final, r.version + 1)
  <2> SUFFICES ASSUME NEW c \in LintCodes PROVE Older(final, c, r.version + 1)
    BY DEF Aged
  <2> QED
    BY <1>4, <1>5, <1>6, <1>7 DEF Staged, Older, LintCodes, ReviewCodes
<1>9. Overlay(final.warnings, final.issues) = final
  BY <1>7 DEF Staged, Linted, Overlays, Overlay
<1> QED
  BY <1>0, <1>1, <1>7, <1>8, <1>9 DEF LintInv, Staged

\* Issue by issue and warning by warning, or as two sets.
LEMMA ShownMatches == TypeOK /\ LintInv => IssuesMatchWarnings
<1> SUFFICES ASSUME TypeOK, LintInv PROVE IssuesMatchWarnings
  OBVIOUS
<1> DEFINE shown == {<<w.code, w.version>> : w \in {x \in cursor.warnings : x.code \in LintCodes}}
           open == UNION {{<<c, cursor.lintIssues[c][p].last>> :
                             p \in {q \in Roles : IsIssue(cursor.lintIssues[c][q])}} : c \in LintCodes}
<1>1. \A c \in LintCodes, v \in Nat :
        (\E w \in cursor.warnings : w.code = c /\ w.version = v)
          <=> (\E p \in Roles : IsIssue(cursor.lintIssues[c][p]) /\ cursor.lintIssues[c][p].last = v)
  BY DEF LintInv, Linted, Shown, Overlay
<1>2. /\ \A w \in cursor.warnings : w.version \in Nat
      /\ \A c \in LintCodes, p \in Roles : cursor.lintIssues[c][p].last \in Nat
  BY DEF TypeOK, Issues
<1>3. ASSUME NEW x \in shown PROVE x \in open
  <2>1. PICK w \in cursor.warnings : w.code \in LintCodes /\ x = <<w.code, w.version>>
    OBVIOUS
  <2>2. PICK p \in Roles : IsIssue(cursor.lintIssues[w.code][p]) /\ cursor.lintIssues[w.code][p].last = w.version
    BY <1>1, <1>2, <2>1
  <2> QED
    BY <2>1, <2>2
<1>4. ASSUME NEW x \in open PROVE x \in shown
  <2>1. PICK c \in LintCodes, p \in Roles : IsIssue(cursor.lintIssues[c][p]) /\ x = <<c, cursor.lintIssues[c][p].last>>
    OBVIOUS
  <2>2. PICK w \in cursor.warnings : w.code = c /\ w.version = cursor.lintIssues[c][p].last
    BY <1>1, <1>2, <2>1
  <2> QED
    BY <2>1, <2>2
<1> QED
  BY <1>3, <1>4 DEF IssuesMatchWarnings

\* A task sent back to design remembers the review it must answer, for any log.
THEOREM SentBackIsRemembered == Spec => []SentBackRemembersReview
<1>1. Init => SentBackRemembersReview
  BY DEF Init, initialLintCursor, SentBackRemembersReview
<1>2. TypeOK /\ LInv /\ SentBackRemembersReview /\ [Next]_vars => SentBackRemembersReview'
  <2>1. SentBackRemembersReview /\ UNCHANGED vars => SentBackRemembersReview'
    BY DEF SentBackRemembersReview, vars
  <2>2. ASSUME TypeOK, Next PROVE \E r : r.version # 0 /\ Land(r)
    <3>1. PICK p \in Payloads : AppendRecord(p) \/ LandOutOfBand(p)
      BY <2>2 DEF Next
    <3>2. cursor.prevVersion \in Nat
      BY <2>2 DEF TypeOK
    <3>3. CASE AppendRecord(p)
      BY <3>2, <3>3 DEF AppendRecord, Record
    <3>4. CASE LandOutOfBand(p)
      BY <3>2, <3>4 DEF LandOutOfBand, Record
    <3> QED
      BY <3>1, <3>3, <3>4
  <2> QED
    BY <2>1, <2>2, LandSentBack
<1> QED
  BY <1>1, <1>2, AlwaysLInv, TypeCorrect, PTL DEF Spec

\* The lints show what they know, in every log that the store alone wrote.
THEOREM LintsAreSound == AppendSpec => []LintSound
<1>1. AppendSpec => Spec
  <2>1. [\E p \in Payloads : AppendRecord(p)]_vars => [Next]_vars
    BY DEF Next
  <2> QED
    BY <2>1, PTL DEF AppendSpec, Spec
<1>2. Init => LintInv
  <2> SUFFICES ASSUME Init PROVE LintInv
    OBVIOUS
  <2>1. /\ cursor.warnings = {} /\ cursor.lintIssues = NoIssues /\ cursor.prevVersion = 0
    BY DEF Init, initialLintCursor, initialCursor
  <2>2. /\ NoIssues \in [LintCodes -> [Roles -> Issues]]
        /\ \A c \in LintCodes, p \in Roles : ~IsIssue(NoIssues[c][p])
    BY DEF NoIssues, NoIssue, Issues, IsIssue
  <2> QED
    BY <2>1, <2>2 DEF LintInv, Linted, Overlay, Overlays, Shown, Apart, Aged, Older
<1>3. TypeOK /\ LInv /\ LintInv /\ [\E p \in Payloads : AppendRecord(p)]_vars => LintInv'
  <2>1. LintInv /\ UNCHANGED vars => LintInv'
    BY DEF LintInv, vars
  <2>2. ASSUME TypeOK, NEW p \in Payloads, AppendRecord(p)
        PROVE  \E r \in LogRecords : r.version = cursor.prevVersion + 1 /\ Land(r)
    <3>1. cursor.prevVersion + 1 \in Nat
      BY <2>2 DEF TypeOK
    <3>2. Record(p, cursor.prevVersion + 1) \in LogRecords
      BY <3>1, PayloadsAssumption DEF Record, LogRecords
    <3> QED
      BY <2>2, <3>2 DEF AppendRecord, Record
  <2> QED
    BY <2>1, <2>2, LandLinted
<1>4. AppendSpec => []LintInv
  BY <1>1, <1>2, <1>3, AlwaysLInv, TypeCorrect, PTL DEF AppendSpec
<1>5. TypeOK /\ LintInv /\ SentBackRemembersReview => LintSound
  BY ShownMatches DEF LintSound
<1> QED
  BY <1>1, <1>4, <1>5, TypeCorrect, SentBackIsRemembered, PTL

(***************************************************************************)
(* HubStore: the file store.                                               *)
(***************************************************************************)
(***************************************************************************)
(* The records, by the names of what they are made of.                     *)
(***************************************************************************)
MaybeSpec == Specs \cup {Null}
MaybeName == Names \cup {<<0, 0>>}
MetaStates == {"missing", "ok", "corrupt"}
CreateSteps == {"none", "made", "seeded", "done"}
JobKinds == {"idle", "append", "repair", "recover"}
JobSteps == {"none", "readdir", "fold", "load", "link", "remember", "meta", "write", "register"}
OpSteps == {"new", "ready", "running", "acked", "lost"}
ReadSteps == {"idle", "names", "records", "fold", "load"}
NameSets == SUBSET Names
Cursors == Seq(Records)
Loads == SUBSET Records

MetaRecs == [state : MetaStates, version : Nat, spec : MaybeSpec]
FileRecs == [by : Ops \cup {Null}, version : Nat, ok : BOOLEAN]
CacheRecs == [token : Tokens, spec : MaybeSpec, folded : Cursors]
CreateRecs == [step : CreateSteps, spec : MaybeSpec]
JobRecs == [kind : JobKinds, step : JobSteps, op : Ops \cup {Null}, name : MaybeName,
            version : Nat, spec : MaybeSpec, token : Tokens, plan : Plans, folded : Cursors,
            source : Sources \cup {Null}]
OpRecs == [step : OpSteps, expected : Nat]
ReadRecs == [step : ReadSteps, spec : MaybeSpec, token : Tokens, plan : Plans, records : Loads]
FaultRecs == [crash : Nat, foreign : Nat, damage : Nat, metaFailure : Nat]

Files(f, T) == /\ f = [n \in DOMAIN f |-> f[n]]
               /\ DOMAIN f \subseteq Names
               /\ \A n \in DOMAIN f : f[n] \in T

Typed ==
    /\ dir \in BOOLEAN /\ up \in BOOLEAN
    /\ meta \in MetaRecs
    /\ Files(disk, FileRecs) /\ Files(copies, Sources) /\ Files(manifest, Sources)
    /\ cache \in CacheRecs
    /\ creating \in CreateRecs
    /\ job \in JobRecs
    /\ ops \in [Ops -> OpRecs]
    /\ reads \in [Readers -> ReadRecs]
    /\ faults \in FaultRecs

-----------------------------------------------------------------------------
(***************************************************************************)
(* The inductive invariant.                                                *)
(***************************************************************************)

\* A copy stands for a damaged record, a line of the manifest for its copy.
Recovered ==
    /\ \A n \in DOMAIN copies : n \in DOMAIN disk /\ ~disk[n].ok
    /\ \A n \in DOMAIN manifest : n \in DOMAIN copies /\ copies[n] = manifest[n]

\* What was read of the directory is still there: names only come.
Seen(token) == token.recs \subseteq DOMAIN disk /\ token.copies \subseteq DOMAIN copies

\* One record for each name.
Distinct(records) == \A x, y \in records : x.name = y.name => x = y

Planned == {"fold", "load", "link", "remember", "meta"}
Unlanded == {"fold", "load", "link"}
Landed == {"remember", "meta"}

\* The append under way: its version is above everything that was there, and from
\* its link on its record is on disk.
Appending ==
    job.kind = "append" =>
        /\ job.op \in Ops /\ ops[job.op].step = "running"
        /\ job.step \in {"readdir"} \cup Planned
        /\ job.step \in Planned => /\ job.name \in Names /\ job.version = job.name[1]
                                   /\ Seen(job.token)
                                   /\ \A n \in job.token.recs : n[1] < job.version
                                   /\ \A n \in job.token.copies : n[1] < job.version
        /\ job.step = "load" => job.plan.adds \subseteq DOMAIN disk
        /\ job.step \in Unlanded => \A n \in StoreWritten : n[1] < job.version
        /\ job.step \in Landed => /\ job.name \in DOMAIN disk
                                  /\ disk[job.name].by = job.op

\* A repair writes what the names say, a recovery registers the copy it landed.
Repairing ==
    /\ job.kind = "repair" => /\ job.version <= maxRecordVersionOf(DOMAIN disk)
                              /\ \A n \in StoreWritten : n[1] <= job.version
    /\ job.kind = "recover" => job.name \in DOMAIN copies /\ copies[job.name] = job.source

\* A request is lost, answered or at work once it has written.
Written ==
    \A n \in StoreWritten :
        LET o == disk[n].by
        IN  /\ ops[o].step \in {"running", "acked", "lost"}
            /\ ops[o].step = "running" =>
                    job.kind = "append" /\ job.op = o /\ job.step \in Landed

\* What a reader holds was there when it looked.
Reading ==
    \A r \in Readers :
        LET q == reads[r]
        IN  /\ q.step \in {"idle", "names", "records"} => q.records = {}
            /\ q.step \in {"records", "fold", "load"} => Seen(q.token)
            /\ Distinct(q.records)
            /\ q.step = "load" => q.plan.adds \subseteq q.token.recs

\* The cached cursor folds names that are there.
Cached == Seen(cache.token)

StoreInv ==
    /\ Typed /\ Recovered /\ Appending /\ Repairing /\ Written /\ Reading /\ Cached
    /\ UniqueVersions /\ AckedIsOnDisk /\ MetaNotAhead

-----------------------------------------------------------------------------
(***************************************************************************)
(* The folds, when the content of every file carries the version of its    *)
(* name.                                                                   *)
(***************************************************************************)
Plain(x) == x.version = x.name[1]

Sorted(s) == \A i, j \in DOMAIN s : i < j => Before(s[i], s[j])

\* A cursor whose records stand for their names, copies where the token lists one.
Honest(copied, s) ==
    \A i \in DOMAIN s : Plain(s[i]) /\ (s[i].name \in copied => s[i].src = "copy")

NamesOf(s) == {s[i].name : i \in DOMAIN s}

Well(token, s) == NamesOf(s) = token.recs /\ Sorted(s) /\ Honest(token.copies, s)

\* What is left to fold comes after what has been folded.
PlanOk(token, plan) ==
    /\ NamesOf(plan.base) \cup plan.adds = token.recs
    /\ Sorted(plan.base) /\ Honest(token.copies, plan.base)
    /\ \A i \in DOMAIN plan.base, n \in plan.adds : plan.base[i].name[1] < n[1]

LoadsOk(copied, records) ==
    \A x \in records : Plain(x) /\ (x.name \in copied => x.src = "copy")

Truthful == \A n \in DOMAIN disk : disk[n].version = n[1]

CacheWell == Well(cache.token, cache.folded)

JobWell ==
    job.kind = "append" =>
        /\ job.step = "load" => PlanOk(job.token, job.plan)
        /\ job.step \in {"link", "remember"} => Well(job.token, job.folded)

ReadsWell ==
    \A r \in Readers :
        /\ LoadsOk(reads[r].token.copies, reads[r].records)
        /\ reads[r].step = "load" => PlanOk(reads[r].token, reads[r].plan)

FoldInv == Truthful /\ CacheWell /\ JobWell /\ ReadsWell

-----------------------------------------------------------------------------
(***************************************************************************)
(* Names and their versions.                                               *)
(***************************************************************************)
LEMMA NamesAreVersions ==
  /\ MaxVersion \in Nat /\ NumTypes \in Nat
  /\ \A n \in Names : n[1] \in 1..MaxVersion /\ n[2] \in 1..NumTypes /\ n = <<n[1], n[2]>>
  /\ \A v \in 1..MaxVersion, t \in 1..NumTypes : <<v, t>> \in Names
BY BoundsAssumption DEF Names

\* A non-empty set of naturals with a bound has a greatest element.
LEMMA Greatest ==
  ASSUME NEW S \in SUBSET Nat, NEW b \in Nat, \A x \in S : x <= b, S # {}
  PROVE  \E m \in S : \A x \in S : m >= x
<1> DEFINE R == {ss \in Nat \X Nat : ss[1] < ss[2]}
           T == {n \in Nat : \E x \in S : n = b - x}
<1>1. T \subseteq Nat /\ T # {}
  <2>1. PICK x \in S : TRUE
    OBVIOUS
  <2>2. b - x \in Nat
    OBVIOUS
  <2>3. QED
    BY <2>1, <2>2
<1>2. IsWellFoundedOn(R, Nat)
  BY NatLessThanWellFounded DEF OpToRel
<1> HIDE DEF R
<1>3. PICK n \in T : \A y \in T : ~(<<y, n>> \in R)
  BY <1>1, <1>2, WFMin
<1>4. PICK m \in S : n = b - m
  OBVIOUS
<1>5. ASSUME NEW x \in S PROVE m >= x
  <2>1. b - x \in T
    OBVIOUS
  <2>2. ~(<<b - x, n>> \in R)
    BY <2>1, <1>3
  <2>3. ~(b - x < n)
    BY <2>1, <2>2 DEF R
  <2>4. QED
    BY <2>3, <1>4
<1>6. QED
  BY <1>5

\* The greatest version of a set of names bounds them and is one of them, or 0.
LEMMA MaxRecordVersion ==
  ASSUME NEW names \in SUBSET Names
  PROVE  /\ maxRecordVersionOf(names) \in Nat
         /\ maxRecordVersionOf(names) <= MaxVersion
         /\ \A n \in names : n[1] <= maxRecordVersionOf(names)
         /\ maxRecordVersionOf(names) = 0 \/ \E n \in names : n[1] = maxRecordVersionOf(names)
<1> DEFINE S == {0} \cup {recordFileVersion(n) : n \in names}
<1>1. S \in SUBSET Nat /\ S # {} /\ \A x \in S : x <= MaxVersion
  BY NamesAreVersions DEF recordFileVersion
<1>2. PICK m \in S : \A x \in S : m >= x
  <2> HIDE DEF S
  <2>1. QED
    BY <1>1, Greatest, NamesAreVersions
<1>3. Max(S) \in S /\ \A x \in S : Max(S) >= x
  <2> HIDE DEF S
  <2>1. QED
    BY <1>2 DEF Max
<1>4. maxRecordVersionOf(names) = Max(S)
  BY DEF maxRecordVersionOf
<1> DEFINE top == Max(S)
<1> HIDE DEF top
<1>5. \A n \in names : n[1] \in S
  BY DEF recordFileVersion
<1>6. top \in Nat /\ top <= MaxVersion /\ \A n \in names : n[1] <= top
  BY <1>1, <1>3, <1>5, NamesAreVersions DEF top
<1>7. top = 0 \/ \E n \in names : n[1] = top
  BY <1>3 DEF top, recordFileVersion
<1>8. QED
  BY <1>4, <1>6, <1>7 DEF top

\* More names, no smaller version.
LEMMA MaxGrows ==
  ASSUME NEW T \in SUBSET Names, NEW S \in SUBSET T
  PROVE  maxRecordVersionOf(S) <= maxRecordVersionOf(T)
BY MaxRecordVersion, NamesAreVersions

-----------------------------------------------------------------------------
(***************************************************************************)
(* Putting records in order.                                               *)
(***************************************************************************)
LEMMA BeforeOrders ==
  ASSUME NEW a \in Records, NEW b \in Records, NEW c \in Records
  PROVE  /\ ~Before(a, a)
         /\ Before(a, b) => ~Before(b, a)
         /\ Before(a, b) /\ Before(b, c) => Before(a, c)
         /\ a.name # b.name => Before(a, b) \/ Before(b, a)
<1>1. /\ a.version \in Nat /\ b.version \in Nat /\ c.version \in Nat
      /\ a.name \in Names /\ b.name \in Names /\ c.name \in Names
  BY DEF Records
<1>2. /\ a.name[1] \in Nat /\ b.name[1] \in Nat /\ c.name[1] \in Nat
      /\ a.name[2] \in Nat /\ b.name[2] \in Nat /\ c.name[2] \in Nat
      /\ a.name = <<a.name[1], a.name[2]>> /\ b.name = <<b.name[1], b.name[2]>>
  BY <1>1, NamesAreVersions
<1>3. a.name # b.name => a.name[1] # b.name[1] \/ a.name[2] # b.name[2]
  BY <1>2
<1>4. QED
  BY <1>1, <1>2, <1>3 DEF Before

LEMMA NamesFinite == IsFiniteSet(Names)
<1>1. IsFiniteSet(1..MaxVersion) /\ IsFiniteSet(1..NumTypes)
  BY NamesAreVersions, FS_Interval
<1>2. QED
  BY <1>1, FS_Product DEF Names

LEMMA DistinctFinite ==
  ASSUME NEW S \in SUBSET Records, Distinct(S)
  PROVE  IsFiniteSet(S)
<1> DEFINE f == [x \in S |-> x.name]
<1>1. f \in [S -> Names] /\ \A x, y \in S : f[x] = f[y] => x = y
  BY DEF Records, Distinct
<1>2. f \in Injection(S, Names)
  BY <1>1, Fun_IsInj
<1>3. QED
  BY <1>2, NamesFinite, FS_Injection

\* Records with different names, each at its place.
LEMMA InOrderSorts ==
  ASSUME NEW S \in SUBSET Records, Distinct(S)
  PROVE  /\ InOrder(S) \in Seq(Records)
         /\ \A x : (\E i \in DOMAIN InOrder(S) : InOrder(S)[i] = x) <=> x \in S
         /\ Sorted(InOrder(S))
<1> DEFINE n == Cardinality(S)
           Under(x) == {q \in S : Before(q, x)}
           rank == [x \in S |-> Cardinality(Under(x))]
<1>1. IsFiniteSet(S) /\ n \in Nat
  BY DistinctFinite, FS_CardinalityType
<1>2. \A x \in S : IsFiniteSet(Under(x)) /\ Cardinality(Under(x)) \in Nat
  <2> TAKE x \in S
  <2>1. Under(x) \in SUBSET S
    OBVIOUS
  <2>2. QED
    BY <1>1, <2>1, FS_Subset, FS_CardinalityType
<1>3. \A x \in S : Cardinality(Under(x)) <= n - 1
  <2> TAKE x \in S
  <2>1. Under(x) \in SUBSET S /\ x \notin Under(x)
    BY BeforeOrders
  <2>2. Cardinality(Under(x)) <= n /\ Cardinality(Under(x)) # n
    BY <1>1, <2>1, FS_Subset
  <2>3. QED
    BY <1>1, <1>2, <2>2
<1>4. ASSUME NEW x \in S, NEW y \in S, Before(x, y)
      PROVE  rank[x] < rank[y]
  <2>1. Under(x) \in SUBSET Under(y)
    BY <1>4, BeforeOrders
  <2>2. x \in Under(y) /\ x \notin Under(x)
    BY <1>4, BeforeOrders
  <2>3. Cardinality(Under(x)) <= Cardinality(Under(y)) /\ Cardinality(Under(x)) # Cardinality(Under(y))
    BY <1>2, <2>1, <2>2, FS_Subset
  <2>4. QED
    BY <1>2, <2>3
<1>5. rank \in [S -> 0..n - 1]
  <2>1. \A x \in S : Cardinality(Under(x)) \in 0..n - 1
    BY <1>1, <1>2, <1>3
  <2>2. QED
    BY <2>1
<1>6. \A x, y \in S : rank[x] < rank[y] \/ rank[y] < rank[x] \/ x = y
  BY <1>4, BeforeOrders DEF Distinct
<1>7. \A x \in S : rank[x] = Cardinality(Under(x))
  OBVIOUS
<1> HIDE DEF rank, Under, n
<1>7a. \A x \in S : rank[x] \in 0..n - 1 /\ rank[x] \in Int
  BY <1>1, <1>5
<1>8. rank \in Injection(S, 0..n - 1)
  <2>1. \A x, y \in S : rank[x] = rank[y] => x = y
    BY <1>6, <1>7a
  <2>2. QED
    BY <1>5, <2>1, Fun_IsInj
<1>9. rank \in Surjection(S, 0..n - 1)
  <2>1. IsFiniteSet(0..n - 1) /\ Cardinality(0..n - 1) = n
    BY <1>1, FS_Interval
  <2>2. QED
    BY <1>8, <2>1, FS_Injection DEF n
<1>10. \A i \in 0..n - 1 : \E x \in S : rank[x] = i
  BY <1>9 DEF Surjection
<1> DEFINE at(i) == CHOOSE x \in S : Cardinality(Under(x)) = i - 1
<1>11. \A i \in 1..n : at(i) \in S /\ rank[at(i)] = i - 1
  <2> TAKE i \in 1..n
  <2>1. i - 1 \in 0..n - 1
    BY <1>1
  <2>2. PICK x \in S : Cardinality(Under(x)) = i - 1
    BY <1>7, <1>10, <2>1
  <2>3. at(i) \in S /\ Cardinality(Under(at(i))) = i - 1
    BY <2>2
  <2>4. QED
    BY <1>7, <2>3
<1>12. InOrder(S) = [i \in 1..n |-> at(i)]
  BY DEF InOrder, n, Under
<1> HIDE DEF at
<1>13. InOrder(S) \in [1..n -> Records]
  BY <1>11, <1>12
<1>14. InOrder(S) \in Seq(Records) /\ DOMAIN InOrder(S) = 1..n
  BY <1>1, <1>13, SeqDef
<1>15. \A x : (\E i \in 1..n : InOrder(S)[i] = x) <=> x \in S
  <2>1. \A i \in 1..n : InOrder(S)[i] \in S
    BY <1>11, <1>12
  <2>2. ASSUME NEW x \in S PROVE \E i \in 1..n : InOrder(S)[i] = x
    <3>1. rank[x] + 1 \in 1..n
      BY <1>1, <1>7a
    <3>2. at(rank[x] + 1) \in S /\ rank[at(rank[x] + 1)] = rank[x]
      BY <1>1, <1>7a, <1>11, <3>1
    <3>3. at(rank[x] + 1) = x
      BY <1>6, <1>7a, <3>2
    <3>4. QED
      BY <1>12, <3>1, <3>3
  <2>3. QED
    BY <2>1, <2>2
<1>16. \A i, j \in 1..n : i < j => Before(InOrder(S)[i], InOrder(S)[j])
  <2> SUFFICES ASSUME NEW i \in 1..n, NEW j \in 1..n, i < j
               PROVE  Before(at(i), at(j))
    BY <1>12
  <2>1. rank[at(i)] < rank[at(j)] /\ at(i) \in S /\ at(j) \in S
    BY <1>11
  <2>2. at(i) # at(j) /\ ~Before(at(j), at(i))
    BY <1>1, <1>4, <1>7a, <2>1
  <2>3. QED
    BY <2>1, <2>2, BeforeOrders DEF Distinct
<1>17. QED
  BY <1>14, <1>15, <1>16 DEF Sorted

-----------------------------------------------------------------------------
(***************************************************************************)
(* Folds.                                                                  *)
(***************************************************************************)

\* A cursor followed by what belongs after it.
LEMMA Joined ==
  ASSUME NEW s \in Cursors, NEW t \in Cursors, NEW copied,
         Sorted(s), Sorted(t), Honest(copied, s), Honest(copied, t),
         \A i \in DOMAIN s, j \in DOMAIN t : Before(s[i], t[j])
  PROVE  /\ Sorted(s \o t) /\ Honest(copied, s \o t)
         /\ NamesOf(s \o t) = NamesOf(s) \cup NamesOf(t)
<1>1. /\ Len(s) \in Nat /\ DOMAIN s = 1..Len(s) /\ Len(t) \in Nat /\ DOMAIN t = 1..Len(t)
      /\ s \o t \in Cursors /\ Len(s \o t) = Len(s) + Len(t)
  BY LenProperties, ConcatProperties DEF Cursors
<1>2. DOMAIN (s \o t) = 1..Len(s) + Len(t)
  BY <1>1, LenProperties DEF Cursors
<1> DEFINE u == s \o t
           a == Len(s)
           b == Len(t)
<1>3. \A i \in 1..a + b : u[i] = IF i <= a THEN s[i] ELSE t[i - a]
  BY ConcatProperties DEF Cursors
<1> HIDE DEF u, a, b
<1>4. a \in Nat /\ b \in Nat /\ DOMAIN s = 1..a /\ DOMAIN t = 1..b /\ DOMAIN u = 1..a + b
  BY <1>1, <1>2 DEF u, a, b
<1>5. \A i \in 1..a + b : \/ i \in 1..a /\ u[i] = s[i]
                          \/ i - a \in 1..b /\ i > a /\ u[i] = t[i - a]
  BY <1>3, <1>4
<1>6. Sorted(u)
  <2> SUFFICES ASSUME NEW i \in 1..a + b, NEW j \in 1..a + b, i < j
               PROVE  Before(u[i], u[j])
    BY <1>4 DEF Sorted
  <2>1. CASE i \in 1..a /\ j \in 1..a
    BY <2>1, <1>3, <1>4 DEF Sorted
  <2>2. CASE i \in 1..a /\ j \notin 1..a
    BY <2>2, <1>4, <1>5
  <2>3. CASE i \notin 1..a
    <3>1. i - a \in 1..b /\ j - a \in 1..b /\ i - a < j - a /\ u[i] = t[i - a] /\ u[j] = t[j - a]
      BY <2>3, <1>4, <1>5
    <3>2. QED
      BY <3>1, <1>4 DEF Sorted
  <2>4. QED
    BY <2>1, <2>2, <2>3
<1>7. Honest(copied, u)
  BY <1>4, <1>5 DEF Honest
<1>8. NamesOf(u) \subseteq NamesOf(s) \cup NamesOf(t)
  BY <1>4, <1>5 DEF NamesOf
<1>9. NamesOf(s) \cup NamesOf(t) \subseteq NamesOf(u)
  <2>1. \A i \in 1..a : i \in 1..a + b /\ u[i] = s[i]
    BY <1>3, <1>4
  <2>2. \A i \in 1..b : i + a \in 1..a + b /\ u[i + a] = t[i]
    BY <1>3, <1>4
  <2>3. \A i \in DOMAIN s : s[i].name \in NamesOf(u)
    BY <1>4, <2>1 DEF NamesOf
  <2>4. \A i \in DOMAIN t : t[i].name \in NamesOf(u)
    BY <1>4, <2>2 DEF NamesOf
  <2>5. QED
    BY <2>3, <2>4 DEF NamesOf
<1>10. QED
  BY <1>6, <1>7, <1>8, <1>9 DEF u

LEMMA PlanTyped ==
  ASSUME Typed, NEW token \in Tokens, NEW spec
  PROVE  /\ Plan(spec, token) \in Plans
         /\ Plan(spec, token).adds \subseteq token.recs
<1>1. cache.folded \in Cursors /\ token.recs \in NameSets
  BY DEF Typed, CacheRecs, Tokens, NameSets
<1>2. <<>> \in Cursors
  BY EmptySeq DEF Cursors
<1>3. QED
  BY <1>1, <1>2 DEF Plan, Plans, Cursors, NameSets

LEMMA FoldTyped ==
  ASSUME NEW plan \in Plans, NEW records \in Loads, Distinct(records)
  PROVE  Fold(plan, records) \in Cursors
<1> DEFINE R == {r \in records : r.name \in plan.adds}
<1>1. R \in SUBSET Records /\ Distinct(R)
  BY DEF Loads, Distinct
<1>2. InOrder(R) \in Seq(Records)
  BY <1>1, InOrderSorts
<1>3. plan.base \in Seq(Records)
  BY DEF Plans
<1> HIDE DEF R
<1>4. plan.base \o InOrder(R) \in Seq(Records)
  BY <1>2, <1>3, ConcatProperties
<1>5. QED
  BY <1>4 DEF Fold, R, Cursors

LEMMA LoadedTyped ==
  ASSUME Typed, NEW n \in DOMAIN disk
  PROVE  /\ Loaded(n) \in Records /\ Loaded(n).name = n
         /\ disk[n].ok => Loaded(n).version = disk[n].version
         /\ ~disk[n].ok => Loaded(n).version = n[1] /\ Loaded(n).src = "copy"
<1>1. n \in Names /\ disk[n].version \in Nat /\ disk[n].ok \in BOOLEAN /\ n[1] \in Nat
  BY NamesAreVersions DEF Typed, Files, FileRecs
<1>2. QED
  BY <1>1 DEF Loaded, Records, validateRecordArtifact, recordFileVersion

\* Records loaded at once, one for each name.
LEMMA LoadsTyped ==
  ASSUME Typed, NEW names \in SUBSET DOMAIN disk
  PROVE  /\ {Loaded(n) : n \in names} \in Loads
         /\ Distinct({Loaded(n) : n \in names})
         /\ \A x \in {Loaded(n) : n \in names} : x.name \in names
         /\ \A n \in names : \E x \in {Loaded(m) : m \in names} : x.name = n
BY LoadedTyped DEF Loads, Distinct

\* Under names that tell the version, a plan continues the cached cursor.
LEMMA PlanWell ==
  ASSUME Typed, Well(cache.token, cache.folded), NEW token \in Tokens, NEW spec
  PROVE  PlanOk(token, Plan(spec, token))
<1> DEFINE s == cache.folded
<1>1. /\ s \in Seq(Records) /\ cache.token.recs \in SUBSET Names /\ token.recs \in SUBSET Names
  BY DEF Typed, CacheRecs, Cursors, Tokens
<1>2. Len(s) \in Nat /\ DOMAIN s = 1..Len(s) /\ \A i \in 1..Len(s) : s[i] \in Records
  BY <1>1, LenProperties
<1>3. CASE Extensible(spec, token)
  <2>1. /\ Plan(spec, token).base = s /\ Plan(spec, token).adds = token.recs \ cache.token.recs
    BY <1>3 DEF Plan
  <2>2. /\ cache.token.recs \subseteq token.recs /\ cache.token.copies = token.copies
        /\ \A n \in token.recs \ cache.token.recs : n[1] > prevVersion(s)
    BY <1>3 DEF Extensible, recordFileVersion
  <2>3. ASSUME NEW i \in DOMAIN s, NEW n \in token.recs \ cache.token.recs
        PROVE  s[i].name[1] < n[1]
    <3>1. s # <<>> /\ Len(s) \in 1..Len(s) /\ i \in 1..Len(s)
      BY <1>1, <1>2, EmptySeq
    <3>2. s[i].name[1] = s[i].version /\ s[i].version \in Nat /\ s[Len(s)].version \in Nat
      BY <1>2, <3>1 DEF Well, Honest, Plain, Records
    <3>3. s[i].version <= s[Len(s)].version
      <4>1. CASE i = Len(s)
        BY <4>1, <3>2
      <4>2. CASE i < Len(s)
        <5>1. Before(s[i], s[Len(s)])
          BY <4>2, <1>2, <3>1 DEF Well, Sorted
        <5>2. QED
          BY <5>1, <3>2 DEF Before
      <4>3. QED
        BY <4>1, <4>2, <3>1
    <3>4. prevVersion(s) = s[Len(s)].version
      BY <3>1 DEF prevVersion
    <3>5. n[1] \in Nat
      BY <1>1, NamesAreVersions
    <3>6. QED
      BY <2>2, <3>2, <3>3, <3>4, <3>5
  <2>4. NamesOf(s) \cup (token.recs \ cache.token.recs) = token.recs
    BY <2>2 DEF Well
  <2>5. QED
    BY <2>1, <2>2, <2>3, <2>4 DEF PlanOk, Well
<1>4. CASE ~Extensible(spec, token)
  <2>1. Plan(spec, token).base = <<>> /\ Plan(spec, token).adds = token.recs
    BY <1>4 DEF Plan
  <2>2. DOMAIN <<>> = {}
    OBVIOUS
  <2>3. QED
    BY <2>1, <2>2 DEF PlanOk, NamesOf, Sorted, Honest
<1>5. QED
  BY <1>3, <1>4

\* The fold of a plan is the cursor of its token.
LEMMA FoldWell ==
  ASSUME NEW token, NEW plan \in Plans, PlanOk(token, plan),
         NEW records \in Loads, Distinct(records), LoadsOk(token.copies, records),
         \A n \in plan.adds : \E x \in records : x.name = n
  PROVE  Well(token, Fold(plan, records))
<1> DEFINE R == {r \in records : r.name \in plan.adds}
           s == plan.base
           t == InOrder(R)
<1>1. R \in SUBSET Records /\ Distinct(R) /\ LoadsOk(token.copies, R)
  BY DEF Loads, Distinct, LoadsOk
<1>2. \A n \in plan.adds : \E x \in R : x.name = n
  OBVIOUS
<1>3. \A x \in R : x.name \in plan.adds
  OBVIOUS
<1> HIDE DEF R
<1>4. /\ t \in Seq(Records) /\ Sorted(t)
      /\ \A x : (\E i \in DOMAIN t : t[i] = x) <=> x \in R
  BY <1>1, InOrderSorts
<1>5. s \in Seq(Records)
  BY DEF Plans
<1>6. \A i \in DOMAIN s : s[i] \in Records
  BY <1>5, ElementOfSeq, LenProperties
<1> HIDE DEF t
<1>7. \A i \in DOMAIN t : t[i] \in R
  BY <1>4
<1>8. Honest(token.copies, t) /\ NamesOf(t) = plan.adds
  <2>1. Honest(token.copies, t)
    BY <1>1, <1>7 DEF LoadsOk, Honest
  <2>2. NamesOf(t) = plan.adds
    BY <1>2, <1>3, <1>4, <1>7 DEF NamesOf
  <2>3. QED
    BY <2>1, <2>2
<1>9. \A i \in DOMAIN s, j \in DOMAIN t : Before(s[i], t[j])
  <2> TAKE i \in DOMAIN s, j \in DOMAIN t
  <2>1. s[i].name[1] < t[j].name[1]
    BY <1>3, <1>7 DEF PlanOk
  <2>2. s[i].version = s[i].name[1] /\ t[j].version = t[j].name[1]
    BY <1>8 DEF PlanOk, Honest, Plain
  <2>3. QED
    BY <2>1, <2>2 DEF Before
<1>10. Well(token, s \o t)
  BY <1>4, <1>5, <1>8, <1>9, Joined DEF PlanOk, Well, Cursors
<1>11. QED
  BY <1>10 DEF Fold, R, t

\* Remembering the record that was linked.
LEMMA AppendWell ==
  ASSUME NEW recs, NEW copied, NEW t, t.recs = recs, t.copies = copied,
         NEW s \in Cursors, Well(t, s),
         NEW x \in Records, Plain(x), x.name \notin copied, \A n \in recs : n[1] < x.name[1],
         NEW t2, t2.recs = recs \cup {x.name}, t2.copies = copied
  PROVE  Well(t2, Append(s, x)) /\ Append(s, x) \in Cursors
<1>1. /\ Append(s, x) = s \o <<x>> /\ <<x>> \in Cursors /\ Append(s, x) \in Cursors
  BY AppendIsConcat, AppendProperties DEF Cursors
<1>2. DOMAIN <<x>> = {1} /\ <<x>>[1] = x
  OBVIOUS
<1>3. Sorted(<<x>>) /\ Honest(copied, <<x>>) /\ NamesOf(<<x>>) = {x.name}
  BY <1>2 DEF Sorted, Honest, NamesOf
<1>4. \A i \in DOMAIN s, j \in DOMAIN <<x>> : Before(s[i], <<x>>[j])
  <2> TAKE i \in DOMAIN s, j \in DOMAIN <<x>>
  <2>1. s[i].name \in recs /\ Plain(s[i])
    BY DEF Well, NamesOf, Honest
  <2>2. s[i].version < x.version
    BY <2>1 DEF Plain
  <2>3. QED
    BY <1>2, <2>2 DEF Before
<1>5. QED
  BY <1>1, <1>3, <1>4, Joined DEF Well

-----------------------------------------------------------------------------
(***************************************************************************)
(* What the steps write.                                                   *)
(***************************************************************************)
LEMMA Kinds ==
  /\ "idle" \in JobKinds /\ "append" \in JobKinds /\ "repair" \in JobKinds /\ "recover" \in JobKinds
  /\ "none" \in JobSteps /\ "readdir" \in JobSteps /\ "fold" \in JobSteps /\ "load" \in JobSteps
  /\ "link" \in JobSteps /\ "remember" \in JobSteps /\ "meta" \in JobSteps
  /\ "write" \in JobSteps /\ "register" \in JobSteps
  /\ "none" \in CreateSteps /\ "made" \in CreateSteps /\ "seeded" \in CreateSteps /\ "done" \in CreateSteps
  /\ "new" \in OpSteps /\ "ready" \in OpSteps /\ "running" \in OpSteps /\ "acked" \in OpSteps
  /\ "lost" \in OpSteps
  /\ "idle" \in ReadSteps /\ "names" \in ReadSteps /\ "records" \in ReadSteps
  /\ "fold" \in ReadSteps /\ "load" \in ReadSteps
  /\ "missing" \in MetaStates /\ "ok" \in MetaStates /\ "corrupt" \in MetaStates
  /\ Null \in MaybeSpec /\ Specs \subseteq MaybeSpec /\ Null \notin Ops
  /\ Names \subseteq MaybeName /\ <<0, 0>> \in MaybeName
  /\ {} \in Loads /\ <<>> \in Cursors
BY EmptySeq, OpsAssumption
   DEF JobKinds, JobSteps, CreateSteps, OpSteps, ReadSteps, MetaStates, MaybeSpec, MaybeName,
       Loads, Cursors

LEMMA EmptyTyped ==
  /\ EmptyToken \in Tokens /\ EmptyToken.recs = {} /\ EmptyToken.copies = {}
  /\ NoPlan \in Plans /\ NoPlan.adds = {}
BY EmptySeq DEF EmptyToken, Tokens, NoPlan, Plans

LEMMA IdleTyped ==
  /\ Idle \in JobRecs /\ Idle.kind = "idle"
  /\ NotReading \in ReadRecs /\ NotReading.step = "idle" /\ NotReading.records = {}
  /\ NoCache \in CacheRecs /\ NoCache.token = EmptyToken /\ NoCache.folded = <<>>
<1>1. Idle \in JobRecs /\ Idle.kind = "idle"
  BY Kinds, EmptyTyped DEF Idle, JobRecs
<1>2. NotReading \in ReadRecs /\ NotReading.step = "idle" /\ NotReading.records = {}
  BY Kinds, EmptyTyped DEF NotReading, ReadRecs
<1>3. NoCache \in CacheRecs /\ NoCache.token = EmptyToken /\ NoCache.folded = <<>>
  BY Kinds, EmptyTyped DEF NoCache, CacheRecs
<1>4. QED
  BY <1>1, <1>2, <1>3

LEMMA JobFields ==
  ASSUME Typed
  PROVE  /\ job \in JobRecs /\ job.kind \in JobKinds /\ job.step \in JobSteps
         /\ job.op \in Ops \cup {Null} /\ job.name \in MaybeName /\ job.version \in Nat
         /\ job.spec \in MaybeSpec /\ job.token \in Tokens /\ job.plan \in Plans
         /\ job.folded \in Cursors /\ job.source \in Sources \cup {Null}
BY DEF Typed, JobRecs

\* A publish is taken from the queue.
LEMMA AppendBegins ==
  ASSUME Typed,
         NEW o \in Ops,
         NEW v \in Nat,
         NEW s \in MaybeSpec,
         job' = [Idle EXCEPT !.kind = "append", !.step = "readdir", !.op = o, !.version = v, !.spec = s]
  PROVE  /\ job' \in JobRecs
         /\ job'.kind = "append" /\ job'.step = "readdir"
         /\ job'.op = o /\ job'.name = Idle.name
         /\ job'.version = v /\ job'.spec = s
         /\ job'.token = Idle.token /\ job'.plan = Idle.plan
         /\ job'.folded = Idle.folded /\ job'.source = Idle.source
<1> DEFINE after ==
      [kind |-> "append", step |-> "readdir", op |-> o, name |-> Idle.name, version |-> v,
       spec |-> s, token |-> Idle.token, plan |-> Idle.plan, folded |-> Idle.folded,
       source |-> Idle.source]
<1>1. Idle \in JobRecs
  BY IdleTyped
<1>2. after \in JobRecs
  BY <1>1, Kinds DEF JobRecs
<1>3. job' = after
  BY <1>1 DEF JobRecs
<1>4. QED
  BY <1>2, <1>3

\* The version and the name are chosen.
LEMMA AppendNamed ==
  ASSUME Typed,
         NEW v \in Nat,
         NEW n \in Names,
         NEW t \in Tokens,
         job' = [job EXCEPT !.step = "fold", !.version = v, !.name = n, !.token = t]
  PROVE  /\ job' \in JobRecs
         /\ job'.kind = job.kind /\ job'.step = "fold"
         /\ job'.op = job.op /\ job'.name = n
         /\ job'.version = v /\ job'.spec = job.spec
         /\ job'.token = t /\ job'.plan = job.plan
         /\ job'.folded = job.folded /\ job'.source = job.source
<1> DEFINE after ==
      [kind |-> job.kind, step |-> "fold", op |-> job.op, name |-> n, version |-> v,
       spec |-> job.spec, token |-> t, plan |-> job.plan, folded |-> job.folded,
       source |-> job.source]
<1>1. job \in JobRecs
  BY DEF Typed
<1>2. after \in JobRecs
  BY <1>1, Kinds DEF JobRecs
<1>3. job' = after
  BY <1>1 DEF JobRecs
<1>4. QED
  BY <1>2, <1>3

\* The log is folded.
LEMMA AppendFolded ==
  ASSUME Typed,
         NEW f \in Cursors,
         job' = [job EXCEPT !.step = "link", !.folded = f]
  PROVE  /\ job' \in JobRecs
         /\ job'.kind = job.kind /\ job'.step = "link"
         /\ job'.op = job.op /\ job'.name = job.name
         /\ job'.version = job.version /\ job'.spec = job.spec
         /\ job'.token = job.token /\ job'.plan = job.plan
         /\ job'.folded = f /\ job'.source = job.source
<1> DEFINE after ==
      [kind |-> job.kind, step |-> "link", op |-> job.op, name |-> job.name, version |-> job.version,
       spec |-> job.spec, token |-> job.token, plan |-> job.plan, folded |-> f,
       source |-> job.source]
<1>1. job \in JobRecs
  BY DEF Typed
<1>2. after \in JobRecs
  BY <1>1, Kinds DEF JobRecs
<1>3. job' = after
  BY <1>1 DEF JobRecs
<1>4. QED
  BY <1>2, <1>3

\* Records are left to read.
LEMMA AppendPlanned ==
  ASSUME Typed,
         NEW p \in Plans,
         job' = [job EXCEPT !.step = "load", !.plan = p]
  PROVE  /\ job' \in JobRecs
         /\ job'.kind = job.kind /\ job'.step = "load"
         /\ job'.op = job.op /\ job'.name = job.name
         /\ job'.version = job.version /\ job'.spec = job.spec
         /\ job'.token = job.token /\ job'.plan = p
         /\ job'.folded = job.folded /\ job'.source = job.source
<1> DEFINE after ==
      [kind |-> job.kind, step |-> "load", op |-> job.op, name |-> job.name, version |-> job.version,
       spec |-> job.spec, token |-> job.token, plan |-> p, folded |-> job.folded,
       source |-> job.source]
<1>1. job \in JobRecs
  BY DEF Typed
<1>2. after \in JobRecs
  BY <1>1, Kinds DEF JobRecs
<1>3. job' = after
  BY <1>1 DEF JobRecs
<1>4. QED
  BY <1>2, <1>3

\* The append goes on.
LEMMA AppendMoves ==
  ASSUME Typed,
         NEW st \in JobSteps,
         job' = [job EXCEPT !.step = st]
  PROVE  /\ job' \in JobRecs
         /\ job'.kind = job.kind /\ job'.step = st
         /\ job'.op = job.op /\ job'.name = job.name
         /\ job'.version = job.version /\ job'.spec = job.spec
         /\ job'.token = job.token /\ job'.plan = job.plan
         /\ job'.folded = job.folded /\ job'.source = job.source
<1> DEFINE after ==
      [kind |-> job.kind, step |-> st, op |-> job.op, name |-> job.name, version |-> job.version,
       spec |-> job.spec, token |-> job.token, plan |-> job.plan, folded |-> job.folded,
       source |-> job.source]
<1>1. job \in JobRecs
  BY DEF Typed
<1>2. after \in JobRecs
  BY <1>1, Kinds DEF JobRecs
<1>3. job' = after
  BY <1>1 DEF JobRecs
<1>4. QED
  BY <1>2, <1>3

\* A repair has scanned the names.
LEMMA RepairBegins ==
  ASSUME Typed,
         NEW s \in MaybeSpec,
         NEW v \in Nat,
         job' = [Idle EXCEPT !.kind = "repair", !.step = "write", !.spec = s, !.version = v]
  PROVE  /\ job' \in JobRecs
         /\ job'.kind = "repair" /\ job'.step = "write"
         /\ job'.op = Idle.op /\ job'.name = Idle.name
         /\ job'.version = v /\ job'.spec = s
         /\ job'.token = Idle.token /\ job'.plan = Idle.plan
         /\ job'.folded = Idle.folded /\ job'.source = Idle.source
<1> DEFINE after ==
      [kind |-> "repair", step |-> "write", op |-> Idle.op, name |-> Idle.name, version |-> v,
       spec |-> s, token |-> Idle.token, plan |-> Idle.plan, folded |-> Idle.folded,
       source |-> Idle.source]
<1>1. Idle \in JobRecs
  BY IdleTyped
<1>2. after \in JobRecs
  BY <1>1, Kinds DEF JobRecs
<1>3. job' = after
  BY <1>1 DEF JobRecs
<1>4. QED
  BY <1>2, <1>3

\* A copy has landed.
LEMMA RecoveryBegins ==
  ASSUME Typed,
         NEW n \in Names,
         NEW b \in Sources,
         job' = [Idle EXCEPT !.kind = "recover", !.step = "register", !.name = n, !.source = b]
  PROVE  /\ job' \in JobRecs
         /\ job'.kind = "recover" /\ job'.step = "register"
         /\ job'.op = Idle.op /\ job'.name = n
         /\ job'.version = Idle.version /\ job'.spec = Idle.spec
         /\ job'.token = Idle.token /\ job'.plan = Idle.plan
         /\ job'.folded = Idle.folded /\ job'.source = b
<1> DEFINE after ==
      [kind |-> "recover", step |-> "register", op |-> Idle.op, name |-> n, version |-> Idle.version,
       spec |-> Idle.spec, token |-> Idle.token, plan |-> Idle.plan, folded |-> Idle.folded,
       source |-> b]
<1>1. Idle \in JobRecs
  BY IdleTyped
<1>2. after \in JobRecs
  BY <1>1, Kinds DEF JobRecs
<1>3. job' = after
  BY <1>1 DEF JobRecs
<1>4. QED
  BY <1>2, <1>3

\* A name is given a value, for the first time or again.
LEMMA PutDoes ==
  ASSUME NEW f, NEW T, Files(f, T), NEW n \in Names, NEW y \in T, NEW g, g = Put(f, n, y)
  PROVE  /\ Files(g, T) /\ DOMAIN g = DOMAIN f \cup {n}
         /\ g[n] = y /\ \A m \in DOMAIN f : m # n => g[m] = f[m]
BY DEF Files, Put

\* One request moves.
LEMMA OpMoves ==
  ASSUME Typed, NEW o \in Ops, NEW st \in OpSteps, NEW e \in Nat,
         \/ ops' = [ops EXCEPT ![o] = [step |-> st, expected |-> e]]
         \/ ops' = [ops EXCEPT ![o].step = st] /\ e = ops[o].expected
  PROVE  /\ ops' \in [Ops -> OpRecs]
         /\ ops'[o].step = st /\ ops'[o].expected = e
         /\ \A p \in Ops : p # o => ops'[p] = ops[p]
<1>1. ops \in [Ops -> OpRecs] /\ ops[o] \in OpRecs
  BY DEF Typed
<1>2. [step |-> st, expected |-> e] \in OpRecs
  BY DEF OpRecs
<1>3. ASSUME ops' = [ops EXCEPT ![o].step = st], e = ops[o].expected
      PROVE  ops' = [ops EXCEPT ![o] = [step |-> st, expected |-> e]]
  <2>1. [ops[o] EXCEPT !.step = st] = [step |-> st, expected |-> e]
    BY <1>1, <1>3 DEF OpRecs
  <2>2. QED
    BY <2>1, <1>3
<1>4. QED
  BY <1>1, <1>2, <1>3

LEMMA TokenTyped ==
  ASSUME Typed
  PROVE  /\ foldTokenOf \in Tokens /\ foldTokenOf.recs = DOMAIN disk
         /\ foldTokenOf.copies = DOMAIN copies
BY DEF Typed, Files, foldTokenOf, Tokens, taskDirNames

-----------------------------------------------------------------------------
(***************************************************************************)
(* Steps that leave the files alone.                                       *)
(***************************************************************************)
FilesStay == UNCHANGED <<disk, copies, manifest>>

LEMMA StayMoves ==
  ASSUME StoreInv, FilesStay
  PROVE  /\ Recovered' /\ UniqueVersions' /\ StoreWritten' = StoreWritten
         /\ reads' = reads => Reading'
         /\ cache' = cache => Cached'
         /\ meta' = meta => MetaNotAhead'
         /\ ops' = ops => AckedIsOnDisk'
         /\ job' = job => Repairing'
         /\ job' = job /\ ops' = ops => Appending' /\ Written'
<1> USE DEF StoreInv, FilesStay
<1>1. Recovered' /\ UniqueVersions' /\ StoreWritten' = StoreWritten
  BY DEF Recovered, UniqueVersions, StoreWritten
<1>2. reads' = reads => Reading'
  BY DEF Reading, Seen
<1>3. cache' = cache => Cached'
  BY DEF Cached, Seen
<1>4. meta' = meta => MetaNotAhead'
  BY DEF MetaNotAhead, readMeta, validateMetaArtifact, taskDirNames, maxRecordVersionOf
<1>5. ops' = ops => AckedIsOnDisk'
  BY DEF AckedIsOnDisk
<1>6. job' = job => Repairing'
  BY <1>1 DEF Repairing, maxRecordVersionOf
<1>7. job' = job /\ ops' = ops => Appending' /\ Written'
  BY <1>1 DEF Appending, Written, Seen
<1>8. QED
  BY <1>1, <1>2, <1>3, <1>4, <1>5, <1>6, <1>7

\* Names only come.
LEMMA NamesGrow ==
  ASSUME MetaNotAhead, meta' = meta, DOMAIN disk \subseteq DOMAIN disk', Typed, Typed'
  PROVE  MetaNotAhead'
<1>1. DOMAIN disk' \in SUBSET Names /\ DOMAIN disk \in SUBSET DOMAIN disk' /\ DOMAIN disk \in SUBSET Names
  BY DEF Typed, Files
<1>2. /\ maxRecordVersionOf(DOMAIN disk) <= maxRecordVersionOf(DOMAIN disk')
      /\ maxRecordVersionOf(DOMAIN disk) \in Nat /\ maxRecordVersionOf(DOMAIN disk') \in Nat
      /\ meta.version \in Nat
  BY <1>1, MaxGrows, MaxRecordVersion DEF Typed, MetaRecs
<1>3. QED
  BY <1>2 DEF MetaNotAhead, readMeta, validateMetaArtifact, taskDirNames

\* createTask.
LEMMA Creation ==
  ASSUME StoreInv, CreateStep
  PROVE  StoreInv'
<1> USE DEF StoreInv
<1>1. FilesStay /\ UNCHANGED <<up, job, ops, reads, faults>>
  BY DEF CreateStep, CreateMkdir, CreateSeed, CreateWriteMeta, FilesStay
<1>2. /\ creating \in CreateRecs /\ creating.spec \in MaybeSpec
      /\ \A st \in CreateSteps : [creating EXCEPT !.step = st] \in CreateRecs
  BY DEF Typed, CreateRecs
<1>3. CASE CreateMkdir
  <2>1. PICK sp \in Specs : creating' = [step |-> "made", spec |-> sp]
    BY <1>3 DEF CreateMkdir
  <2>2. creating' \in CreateRecs
    BY <2>1, Kinds DEF CreateRecs
  <2>3. dir' \in BOOLEAN /\ UNCHANGED <<meta, cache>>
    BY <1>3 DEF CreateMkdir
  <2>4. Typed'
    BY <1>1, <2>2, <2>3 DEF Typed, Files, FilesStay
  <2>5. QED
    BY <1>1, <2>3, <2>4, StayMoves
<1>4. CASE CreateSeed
  <2>1. cache' \in CacheRecs /\ cache'.token = EmptyToken
    BY <1>2, <1>4, EmptyTyped, Kinds DEF CreateSeed, CacheRecs
  <2>2. creating' \in CreateRecs /\ UNCHANGED <<dir, meta>>
    BY <1>2, <1>4, Kinds DEF CreateSeed
  <2>3. Typed'
    BY <1>1, <2>1, <2>2 DEF Typed, Files, FilesStay
  <2>4. Cached'
    BY <2>1, EmptyTyped DEF Cached, Seen
  <2>5. QED
    BY <1>1, <2>2, <2>3, <2>4, StayMoves
<1>5. CASE CreateWriteMeta
  <2>1. meta' \in MetaRecs /\ meta'.version = 0
    BY <1>2, <1>5, Kinds DEF CreateWriteMeta, writeMeta, MetaRecs
  <2>2. creating' \in CreateRecs /\ UNCHANGED <<dir, cache>>
    BY <1>2, <1>5, Kinds DEF CreateWriteMeta
  <2>3. Typed'
    BY <1>1, <2>1, <2>2 DEF Typed, Files, FilesStay
  <2>4. MetaNotAhead'
    <3>1. DOMAIN disk' \in SUBSET Names
      BY <2>3 DEF Typed, Files
    <3>2. maxRecordVersionOf(DOMAIN disk') >= 0
      BY <3>1, MaxRecordVersion
    <3>3. QED
      BY <2>1, <3>2 DEF MetaNotAhead, taskDirNames
  <2>5. QED
    BY <1>1, <2>2, <2>3, <2>4, StayMoves
<1>6. QED
  BY <1>3, <1>4, <1>5 DEF CreateStep

\* A request that has written nothing may be refused, observed or begun.
LEMMA RequestMoves ==
  ASSUME StoreInv, FilesStay, Typed', UNCHANGED <<meta, cache, reads, job>>,
         NEW o \in Ops, ops[o].step \in {"new", "ready"}, ops'[o].step \in {"new", "ready"},
         \A p \in Ops : p # o => ops'[p] = ops[p]
  PROVE  StoreInv'
<1> USE DEF StoreInv
<1>1. Appending'
  BY DEF Appending, Seen, FilesStay, StoreWritten
<1>2. Written'
  <2>1. \A n \in StoreWritten : disk[n].by \in Ops /\ disk[n].by # o
    BY DEF Written, Typed, Files, FileRecs, StoreWritten
  <2>2. QED
    BY <2>1, StayMoves DEF Written, FilesStay
<1>3. AckedIsOnDisk'
  BY DEF AckedIsOnDisk, FilesStay
<1>4. QED
  BY <1>1, <1>2, <1>3, StayMoves

LEMMA Observing ==
  ASSUME StoreInv, NEW o \in Ops, ObserveVersion(o)
  PROVE  StoreInv'
<1>1. FilesStay /\ UNCHANGED <<dir, meta, cache, up, creating, job, reads, faults>>
      /\ ops[o].step = "new"
  BY DEF ObserveVersion, FilesStay
<1>2. maxRecordVersionOf(taskDirNames) \in Nat
  BY MaxRecordVersion DEF StoreInv, Typed, Files, taskDirNames
<1>3. PICK e \in Nat : ops' = [ops EXCEPT ![o] = [step |-> "ready", expected |-> e]]
  BY <1>2 DEF ObserveVersion
<1>4. /\ ops' \in [Ops -> OpRecs] /\ ops'[o].step = "ready"
      /\ \A p \in Ops : p # o => ops'[p] = ops[p]
  BY <1>3, Kinds, OpMoves DEF StoreInv
<1>5. Typed'
  BY <1>1, <1>4 DEF StoreInv, Typed, Files, FilesStay
<1>6. QED
  BY <1>1, <1>4, <1>5, RequestMoves

LEMMA Taking ==
  ASSUME StoreInv, NEW o \in Ops, AppendReadMeta(o)
  PROVE  StoreInv'
<1>1. /\ FilesStay /\ UNCHANGED <<dir, meta, cache, up, creating, reads, faults>>
      /\ ops[o].step \in {"new", "ready"} /\ job = Idle
  BY DEF AppendReadMeta, FilesStay, Sendable
<1>2. CASE Refused(o) /\ UNCHANGED job
  <2>1. /\ ops' \in [Ops -> OpRecs] /\ ops'[o].step = "new"
        /\ \A p \in Ops : p # o => ops'[p] = ops[p]
    BY <1>2, Kinds, OpMoves DEF StoreInv, Refused
  <2>2. Typed'
    BY <1>1, <1>2, <2>1 DEF StoreInv, Typed, Files, FilesStay
  <2>3. QED
    BY <1>1, <1>2, <2>1, <2>2, RequestMoves
<1>3. CASE /\ job' = [Idle EXCEPT !.kind = "append", !.step = "readdir", !.op = o,
                                  !.version = meta.version, !.spec = meta.spec]
           /\ ops' = [ops EXCEPT ![o].step = "running"]
  <2>1. meta.version \in Nat /\ meta.spec \in MaybeSpec
    BY DEF StoreInv, Typed, MetaRecs
  <2>2. /\ job' \in JobRecs /\ job'.kind = "append" /\ job'.step = "readdir" /\ job'.op = o
    BY <1>3, <2>1, AppendBegins DEF StoreInv
  <2>3. /\ ops' \in [Ops -> OpRecs] /\ ops'[o].step = "running"
        /\ \A p \in Ops : p # o => ops'[p] = ops[p]
    <3>1. ops[o].expected \in Nat
      BY DEF StoreInv, Typed, OpRecs
    <3>2. QED
      BY <1>3, <3>1, Kinds, OpMoves DEF StoreInv
  <2>4. Typed'
    BY <1>1, <2>2, <2>3 DEF StoreInv, Typed, Files, FilesStay
  <2>5. Appending' /\ Repairing'
    BY <2>2, <2>3 DEF Appending, Repairing, Planned, Unlanded, Landed
  <2>6. Written'
    <3>1. \A n \in StoreWritten : disk[n].by \in Ops /\ disk[n].by # o
      BY <1>1 DEF StoreInv, Written, Typed, Files, FileRecs, StoreWritten
    <3>2. \A n \in StoreWritten : ops[disk[n].by].step # "running"
      BY <1>1, IdleTyped DEF StoreInv, Written
    <3>3. QED
      BY <1>1, <2>3, <3>1, <3>2, StayMoves DEF StoreInv, Written, FilesStay
  <2>7. AckedIsOnDisk'
    BY <1>1, <2>3 DEF StoreInv, AckedIsOnDisk, FilesStay
  <2>8. QED
    BY <1>1, <2>4, <2>5, <2>6, <2>7, StayMoves DEF StoreInv
<1>4. QED
  BY <1>2, <1>3 DEF AppendReadMeta

-----------------------------------------------------------------------------
(***************************************************************************)
(* append.                                                                 *)
(***************************************************************************)
LEMMA JobGoesOn ==
  ASSUME StoreInv, FilesStay, UNCHANGED ops, job.kind = "append", job'.kind = "append",
         job'.op = job.op, job.step \in Landed => job'.step \in Landed
  PROVE  Written' /\ AckedIsOnDisk' /\ Repairing'
<1>1. Written'
  BY StayMoves DEF StoreInv, Written, FilesStay
<1>2. AckedIsOnDisk' /\ Repairing'
  BY StayMoves DEF StoreInv, Repairing
<1>3. QED
  BY <1>1, <1>2

\* The next version is above the counter and above every name.
LEMMA NextIsAbove ==
  ASSUME Typed
  PROVE  /\ NextVersion \in Nat /\ NextVersion >= 1 /\ NextVersion > job.version
         /\ \A n \in DOMAIN disk : n[1] < NextVersion
<1>1. /\ DOMAIN disk \in SUBSET Names /\ job.version \in Nat
      /\ maxRecordVersionOf(DOMAIN disk) \in Nat
      /\ \A n \in DOMAIN disk : n[1] <= maxRecordVersionOf(DOMAIN disk) /\ n[1] \in Nat
  BY JobFields, MaxRecordVersion, NamesAreVersions DEF Typed, Files
<1> DEFINE a == job.version
           b == maxRecordVersionOf(DOMAIN disk)
           v == NextVersion
<1>2. v = Max({a, b}) + 1
  BY DEF NextVersion, taskDirNames
<1>3. \A n \in DOMAIN disk : n[1] <= b /\ n[1] \in Nat
  BY <1>1
<1>4. a \in Nat /\ b \in Nat
  BY <1>1
<1> HIDE DEF a, b, v
<1>5. \E x \in {a, b} : \A y \in {a, b} : x >= y
  BY <1>4
<1>6. Max({a, b}) \in {a, b} /\ Max({a, b}) >= a /\ Max({a, b}) >= b
  BY <1>5 DEF Max
<1>7. v \in Nat /\ v >= 1 /\ v > a /\ v > b
  BY <1>2, <1>4, <1>6
<1>8. \A n \in DOMAIN disk : n[1] < v
  BY <1>3, <1>4, <1>7
<1>9. QED
  BY <1>7, <1>8 DEF a, v

LEMMA Listing ==
  ASSUME StoreInv, AppendReaddir
  PROVE  StoreInv'
<1> USE DEF StoreInv
<1>1. /\ FilesStay /\ UNCHANGED <<dir, meta, cache, up, creating, ops, reads, faults>>
      /\ job.kind = "append" /\ job.step = "readdir" /\ NextVersion <= MaxVersion
  BY DEF AppendReaddir, FilesStay
<1>2. PICK t \in 1..NumTypes :
        job' = [job EXCEPT !.step = "fold", !.version = NextVersion,
                           !.name = recordFileName(NextVersion, t), !.token = foldTokenOf]
  BY DEF AppendReaddir
<1>4. PICK v : v = NextVersion
  OBVIOUS
<1>5. v \in 1..MaxVersion /\ \A n \in DOMAIN disk : n[1] < v
  BY <1>1, <1>4, NextIsAbove, NamesAreVersions DEF Typed
<1>6. PICK n \in Names : n = recordFileName(v, t) /\ n[1] = v
  BY <1>5, NamesAreVersions DEF recordFileName
<1>7. foldTokenOf \in Tokens /\ foldTokenOf.recs = DOMAIN disk /\ foldTokenOf.copies = DOMAIN copies
  BY TokenTyped
<1>8. job' = [job EXCEPT !.step = "fold", !.version = v, !.name = n, !.token = foldTokenOf]
  BY <1>2, <1>4, <1>6
<1>9. /\ job' \in JobRecs /\ job'.kind = job.kind /\ job'.step = "fold" /\ job'.op = job.op
      /\ job'.name = n /\ job'.version = v /\ job'.token = foldTokenOf
  <2>1. v \in Nat
    BY <1>5
  <2>2. QED
    BY <1>7, <1>8, <2>1, AppendNamed
<1>10. Typed'
  BY <1>1, <1>9 DEF Typed, Files, FilesStay
<1>11. job'.token.recs \subseteq DOMAIN disk' /\ job'.token.copies \subseteq DOMAIN copies'
  BY <1>1, <1>7, <1>9 DEF FilesStay
<1>12. Appending'
  <2>1. job'.op \in Ops /\ ops'[job'.op].step = "running"
    BY <1>1, <1>9 DEF Appending
  <2>2. /\ \A m \in job'.token.recs : m[1] < v
        /\ \A m \in job'.token.copies : m[1] < v
        /\ \A m \in StoreWritten : m[1] < v
    BY <1>5, <1>7, <1>9 DEF Recovered, StoreWritten
  <2>3. QED
    BY <1>1, <1>6, <1>9, <1>11, <2>1, <2>2, StayMoves DEF Appending, Planned, Unlanded, Landed, Seen
<1>13. QED
  BY <1>1, <1>9, <1>10, <1>12, JobGoesOn, StayMoves DEF Landed

\* The append goes on with the name it has chosen.
LEMMA AppendGoesOn ==
  ASSUME StoreInv, Typed', FilesStay, UNCHANGED <<ops, meta, reads>>, Cached',
         job.kind = "append", job.step \in Planned,
         job'.kind = job.kind /\ job'.op = job.op,
         job'.name = job.name /\ job'.version = job.version,
         job'.token = job.token,
         \/ job'.step = "link" /\ job.step \in Unlanded
         \/ job'.step = "load" /\ job.step \in Unlanded /\ job'.plan.adds \subseteq DOMAIN disk
         \/ job'.step = "meta" /\ job.step = "remember"
  PROVE  StoreInv'
<1> USE DEF StoreInv
<1>1. Appending'
  <2>1. /\ job'.op \in Ops /\ ops'[job'.op].step = "running"
        /\ job'.name \in Names /\ job'.version = job'.name[1]
        /\ job'.token.recs \subseteq DOMAIN disk' /\ job'.token.copies \subseteq DOMAIN copies'
        /\ \A n \in job'.token.recs : n[1] < job'.version
        /\ \A n \in job'.token.copies : n[1] < job'.version
    BY DEF Appending, Seen, FilesStay
  <2>2. job'.step \in Unlanded => \A n \in StoreWritten' : n[1] < job'.version
    BY StayMoves DEF Appending, Unlanded
  <2>3. job'.step \in Landed => job'.name \in DOMAIN disk' /\ disk'[job'.name].by = job'.op
    BY DEF Appending, Landed, FilesStay
  <2>4. job'.step \in Planned
    BY DEF Planned
  <2>5. job'.step = "load" => job'.plan.adds \subseteq DOMAIN disk'
    BY DEF FilesStay
  <2>6. QED
    BY <2>1, <2>2, <2>3, <2>4, <2>5 DEF Appending, Seen
<1>2. job.step \in Landed => job'.step \in Landed
  BY DEF Landed, Unlanded
<1>3. QED
  BY <1>1, <1>2, JobGoesOn, StayMoves

LEMMA Folding ==
  ASSUME StoreInv, AppendFold
  PROVE  StoreInv'
<1> USE DEF StoreInv
<1>1. /\ FilesStay /\ UNCHANGED <<dir, meta, cache, up, creating, ops, reads, faults>>
      /\ job.kind = "append" /\ job.step = "fold"
  BY DEF AppendFold, FilesStay
<1>2. Cached' /\ job.token \in Tokens /\ job.token.recs \subseteq DOMAIN disk /\ cache.folded \in Cursors
  BY <1>1, JobFields, StayMoves DEF Appending, Planned, Seen, Typed, CacheRecs
<1>3. CASE job' = [job EXCEPT !.step = "link", !.folded = cache.folded]
  <2>1. /\ job' \in JobRecs /\ job'.kind = job.kind /\ job'.step = "link" /\ job'.op = job.op
        /\ job'.name = job.name /\ job'.version = job.version /\ job'.token = job.token
    BY <1>2, <1>3, AppendFolded
  <2>2. Typed'
    BY <1>1, <2>1 DEF Typed, Files, FilesStay
  <2>3. QED
    BY <1>1, <1>2, <2>1, <2>2, AppendGoesOn DEF Planned, Unlanded
<1>4. CASE job' = [job EXCEPT !.step = "load", !.plan = Plan(job.spec, job.token)]
  <2>1. Plan(job.spec, job.token) \in Plans /\ Plan(job.spec, job.token).adds \subseteq job.token.recs
    BY <1>2, PlanTyped
  <2>2. /\ job' \in JobRecs /\ job'.kind = job.kind /\ job'.step = "load" /\ job'.op = job.op
        /\ job'.name = job.name /\ job'.version = job.version /\ job'.token = job.token
        /\ job'.plan = Plan(job.spec, job.token)
    BY <1>4, <2>1, AppendPlanned
  <2>3. Typed'
    BY <1>1, <2>2 DEF Typed, Files, FilesStay
  <2>4. QED
    BY <1>1, <1>2, <2>1, <2>2, <2>3, AppendGoesOn DEF Planned, Unlanded
<1>5. QED
  BY <1>3, <1>4 DEF AppendFold

\* A publish that is refused before its record is on disk.
LEMMA Refusing ==
  ASSUME StoreInv, FilesStay, UNCHANGED <<dir, meta, cache, up, creating, reads, faults>>,
         job.kind = "append", job.step \in Unlanded, job' = Idle, Refused(job.op)
  PROVE  StoreInv'
<1> USE DEF StoreInv
<1> DEFINE o == job.op
<1>1. o \in Ops /\ ops[o].step = "running"
  BY DEF Appending
<1>2. /\ ops' \in [Ops -> OpRecs] /\ ops'[o].step = "new"
      /\ \A p \in Ops : p # o => ops'[p] = ops[p]
  BY <1>1, Kinds, OpMoves DEF Refused
<1>3. Typed' /\ job'.kind = "idle"
  BY <1>2, IdleTyped DEF Typed, Files, FilesStay
<1>4. Written'
  <2>1. \A n \in StoreWritten : disk[n].by \in Ops /\ ops[disk[n].by].step # "running"
    BY DEF Written, Typed, Files, FileRecs, StoreWritten, Unlanded, Landed
  <2>2. QED
    BY <1>1, <1>2, <2>1, StayMoves DEF Written, FilesStay
<1>5. AckedIsOnDisk'
  BY <1>2 DEF AckedIsOnDisk, FilesStay
<1>6. QED
  BY <1>3, <1>4, <1>5, StayMoves DEF Appending, Repairing

LEMMA Loading ==
  ASSUME StoreInv, AppendLoad
  PROVE  StoreInv'
<1> USE DEF StoreInv
<1>1. /\ FilesStay /\ UNCHANGED <<dir, meta, up, creating, reads, faults>>
      /\ job.kind = "append" /\ job.step = "load"
  BY DEF AppendLoad, FilesStay
<1>2. CASE job' = Idle /\ Refused(job.op) /\ UNCHANGED cache
  BY <1>1, <1>2, Refusing DEF Unlanded
<1>3. ASSUME NEW folded, folded = Fold(job.plan, {Loaded(n) : n \in job.plan.adds}),
             job' = [job EXCEPT !.step = "link", !.folded = folded],
             cache' = [token |-> job.token, spec |-> job.spec, folded |-> folded], UNCHANGED ops
      PROVE  StoreInv'
  <2>1. job.plan.adds \subseteq DOMAIN disk /\ Seen(job.token) /\ job.step \in Planned
    BY <1>1 DEF Appending, Planned
  <2>2. folded \in Cursors
    BY <1>3, <2>1, JobFields, LoadsTyped, FoldTyped
  <2>3. /\ job' \in JobRecs /\ job'.kind = job.kind /\ job'.step = "link" /\ job'.op = job.op
        /\ job'.name = job.name /\ job'.version = job.version /\ job'.token = job.token
    BY <1>3, <2>2, AppendFolded
  <2>4. cache' \in CacheRecs /\ cache'.token = job.token
    BY <1>3, <2>2, JobFields DEF CacheRecs
  <2>5. Typed'
    BY <1>1, <1>3, <2>3, <2>4 DEF Typed, Files, FilesStay
  <2>6. Cached'
    BY <1>1, <2>1, <2>4 DEF Cached, Seen, FilesStay
  <2>7. QED
    BY <1>1, <1>3, <2>1, <2>3, <2>5, <2>6, AppendGoesOn DEF Unlanded
<1>4. QED
  BY <1>2, <1>3 DEF AppendLoad

\* The record is linked, unless its name is taken.
LEMMA Linking ==
  ASSUME StoreInv, AppendLink
  PROVE  StoreInv'
<1> USE DEF StoreInv
<1>1. /\ UNCHANGED <<dir, meta, copies, manifest, cache, up, creating, reads, faults>>
      /\ job.kind = "append" /\ job.step = "link"
  BY DEF AppendLink
<1>2. CASE job.name \in DOMAIN disk
  <2>1. job' = Idle /\ Refused(job.op) /\ FilesStay
    BY <1>2 DEF AppendLink, FilesStay
  <2>2. QED
    BY <1>1, <2>1, Refusing DEF Unlanded
<1>3. CASE job.name \notin DOMAIN disk
  <2> DEFINE file == [by |-> job.op, version |-> job.version, ok |-> TRUE]
  <2>1. disk' = Put(disk, job.name, file) /\ job' = [job EXCEPT !.step = "remember"] /\ UNCHANGED ops
    BY <1>3 DEF AppendLink
  <2>2. /\ job.op \in Ops /\ ops[job.op].step = "running" /\ job.name \in Names
        /\ job.version = job.name[1] /\ Seen(job.token) /\ \A n \in job.token.recs : n[1] < job.version
        /\ \A n \in job.token.copies : n[1] < job.version
        /\ \A n \in StoreWritten : n[1] < job.version
    BY <1>1 DEF Appending, Planned, Unlanded
  <2>3. file \in FileRecs /\ file.by = job.op /\ file.ok = TRUE
    BY <2>2, JobFields DEF FileRecs
  <2> HIDE DEF file
  <2>4. /\ Files(disk', FileRecs) /\ DOMAIN disk' = DOMAIN disk \cup {job.name}
        /\ disk'[job.name] = file /\ \A m \in DOMAIN disk : disk'[m] = disk[m]
    <3>1. Files(disk, FileRecs) /\ file \in FileRecs /\ job.name \in Names
      BY <2>2, <2>3 DEF Typed
    <3>2. /\ Files(disk', FileRecs) /\ DOMAIN disk' = DOMAIN disk \cup {job.name}
          /\ disk'[job.name] = file /\ \A m \in DOMAIN disk : m # job.name => disk'[m] = disk[m]
      BY <2>1, <3>1 DEF Files, Put
    <3>3. QED
      BY <1>3, <3>2
  <2>5. /\ job' \in JobRecs /\ job'.kind = "append" /\ job'.step = "remember" /\ job'.op = job.op
        /\ job'.name = job.name /\ job'.version = job.version /\ job'.token = job.token
    BY <1>1, <2>1, Kinds, AppendMoves
  <2>6. Typed'
    BY <1>1, <2>1, <2>4, <2>5 DEF Typed, Files
  <2>7. StoreWritten' = StoreWritten \cup {job.name}
    BY <2>2, <2>3, <2>4, Kinds DEF StoreWritten
  <2>8. Recovered'
    BY <1>1, <1>3, <2>4 DEF Recovered
  <2>9. Appending'
    <3>1. /\ job'.token.recs \subseteq DOMAIN disk' /\ job'.token.copies \subseteq DOMAIN copies'
      BY <1>1, <2>2, <2>4, <2>5 DEF Seen
    <3>2. QED
      BY <2>1, <2>2, <2>3, <2>4, <2>5, <3>1 DEF Appending, Planned, Unlanded, Landed, Seen
  <2>10. Repairing'
    BY <2>5 DEF Repairing
  <2>11. Written'
    <3> SUFFICES ASSUME NEW n \in StoreWritten'
                 PROVE  /\ ops'[disk'[n].by].step \in {"running", "acked", "lost"}
                        /\ ops'[disk'[n].by].step = "running" =>
                             job'.kind = "append" /\ job'.op = disk'[n].by /\ job'.step \in Landed
      BY DEF Written
    <3>1. CASE n = job.name
      BY <3>1, <2>1, <2>2, <2>3, <2>4, <2>5 DEF Landed
    <3>2. CASE n \in StoreWritten
      <4>1. disk'[n] = disk[n] /\ n \in DOMAIN disk
        BY <3>2, <2>4 DEF StoreWritten
      <4>2. QED
        BY <3>2, <4>1, <2>1, <2>5, <1>1 DEF Written, Landed
    <3>3. QED
      BY <2>7, <3>1, <3>2
  <2>12. Reading' /\ Cached'
    <3>1. Cached'
      BY <1>1, <2>4 DEF Cached, Seen
    <3>2. Reading'
      BY <1>1, <2>4 DEF Reading, Seen
    <3>3. QED
      BY <3>1, <3>2
  <2>13. UniqueVersions'
    <3>1. \A n \in StoreWritten : n[1] \in Nat /\ n[1] < job.name[1]
      BY <2>2, NamesAreVersions DEF Typed, Files, StoreWritten
    <3>2. job.name[1] \in Nat
      BY <2>2, NamesAreVersions
    <3>3. QED
      BY <2>7, <3>1, <3>2 DEF UniqueVersions, recordFileVersion
  <2>14. AckedIsOnDisk'
    BY <2>1, <2>4 DEF AckedIsOnDisk
  <2>15. MetaNotAhead'
    BY <1>1, <2>4, <2>6, NamesGrow
  <2>16. QED
    BY <2>6, <2>8, <2>9, <2>10, <2>11, <2>12, <2>13, <2>14, <2>15
<1>4. QED
  BY <1>2, <1>3

LEMMA Remembering ==
  ASSUME StoreInv, AppendRemember
  PROVE  StoreInv'
<1> USE DEF StoreInv
<1>1. /\ FilesStay /\ UNCHANGED <<dir, meta, up, creating, ops, reads, faults>>
      /\ job.kind = "append" /\ job.step = "remember" /\ job' = [job EXCEPT !.step = "meta"]
  BY DEF AppendRemember, FilesStay
<1>2. /\ job.name \in Names /\ Seen(job.token) /\ job.step \in Planned /\ job.name \in DOMAIN disk
  BY <1>1 DEF Appending, Planned, Landed
<1> DEFINE x == [name |-> job.name, src |-> "original", version |-> job.version]
           t == [job.token EXCEPT !.recs = @ \cup {job.name}]
<1>3. /\ job.token \in Tokens /\ job.spec \in MaybeSpec /\ job.folded \in Cursors /\ job.version \in Nat
  BY JobFields
<1>4. t \in Tokens /\ t.recs = job.token.recs \cup {job.name} /\ t.copies = job.token.copies
  BY <1>2, <1>3 DEF Tokens
<1>5. Append(job.folded, x) \in Cursors
  <2>1. x \in Records
    BY <1>2, <1>3 DEF Records
  <2>2. QED
    BY <1>3, <2>1, AppendProperties DEF Cursors
<1>6. cache' = [token |-> t, spec |-> job.spec, folded |-> Append(job.folded, x)]
  BY DEF AppendRemember
<1> HIDE DEF t, x
<1>7. cache' \in CacheRecs /\ cache'.token = t
  BY <1>3, <1>4, <1>5, <1>6 DEF CacheRecs
<1>8. /\ job' \in JobRecs /\ job'.kind = job.kind /\ job'.step = "meta" /\ job'.op = job.op
      /\ job'.name = job.name /\ job'.version = job.version /\ job'.token = job.token
  BY <1>1, Kinds, AppendMoves
<1>9. Typed'
  BY <1>1, <1>7, <1>8 DEF Typed, Files, FilesStay
<1>10. Cached'
  BY <1>1, <1>2, <1>4, <1>7 DEF Cached, Seen, FilesStay
<1>11. QED
  BY <1>1, <1>2, <1>8, <1>9, <1>10, AppendGoesOn

\* The publish is answered.
LEMMA Answering ==
  ASSUME StoreInv, FilesStay, UNCHANGED <<cache, reads>>, Typed', MetaNotAhead',
         job.kind = "append", job.step \in Landed, job'.kind = "idle",
         ops'[job.op].step = "acked", \A p \in Ops : p # job.op => ops'[p] = ops[p]
  PROVE  StoreInv'
<1> USE DEF StoreInv
<1> DEFINE o == job.op
<1>1. o \in Ops /\ job.name \in DOMAIN disk /\ disk[job.name].by = o
  BY DEF Appending
<1>2. Written'
  <2>1. \A n \in StoreWritten : disk[n].by \in Ops /\ (disk[n].by # o => ops[disk[n].by].step # "running")
    BY DEF Written, Typed, Files, FileRecs, StoreWritten
  <2>2. QED
    BY <2>1, StayMoves DEF Written, FilesStay
<1>3. AckedIsOnDisk'
  BY <1>1 DEF AckedIsOnDisk, FilesStay
<1>4. QED
  BY <1>2, <1>3, StayMoves DEF Appending, Repairing

LEMMA Acknowledging ==
  ASSUME StoreInv, AppendWriteMeta \/ AppendMetaFails
  PROVE  StoreInv'
<1> USE DEF StoreInv
<1>1. /\ FilesStay /\ UNCHANGED <<dir, cache, up, creating, reads>>
      /\ job.kind = "append" /\ job.step = "meta" /\ Acknowledge(job.op)
  BY DEF AppendWriteMeta, AppendMetaFails, FilesStay
<1>2. job.op \in Ops /\ job.name \in DOMAIN disk /\ job.name \in Names /\ job.version = job.name[1]
  BY <1>1 DEF Appending, Planned, Landed
<1>3. /\ ops' \in [Ops -> OpRecs] /\ ops'[job.op].step = "acked"
      /\ \A p \in Ops : p # job.op => ops'[p] = ops[p]
  <2>1. ops[job.op].expected \in Nat
    BY <1>2 DEF Typed, OpRecs
  <2>2. QED
    BY <1>1, <1>2, <2>1, Kinds, OpMoves DEF Acknowledge
<1>4. job' \in JobRecs /\ job'.kind = "idle"
  BY <1>1, IdleTyped DEF Acknowledge
<1>5. meta' \in MetaRecs /\ faults' \in FaultRecs
  <2>1. CASE AppendWriteMeta
    BY <2>1, JobFields, Kinds DEF AppendWriteMeta, writeMeta, MetaRecs, Typed
  <2>2. CASE AppendMetaFails
    BY <2>2 DEF AppendMetaFails, Typed, FaultRecs
  <2>3. QED
    BY <2>1, <2>2
<1>6. Typed'
  BY <1>1, <1>3, <1>4, <1>5 DEF Typed, Files, FilesStay
<1>7. MetaNotAhead'
  <2>1. CASE AppendWriteMeta
    <3>1. meta'.version = job.version
      BY <2>1 DEF AppendWriteMeta, writeMeta
    <3>2. job.name[1] <= maxRecordVersionOf(DOMAIN disk')
      BY <1>1, <1>2, MaxRecordVersion DEF Typed, Files, FilesStay
    <3>3. QED
      BY <1>2, <3>1, <3>2 DEF MetaNotAhead, taskDirNames
  <2>2. CASE AppendMetaFails
    BY <1>1, <2>2, StayMoves DEF AppendMetaFails
  <2>3. QED
    BY <2>1, <2>2
<1>8. QED
  BY <1>1, <1>3, <1>4, <1>6, <1>7, Answering DEF Landed

-----------------------------------------------------------------------------
(***************************************************************************)
(* Repair and recovery.                                                    *)
(***************************************************************************)

\* No append begins or ends.
LEMMA NoAppend ==
  ASSUME StoreInv, job.kind # "append", job'.kind # "append", UNCHANGED <<disk, ops>>
  PROVE  Appending' /\ Written' /\ AckedIsOnDisk' /\ UniqueVersions'
<1> USE DEF StoreInv
<1>1. StoreWritten' = StoreWritten
  BY DEF StoreWritten
<1>2. Appending' /\ AckedIsOnDisk' /\ UniqueVersions'
  BY <1>1 DEF Appending, AckedIsOnDisk, UniqueVersions
<1>3. Written'
  BY <1>1 DEF Written
<1>4. QED
  BY <1>2, <1>3

LEMMA Repair ==
  ASSUME StoreInv, RepairScan \/ RepairWrite
  PROVE  StoreInv'
<1> USE DEF StoreInv
<1>1. /\ FilesStay /\ UNCHANGED <<dir, up, creating, ops, reads, faults>>
  BY DEF RepairScan, RepairWrite, FilesStay
<1>2. DOMAIN disk \in SUBSET Names
  BY DEF Typed, Files
<1>3. CASE RepairScan
  <2> DEFINE v == maxRecordVersionOf(DOMAIN disk)
  <2>1. v \in Nat /\ \A n \in DOMAIN disk : n[1] <= v
    BY <1>2, MaxRecordVersion
  <2>2. PICK sp \in Specs :
          job' = [Idle EXCEPT !.kind = "repair", !.step = "write", !.spec = sp, !.version = v]
    BY <1>3 DEF RepairScan, taskDirNames
  <2> HIDE DEF v
  <2>3. sp \in MaybeSpec
    BY Kinds
  <2>4. job' \in JobRecs /\ job'.kind = "repair" /\ job'.version = v
    BY <2>1, <2>2, <2>3, RepairBegins
  <2>5. UNCHANGED meta /\ cache' = NoCache /\ job.kind = "idle"
    BY <1>3, IdleTyped DEF RepairScan
  <2>6. Typed'
    BY <1>1, <2>4, <2>5, IdleTyped DEF Typed, Files, FilesStay
  <2>7. Cached'
    BY <2>5, EmptyTyped, IdleTyped DEF Cached, Seen
  <2>8. Repairing'
    <3>1. v <= maxRecordVersionOf(DOMAIN disk')
      BY <1>1, <2>1 DEF FilesStay, v
    <3>2. \A n \in StoreWritten' : n[1] <= v
      BY <1>1, <2>1, StayMoves DEF StoreWritten
    <3>3. QED
      BY <2>4, <3>1, <3>2 DEF Repairing
  <2>9. QED
    BY <1>1, <2>4, <2>5, <2>6, <2>7, <2>8, NoAppend, StayMoves DEF FilesStay
<1>4. CASE RepairWrite
  <2>1. /\ job.kind = "repair" /\ job' = Idle /\ UNCHANGED cache
        /\ meta' = [state |-> "ok", version |-> job.version, spec |-> job.spec]
    BY <1>4 DEF RepairWrite, writeMeta
  <2>2. meta' \in MetaRecs /\ meta'.version = job.version
    BY <2>1, JobFields, Kinds DEF MetaRecs
  <2>3. Typed' /\ job'.kind = "idle"
    BY <1>1, <2>1, <2>2, IdleTyped DEF Typed, Files, FilesStay
  <2>4. MetaNotAhead'
    BY <1>1, <2>1, <2>2 DEF MetaNotAhead, Repairing, taskDirNames, FilesStay
  <2>5. Repairing'
    BY <2>3 DEF Repairing
  <2>6. QED
    BY <1>1, <2>1, <2>3, <2>4, <2>5, NoAppend, StayMoves DEF FilesStay
<1>5. QED
  BY <1>3, <1>4

LEMMA Recovery ==
  ASSUME StoreInv, NEW n \in Names, NEW b \in Sources, RecoverCopy(n, b)
  PROVE  StoreInv'
<1> USE DEF StoreInv
<1>1. /\ UNCHANGED <<dir, meta, disk, manifest, cache, up, creating, ops, reads, faults>>
      /\ n \in DOMAIN disk /\ ~disk[n].ok /\ job.kind = "idle"
      /\ n \in DOMAIN copies => copies[n] = b
  BY IdleTyped DEF RecoverCopy, MayLandCopy, taskDirNames, validateRecordArtifact
<1>2. /\ Files(copies', Sources) /\ DOMAIN copies' = DOMAIN copies \cup {n}
      /\ copies'[n] = b /\ \A m \in DOMAIN copies : copies'[m] = copies[m]
  <2>1. CASE n \in DOMAIN copies
    BY <1>1, <2>1 DEF RecoverCopy, Typed, Files
  <2>2. CASE n \notin DOMAIN copies
    <3>1. copies' = Put(copies, n, b) /\ Files(copies, Sources)
      BY <2>2 DEF RecoverCopy, Typed
    <3>2. /\ Files(copies', Sources) /\ DOMAIN copies' = DOMAIN copies \cup {n}
          /\ copies'[n] = b /\ \A m \in DOMAIN copies : m # n => copies'[m] = copies[m]
      BY <3>1 DEF Files, Put
    <3>3. QED
      BY <2>2, <3>2
  <2>3. QED
    BY <2>1, <2>2
<1>3. job' = [Idle EXCEPT !.kind = "recover", !.step = "register", !.name = n, !.source = b]
  BY DEF RecoverCopy
<1>4. job' \in JobRecs /\ job'.kind = "recover" /\ job'.name = n /\ job'.source = b
  BY <1>3, RecoveryBegins
<1>5. Typed'
  BY <1>1, <1>2, <1>4 DEF Typed, Files
<1>6. Recovered'
  BY <1>1, <1>2 DEF Recovered
<1>7. Repairing'
  BY <1>2, <1>4 DEF Repairing
<1>8. Reading' /\ Cached' /\ MetaNotAhead'
  <2>1. Reading'
    BY <1>1, <1>2 DEF Reading, Seen
  <2>2. Cached'
    BY <1>1, <1>2 DEF Cached, Seen
  <2>3. MetaNotAhead'
    BY <1>1, <1>5, NamesGrow
  <2>4. QED
    BY <2>1, <2>2, <2>3
<1>9. QED
  BY <1>1, <1>4, <1>5, <1>6, <1>7, <1>8, NoAppend

LEMMA Registering ==
  ASSUME StoreInv, RecoverRegister
  PROVE  StoreInv'
<1> USE DEF StoreInv
<1> DEFINE n == job.name
           b == job.source
<1>1. /\ UNCHANGED <<dir, meta, disk, copies, cache, up, creating, ops, reads, faults>>
      /\ job.kind = "recover" /\ job' = Idle /\ manifest' = Put(manifest, n, b)
  BY DEF RecoverRegister, appendRecoveryLine
<1>2. n \in DOMAIN copies /\ copies[n] = b /\ n \in Names /\ b \in Sources
  BY <1>1 DEF Repairing, Typed, Files
<1>3. /\ Files(manifest', Sources) /\ DOMAIN manifest' = DOMAIN manifest \cup {n}
      /\ manifest'[n] = b /\ \A m \in DOMAIN manifest : m # n => manifest'[m] = manifest[m]
  <2>1. Files(manifest, Sources)
    BY DEF Typed
  <2> HIDE DEF n, b
  <2>2. QED
    BY <1>1, <1>2, <2>1, PutDoes
<1>4. Typed' /\ job'.kind = "idle"
  BY <1>1, <1>3, IdleTyped DEF Typed, Files
<1>5. Recovered'
  BY <1>1, <1>2, <1>3 DEF Recovered
<1>6. Reading' /\ Cached' /\ MetaNotAhead' /\ Repairing'
  <2>1. Reading'
    BY <1>1 DEF Reading, Seen
  <2>2. Cached'
    BY <1>1 DEF Cached, Seen
  <2>3. MetaNotAhead'
    BY <1>1, <1>4, NamesGrow
  <2>4. Repairing'
    BY <1>4 DEF Repairing
  <2>5. QED
    BY <2>1, <2>2, <2>3, <2>4
<1>7. QED
  BY <1>1, <1>4, <1>5, <1>6, NoAppend

-----------------------------------------------------------------------------
(***************************************************************************)
(* Readers.                                                                *)
(***************************************************************************)

\* One reader moves.
LEMMA ReaderMoves ==
  ASSUME StoreInv, FilesStay, NEW r \in Readers, NEW q \in ReadRecs,
         reads' = [reads EXCEPT ![r] = q],
         q.step \in {"idle", "names", "records"} => q.records = {},
         q.step \in {"records", "fold", "load"} =>
             q.token.recs \subseteq DOMAIN disk /\ q.token.copies \subseteq DOMAIN copies,
         Distinct(q.records), q.step = "load" => q.plan.adds \subseteq q.token.recs
  PROVE  reads' \in [Readers -> ReadRecs] /\ Reading'
<1> USE DEF StoreInv
<1>1. /\ reads' \in [Readers -> ReadRecs] /\ reads'[r] = q
      /\ \A p \in Readers : p # r => reads'[p] = reads[p]
  BY DEF Typed
<1>2. Reading'
  <2> SUFFICES ASSUME NEW p \in Readers
               PROVE  /\ reads'[p].step \in {"idle", "names", "records"} => reads'[p].records = {}
                      /\ reads'[p].step \in {"records", "fold", "load"} =>
                            /\ reads'[p].token.recs \subseteq DOMAIN disk'
                            /\ reads'[p].token.copies \subseteq DOMAIN copies'
                      /\ Distinct(reads'[p].records)
                      /\ reads'[p].step = "load" => reads'[p].plan.adds \subseteq reads'[p].token.recs
    BY DEF Reading, Seen
  <2>1. CASE p = r
    BY <1>1, <2>1 DEF FilesStay
  <2>2. CASE p # r
    BY <1>1, <2>2 DEF FilesStay, Reading, Seen
  <2>3. QED
    BY <2>1, <2>2
<1>3. QED
  BY <1>1, <1>2

\* A reader touches nothing but its state and the cache.
LEMMA ReadersOnly ==
  ASSUME StoreInv, FilesStay, UNCHANGED <<dir, meta, up, creating, job, ops, faults>>,
         reads' \in [Readers -> ReadRecs], Reading', cache' \in CacheRecs,
         cache'.token.recs \subseteq DOMAIN disk, cache'.token.copies \subseteq DOMAIN copies
  PROVE  StoreInv'
<1> USE DEF StoreInv
<1>1. Typed'
  BY DEF Typed, Files, FilesStay
<1>2. Cached'
  BY DEF Cached, Seen, FilesStay
<1>3. QED
  BY <1>1, <1>2, StayMoves

LEMMA CacheFields ==
  ASSUME StoreInv
  PROVE  /\ cache \in CacheRecs /\ cache.token.recs \subseteq DOMAIN disk
         /\ cache.token.copies \subseteq DOMAIN copies
BY DEF StoreInv, Typed, Cached, Seen

\* What a reader holds.
LEMMA ReadFields ==
  ASSUME StoreInv, NEW r \in Readers
  PROVE  /\ reads[r] \in ReadRecs /\ reads[r].step \in ReadSteps /\ reads[r].spec \in MaybeSpec
         /\ reads[r].token \in Tokens /\ reads[r].plan \in Plans /\ reads[r].records \in Loads
         /\ reads[r] = [step |-> reads[r].step, spec |-> reads[r].spec, token |-> reads[r].token,
                        plan |-> reads[r].plan, records |-> reads[r].records]
         /\ reads[r].step \in {"idle", "names", "records"} => reads[r].records = {}
         /\ reads[r].step \in {"records", "fold", "load"} =>
                /\ reads[r].token.recs \subseteq DOMAIN disk
                /\ reads[r].token.copies \subseteq DOMAIN copies
         /\ Distinct(reads[r].records)
         /\ reads[r].step = "load" => reads[r].plan.adds \subseteq reads[r].token.recs
<1>1. reads[r] \in ReadRecs
  BY DEF StoreInv, Typed
<1>2. /\ reads[r].step \in ReadSteps /\ reads[r].spec \in MaybeSpec
      /\ reads[r].token \in Tokens /\ reads[r].plan \in Plans /\ reads[r].records \in Loads
      /\ reads[r] = [step |-> reads[r].step, spec |-> reads[r].spec, token |-> reads[r].token,
                     plan |-> reads[r].plan, records |-> reads[r].records]
  BY <1>1 DEF ReadRecs
<1>3. QED
  BY <1>1, <1>2 DEF StoreInv, Reading, Seen

\* What a fold puts into the cache.
LEMMA CacheFilled ==
  ASSUME StoreInv, NEW r \in Readers, reads[r].step \in {"fold", "load"}, NEW folded \in Cursors,
         cache' = [token |-> reads[r].token, spec |-> reads[r].spec, folded |-> folded]
  PROVE  /\ cache' \in CacheRecs /\ cache'.token.recs \subseteq DOMAIN disk
         /\ cache'.token.copies \subseteq DOMAIN copies
BY ReadFields DEF CacheRecs

\* A reader that is done holds nothing.
LEMMA ReaderEnds ==
  ASSUME StoreInv, FilesStay, NEW r \in Readers, reads' = [reads EXCEPT ![r] = NotReading]
  PROVE  reads' \in [Readers -> ReadRecs] /\ Reading'
<1>1. Distinct({})
  BY DEF Distinct
<1>2. QED
  BY <1>1, IdleTyped, ReaderMoves

LEMMA ReadingMeta ==
  ASSUME StoreInv, NEW r \in Readers, ReadMeta(r)
  PROVE  StoreInv'
<1>1. /\ FilesStay /\ UNCHANGED <<dir, meta, cache, up, creating, job, ops, faults>>
      /\ reads[r].step = "idle"
      /\ reads' = [reads EXCEPT ![r].step = "names", ![r].spec = meta.spec]
  BY DEF ReadMeta, FilesStay
<1> DEFINE q == [step |-> "names", spec |-> meta.spec, token |-> reads[r].token,
                 plan |-> reads[r].plan, records |-> reads[r].records]
<1>2. meta.spec \in MaybeSpec
  BY DEF StoreInv, Typed, MetaRecs
<1>3. q \in ReadRecs
  BY <1>2, ReadFields, Kinds DEF ReadRecs
<1>4. reads' = [reads EXCEPT ![r] = q]
  <2>2. [reads[r] EXCEPT !.step = "names", !.spec = meta.spec] = q
    <3>1. PICK x \in ReadRecs : x = reads[r]
      BY ReadFields
    <3>2. PICK y : y = [x EXCEPT !.step = "names", !.spec = meta.spec]
      OBVIOUS
    <3>3. y = q
      BY <3>1, <3>2 DEF ReadRecs
    <3>4. QED
      BY <3>1, <3>2, <3>3
  <2>3. reads' = [reads EXCEPT ![r] = [reads[r] EXCEPT !.step = "names", !.spec = meta.spec]]
    BY <1>1 DEF StoreInv, Typed
  <2>4. QED
    BY <2>2, <2>3
<1>5. q.records = {} /\ q.step = "names" /\ Distinct(q.records)
  BY <1>1, ReadFields
<1> HIDE DEF q
<1>6. reads' \in [Readers -> ReadRecs] /\ Reading'
  BY <1>1, <1>3, <1>4, <1>5, ReaderMoves
<1>7. QED
  BY <1>1, <1>6, CacheFields, ReadersOnly

LEMMA ReadingNames ==
  ASSUME StoreInv, NEW r \in Readers, ReadNames(r)
  PROVE  StoreInv'
<1>1. /\ FilesStay /\ UNCHANGED <<dir, meta, cache, up, creating, job, ops, faults>>
      /\ reads[r].step = "names"
  BY DEF ReadNames, FilesStay
<1>2. PICK step \in {"records", "fold"} :
         reads' = [reads EXCEPT ![r].step = step, ![r].token = foldTokenOf]
  BY DEF ReadNames
<1> DEFINE q == [step |-> step, spec |-> reads[r].spec, token |-> foldTokenOf,
                 plan |-> reads[r].plan, records |-> reads[r].records]
<1>3. /\ foldTokenOf \in Tokens /\ foldTokenOf.recs = DOMAIN disk
      /\ foldTokenOf.copies = DOMAIN copies /\ step \in ReadSteps
  BY TokenTyped, Kinds DEF StoreInv
<1>4. q \in ReadRecs
  BY <1>3, ReadFields DEF ReadRecs
<1>5. reads' = [reads EXCEPT ![r] = q]
  <2>2. [reads[r] EXCEPT !.step = step, !.token = foldTokenOf] = q
    <3>1. PICK x \in ReadRecs : x = reads[r]
      BY ReadFields
    <3>2. PICK y : y = [x EXCEPT !.step = step, !.token = foldTokenOf]
      OBVIOUS
    <3>3. y = q
      BY <3>1, <3>2 DEF ReadRecs
    <3>4. QED
      BY <3>1, <3>2, <3>3
  <2>3. reads' = [reads EXCEPT ![r] = [reads[r] EXCEPT !.step = step, !.token = foldTokenOf]]
    BY <1>2 DEF StoreInv, Typed
  <2>4. QED
    BY <2>2, <2>3
<1>6. /\ q.records = {} /\ q.step # "load" /\ Distinct(q.records)
      /\ q.token.recs \subseteq DOMAIN disk /\ q.token.copies \subseteq DOMAIN copies
  BY <1>1, <1>3, ReadFields
<1> HIDE DEF q
<1>7. reads' \in [Readers -> ReadRecs] /\ Reading'
  BY <1>1, <1>4, <1>5, <1>6, ReaderMoves
<1>8. QED
  BY <1>1, <1>7, CacheFields, ReadersOnly

LEMMA ReadingRecords ==
  ASSUME StoreInv, NEW r \in Readers, NEW since, ReadRecords(r, since)
  PROVE  StoreInv'
<1> DEFINE wanted == {n \in reads[r].token.recs : recordFileVersion(n) >= since}
           held == {Loaded(n) : n \in wanted}
           q == [step |-> "fold", spec |-> reads[r].spec, token |-> reads[r].token,
                 plan |-> reads[r].plan, records |-> held]
<1>1. /\ FilesStay /\ UNCHANGED <<dir, meta, cache, up, creating, job, ops, faults>>
      /\ reads[r].step = "records"
      /\ reads' = [reads EXCEPT ![r] = IF \A n \in wanted : Readable(n)
                THEN [@ EXCEPT !.step = "fold", !.records = held] ELSE NotReading]
  BY DEF ReadRecords, FilesStay
<1>2. wanted \in SUBSET DOMAIN disk
  BY <1>1, ReadFields
<1> HIDE DEF wanted
<1>3. held \in Loads /\ Distinct(held)
  BY <1>2, LoadsTyped DEF StoreInv
<1> HIDE DEF held
<1>4. [reads[r] EXCEPT !.step = "fold", !.records = held] = q
  <2>1. PICK x \in ReadRecs : x = reads[r]
    BY ReadFields
  <2>2. PICK y : y = [x EXCEPT !.step = "fold", !.records = held]
    OBVIOUS
  <2>3. y = q
    BY <2>1, <2>2 DEF ReadRecs
  <2>4. QED
    BY <2>1, <2>2, <2>3
<1>5. q \in ReadRecs
  BY <1>3, ReadFields, Kinds DEF ReadRecs
<1>6. /\ q.step = "fold" /\ q.records = held
      /\ q.token.recs \subseteq DOMAIN disk /\ q.token.copies \subseteq DOMAIN copies
  BY <1>1, ReadFields
<1>7. reads' = [reads EXCEPT ![r] = q] \/ reads' = [reads EXCEPT ![r] = NotReading]
  BY <1>1, <1>4
<1> HIDE DEF q
<1>8. reads' \in [Readers -> ReadRecs] /\ Reading'
  <2>1. CASE reads' = [reads EXCEPT ![r] = q]
    BY <2>1, <1>1, <1>3, <1>5, <1>6, ReaderMoves
  <2>2. CASE reads' = [reads EXCEPT ![r] = NotReading]
    BY <2>2, <1>1, ReaderEnds
  <2>3. QED
    BY <1>7, <2>1, <2>2
<1>9. QED
  BY <1>1, <1>8, CacheFields, ReadersOnly

\* The fold of a reader: a hit, from the records in hand, or with more to read.
LEMMA ReadingFold ==
  ASSUME StoreInv, NEW r \in Readers, ReadFold(r)
  PROVE  StoreInv'
<1> DEFINE plan == Plan(reads[r].spec, reads[r].token)
<1>1. /\ FilesStay /\ UNCHANGED <<dir, meta, up, creating, job, ops, faults>>
      /\ reads[r].step = "fold"
  BY DEF ReadFold, FilesStay
<1>2. plan \in Plans /\ plan.adds \subseteq reads[r].token.recs
  BY ReadFields, PlanTyped DEF StoreInv
<1>3. \/ reads' = [reads EXCEPT ![r] = NotReading] /\ UNCHANGED cache
      \/ /\ reads' = [reads EXCEPT ![r] = NotReading]
         /\ cache' = [token |-> reads[r].token, spec |-> reads[r].spec,
                      folded |-> Fold(plan, reads[r].records)]
      \/ reads' = [reads EXCEPT ![r].step = "load", ![r].plan = plan] /\ UNCHANGED cache
  BY DEF ReadFold
<1> HIDE DEF plan
<1>4. CASE reads' = [reads EXCEPT ![r] = NotReading] /\ UNCHANGED cache
  BY <1>1, <1>4, CacheFields, ReaderEnds, ReadersOnly
<1>5. CASE /\ reads' = [reads EXCEPT ![r] = NotReading]
           /\ cache' = [token |-> reads[r].token, spec |-> reads[r].spec,
                        folded |-> Fold(plan, reads[r].records)]
  <2>1. Fold(plan, reads[r].records) \in Cursors
    BY <1>2, ReadFields, FoldTyped
  <2>2. /\ cache' \in CacheRecs /\ cache'.token.recs \subseteq DOMAIN disk
        /\ cache'.token.copies \subseteq DOMAIN copies
    BY <1>1, <1>5, <2>1, CacheFilled
  <2>3. reads' \in [Readers -> ReadRecs] /\ Reading'
    BY <1>1, <1>5, ReaderEnds
  <2>4. QED
    BY <1>1, <2>2, <2>3, ReadersOnly
<1>6. CASE reads' = [reads EXCEPT ![r].step = "load", ![r].plan = plan] /\ UNCHANGED cache
  <2> DEFINE q == [step |-> "load", spec |-> reads[r].spec, token |-> reads[r].token,
                   plan |-> plan, records |-> reads[r].records]
  <2>1. q \in ReadRecs
    BY <1>2, ReadFields, Kinds DEF ReadRecs
  <2>2. [reads[r] EXCEPT !.step = "load", !.plan = plan] = q
    <3>1. PICK x \in ReadRecs : x = reads[r]
      BY ReadFields
    <3>2. PICK y : y = [x EXCEPT !.step = "load", !.plan = plan]
      OBVIOUS
    <3>3. y = q
      BY <3>1, <3>2 DEF ReadRecs
    <3>4. QED
      BY <3>1, <3>2, <3>3
  <2>3. reads' = [reads EXCEPT ![r] = q]
    <3>1. reads' = [reads EXCEPT ![r] = [reads[r] EXCEPT !.step = "load", !.plan = plan]]
      BY <1>6 DEF StoreInv, Typed
    <3>2. QED
      BY <2>2, <3>1
  <2>4. /\ q.step = "load" /\ q.plan.adds \subseteq q.token.recs /\ Distinct(q.records)
        /\ q.token.recs \subseteq DOMAIN disk /\ q.token.copies \subseteq DOMAIN copies
    BY <1>1, <1>2, ReadFields
  <2> HIDE DEF q
  <2>5. reads' \in [Readers -> ReadRecs] /\ Reading'
    BY <1>1, <2>1, <2>3, <2>4, ReaderMoves
  <2>6. QED
    BY <1>1, <1>6, <2>5, CacheFields, ReadersOnly
<1>7. QED
  BY <1>3, <1>4, <1>5, <1>6

\* The records in hand and those read beyond them.
LEMMA BothLoads ==
  ASSUME Typed, NEW plan \in Plans, plan.adds \subseteq DOMAIN disk,
         NEW records \in Loads, Distinct(records)
  PROVE  LET more == records \cup {Loaded(n) : n \in Unread(plan, records)}
         IN  more \in Loads /\ Distinct(more)
<1> DEFINE names == Unread(plan, records)
           read == {Loaded(n) : n \in names}
<1>1. names \in SUBSET DOMAIN disk /\ \A x \in records : x.name \notin names
  BY DEF Unread
<1> HIDE DEF names
<1>2. read \in Loads /\ Distinct(read) /\ \A x \in read : x.name \in names
  BY <1>1, LoadsTyped
<1> HIDE DEF read
<1>3. records \cup read \in Loads /\ Distinct(records \cup read)
  BY <1>1, <1>2 DEF Loads, Distinct
<1>4. QED
  BY <1>3 DEF read, names

LEMMA ReadingLoad ==
  ASSUME StoreInv, NEW r \in Readers, ReadLoad(r)
  PROVE  StoreInv'
<1> DEFINE more == reads[r].records \cup {Loaded(n) : n \in Unread(reads[r].plan, reads[r].records)}
<1>1. /\ FilesStay /\ UNCHANGED <<dir, meta, up, creating, job, ops, faults>>
      /\ reads[r].step = "load" /\ reads' = [reads EXCEPT ![r] = NotReading]
  BY DEF ReadLoad, FilesStay
<1>2. more \in Loads /\ Distinct(more)
  <2>1. reads[r].plan.adds \subseteq DOMAIN disk
    BY <1>1, ReadFields
  <2>2. QED
    BY <2>1, ReadFields, BothLoads DEF StoreInv
<1>3. \/ cache' = [token |-> reads[r].token, spec |-> reads[r].spec,
                   folded |-> Fold(reads[r].plan, more)]
      \/ cache' = cache
  BY DEF ReadLoad
<1> HIDE DEF more
<1>4. Fold(reads[r].plan, more) \in Cursors
  BY <1>2, ReadFields, FoldTyped
<1>5. /\ cache' \in CacheRecs /\ cache'.token.recs \subseteq DOMAIN disk
      /\ cache'.token.copies \subseteq DOMAIN copies
  BY <1>1, <1>3, <1>4, CacheFields, CacheFilled
<1>6. QED
  BY <1>1, <1>5, ReaderEnds, ReadersOnly

-----------------------------------------------------------------------------
(***************************************************************************)
(* The world around the store.                                             *)
(***************************************************************************)
LEMMA Crashing ==
  ASSUME StoreInv, Crash
  PROVE  StoreInv'
<1> USE DEF StoreInv
<1>1. FilesStay /\ UNCHANGED <<dir, meta>> /\ up' = FALSE /\ cache' = NoCache /\ job' = Idle
  BY DEF Crash, FilesStay
<1>2. /\ ops' \in [Ops -> OpRecs]
      /\ \A o \in Ops : ops'[o].step = IF ops[o].step = "running" THEN "lost" ELSE ops[o].step
  <2>1. \A o \in Ops : ops[o] \in OpRecs
    BY DEF Typed
  <2>2. \A o \in Ops : /\ [ops[o] EXCEPT !.step = "lost"] \in OpRecs
                       /\ [ops[o] EXCEPT !.step = "lost"].step = "lost"
    BY <2>1, Kinds DEF OpRecs
  <2>3. ops' = [o \in Ops |-> IF ops[o].step = "running" THEN [ops[o] EXCEPT !.step = "lost"]
                              ELSE ops[o]]
    BY DEF Crash
  <2>4. QED
    BY <2>1, <2>2, <2>3
<1>3. reads' = [r \in Readers |-> NotReading]
  BY DEF Crash
<1>4. creating' \in CreateRecs
  BY Kinds DEF Crash, Typed, CreateRecs
<1>5. faults' \in FaultRecs
  BY DEF Crash, Typed, FaultRecs
<1>6. Typed'
  BY <1>1, <1>2, <1>3, <1>4, <1>5, IdleTyped DEF Typed, Files, FilesStay
<1>7. Reading'
  <2>1. Distinct({})
    BY DEF Distinct
  <2>2. \A r \in Readers : reads'[r] = NotReading
    BY <1>3
  <2>3. QED
    BY <2>1, <2>2, IdleTyped DEF Reading
<1>8. Cached'
  BY <1>1, EmptyTyped, IdleTyped DEF Cached, Seen
<1>9. Appending' /\ Repairing'
  BY <1>1, IdleTyped DEF Appending, Repairing
<1>10. Written'
  <2>1. \A n \in StoreWritten : disk[n].by \in Ops
    BY DEF Typed, Files, FileRecs, StoreWritten
  <2>2. QED
    BY <1>1, <1>2, <2>1, StayMoves DEF Written, FilesStay
<1>11. AckedIsOnDisk'
  BY <1>1, <1>2 DEF AckedIsOnDisk, FilesStay
<1>12. QED
  BY <1>1, <1>6, <1>7, <1>8, <1>9, <1>10, <1>11, StayMoves

\* Files appear or lose their bytes; none goes away or changes its writer.
LEMMA DiskMoves ==
  ASSUME StoreInv, Typed', UNCHANGED <<meta, copies, manifest, cache, job, ops, reads>>,
         DOMAIN disk \subseteq DOMAIN disk',
         \A m \in DOMAIN disk : disk'[m].by = disk[m].by /\ (~disk[m].ok => ~disk'[m].ok),
         \A m \in DOMAIN disk' : m \notin DOMAIN disk => disk'[m].by = Null
  PROVE  StoreInv'
<1> USE DEF StoreInv
<1>1. StoreWritten' = StoreWritten /\ \A m \in StoreWritten : disk'[m].by = disk[m].by
  BY DEF StoreWritten
<1>2. Recovered' /\ UniqueVersions' /\ MetaNotAhead' /\ AckedIsOnDisk'
  <2>1. Recovered'
    BY DEF Recovered
  <2>2. UniqueVersions'
    BY <1>1 DEF UniqueVersions
  <2>3. MetaNotAhead'
    BY NamesGrow
  <2>4. AckedIsOnDisk'
    BY DEF AckedIsOnDisk
  <2>5. QED
    BY <2>1, <2>2, <2>3, <2>4
<1>3. Appending'
  BY <1>1 DEF Appending, Seen
<1>4. Repairing'
  <2>1. /\ DOMAIN disk' \in SUBSET Names /\ DOMAIN disk \in SUBSET DOMAIN disk'
        /\ DOMAIN disk \in SUBSET Names /\ job.version \in Nat
    BY JobFields DEF Typed, Files
  <2>2. /\ maxRecordVersionOf(DOMAIN disk) <= maxRecordVersionOf(DOMAIN disk')
        /\ maxRecordVersionOf(DOMAIN disk) \in Nat /\ maxRecordVersionOf(DOMAIN disk') \in Nat
    BY <2>1, MaxGrows, MaxRecordVersion
  <2>3. QED
    BY <1>1, <2>1, <2>2 DEF Repairing
<1>5. Written'
  BY <1>1 DEF Written
<1>6. Reading' /\ Cached'
  BY DEF Reading, Cached, Seen
<1>7. QED
  BY <1>2, <1>3, <1>4, <1>5, <1>6

LEMMA Landing ==
  ASSUME StoreInv, NEW n \in Names, ForeignFileLands(n)
  PROVE  StoreInv'
<1>1. /\ UNCHANGED <<dir, meta, copies, manifest, cache, up, creating, job, ops, reads>>
      /\ n \notin DOMAIN disk
  BY DEF ForeignFileLands
<1>2. PICK v \in ForeignVersions(n) : disk' = Put(disk, n, [by |-> Null, version |-> v, ok |-> TRUE])
  BY DEF ForeignFileLands
<1> DEFINE file == [by |-> Null, version |-> v, ok |-> TRUE]
<1>3. v \in Nat
  BY NamesAreVersions DEF ForeignVersions, recordFileVersion
<1>4. file \in FileRecs /\ file.by = Null
  BY <1>3 DEF FileRecs
<1> HIDE DEF file
<1>5. Files(disk, FileRecs) /\ disk' = Put(disk, n, file)
  BY <1>2 DEF StoreInv, Typed, file
<1>6. /\ Files(disk', FileRecs) /\ DOMAIN disk' = DOMAIN disk \cup {n}
      /\ disk'[n] = file /\ \A m \in DOMAIN disk : disk'[m] = disk[m]
  BY <1>1, <1>4, <1>5 DEF Files, Put
<1>7. faults' \in FaultRecs
  BY DEF ForeignFileLands, StoreInv, Typed, FaultRecs
<1>8. Typed'
  BY <1>1, <1>6, <1>7 DEF StoreInv, Typed, Files
<1>9. QED
  BY <1>1, <1>4, <1>6, <1>8, DiskMoves

LEMMA Rotting ==
  ASSUME StoreInv, NEW n \in Names, RecordRots(n)
  PROVE  StoreInv'
<1>1. /\ UNCHANGED <<dir, meta, copies, manifest, cache, up, creating, job, ops, reads>>
      /\ n \in DOMAIN disk /\ disk' = [disk EXCEPT ![n].ok = FALSE]
  BY DEF RecordRots
<1>2. \A m \in DOMAIN disk : disk[m] \in FileRecs
  BY DEF StoreInv, Typed, Files
<1>3. /\ [disk[n] EXCEPT !.ok = FALSE] \in FileRecs /\ [disk[n] EXCEPT !.ok = FALSE].by = disk[n].by
      /\ [disk[n] EXCEPT !.ok = FALSE].ok = FALSE
      /\ [disk[n] EXCEPT !.ok = FALSE].version = disk[n].version
  BY <1>1, <1>2 DEF FileRecs
<1>4. /\ DOMAIN disk' = DOMAIN disk /\ disk' = [m \in DOMAIN disk' |-> disk'[m]]
      /\ disk'[n] = [disk[n] EXCEPT !.ok = FALSE] /\ \A m \in DOMAIN disk : m # n => disk'[m] = disk[m]
  BY <1>1
<1>5. Files(disk', FileRecs)
  BY <1>2, <1>3, <1>4 DEF StoreInv, Typed, Files
<1>6. faults' \in FaultRecs
  BY DEF RecordRots, StoreInv, Typed, FaultRecs
<1>7. Typed'
  BY <1>1, <1>5, <1>6 DEF StoreInv, Typed, Files
<1>8. \A m \in DOMAIN disk : disk'[m].by = disk[m].by /\ (~disk[m].ok => ~disk'[m].ok)
  BY <1>3, <1>4
<1>9. QED
  BY <1>1, <1>4, <1>7, <1>8, DiskMoves

LEMMA MetaRotting ==
  ASSUME StoreInv, MetaRots
  PROVE  StoreInv'
<1>1. /\ UNCHANGED <<dir, disk, copies, manifest, cache, up, creating, job, ops, reads>>
      /\ FilesStay /\ meta' = [meta EXCEPT !.state = "corrupt"]
  BY DEF MetaRots, FilesStay
<1>2. meta' \in MetaRecs /\ meta'.state = "corrupt"
  BY <1>1, Kinds DEF StoreInv, Typed, MetaRecs
<1>3. faults' \in FaultRecs
  BY DEF MetaRots, StoreInv, Typed, FaultRecs
<1>4. Typed'
  BY <1>1, <1>2, <1>3 DEF StoreInv, Typed, Files
<1>5. MetaNotAhead'
  BY <1>2 DEF MetaNotAhead, readMeta, validateMetaArtifact
<1>6. QED
  BY <1>1, <1>4, <1>5, StayMoves DEF StoreInv

LEMMA Idling ==
  ASSUME StoreInv, Restart \/ UNCHANGED storeVars
  PROVE  StoreInv'
<1>1. /\ UNCHANGED <<dir, meta, disk, copies, manifest, cache, creating, job, ops, reads, faults>>
      /\ FilesStay /\ up' \in BOOLEAN
  BY DEF Restart, storeVars, FilesStay, StoreInv, Typed
<1>2. Typed'
  BY <1>1 DEF StoreInv, Typed, Files
<1>3. QED
  BY <1>1, <1>2, StayMoves DEF StoreInv

-----------------------------------------------------------------------------
(***************************************************************************)
(* The invariant holds.                                                    *)
(***************************************************************************)
LEMMA Starting ==
  ASSUME StoreInit
  PROVE  StoreInv
<1> USE DEF StoreInit
<1>1. meta \in MetaRecs /\ creating \in CreateRecs /\ faults \in FaultRecs /\ meta.state = "missing"
  BY Kinds DEF MetaRecs, CreateRecs, FaultRecs
<1>2. /\ Files(disk, FileRecs) /\ Files(copies, Sources) /\ Files(manifest, Sources)
      /\ DOMAIN disk = {} /\ DOMAIN copies = {} /\ DOMAIN manifest = {}
  BY DEF Nothing, Files
<1>3. /\ ops \in [Ops -> OpRecs] /\ \A o \in Ops : ops[o].step = "new"
  <2>1. [step |-> "new", expected |-> 0] \in OpRecs
    BY Kinds DEF OpRecs
  <2>2. QED
    BY <2>1
<1>4. reads \in [Readers -> ReadRecs] /\ \A r \in Readers : reads[r] = NotReading
  BY IdleTyped
<1>5. job \in JobRecs /\ cache \in CacheRecs
  BY IdleTyped
<1>6. Typed
  BY <1>1, <1>2, <1>3, <1>4, <1>5 DEF Typed
<1>7. Recovered /\ Written /\ UniqueVersions
  BY <1>2 DEF Recovered, Written, UniqueVersions, StoreWritten
<1>8. Appending /\ Repairing
  BY IdleTyped DEF Appending, Repairing
<1>9. Reading /\ Cached
  <2>1. Distinct({})
    BY DEF Distinct
  <2>2. QED
    BY <1>4, <2>1, IdleTyped, EmptyTyped DEF Reading, Cached, Seen
<1>10. AckedIsOnDisk /\ MetaNotAhead
  BY <1>1, <1>3 DEF AckedIsOnDisk, MetaNotAhead, readMeta
<1>11. QED
  BY <1>6, <1>7, <1>8, <1>9, <1>10 DEF StoreInv

LEMMA Stepping ==
  ASSUME StoreInv, [StoreNext]_storeVars
  PROVE  StoreInv'
<1>1. CASE CreateStep
  BY <1>1, Creation
<1>2. ASSUME NEW o \in Ops, ObserveVersion(o) \/ AppendReadMeta(o) PROVE StoreInv'
  BY <1>2, Observing, Taking
<1>3. CASE AppendStep
  BY <1>3, Listing, Folding, Loading, Linking, Remembering, Acknowledging DEF AppendStep
<1>4. CASE RecoveryStep
  BY <1>4, Repair, Recovery, Registering DEF RecoveryStep
<1>5. ASSUME NEW r \in Readers, ReadStep(r) PROVE StoreInv'
  BY <1>5, ReadingMeta, ReadingNames, ReadingRecords, ReadingFold, ReadingLoad DEF ReadStep
<1>6. CASE Fault
  BY <1>6, Crashing, MetaRotting, Landing, Rotting DEF Fault
<1>7. CASE Restart \/ UNCHANGED storeVars
  BY <1>7, Idling
<1>8. QED
  BY <1>1, <1>2, <1>3, <1>4, <1>5, <1>6, <1>7 DEF StoreNext

LEMMA StoreInvariance == StoreSpec => []StoreInv
<1>1. StoreInit => StoreInv
  BY Starting
<1>2. StoreInv /\ [StoreNext]_storeVars => StoreInv'
  BY Stepping
<1>3. QED
  BY <1>1, <1>2, PTL DEF StoreSpec

LEMMA TypedIsTypeOK ==
  ASSUME Typed
  PROVE  StoreTypeOK
BY DEF Typed, StoreTypeOK, Files, MetaRecs, MetaStates, MaybeSpec, FileRecs, CacheRecs, Cursors,
       CreateRecs, CreateSteps, JobRecs, JobKinds, JobSteps, MaybeName, OpRecs, OpSteps, ReadRecs,
       ReadSteps, Loads, FaultRecs

\* Whatever crashes, lands, rots or fails, and whatever version a foreign file
\* claims: no two records of the store share a version, an answered publish is on
\* disk, meta.json counts no further than the records, and a registered copy makes
\* its record readable.
THEOREM StoreKeepsItsWord ==
  StoreSpec => [](UniqueVersions /\ AckedIsOnDisk /\ MetaNotAhead /\ RegistrationUsable)
<1>1. StoreInv => UniqueVersions /\ AckedIsOnDisk /\ MetaNotAhead /\ RegistrationUsable
  BY DEF StoreInv, Recovered, RegistrationUsable, Readable, recoveredRecordFor, Registered,
         taskDirNames
<1>2. QED
  BY <1>1, StoreInvariance, PTL

\* No step replaces or removes a record file.
THEOREM RecordsAreWrittenOnce == StoreSpec => NeverOverwrites
<1>1. ASSUME StoreInv, [StoreNext]_storeVars
      PROVE  \A n \in DOMAIN disk : /\ n \in DOMAIN disk'
                                    /\ disk'[n].by = disk[n].by
                                    /\ disk'[n].version = disk[n].version
  <2> USE <1>1
  <2>1. CASE AppendLink
    BY <2>1 DEF AppendLink, Put
  <2>2. ASSUME NEW n \in Names, ForeignFileLands(n)
        PROVE  \A m \in DOMAIN disk : m \in DOMAIN disk' /\ disk'[m] = disk[m]
    BY <2>2 DEF ForeignFileLands, Put
  <2>3. ASSUME NEW n \in Names, RecordRots(n)
        PROVE  \A m \in DOMAIN disk : /\ m \in DOMAIN disk' /\ disk'[m].by = disk[m].by
                                      /\ disk'[m].version = disk[m].version
    <3>1. n \in DOMAIN disk /\ disk[n] \in FileRecs /\ disk' = [disk EXCEPT ![n].ok = FALSE]
      BY <2>3 DEF RecordRots, StoreInv, Typed, Files
    <3>2. /\ [disk[n] EXCEPT !.ok = FALSE].by = disk[n].by
          /\ [disk[n] EXCEPT !.ok = FALSE].version = disk[n].version
      BY <3>1 DEF FileRecs
    <3>3. DOMAIN disk' = DOMAIN disk /\ disk'[n] = [disk[n] EXCEPT !.ok = FALSE]
      BY <3>1
    <3>4. QED
      BY <3>1, <3>2, <3>3
  <2>4. CASE disk' = disk
    BY <2>4
  <2>5. \/ AppendLink \/ disk' = disk
        \/ \E n \in Names : ForeignFileLands(n) \/ RecordRots(n)
    <3>1. CASE CreateStep
      BY <3>1 DEF CreateStep, CreateMkdir, CreateSeed, CreateWriteMeta
    <3>2. ASSUME NEW o \in Ops, ObserveVersion(o) \/ AppendReadMeta(o) PROVE disk' = disk
      BY <3>2 DEF ObserveVersion, AppendReadMeta
    <3>3. CASE AppendStep
      BY <3>3 DEF AppendStep, AppendReaddir, AppendFold, AppendLoad, AppendRemember,
                  AppendWriteMeta, AppendMetaFails
    <3>4. CASE RecoveryStep
      BY <3>4 DEF RecoveryStep, RepairScan, RepairWrite, RecoverRegister, RecoverCopy
    <3>5. ASSUME NEW r \in Readers, ReadStep(r) PROVE disk' = disk
      BY <3>5 DEF ReadStep, ReadMeta, ReadNames, ReadRecords, ReadFold, ReadLoad
    <3>6. CASE Fault
      BY <3>6 DEF Fault, Crash, MetaRots
    <3>7. CASE Restart \/ UNCHANGED storeVars
      BY <3>7 DEF Restart, storeVars
    <3>8. QED
      BY <3>1, <3>2, <3>3, <3>4, <3>5, <3>6, <3>7 DEF StoreNext
  <2>6. QED
    BY <2>1, <2>2, <2>3, <2>4, <2>5
<1>2. QED
  BY <1>1, StoreInvariance, PTL DEF StoreSpec, NeverOverwrites

-----------------------------------------------------------------------------
(***************************************************************************)
(* The folds stay what a cold read would give.                             *)
(***************************************************************************)
LEMMA EmptyWell == Well(EmptyToken, <<>>)
BY DEF Well, NamesOf, Sorted, Honest, EmptyToken

\* Records just read stand for their names, copies where one was seen.
LEMMA LoadsHonest ==
  ASSUME StoreInv, Truthful, NEW names \in SUBSET DOMAIN disk, NEW copied, copied \subseteq DOMAIN copies
  PROVE  LoadsOk(copied, {Loaded(n) : n \in names})
<1> SUFFICES ASSUME NEW n \in names
             PROVE  Plain(Loaded(n)) /\ (Loaded(n).name \in copied => Loaded(n).src = "copy")
  BY DEF LoadsOk
<1>1. Typed /\ n \in DOMAIN disk
  BY DEF StoreInv
<1>2. disk[n].ok \in BOOLEAN
  BY <1>1 DEF Typed, Files, FileRecs
<1>3. CASE disk[n].ok
  BY <1>1, <1>3, LoadedTyped DEF StoreInv, Recovered, Truthful, Plain
<1>4. CASE ~disk[n].ok
  BY <1>1, <1>4, LoadedTyped DEF Plain
<1>5. QED
  BY <1>3, <1>4

\* The parts that a step leaves alone.
LEMMA FoldFrame ==
  ASSUME FoldInv
  PROVE  /\ disk' = disk => Truthful'
         /\ cache' = cache => CacheWell'
         /\ job' = job => JobWell'
         /\ reads' = reads => ReadsWell'
BY DEF FoldInv, Truthful, CacheWell, JobWell, ReadsWell

LEMMA AppendFolds ==
  ASSUME StoreInv, FoldInv, AppendStep
  PROVE  FoldInv'
<1> USE DEF StoreInv
<1>1. UNCHANGED reads /\ job.kind = "append"
  BY DEF AppendStep, AppendReaddir, AppendFold, AppendLoad, AppendLink, AppendRemember,
         AppendWriteMeta, AppendMetaFails
<1>2. CASE job' = Idle /\ UNCHANGED <<disk, cache>>
  BY <1>1, <1>2, FoldFrame, IdleTyped DEF JobWell, FoldInv
<1>3. CASE AppendReaddir
  <2>1. UNCHANGED <<disk, cache>> /\ job'.step = "fold"
    <3>1. PICK v, n : job' = [job EXCEPT !.step = "fold", !.version = v, !.name = n, !.token = foldTokenOf]
      BY <1>3 DEF AppendReaddir
    <3>2. QED
      BY <1>3, <3>1, JobFields DEF AppendReaddir, JobRecs
  <2>2. QED
    BY <1>1, <2>1, FoldFrame DEF JobWell, FoldInv
<1>4. CASE AppendFold
  <2>1. UNCHANGED <<disk, cache>> /\ cache.folded \in Cursors /\ job.token \in Tokens /\ job \in JobRecs
    BY <1>4, JobFields DEF AppendFold, Typed, CacheRecs
  <2>2. CASE Hit(job.spec, job.token) /\ job' = [job EXCEPT !.step = "link", !.folded = cache.folded]
    <3>1. job'.step = "link" /\ job'.token = cache.token /\ job'.folded = cache.folded
      BY <2>1, <2>2, AppendFolded DEF Hit
    <3>2. JobWell'
      BY <3>1 DEF JobWell, FoldInv, CacheWell
    <3>3. QED
      BY <1>1, <2>1, <3>2, FoldFrame DEF FoldInv
  <2>3. CASE job' = [job EXCEPT !.step = "load", !.plan = Plan(job.spec, job.token)]
    <3>1. Plan(job.spec, job.token) \in Plans
      BY <2>1, PlanTyped
    <3>2. job'.step = "load" /\ job'.token = job.token /\ job'.plan = Plan(job.spec, job.token)
      BY <2>3, <3>1, AppendPlanned
    <3>3. PlanOk(job.token, Plan(job.spec, job.token))
      BY <2>1, PlanWell DEF FoldInv, CacheWell
    <3>4. JobWell'
      BY <3>2, <3>3 DEF JobWell
    <3>5. QED
      BY <1>1, <2>1, <3>4, FoldFrame DEF FoldInv
  <2>4. QED
    BY <1>4, <2>2, <2>3 DEF AppendFold
<1>5. CASE AppendLoad
  <2> DEFINE records == {Loaded(n) : n \in job.plan.adds}
             folded == Fold(job.plan, records)
  <2>1. job.plan.adds \in SUBSET DOMAIN disk /\ job.token.copies \subseteq DOMAIN copies
        /\ job.step = "load"
    BY <1>5 DEF AppendLoad, Appending, Planned, Seen
  <2>2. /\ records \in Loads /\ Distinct(records) /\ LoadsOk(job.token.copies, records)
        /\ \A n \in job.plan.adds : \E x \in records : x.name = n
    BY <2>1, LoadsTyped, LoadsHonest DEF FoldInv
  <2>3. job.plan \in Plans /\ PlanOk(job.token, job.plan)
    BY <1>1, <2>1, JobFields DEF FoldInv, JobWell
  <2> HIDE DEF records
  <2>4. Well(job.token, folded) /\ folded \in Cursors
    BY <2>2, <2>3, FoldWell, FoldTyped
  <2>5. CASE /\ job' = [job EXCEPT !.step = "link", !.folded = folded]
             /\ cache' = [token |-> job.token, spec |-> job.spec, folded |-> folded]
    <3> HIDE DEF folded
    <3>1. job'.step = "link" /\ job'.token = job.token /\ job'.folded = folded
      BY <2>4, <2>5, AppendFolded
    <3>2. cache'.token = job.token /\ cache'.folded = folded
      BY <2>5
    <3>3. JobWell' /\ CacheWell'
      BY <2>4, <3>1, <3>2 DEF JobWell, CacheWell
    <3>4. disk' = disk
      BY <1>5 DEF AppendLoad
    <3>5. QED
      BY <1>1, <3>3, <3>4, FoldFrame DEF FoldInv
  <2>6. QED
    BY <1>2, <1>5, <2>5 DEF AppendLoad, records
<1>6. CASE AppendLink
  <2>1. CASE job.name \in DOMAIN disk
    BY <1>2, <1>6, <2>1 DEF AppendLink
  <2>2. CASE job.name \notin DOMAIN disk
    <3> DEFINE file == [by |-> job.op, version |-> job.version, ok |-> TRUE]
    <3>1. /\ job.step = "link" /\ UNCHANGED cache /\ job' = [job EXCEPT !.step = "remember"]
          /\ disk' = Put(disk, job.name, file) /\ job.version = job.name[1]
      BY <1>1, <1>6, <2>2 DEF AppendLink, Appending, Planned
    <3>2. job'.step = "remember" /\ job'.token = job.token /\ job'.folded = job.folded
      BY <3>1, Kinds, AppendMoves
    <3>3. JobWell'
      BY <1>1, <3>1, <3>2 DEF FoldInv, JobWell
    <3>4. Truthful'
      BY <3>1 DEF FoldInv, Truthful, Put
    <3>5. QED
      BY <1>1, <3>1, <3>3, <3>4, FoldFrame DEF FoldInv
  <2>3. QED
    BY <2>1, <2>2
<1>7. CASE AppendRemember
  <2> DEFINE x == [name |-> job.name, src |-> "original", version |-> job.version]
             t == [job.token EXCEPT !.recs = @ \cup {job.name}]
  <2>1. /\ job.step = "remember" /\ UNCHANGED disk /\ job' = [job EXCEPT !.step = "meta"]
        /\ cache' = [token |-> t, spec |-> job.spec, folded |-> Append(job.folded, x)]
    BY <1>7 DEF AppendRemember
  <2>2. /\ job.name \in Names /\ job.version = job.name[1] /\ job.name[1] \in Nat
        /\ \A n \in job.token.recs : n[1] < job.version
        /\ \A n \in job.token.copies : n[1] < job.version
    BY <1>1, <2>1, NamesAreVersions DEF Appending, Planned
  <2>3. /\ job.token \in Tokens /\ job.folded \in Cursors /\ job.version \in Nat
        /\ Well(job.token, job.folded)
    BY <1>1, <2>1, JobFields DEF FoldInv, JobWell
  <2>4. x \in Records /\ Plain(x) /\ x.name = job.name /\ job.name \notin job.token.copies
    BY <2>2, <2>3 DEF Records, Plain
  <2>5. t.recs = job.token.recs \cup {x.name} /\ t.copies = job.token.copies
    BY <2>3, <2>4 DEF Tokens
  <2>6. \A n \in job.token.recs : n[1] < x.name[1]
    BY <2>2, <2>4
  <2> HIDE DEF x, t
  <2>7. Well(t, Append(job.folded, x))
    BY <2>3, <2>4, <2>5, <2>6, AppendWell
  <2>8. CacheWell'
    BY <2>1, <2>7 DEF CacheWell
  <2>9. job'.step = "meta"
    BY <2>1, Kinds, AppendMoves
  <2>10. QED
    BY <1>1, <2>1, <2>8, <2>9, FoldFrame DEF FoldInv, JobWell
<1>8. CASE AppendWriteMeta \/ AppendMetaFails
  BY <1>2, <1>8 DEF AppendWriteMeta, AppendMetaFails, Acknowledge
<1>9. QED
  BY <1>3, <1>4, <1>5, <1>6, <1>7, <1>8 DEF AppendStep

\* One reader moves.
LEMMA ReaderFolds ==
  ASSUME StoreInv, FoldInv, NEW r \in Readers, reads' \in [Readers -> ReadRecs],
         \A p \in Readers : p # r => reads'[p] = reads[p],
         LoadsOk(reads'[r].token.copies, reads'[r].records),
         reads'[r].step = "load" => PlanOk(reads'[r].token, reads'[r].plan)
  PROVE  ReadsWell'
<1> SUFFICES ASSUME NEW p \in Readers
             PROVE  /\ LoadsOk(reads'[p].token.copies, reads'[p].records)
                    /\ reads'[p].step = "load" => PlanOk(reads'[p].token, reads'[p].plan)
  BY DEF ReadsWell
<1>1. CASE p = r
  BY <1>1
<1>2. CASE p # r
  BY <1>2 DEF FoldInv, ReadsWell
<1>3. QED
  BY <1>1, <1>2

\* A reader that is done holds nothing.
LEMMA ReaderStops ==
  ASSUME StoreInv, FoldInv, NEW r \in Readers, reads' = [reads EXCEPT ![r] = NotReading]
  PROVE  ReadsWell'
<1>1. /\ reads' \in [Readers -> ReadRecs] /\ reads'[r] = NotReading
      /\ \A p \in Readers : p # r => reads'[p] = reads[p]
  BY IdleTyped DEF StoreInv, Typed
<1>2. LoadsOk(NotReading.token.copies, NotReading.records)
  BY IdleTyped DEF LoadsOk
<1>3. QED
  BY <1>1, <1>2, IdleTyped, ReaderFolds

\* The records in hand and those read beyond them are honest and enough.
LEMMA BothHonest ==
  ASSUME StoreInv, FoldInv, NEW r \in Readers, reads[r].step = "load"
  PROVE  LET q == reads[r]
             more == q.records \cup {Loaded(n) : n \in Unread(q.plan, q.records)}
         IN  Well(q.token, Fold(q.plan, more)) /\ Fold(q.plan, more) \in Cursors
<1> DEFINE plan == reads[r].plan
           records == reads[r].records
           names == Unread(plan, records)
           read == {Loaded(n) : n \in names}
           more == records \cup read
<1>1. /\ plan \in Plans /\ plan.adds \subseteq DOMAIN disk /\ records \in Loads /\ Distinct(records)
      /\ reads[r].token.copies \subseteq DOMAIN copies
      /\ LoadsOk(reads[r].token.copies, records) /\ PlanOk(reads[r].token, plan)
  BY ReadFields DEF FoldInv, ReadsWell
<1>2. more \in Loads /\ Distinct(more)
  BY <1>1, BothLoads DEF StoreInv
<1>3. names \in SUBSET DOMAIN disk
  BY <1>1 DEF Unread
<1>4. LoadsOk(reads[r].token.copies, read) /\ \A n \in names : \E x \in read : x.name = n
  <2> HIDE DEF names
  <2>1. LoadsOk(reads[r].token.copies, read)
    BY <1>1, <1>3, LoadsHonest DEF FoldInv
  <2>2. \A n \in names : \E x \in read : x.name = n
    BY <1>3, LoadsTyped DEF StoreInv
  <2>3. QED
    BY <2>1, <2>2
<1>5. \A n \in plan.adds : n \in names \/ \E x \in records : x.name = n
  BY DEF Unread
<1> HIDE DEF read, names, plan, records
<1>6. LoadsOk(reads[r].token.copies, more)
  BY <1>1, <1>4 DEF LoadsOk
<1>7. \A n \in plan.adds : \E x \in more : x.name = n
  BY <1>4, <1>5
<1> HIDE DEF more
<1>8. Well(reads[r].token, Fold(plan, more)) /\ Fold(plan, more) \in Cursors
  BY <1>1, <1>2, <1>6, <1>7, FoldWell, FoldTyped
<1>9. QED
  BY <1>8 DEF more, read, names, plan, records

LEMMA ReadFolds ==
  ASSUME StoreInv, FoldInv, StoreInv', NEW r \in Readers, ReadStep(r)
  PROVE  FoldInv'
<1>1. UNCHANGED <<disk, job>>
  BY DEF ReadStep, ReadMeta, ReadNames, ReadRecords, ReadFold, ReadLoad
<1>2. /\ reads \in [Readers -> ReadRecs] /\ reads' \in [Readers -> ReadRecs] /\ reads[r] \in ReadRecs
  BY DEF StoreInv, Typed
<1>3. LoadsOk(reads[r].token.copies, reads[r].records)
  BY DEF FoldInv, ReadsWell
<1>4. CASE ReadMeta(r)
  <2>1. reads' = [reads EXCEPT ![r].step = "names", ![r].spec = meta.spec] /\ UNCHANGED cache
    BY <1>4 DEF ReadMeta
  <2>2. /\ reads'[r].step = "names" /\ reads'[r].token = reads[r].token
        /\ reads'[r].records = reads[r].records
        /\ \A p \in Readers : p # r => reads'[p] = reads[p]
    BY <1>2, <2>1 DEF ReadRecs
  <2>3. QED
    BY <1>1, <1>2, <1>3, <2>1, <2>2, ReaderFolds, FoldFrame DEF FoldInv
<1>5. CASE ReadNames(r)
  <2>1. PICK step \in {"records", "fold"} :
           reads' = [reads EXCEPT ![r].step = step, ![r].token = foldTokenOf]
    BY <1>5 DEF ReadNames
  <2>2. reads[r].step = "names" /\ reads[r].records = {} /\ UNCHANGED cache
    BY <1>5, ReadFields DEF ReadNames
  <2>3. /\ reads'[r].step = step /\ reads'[r].records = reads[r].records
        /\ \A p \in Readers : p # r => reads'[p] = reads[p]
    BY <1>2, <2>1 DEF ReadRecs
  <2>4. LoadsOk(reads'[r].token.copies, reads'[r].records) /\ reads'[r].step # "load"
    BY <2>2, <2>3 DEF LoadsOk
  <2>5. QED
    BY <1>1, <1>2, <2>2, <2>3, <2>4, ReaderFolds, FoldFrame DEF FoldInv
<1>6. ASSUME NEW since, ReadRecords(r, since) PROVE FoldInv'
  <2> DEFINE wanted == {n \in reads[r].token.recs : recordFileVersion(n) >= since}
             held == {Loaded(n) : n \in wanted}
  <2>1. /\ reads[r].step = "records" /\ UNCHANGED cache
        /\ reads' = [reads EXCEPT ![r] = IF \A n \in wanted : Readable(n)
                THEN [@ EXCEPT !.step = "fold", !.records = held] ELSE NotReading]
    BY <1>6 DEF ReadRecords
  <2>2. LoadsOk(reads[r].token.copies, held)
    <3>1. wanted \in SUBSET DOMAIN disk /\ reads[r].token.copies \subseteq DOMAIN copies
      BY <2>1, ReadFields
    <3> HIDE DEF wanted
    <3>2. QED
      BY <3>1, LoadsHonest DEF FoldInv
  <2> HIDE DEF wanted, held
  <2>3. PICK q : q = [reads[r] EXCEPT !.step = "fold", !.records = held]
    OBVIOUS
  <2>4. q.step = "fold" /\ q.token = reads[r].token /\ q.records = held
    BY <1>2, <2>3 DEF ReadRecs
  <2>5. CASE reads' = [reads EXCEPT ![r] = NotReading]
    BY <1>1, <2>1, <2>5, ReaderStops, FoldFrame DEF FoldInv
  <2>6. CASE reads' = [reads EXCEPT ![r] = q]
    <3>1. reads'[r] = q /\ \A p \in Readers : p # r => reads'[p] = reads[p]
      BY <1>2, <2>6
    <3>2. QED
      BY <1>1, <1>2, <2>1, <2>2, <2>4, <3>1, ReaderFolds, FoldFrame DEF FoldInv
  <2>7. QED
    BY <2>1, <2>3, <2>5, <2>6
<1>7. CASE ReadFold(r)
  <2> DEFINE plan == Plan(reads[r].spec, reads[r].token)
  <2>1. reads[r].step = "fold"
    BY <1>7 DEF ReadFold
  <2>2. plan \in Plans /\ PlanOk(reads[r].token, plan)
    BY ReadFields, PlanTyped, PlanWell DEF StoreInv, FoldInv, CacheWell
  <2>3. \/ reads' = [reads EXCEPT ![r] = NotReading] /\ UNCHANGED cache
        \/ /\ reads' = [reads EXCEPT ![r] = NotReading] /\ Unread(plan, reads[r].records) = {}
           /\ cache' = [token |-> reads[r].token, spec |-> reads[r].spec,
                        folded |-> Fold(plan, reads[r].records)]
        \/ reads' = [reads EXCEPT ![r].step = "load", ![r].plan = plan] /\ UNCHANGED cache
    BY <1>7 DEF ReadFold
  <2> HIDE DEF plan
  <2>4. CASE reads' = [reads EXCEPT ![r] = NotReading] /\ UNCHANGED cache
    BY <1>1, <2>4, ReaderStops, FoldFrame DEF FoldInv
  <2>5. CASE /\ reads' = [reads EXCEPT ![r] = NotReading] /\ Unread(plan, reads[r].records) = {}
             /\ cache' = [token |-> reads[r].token, spec |-> reads[r].spec,
                          folded |-> Fold(plan, reads[r].records)]
    <3>1. \A n \in plan.adds : \E x \in reads[r].records : x.name = n
      BY <2>5 DEF Unread
    <3>2. reads[r].records \in Loads /\ Distinct(reads[r].records)
      BY ReadFields
    <3>3. Well(reads[r].token, Fold(plan, reads[r].records))
      BY <1>3, <2>2, <3>1, <3>2, FoldWell
    <3>4. CacheWell'
      BY <2>5, <3>3 DEF CacheWell
    <3>5. QED
      BY <1>1, <2>5, <3>4, ReaderStops, FoldFrame DEF FoldInv
  <2>6. CASE reads' = [reads EXCEPT ![r].step = "load", ![r].plan = plan] /\ UNCHANGED cache
    <3>1. /\ reads'[r].step = "load" /\ reads'[r].token = reads[r].token
          /\ reads'[r].records = reads[r].records /\ reads'[r].plan = plan
          /\ \A p \in Readers : p # r => reads'[p] = reads[p]
      BY <1>2, <2>6 DEF ReadRecs
    <3>2. QED
      BY <1>1, <1>2, <1>3, <2>2, <2>6, <3>1, ReaderFolds, FoldFrame DEF FoldInv
  <2>7. QED
    BY <2>3, <2>4, <2>5, <2>6
<1>8. CASE ReadLoad(r)
  <2>1. reads[r].step = "load" /\ reads' = [reads EXCEPT ![r] = NotReading]
    BY <1>8 DEF ReadLoad
  <2> DEFINE more == reads[r].records \cup {Loaded(n) : n \in Unread(reads[r].plan, reads[r].records)}
  <2>2. Well(reads[r].token, Fold(reads[r].plan, more))
    BY <2>1, BothHonest
  <2>3. \/ cache' = [token |-> reads[r].token, spec |-> reads[r].spec,
                     folded |-> Fold(reads[r].plan, more)]
        \/ cache' = cache
    BY <1>8 DEF ReadLoad
  <2> HIDE DEF more
  <2>4. CacheWell'
    BY <2>2, <2>3, FoldFrame DEF CacheWell
  <2>5. QED
    BY <1>1, <2>1, <2>4, ReaderStops, FoldFrame DEF FoldInv
<1>9. QED
  BY <1>4, <1>5, <1>6, <1>7, <1>8 DEF ReadStep

LEMMA FoldStarting ==
  ASSUME StoreInit
  PROVE  FoldInv
<1>1. DOMAIN disk = {} /\ cache = NoCache /\ job.kind = "idle" /\ \A r \in Readers : reads[r] = NotReading
  BY IdleTyped DEF StoreInit, Nothing
<1>2. Truthful /\ JobWell
  BY <1>1 DEF Truthful, JobWell
<1>3. CacheWell
  BY <1>1, IdleTyped, EmptyWell DEF CacheWell
<1>4. ReadsWell
  BY <1>1, IdleTyped DEF ReadsWell, LoadsOk
<1>5. QED
  BY <1>2, <1>3, <1>4 DEF FoldInv

\* The other steps.
LEMMA FoldStepping ==
  ASSUME ForeignSkew = FALSE, StoreInv, StoreInv', FoldInv, [StoreNext]_storeVars
  PROVE  FoldInv'
<1> USE DEF FoldInv
<1>1. CASE CreateStep
  <2>1. UNCHANGED <<disk, job, reads>>
    BY <1>1 DEF CreateStep, CreateMkdir, CreateSeed, CreateWriteMeta
  <2>2. CASE CreateSeed
    <3>1. cache'.token = EmptyToken /\ cache'.folded = <<>>
      BY <2>2 DEF CreateSeed
    <3>2. CacheWell'
      BY <3>1, EmptyWell DEF CacheWell
    <3>3. QED
      BY <2>1, <3>2, FoldFrame
  <2>3. CASE CreateMkdir \/ CreateWriteMeta
    BY <2>1, <2>3, FoldFrame DEF CreateMkdir, CreateWriteMeta
  <2>4. QED
    BY <1>1, <2>2, <2>3 DEF CreateStep
<1>2. ASSUME NEW o \in Ops, ObserveVersion(o) \/ AppendReadMeta(o) PROVE FoldInv'
  <2>1. UNCHANGED <<disk, cache, reads>>
    BY <1>2 DEF ObserveVersion, AppendReadMeta
  <2>2. CASE job' = job
    BY <2>1, <2>2, FoldFrame
  <2>3. CASE job' = [Idle EXCEPT !.kind = "append", !.step = "readdir", !.op = o,
                                 !.version = meta.version, !.spec = meta.spec]
    <3>1. meta.version \in Nat /\ meta.spec \in MaybeSpec
      BY DEF StoreInv, Typed, MetaRecs
    <3>2. job'.step = "readdir"
      BY <2>3, <3>1, AppendBegins DEF StoreInv
    <3>3. QED
      BY <2>1, <3>2, FoldFrame DEF JobWell
  <2>4. QED
    BY <1>2, <2>2, <2>3 DEF ObserveVersion, AppendReadMeta
<1>3. CASE AppendStep
  BY <1>3, AppendFolds
<1>4. CASE RecoveryStep
  <2>1. UNCHANGED <<disk, reads>> /\ (cache' = cache \/ cache' = NoCache)
    BY <1>4 DEF RecoveryStep, RepairScan, RepairWrite, RecoverRegister, RecoverCopy
  <2>2. CacheWell'
    BY <2>1, IdleTyped, EmptyWell, FoldFrame DEF CacheWell
  <2>3. job'.kind # "append"
    <3>1. CASE RepairScan
      <4>1. maxRecordVersionOf(taskDirNames) \in Nat
        BY MaxRecordVersion DEF StoreInv, Typed, Files, taskDirNames
      <4>2. PICK sp \in Specs : job' = [Idle EXCEPT !.kind = "repair", !.step = "write", !.spec = sp,
                                                    !.version = maxRecordVersionOf(taskDirNames)]
        BY <3>1 DEF RepairScan
      <4>3. sp \in MaybeSpec
        BY Kinds
      <4>4. job'.kind = "repair"
        BY <4>1, <4>2, <4>3, RepairBegins DEF StoreInv
      <4>5. QED
        BY <4>4
    <3>2. ASSUME NEW n \in Names, NEW b \in Sources, RecoverCopy(n, b) PROVE job'.kind # "append"
      <4>1. job' = [Idle EXCEPT !.kind = "recover", !.step = "register", !.name = n, !.source = b]
        BY <3>2 DEF RecoverCopy
      <4>2. job'.kind = "recover"
        BY <4>1, RecoveryBegins DEF StoreInv
      <4>3. QED
        BY <4>2
    <3>3. CASE RepairWrite \/ RecoverRegister
      BY <3>3, IdleTyped DEF RepairWrite, RecoverRegister
    <3>4. QED
      BY <1>4, <3>1, <3>2, <3>3 DEF RecoveryStep
  <2>4. QED
    BY <2>1, <2>2, <2>3, FoldFrame DEF JobWell
<1>5. ASSUME NEW r \in Readers, ReadStep(r) PROVE FoldInv'
  BY <1>5, ReadFolds
<1>6. CASE Crash
  <2>1. disk' = disk /\ cache' = NoCache /\ job' = Idle /\ \A r \in Readers : reads'[r] = NotReading
    BY <1>6 DEF Crash
  <2>2. CacheWell' /\ JobWell'
    BY <2>1, IdleTyped, EmptyWell DEF CacheWell, JobWell
  <2>3. ReadsWell'
    BY <2>1, IdleTyped DEF ReadsWell, LoadsOk
  <2>4. QED
    BY <2>1, <2>2, <2>3, FoldFrame
<1>7. ASSUME NEW n \in Names, ForeignFileLands(n) \/ RecordRots(n) PROVE FoldInv'
  <2>1. UNCHANGED <<cache, job, reads>>
    BY <1>7 DEF ForeignFileLands, RecordRots
  <2>2. Truthful'
    <3>1. CASE ForeignFileLands(n)
      <4>1. disk' = Put(disk, n, [by |-> Null, version |-> n[1], ok |-> TRUE])
        BY <3>1 DEF ForeignFileLands, ForeignVersions, recordFileVersion
      <4>2. QED
        BY <4>1 DEF Truthful, Put
    <3>2. CASE RecordRots(n)
      <4>1. n \in DOMAIN disk /\ disk[n] \in FileRecs /\ disk' = [disk EXCEPT ![n].ok = FALSE]
        BY <3>2 DEF RecordRots, StoreInv, Typed, Files
      <4>2. [disk[n] EXCEPT !.ok = FALSE].version = disk[n].version
        BY <4>1 DEF FileRecs
      <4>3. DOMAIN disk' = DOMAIN disk /\ disk'[n] = [disk[n] EXCEPT !.ok = FALSE]
        BY <4>1
      <4>4. QED
        BY <4>1, <4>2, <4>3 DEF Truthful
    <3>3. QED
      BY <1>7, <3>1, <3>2
  <2>3. QED
    BY <2>1, <2>2, FoldFrame
<1>8. CASE MetaRots \/ Restart \/ UNCHANGED storeVars
  <2>1. UNCHANGED <<disk, cache, job, reads>>
    BY <1>8 DEF MetaRots, Restart, storeVars
  <2>2. QED
    BY <2>1, FoldFrame
<1>9. QED
  BY <1>1, <1>2, <1>3, <1>4, <1>5, <1>6, <1>7, <1>8 DEF StoreNext, Fault

\* As long as every file's content carries the version of its name, the cache is the
\* cold fold of what its token lists, and an append lands only on a log it has
\* folded: with what holds in any case, the store keeps all it promises.
THEOREM StoreIsSafe ==
  ASSUME ForeignSkew = FALSE
  PROVE  StoreSpec => []StoreSafe
<1>1. StoreInit => FoldInv
  BY FoldStarting
<1>2. StoreInv /\ StoreInv' /\ FoldInv /\ [StoreNext]_storeVars => FoldInv'
  BY FoldStepping
<1>3. StoreInv /\ FoldInv => StoreSafe
  <2> SUFFICES ASSUME StoreInv, FoldInv PROVE StoreSafe
    OBVIOUS
  <2>1. StoreTypeOK
    BY TypedIsTypeOK DEF StoreInv
  <2>2. UniqueVersions /\ AckedIsOnDisk /\ MetaNotAhead /\ RegistrationUsable
    BY DEF StoreInv, Recovered, RegistrationUsable, Readable, recoveredRecordFor, Registered,
           taskDirNames
  <2>3. CacheCoherent
    BY DEF FoldInv, CacheWell, Well, NamesOf, Sorted, Honest, CacheCoherent, Coherent
  <2>4. AppendKnowsItsLog
    BY DEF FoldInv, JobWell, Well, NamesOf, Sorted, Honest, AppendKnowsItsLog, Coherent
  <2>5. QED
    BY <2>1, <2>2, <2>3, <2>4 DEF StoreSafe
<1>4. QED
  BY <1>1, <1>2, <1>3, StoreInvariance, PTL DEF StoreSpec

-----------------------------------------------------------------------------
(***************************************************************************)
(* expected_version, when the counter in meta.json follows every record:   *)
(* no crash and no failed meta write between a record and its counter, and *)
(* nobody repairs a task that is still being created.                      *)
(***************************************************************************)
CounterFollows == MaxCrashes = 0 /\ MaxMetaFailures = 0 /\ RepairDuringCreate = FALSE

\* Before meta.json there is no publish.
NotYet ==
    creating.step # "done" =>
        meta.state = "missing" /\ StoreWritten = {} /\ job.kind \notin {"append", "repair"}

\* The append under way started from the version in meta.json, and its request did.
FromBase ==
    job.kind = "append" =>
        /\ job.step = "readdir" => job.version = meta.version
        /\ job.step \in Planned => job.version > meta.version
        /\ job.op \in CasOps => ops[job.op].expected = meta.version

\* meta.json counts every record but the one whose publish is not yet answered.
Counted ==
    \A n \in StoreWritten :
        \/ meta.version >= n[1]
        \/ job.kind = "append" /\ job.step \in Landed /\ job.name = n

\* A record lies above the version its request expected.
AboveBase ==
    \A n \in StoreWritten : disk[n].by \in CasOps => n[1] > ops[disk[n].by].expected

CasInv == NotYet /\ FromBase /\ Counted /\ AboveBase /\ OneMarkerPerBase

\* A step that adds no record of the store.
LEMMA CasMoves ==
  ASSUME StoreInv, CasInv, StoreWritten' = StoreWritten,
         \A n \in StoreWritten : disk'[n].by = disk[n].by,
         \A n \in StoreWritten : ops'[disk[n].by].expected = ops[disk[n].by].expected,
         NotYet', FromBase', Counted'
  PROVE  CasInv'
<1>1. AboveBase'
  BY DEF CasInv, AboveBase
<1>2. OneMarkerPerBase'
  BY DEF CasInv, OneMarkerPerBase
<1>3. QED
  BY <1>1, <1>2 DEF CasInv

\* A step that leaves the publish at work, the counter and the creation alone.
LEMMA CasStays ==
  ASSUME StoreInv, CasInv, UNCHANGED <<meta, job, ops, creating>>, StoreWritten' = StoreWritten,
         \A n \in StoreWritten : disk'[n].by = disk[n].by
  PROVE  CasInv'
<1>1. NotYet' /\ FromBase' /\ Counted'
  BY DEF CasInv, NotYet, FromBase, Counted
<1>2. QED
  BY <1>1, CasMoves

LEMMA CasCreation ==
  ASSUME StoreInv, CasInv, CreateStep
  PROVE  CasInv'
<1>1. UNCHANGED <<disk, job, ops>> /\ StoreWritten' = StoreWritten
  BY DEF CreateStep, CreateMkdir, CreateSeed, CreateWriteMeta, StoreWritten
<1>2. /\ creating.step # "done" /\ creating \in CreateRecs
      /\ meta.state = "missing" /\ StoreWritten = {} /\ job.kind \notin {"append", "repair"}
  BY DEF CreateStep, CreateMkdir, CreateSeed, CreateWriteMeta, CasInv, NotYet, StoreInv, Typed
<1>3. FromBase' /\ Counted'
  BY <1>1, <1>2 DEF FromBase, Counted
<1>4. NotYet'
  <2>1. CASE CreateMkdir \/ CreateSeed
    BY <1>1, <1>2, <2>1 DEF CreateMkdir, CreateSeed, NotYet
  <2>2. CASE CreateWriteMeta
    BY <1>2, <2>2 DEF CreateWriteMeta, CreateRecs, NotYet
  <2>3. QED
    BY <2>1, <2>2 DEF CreateStep
<1>5. QED
  BY <1>1, <1>2, <1>3, <1>4, CasMoves

\* A request that has written nothing.
LEMMA CasRequest ==
  ASSUME StoreInv, CasInv, UNCHANGED <<disk, meta, job, creating>>, NEW o \in Ops,
         ops[o].step \in {"new", "ready"}, \A p \in Ops : p # o => ops'[p] = ops[p]
  PROVE  CasInv'
<1>1. StoreWritten' = StoreWritten /\ \A n \in StoreWritten : disk[n].by \in Ops /\ disk[n].by # o
  BY DEF StoreInv, Written, Typed, Files, FileRecs, StoreWritten
<1>2. job.kind = "append" => job.op \in Ops /\ job.op # o
  BY DEF StoreInv, Appending
<1>3. NotYet' /\ FromBase' /\ Counted'
  BY <1>1, <1>2 DEF CasInv, NotYet, FromBase, Counted
<1>4. QED
  BY <1>1, <1>3, CasMoves

LEMMA CasTaking ==
  ASSUME StoreInv, CasInv, NEW o \in Ops, ObserveVersion(o) \/ AppendReadMeta(o)
  PROVE  CasInv'
<1>1. /\ UNCHANGED <<disk, meta, creating>> /\ StoreWritten' = StoreWritten
      /\ ops[o].step \in {"new", "ready"}
      /\ ops \in [Ops -> OpRecs] /\ ops[o] \in OpRecs
  BY DEF ObserveVersion, AppendReadMeta, Sendable, StoreWritten, StoreInv, Typed
<1>2. CASE ObserveVersion(o)
  <2>1. UNCHANGED job /\ \A p \in Ops : p # o => ops'[p] = ops[p]
    BY <1>1, <1>2 DEF ObserveVersion
  <2>2. QED
    BY <1>1, <2>1, CasRequest
<1>3. CASE Refused(o) /\ UNCHANGED job
  <2>1. \A p \in Ops : p # o => ops'[p] = ops[p]
    BY <1>1, <1>3 DEF Refused
  <2>2. QED
    BY <1>1, <1>3, <2>1, CasRequest
<1>4. CASE /\ AppendReadMeta(o) /\ readMeta /\ ExpectedHolds(o)
           /\ job' = [Idle EXCEPT !.kind = "append", !.step = "readdir", !.op = o,
                                  !.version = meta.version, !.spec = meta.spec]
           /\ ops' = [ops EXCEPT ![o].step = "running"]
  <2>1. meta.version \in Nat /\ meta.spec \in MaybeSpec
    BY DEF StoreInv, Typed, MetaRecs
  <2>2. /\ job'.kind = "append" /\ job'.step = "readdir" /\ job'.op = o
        /\ job'.version = meta.version
    BY <1>4, <2>1, AppendBegins DEF StoreInv
  <2>3. \A p \in Ops : ops'[p].expected = ops[p].expected
    <3>1. ops[o].expected \in Nat
      BY <1>1 DEF OpRecs
    <3>2. /\ ops'[o].expected = ops[o].expected
          /\ \A p \in Ops : p # o => ops'[p] = ops[p]
      BY <1>4, <3>1, Kinds, OpMoves DEF StoreInv
    <3>3. QED
      BY <3>2
  <2>4. FromBase'
    BY <1>1, <1>4, <2>2, <2>3 DEF FromBase, ExpectedHolds, Planned
  <2>5. Counted'
    <3>1. job.kind = "idle"
      BY <1>4, IdleTyped DEF AppendReadMeta
    <3>2. QED
      BY <1>1, <3>1 DEF CasInv, Counted
  <2>6. NotYet'
    BY <1>1, <1>4 DEF CasInv, NotYet, readMeta
  <2>7. \A n \in StoreWritten : disk[n].by \in Ops
    BY DEF StoreInv, Typed, Files, FileRecs, StoreWritten
  <2>8. QED
    BY <1>1, <2>3, <2>4, <2>5, <2>6, <2>7, CasMoves
<1>5. QED
  BY <1>2, <1>3, <1>4 DEF AppendReadMeta

\* A publish that ends before its record is on disk.
LEMMA CasRefusing ==
  ASSUME StoreInv, CasInv, UNCHANGED <<disk, meta, creating>>, job.kind = "append",
         job.step \in Unlanded, job' = Idle, Refused(job.op)
  PROVE  CasInv'
<1>1. /\ StoreWritten' = StoreWritten
      /\ \A n \in StoreWritten : disk[n].by \in Ops /\ disk[n].by # job.op
  BY DEF StoreInv, Written, Typed, Files, FileRecs, StoreWritten, Appending, Unlanded, Landed
<1>2. \A p \in Ops : p # job.op => ops'[p] = ops[p]
  BY DEF StoreInv, Typed, Refused
<1>3. Counted'
  BY <1>1 DEF CasInv, Counted, Unlanded, Landed
<1>4. NotYet' /\ FromBase'
  BY IdleTyped, <1>1 DEF CasInv, NotYet, FromBase
<1>5. QED
  BY <1>1, <1>2, <1>3, <1>4, CasMoves

\* A publish that goes on without a new record.
LEMMA CasGoesOn ==
  ASSUME StoreInv, CasInv, UNCHANGED <<disk, meta, creating, ops>>, job.kind = "append",
         job'.kind = "append", job'.op = job.op, job'.step \in Planned,
         job'.version > meta.version,
         job.step \in Landed => job'.step \in Landed /\ job'.name = job.name
  PROVE  CasInv'
<1>1. StoreWritten' = StoreWritten
  BY DEF StoreWritten
<1>2. Counted'
  BY <1>1 DEF CasInv, Counted
<1>3. NotYet' /\ FromBase'
  BY <1>1 DEF CasInv, NotYet, FromBase, Planned
<1>4. QED
  BY <1>1, <1>2, <1>3, CasMoves

LEMMA CasLinking ==
  ASSUME StoreInv, CasInv, AppendLink
  PROVE  CasInv'
<1>1. UNCHANGED <<meta, creating>> /\ job.kind = "append" /\ job.step = "link"
  BY DEF AppendLink
<1>2. CASE job.name \in DOMAIN disk
  BY <1>1, <1>2, CasRefusing DEF AppendLink, Unlanded
<1>3. CASE job.name \notin DOMAIN disk
  <2>1. /\ disk' = Put(disk, job.name, [by |-> job.op, version |-> job.version, ok |-> TRUE])
        /\ job' = [job EXCEPT !.step = "remember"] /\ UNCHANGED ops
    BY <1>3 DEF AppendLink
  <2>2. /\ job.op \in Ops /\ job.version = job.name[1] /\ job.version > meta.version
        /\ job.op \in CasOps => ops[job.op].expected = meta.version
    BY <1>1 DEF StoreInv, CasInv, Appending, FromBase, Planned
  <2>3. /\ DOMAIN disk' = DOMAIN disk \cup {job.name} /\ disk'[job.name].by = job.op
        /\ \A m \in DOMAIN disk : disk'[m] = disk[m]
    BY <1>3, <2>1 DEF Put
  <2>4. StoreWritten' = StoreWritten \cup {job.name} /\ job.name \notin StoreWritten
    BY <1>3, <2>2, <2>3, Kinds DEF StoreWritten
  <2>5. /\ job'.kind = "append" /\ job'.step = "remember" /\ job'.op = job.op
        /\ job'.name = job.name /\ job'.version = job.version
    BY <1>1, <2>1, Kinds, AppendMoves DEF StoreInv
  <2>6. \A n \in StoreWritten : disk'[n] = disk[n] /\ meta.version >= n[1]
    BY <1>1, <2>3 DEF CasInv, Counted, Landed, StoreWritten
  <2>7. Counted'
    BY <1>1, <2>4, <2>5, <2>6 DEF Counted, Landed
  <2>8. AboveBase'
    BY <1>1, <2>1, <2>2, <2>3, <2>4, <2>6 DEF CasInv, AboveBase
  <2>9. \A n \in StoreWritten : /\ disk[n].by \in CasOps /\ job.op \in CasOps
                                => ops[disk[n].by].expected # ops[job.op].expected
    <3> SUFFICES ASSUME NEW n \in StoreWritten, disk[n].by \in CasOps, job.op \in CasOps,
                        ops[disk[n].by].expected = ops[job.op].expected
                 PROVE  FALSE
      OBVIOUS
    <3>1. n[1] > meta.version /\ meta.version >= n[1]
      BY <2>2, <2>6 DEF CasInv, AboveBase
    <3>2. n[1] \in Nat /\ meta.version \in Nat
      BY NamesAreVersions DEF StoreInv, Typed, Files, MetaRecs, StoreWritten
    <3>3. QED
      BY <3>1, <3>2
  <2>10. OneMarkerPerBase'
    <3> SUFFICES ASSUME NEW m \in StoreWritten', NEW n \in StoreWritten',
                        disk'[m].by \in CasOps, disk'[n].by \in CasOps,
                        ops[disk'[m].by].expected = ops[disk'[n].by].expected
                 PROVE  m = n
      BY <2>1 DEF OneMarkerPerBase
    <3>1. CASE m \in StoreWritten /\ n \in StoreWritten
      BY <3>1, <2>6 DEF CasInv, OneMarkerPerBase
    <3>2. CASE m = job.name /\ n \in StoreWritten
      BY <3>2, <2>3, <2>6, <2>9
    <3>3. CASE m \in StoreWritten /\ n = job.name
      BY <3>3, <2>3, <2>6, <2>9
    <3>4. QED
      BY <2>4, <3>1, <3>2, <3>3
  <2>11. NotYet' /\ FromBase'
    BY <1>1, <2>1, <2>2, <2>5 DEF CasInv, NotYet, FromBase
  <2>12. QED
    BY <2>7, <2>8, <2>10, <2>11 DEF CasInv
<1>4. QED
  BY <1>2, <1>3

LEMMA CasAppending ==
  ASSUME CounterFollows, StoreInv, CasInv, AppendStep
  PROVE  CasInv'
<1>1. CASE AppendReaddir
  <2>1. UNCHANGED <<disk, meta, creating, ops>> /\ job.kind = "append" /\ job.step = "readdir"
    BY <1>1 DEF AppendReaddir
  <2>2. PICK v, n : v = NextVersion /\
          job' = [job EXCEPT !.step = "fold", !.version = v, !.name = n, !.token = foldTokenOf]
    BY <1>1 DEF AppendReaddir
  <2>3. job'.kind = "append" /\ job'.op = job.op /\ job'.step = "fold" /\ job'.version = v
    BY <2>1, <2>2, JobFields DEF JobRecs, StoreInv
  <2>4. v > meta.version
    BY <2>1, <2>2, NextIsAbove DEF CasInv, FromBase, StoreInv
  <2>5. QED
    BY <2>1, <2>3, <2>4, CasGoesOn DEF Planned, Landed
<1>2. CASE AppendFold
  <2>1. /\ UNCHANGED <<disk, meta, creating, ops>> /\ job.kind = "append" /\ job.step = "fold"
        /\ job.version > meta.version
    BY <1>2 DEF AppendFold, CasInv, FromBase, Planned
  <2>2. \/ job' = [job EXCEPT !.step = "link", !.folded = cache.folded]
        \/ job' = [job EXCEPT !.step = "load", !.plan = Plan(job.spec, job.token)]
    BY <1>2 DEF AppendFold
  <2>3. /\ job'.kind = "append" /\ job'.op = job.op /\ job'.version = job.version
        /\ job'.step \in {"link", "load"}
    BY <2>1, <2>2, JobFields DEF JobRecs, StoreInv
  <2>4. QED
    BY <2>1, <2>3, CasGoesOn DEF Planned, Landed
<1>3. CASE AppendLoad
  <2>1. /\ UNCHANGED <<disk, meta, creating>> /\ job.kind = "append" /\ job.step = "load"
        /\ job.version > meta.version
    BY <1>3 DEF AppendLoad, CasInv, FromBase, Planned
  <2>2. CASE job' = Idle /\ Refused(job.op)
    BY <2>1, <2>2, CasRefusing DEF Unlanded
  <2>3. ASSUME NEW f, job' = [job EXCEPT !.step = "link", !.folded = f], UNCHANGED ops
        PROVE  CasInv'
    <3>1. job'.kind = "append" /\ job'.op = job.op /\ job'.step = "link" /\ job'.version = job.version
      BY <2>1, <2>3, JobFields DEF JobRecs, StoreInv
    <3>2. QED
      BY <2>1, <2>3, <3>1, CasGoesOn DEF Planned, Landed
  <2>4. QED
    BY <1>3, <2>2, <2>3 DEF AppendLoad
<1>4. CASE AppendLink
  BY <1>4, CasLinking
<1>5. CASE AppendRemember
  <2>1. /\ UNCHANGED <<disk, meta, creating, ops>> /\ job.kind = "append" /\ job.step = "remember"
        /\ job' = [job EXCEPT !.step = "meta"] /\ job.version > meta.version
    BY <1>5 DEF AppendRemember, CasInv, FromBase, Planned
  <2>2. /\ job'.kind = "append" /\ job'.op = job.op /\ job'.step = "meta" /\ job'.version = job.version
        /\ job'.name = job.name
    BY <2>1, Kinds, AppendMoves DEF StoreInv
  <2>3. QED
    BY <2>1, <2>2, CasGoesOn DEF Planned, Landed
<1>6. CASE AppendWriteMeta
  <2>1. /\ UNCHANGED <<disk, creating>> /\ job.kind = "append" /\ job.step = "meta"
        /\ meta'.version = job.version /\ meta'.state = "ok" /\ job' = Idle
        /\ ops' = [ops EXCEPT ![job.op].step = "acked"]
    BY <1>6 DEF AppendWriteMeta, Acknowledge, writeMeta
  <2>2. /\ job.op \in Ops /\ job.version = job.name[1] /\ job.version > meta.version
        /\ job.version \in Nat /\ meta.version \in Nat
    BY <2>1, JobFields DEF StoreInv, Appending, CasInv, FromBase, Planned, Typed, MetaRecs
  <2>3. \A p \in Ops : ops'[p].expected = ops[p].expected
    <3>1. ops[job.op].expected \in Nat
      BY <2>2 DEF StoreInv, Typed, OpRecs
    <3>2. /\ ops'[job.op].expected = ops[job.op].expected
          /\ \A p \in Ops : p # job.op => ops'[p] = ops[p]
      BY <2>1, <2>2, <3>1, Kinds, OpMoves DEF StoreInv
    <3>3. QED
      BY <3>2
  <2>4. /\ StoreWritten' = StoreWritten
        /\ \A n \in StoreWritten : disk[n].by \in Ops /\ n[1] \in Nat
    BY <2>1, NamesAreVersions DEF StoreInv, Typed, Files, FileRecs, StoreWritten
  <2>5. Counted'
    <3>1. \A n \in StoreWritten : meta'.version >= n[1]
      BY <2>1, <2>2, <2>4 DEF CasInv, Counted
    <3>2. QED
      BY <2>4, <3>1 DEF Counted
  <2>6. NotYet' /\ FromBase'
    BY <2>1, <2>4, IdleTyped DEF CasInv, NotYet, FromBase
  <2>7. QED
    BY <2>1, <2>3, <2>4, <2>5, <2>6, CasMoves
<1>7. CASE AppendMetaFails
  BY <1>7 DEF AppendMetaFails, CounterFollows, StoreInv, Typed, FaultRecs
<1>8. QED
  BY <1>1, <1>2, <1>3, <1>4, <1>5, <1>6, <1>7 DEF AppendStep

LEMMA CasRecovery ==
  ASSUME CounterFollows, StoreInv, CasInv, RecoveryStep
  PROVE  CasInv'
<1>1. UNCHANGED <<disk, ops, creating>> /\ StoreWritten' = StoreWritten
  BY DEF RecoveryStep, RepairScan, RepairWrite, RecoverRegister, RecoverCopy, StoreWritten
<1>2. \A n \in StoreWritten : disk[n].by \in Ops /\ n[1] \in Nat
  BY NamesAreVersions DEF StoreInv, Typed, Files, FileRecs, StoreWritten
<1>3. CASE RepairScan
  <2>1. job.kind = "idle" /\ UNCHANGED meta /\ creating.step = "done"
    BY <1>3, IdleTyped DEF RepairScan, CounterFollows
  <2>2. maxRecordVersionOf(taskDirNames) \in Nat
    BY MaxRecordVersion DEF StoreInv, Typed, Files, taskDirNames
  <2>3. PICK sp \in Specs : job' = [Idle EXCEPT !.kind = "repair", !.step = "write", !.spec = sp,
                                                !.version = maxRecordVersionOf(taskDirNames)]
    BY <1>3 DEF RepairScan
  <2>4. sp \in MaybeSpec
    BY Kinds
  <2>5. job'.kind = "repair"
    BY <2>2, <2>3, <2>4, RepairBegins DEF StoreInv
  <2>6. NotYet' /\ FromBase' /\ Counted'
    BY <1>1, <2>1, <2>5 DEF CasInv, NotYet, FromBase, Counted
  <2>7. QED
    BY <1>1, <2>6, CasMoves
<1>4. CASE RepairWrite
  <2>1. job.kind = "repair" /\ job' = Idle /\ meta'.version = job.version /\ meta'.state = "ok"
    BY <1>4 DEF RepairWrite, writeMeta
  <2>2. \A n \in StoreWritten : meta'.version >= n[1]
    BY <1>2, <2>1, JobFields DEF StoreInv, Repairing
  <2>3. NotYet' /\ FromBase' /\ Counted'
    BY <1>1, <2>1, <2>2, IdleTyped DEF CasInv, NotYet, FromBase, Counted
  <2>4. QED
    BY <1>1, <2>3, CasMoves
<1>5. ASSUME job.kind \in {"idle", "recover"}, job'.kind \in {"idle", "recover"}, UNCHANGED meta
      PROVE  CasInv'
  <2>1. NotYet' /\ FromBase' /\ Counted'
    BY <1>1, <1>5 DEF CasInv, NotYet, FromBase, Counted
  <2>2. QED
    BY <1>1, <2>1, CasMoves
<1>6. CASE RecoverRegister
  BY <1>5, <1>6, IdleTyped DEF RecoverRegister
<1>7. ASSUME NEW n \in Names, NEW b \in Sources, RecoverCopy(n, b) PROVE CasInv'
  <2>1. job' = [Idle EXCEPT !.kind = "recover", !.step = "register", !.name = n, !.source = b]
    BY <1>7 DEF RecoverCopy
  <2>2. job'.kind = "recover"
    BY <2>1, RecoveryBegins DEF StoreInv
  <2>3. QED
    BY <1>5, <1>7, <2>2, IdleTyped DEF RecoverCopy
<1>8. QED
  BY <1>3, <1>4, <1>6, <1>7 DEF RecoveryStep

LEMMA CasStepping ==
  ASSUME CounterFollows, StoreInv, CasInv, [StoreNext]_storeVars
  PROVE  CasInv'
<1>1. CASE CreateStep
  BY <1>1, CasCreation
<1>2. ASSUME NEW o \in Ops, ObserveVersion(o) \/ AppendReadMeta(o) PROVE CasInv'
  BY <1>2, CasTaking
<1>3. CASE AppendStep
  BY <1>3, CasAppending
<1>4. CASE RecoveryStep
  BY <1>4, CasRecovery
<1>5. ASSUME NEW r \in Readers, ReadStep(r) PROVE CasInv'
  <2>1. UNCHANGED <<disk, meta, job, ops, creating>> /\ StoreWritten' = StoreWritten
    BY <1>5 DEF ReadStep, ReadMeta, ReadNames, ReadRecords, ReadFold, ReadLoad, StoreWritten
  <2>2. QED
    BY <2>1, CasStays
<1>6. CASE Crash
  BY <1>6 DEF Crash, CounterFollows, StoreInv, Typed, FaultRecs
<1>7. CASE MetaRots
  <2>1. UNCHANGED <<disk, job, ops, creating>> /\ StoreWritten' = StoreWritten
        /\ meta.state = "ok" /\ meta'.version = meta.version
    BY <1>7 DEF MetaRots, StoreWritten, StoreInv, Typed, MetaRecs
  <2>2. NotYet' /\ FromBase' /\ Counted'
    BY <2>1 DEF CasInv, NotYet, FromBase, Counted
  <2>3. QED
    BY <2>1, <2>2, CasMoves
<1>8. ASSUME NEW n \in Names, ForeignFileLands(n) PROVE CasInv'
  <2>1. UNCHANGED <<meta, job, ops, creating>> /\ n \notin DOMAIN disk
    BY <1>8 DEF ForeignFileLands
  <2>2. PICK v : disk' = Put(disk, n, [by |-> Null, version |-> v, ok |-> TRUE])
    BY <1>8 DEF ForeignFileLands
  <2>3. /\ DOMAIN disk' = DOMAIN disk \cup {n} /\ disk'[n].by = Null
        /\ \A m \in DOMAIN disk : disk'[m] = disk[m]
    BY <2>1, <2>2 DEF Put
  <2>4. StoreWritten' = StoreWritten /\ \A m \in StoreWritten : disk'[m].by = disk[m].by
    BY <2>1, <2>3 DEF StoreWritten
  <2>5. QED
    BY <2>1, <2>4, CasStays
<1>9. ASSUME NEW n \in Names, RecordRots(n) PROVE CasInv'
  <2>1. /\ UNCHANGED <<meta, job, ops, creating>> /\ n \in DOMAIN disk /\ disk[n] \in FileRecs
        /\ disk' = [disk EXCEPT ![n].ok = FALSE]
    BY <1>9 DEF RecordRots, StoreInv, Typed, Files
  <2>2. [disk[n] EXCEPT !.ok = FALSE].by = disk[n].by
    BY <2>1 DEF FileRecs
  <2>3. /\ DOMAIN disk' = DOMAIN disk /\ disk'[n] = [disk[n] EXCEPT !.ok = FALSE]
        /\ \A m \in DOMAIN disk : m # n => disk'[m] = disk[m]
    BY <2>1
  <2>4. StoreWritten' = StoreWritten /\ \A m \in StoreWritten : disk'[m].by = disk[m].by
    BY <2>2, <2>3 DEF StoreWritten
  <2>5. QED
    BY <2>1, <2>4, CasStays
<1>10. CASE Restart \/ UNCHANGED storeVars
  <2>1. UNCHANGED <<disk, meta, job, ops, creating>> /\ StoreWritten' = StoreWritten
    BY <1>10 DEF Restart, storeVars, StoreWritten
  <2>2. QED
    BY <2>1, CasStays
<1>11. QED
  BY <1>1, <1>2, <1>3, <1>4, <1>5, <1>6, <1>7, <1>8, <1>9, <1>10 DEF StoreNext, Fault

\* Two publishes that expect the same version never both land, whatever foreign
\* files come and whatever rots, as long as no crash and no failed meta write
\* leaves the counter behind and no repair overtakes the creation. (With a failed
\* meta write they do: the run Hub_stale_cas.)
THEOREM OneMarkerLands ==
  ASSUME CounterFollows
  PROVE  StoreSpec => []OneMarkerPerBase
<1>1. StoreInit => CasInv
  <2> SUFFICES ASSUME StoreInit PROVE CasInv
    OBVIOUS
  <2>1. StoreWritten = {} /\ job.kind = "idle" /\ meta.state = "missing"
    BY IdleTyped DEF StoreInit, StoreWritten, Nothing
  <2>2. QED
    BY <2>1 DEF CasInv, NotYet, FromBase, Counted, AboveBase, OneMarkerPerBase
<1>2. StoreInv /\ CasInv /\ [StoreNext]_storeVars => CasInv'
  BY CasStepping
<1>3. CasInv => OneMarkerPerBase
  BY DEF CasInv
<1>4. QED
  BY <1>1, <1>2, <1>3, StoreInvariance, PTL DEF StoreSpec
=============================================================================
