------------------------------- MODULE TaskLog -------------------------------
(***************************************************************************)
(* One task's record log and the state derived from it.  A record lands    *)
(* either through the append door of the Hub store, with the next version, *)
(* or out of band (a git pull into the task directory), where a version    *)
(* may repeat or be skipped.  Nothing is refused: an out-of-place record   *)
(* lands and warns.  The derived cursor is the fold of RecordLint.         *)
(***************************************************************************)
EXTENDS RecordLint

CONSTANTS Payloads,    \* the records that may land, without their version
          MaxLog       \* bound on the number of records

ASSUME PayloadsAssumption ==
    Payloads \subseteq [content_type : ContentTypes, role : Roles \cup MixedRoles,
                        arg : Args, ref_version : Nat,
                        exitOk : BOOLEAN, scopeOk : BOOLEAN]
ASSUME MaxLogAssumption == MaxLog \in Nat

VARIABLES flow,      \* meta.flow, fixed at create
          baseline,  \* the description has exit conditions, fixed at create
          cursor,    \* the derived state of the log so far
          landed,    \* records in the log
          judged     \* history: reviews that met the reviewing row of the table

vars == <<flow, baseline, cursor, landed, judged>>

Record(p, v) ==
    [version |-> v, content_type |-> p.content_type, role |-> p.role, arg |-> p.arg,
     ref_version |-> p.ref_version, exitOk |-> p.exitOk, scopeOk |-> p.scopeOk]

InTableReview(r) ==
    /\ r.content_type = "review"
    /\ cursor.status = "reviewing"
    /\ fold(cursor.status, r, flow).warning = NoWarning

Init ==
    /\ flow \in Flows
    /\ baseline \in BOOLEAN
    /\ cursor = initialLintCursor(flow)
    /\ landed = 0
    /\ judged = 0

Land(r) ==
    /\ landed < MaxLog
    /\ landed' = landed + 1
    /\ cursor' = foldWithLint(cursor, r, flow, baseline)
    /\ judged' = judged + (IF InTableReview(r) THEN 1 ELSE 0)
    /\ UNCHANGED <<flow, baseline>>

\* Store.append: the next free version.
AppendRecord(p) == Land(Record(p, cursor.prevVersion + 1))

\* A file that appears beside the store's own: a repeated or a skipped version.
LandOutOfBand(p) ==
    \E v \in {cursor.prevVersion, cursor.prevVersion + 2} :
        /\ v >= 1
        /\ Land(Record(p, v))

Next == \E p \in Payloads : AppendRecord(p) \/ LandOutOfBand(p)

Spec == Init /\ [][Next]_vars

\* The same log without files from elsewhere: the store alone writes it.
AppendSpec == Init /\ [][\E p \in Payloads : AppendRecord(p)]_vars

-----------------------------------------------------------------------------
WarningCodes == FoldCodes \cup LintCodes

Issues == [root : Nat, last : Nat, round : Nat, requiredRef : Nat]

\* Every part of the cursor has its type, through every record that may land.
TypeOK ==
    /\ flow \in Flows
    /\ baseline \in BOOLEAN
    /\ cursor \in [status : Statuses, prevVersion : Nat,
                   warnings : SUBSET [version : Nat, code : WarningCodes, gate : BOOLEAN],
                   lintIssues : [LintCodes -> [Roles -> Issues]],
                   pendingFailDesign : Nat, pending_since : Nat, round_count : Nat]
    /\ landed \in Nat
    /\ judged \in Nat

\* A flow never reaches the statuses it has no row for: direct is never sent
\* back to design, solo is never in review or revision (VERDICT_TARGET_DIRECT,
\* the solo rows of fold).
FlowStatuses ==
    /\ flow # "full" => cursor.status # "designing"
    /\ flow = "solo" => cursor.status \notin {"reviewing", "revising"}

\* A legal verdict outside its row parks the task at the approval gate, and it
\* stays parked until a decision: while a gate warning is open no record moves
\* the task on (foldOntoCursor, reviewGateWarnings).
GateHoldsApproval ==
    GateWarnings(cursor.warnings) # {} => cursor.status = "pending_approval"

\* Outside solo, a task that awaits approval although no review ever met the
\* reviewing row shows needs_attention: a human is never asked to approve
\* unreviewed work as if it were reviewed.
UnjudgedWorkIsFlagged ==
    (cursor.status = "pending_approval" /\ flow # "solo" /\ judged = 0)
        => needs_attention(cursor)

\* Each judged review had a delivery of its own: reviewing is entered only by a
\* code_changes or revision that round_count counted.
ReviewsFollowDeliveries ==
    judged + (IF cursor.status = "reviewing" THEN 1 ELSE 0) <= cursor.round_count

\* A task sent back to design remembers the fail_design review its next
\* revision must reference, however the log went on (pendingFailDesign).
SentBackRemembersReview ==
    (baseline /\ cursor.status = "designing" /\ cursor.round_count > 0)
        => cursor.pendingFailDesign # 0

\* An open lint issue is shown, and a shown lint warning is open: the issue
\* list and the warnings array, which warn and clear edit separately, agree.
IssuesMatchWarnings ==
    {<<w.code, w.version>> : w \in {x \in cursor.warnings : x.code \in LintCodes}}
  = UNION {{<<c, cursor.lintIssues[c][p].last>> :
                p \in {q \in Roles : IsIssue(cursor.lintIssues[c][q])}} : c \in LintCodes}

\* What the lints show is what they know.
LintSound == IssuesMatchWarnings /\ SentBackRemembersReview

\* What the derived state promises whoever reads it, after any log.
LogSound ==
    /\ TypeOK
    /\ FlowStatuses /\ GateHoldsApproval /\ UnjudgedWorkIsFlagged /\ ReviewsFollowDeliveries

StaysClosed == cursor.status = "closed" => cursor'.status = "closed"

\* closed is absorbing: whatever lands later, the task stays closed.
ClosedStays == [][StaysClosed]_vars

DropsGateOnlyLeaving ==
    (\E w \in GateWarnings(cursor.warnings) : w \notin cursor'.warnings)
        => cursor'.status # "pending_approval"

\* Only a decision closes the review gate; an acknowledging note, a correction
\* or a further delivery leaves every gate warning open.
GateClearedByDecision == [][DropsGateOnlyLeaving]_vars

\* The task moves on by decision only where the tables say so: a closed task
\* stays closed and an open gate waits for its decision.
DecisionsStand == [][StaysClosed /\ DropsGateOnlyLeaving]_vars
=============================================================================
