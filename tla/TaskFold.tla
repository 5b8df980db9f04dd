------------------------------ MODULE TaskFold ------------------------------
(***************************************************************************)
(* The derivation of a task's status from its append-only record log:      *)
(* src/core/hub/state-machine.ts.  Pure operators, no state.               *)
(*                                                                         *)
(* A record keeps only what the fold reads:                                *)
(*   version       its number in the log                                   *)
(*   content_type  a known type, or "other" for any unknown string         *)
(*   role          the role that wrote it, as written                      *)
(*   arg           payload.ack of a note ("ack" or "plain"), the verdict   *)
(*                 of a review, the decision of a decision ("invalid" for  *)
(*                 a missing or unknown value), "none" otherwise           *)
(* A warning is [version, code, gate]; gate marks the members of           *)
(* reviewGateWarnings, which the code keeps as exact warning objects.      *)
(***************************************************************************)
EXTENDS Naturals

Flows == {"full", "direct", "solo"}

Statuses == {"designing", "implementing", "reviewing", "revising",
             "pending_approval", "approved", "closed"}

Verdicts == {"pass", "blocked_external", "fail_code", "fail_design"}

Decisions == {"approve", "reject", "close"}

ContentTypes == {"design", "code_changes", "review", "revision", "note",
                 "decision", "other"}

Roles == {"architect", "executor", "reviewer", "human"}

Args == {"none", "ack", "plain", "invalid"} \cup Verdicts \cup Decisions

FoldCodes == {"OUT_OF_TABLE", "CLOSED_ABSORB", "INVALID_VERDICT",
              "VERSION_GAP", "VERSION_DUPLICATE"}

(***************************************************************************)
(* Who the task waits for in each status, and where each flow starts.      *)
(***************************************************************************)
WAITING_FOR_BASE ==
    [designing |-> "agent:architect", implementing |-> "agent:executor",
     reviewing |-> "agent:reviewer", revising |-> "agent:executor",
     pending_approval |-> "human", approved |-> "human", closed |-> "none"]

INITIAL_STATUS == [full |-> "designing", direct |-> "implementing",
                   solo |-> "implementing"]

VERDICT_TARGET ==
    [pass |-> "pending_approval", blocked_external |-> "pending_approval",
     fail_code |-> "revising", fail_design |-> "designing"]

(***************************************************************************)
(* The verdicts a flow's reviewing row knows: direct has no designing      *)
(* status, solo has no reviewing row at all.                               *)
(***************************************************************************)
TableVerdicts(flow) ==
    CASE flow = "full"   -> Verdicts
      [] flow = "direct" -> Verdicts \ {"fail_design"}
      [] flow = "solo"   -> {}

IsAck(r) == r.content_type = "note" /\ r.arg = "ack"

IsClose(r) == r.content_type = "decision" /\ r.arg = "close"

NoWarning == "none"

Stay(status, warning) == [status |-> status, warning |-> warning]

Go(status) == [status |-> status, warning |-> NoWarning]

(***************************************************************************)
(* One table row per content type.                                         *)
(***************************************************************************)
FoldNote(status, r) ==
    IF r.arg # "ack" /\ r.role = "executor" /\ status = "reviewing"
    THEN Go("revising") ELSE Go(status)

FoldDesign(status, flow) ==
    IF flow = "full"
    THEN IF status = "designing" THEN Go("implementing")
                                 ELSE Stay(status, "OUT_OF_TABLE")
    ELSE IF status = "implementing" THEN Go(status)
                                    ELSE Stay(status, "OUT_OF_TABLE")

FoldCodeChanges(status, flow) ==
    IF status # "implementing" THEN Stay(status, "OUT_OF_TABLE")
    ELSE IF flow = "solo" THEN Go("pending_approval") ELSE Go("reviewing")

\* Mutant: the catch-all row parks the task without a warning.
FoldReview_Silent(status, r, flow) ==
    IF r.arg \in Verdicts
    THEN Go(IF status = "reviewing" /\ r.arg \in TableVerdicts(flow)
            THEN VERDICT_TARGET[r.arg] ELSE "pending_approval")
    ELSE Stay(status, "OUT_OF_TABLE")

FoldReview(status, r, flow) ==
    IF r.arg \in Verdicts
    THEN IF status = "reviewing" /\ r.arg \in TableVerdicts(flow)
         THEN Go(VERDICT_TARGET[r.arg])
         ELSE Stay("pending_approval", "OUT_OF_TABLE")
    ELSE Stay(status, IF flow = "solo" \/ status # "reviewing"
                      THEN "OUT_OF_TABLE" ELSE "INVALID_VERDICT")

FoldRevision(status, flow) ==
    IF flow # "solo" /\ (status = "revising" \/ (flow = "full" /\ status = "implementing"))
    THEN Go("reviewing") ELSE Stay(status, "OUT_OF_TABLE")

FoldDecision(status, r, flow) ==
    IF r.arg = "close" THEN Go("closed")
    ELSE IF r.arg \in {"approve", "reject"} /\ status = "pending_approval"
    THEN Go(CASE r.arg = "approve"                   -> "approved"
              [] r.arg = "reject" /\ flow = "solo"   -> "implementing"
              [] r.arg = "reject" /\ flow # "solo"   -> "revising")
    ELSE Stay(status, "OUT_OF_TABLE")

(***************************************************************************)
(* fold: the next status and this record's own warning.  A note never      *)
(* warns; a closed task absorbs everything but a note and another close.   *)
(***************************************************************************)
fold(status, r, flow) ==
    IF r.content_type = "note" THEN FoldNote(status, r)
    ELSE IF status = "closed"
    THEN Stay("closed", IF IsClose(r) THEN NoWarning ELSE "CLOSED_ABSORB")
    ELSE CASE r.content_type = "design"       -> FoldDesign(status, flow)
           [] r.content_type = "code_changes" -> FoldCodeChanges(status, flow)
           [] r.content_type = "review"       -> FoldReview(status, r, flow)
           [] r.content_type = "revision"     -> FoldRevision(status, flow)
           [] r.content_type = "decision"     -> FoldDecision(status, r, flow)
           [] OTHER                           -> Stay(status, "OUT_OF_TABLE")

(***************************************************************************)
(* The resumable fold state and one iteration of foldOntoCursor's loop:    *)
(* first what the record clears, then the structural anomaly, then the     *)
(* record's own warning.                                                   *)
(***************************************************************************)
initialCursor(flow) ==
    [status |-> INITIAL_STATUS[flow], prevVersion |-> 0, warnings |-> {}]

GateWarnings(warnings) == {w \in warnings : w.gate}

\* Mutant: a decision the table does not know clears the review gate too.
WarningsKept_AnyDecision(cursor, r, step) ==
    IF IsClose(r) THEN {}
    ELSE IF r.content_type = "decision" /\ cursor.status = "pending_approval"
    THEN cursor.warnings \ GateWarnings(cursor.warnings)
    ELSE IF IsAck(r) THEN GateWarnings(cursor.warnings)
    ELSE cursor.warnings

WarningsKept(cursor, r, step) ==
    IF IsClose(r) THEN {}
    ELSE IF r.content_type = "decision" /\ cursor.status = "pending_approval"
            /\ step.warning = NoWarning
    THEN cursor.warnings \ GateWarnings(cursor.warnings)
    ELSE IF IsAck(r) THEN GateWarnings(cursor.warnings)
    ELSE cursor.warnings

StructuralWarning(prevVersion, r) ==
    {[version |-> r.version, code |-> c, gate |-> FALSE] : c \in
        IF r.version = prevVersion THEN {"VERSION_DUPLICATE"}
        ELSE IF r.version = prevVersion + 1 THEN {} ELSE {"VERSION_GAP"}}

StepWarning(r, step) ==
    IF step.warning = NoWarning THEN {}
    ELSE {[version |-> r.version, code |-> step.warning,
           gate |-> /\ r.content_type = "review"
                    /\ step.warning = "OUT_OF_TABLE"
                    /\ r.arg \in Verdicts]}

foldOntoCursor(cursor, r, flow) ==
    LET step == fold(cursor.status, r, flow)
    IN  [status |-> step.status,
         prevVersion |-> r.version,
         warnings |-> WarningsKept(cursor, r, step)
                        \cup StructuralWarning(cursor.prevVersion, r)
                        \cup StepWarning(r, step)]

(***************************************************************************)
(* The projection every reader shows: attention outranks the status.       *)
(***************************************************************************)
needs_attention(cursor) == cursor.warnings # {}

waiting_for(cursor) ==
    IF needs_attention(cursor) THEN "human" ELSE WAITING_FOR_BASE[cursor.status]
=============================================================================
