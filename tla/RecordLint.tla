----------------------------- MODULE RecordLint -----------------------------
(***************************************************************************)
(* The diagnostic overlay on the fold: src/core/hub/record-lint.ts.  The   *)
(* fold of TaskFold stays the only authority for the status; the overlay   *)
(* adds the four lint warnings, their correction rounds, the fail_design   *)
(* review a later revision must answer, and the delivery counter.          *)
(*                                                                         *)
(* On top of TaskFold's fields a record carries                            *)
(*   ref_version  payload.ref_version, 0 when absent                       *)
(*   exitOk       the body answers every exit condition of the task        *)
(*   scopeOk      the body has its single, filled out-of-scope section     *)
(* How a body is parsed into exitOk and scopeOk is left out.               *)
(*                                                                         *)
(* lintIssues is kept as a function of (code, role): warn replaces the     *)
(* issue of its own code and role, so there is never a second one.         *)
(***************************************************************************)
EXTENDS TaskFold

ReviewCodes == {"REVIEW_EXIT_CONDITIONS_INCOMPLETE", "REVIEW_SCOPE_SECTION_MISSING"}

\* A role as an agent may have typed it, and record.role.toLowerCase().
MixedRoles == {"Architect", "Executor", "Reviewer", "Human"}

toLowerCase(role) ==
    CASE role = "Architect" -> "architect"
      [] role = "Executor"  -> "executor"
      [] role = "Reviewer"  -> "reviewer"
      [] role = "Human"     -> "human"
      [] OTHER              -> role

LintCodes == ReviewCodes \cup {"NON_CANONICAL_ROLE", "EXPECTED_REVISION"}

\* root = 0 encodes "no issue": record versions start at 1.
NoIssue == [root |-> 0, last |-> 0, round |-> 0, requiredRef |-> 0]

NoIssues == [c \in LintCodes |-> [p \in Roles |-> NoIssue]]

IsIssue(issue) == issue.root # 0

(***************************************************************************)
(* The cursor a fold cache or a cold replay starts from.  pendingFailDesign*)
(* 0 is "undefined"; pending_since is the version of the record that       *)
(* entered pending_approval, 0 for null.                                   *)
(***************************************************************************)
initialLintCursor(flow) ==
    [status |-> initialCursor(flow).status,
     prevVersion |-> initialCursor(flow).prevVersion,
     warnings |-> initialCursor(flow).warnings,
     lintIssues |-> NoIssues, pendingFailDesign |-> 0,
     pending_since |-> 0, round_count |-> 0]

(***************************************************************************)
(* An overlay is the pair (warnings, issues) the closures clear and warn   *)
(* update.  clear drops every warning of the issue's code and version.     *)
(***************************************************************************)
Overlay(warnings, issues) == [warnings |-> warnings, issues |-> issues]

clear(o, code, role) ==
    LET issue == o.issues[code][role]
    IN  IF IsIssue(issue)
        THEN Overlay({w \in o.warnings : ~(w.code = code /\ w.version = issue.last)},
                     [o.issues EXCEPT ![code][role] = NoIssue])
        ELSE o

warn(o, code, r, requiredRef) ==
    LET previous == o.issues[code][toLowerCase(r.role)]
        cleared  == clear(o, code, toLowerCase(r.role))
    IN  Overlay(cleared.warnings \cup {[version |-> r.version, code |-> code, gate |-> FALSE]},
                [cleared.issues EXCEPT ![code][toLowerCase(r.role)] =
                    [root |-> IF IsIssue(previous) THEN previous.root ELSE r.version,
                     last |-> r.version, round |-> previous.round + 1,
                     requiredRef |-> requiredRef]])

(***************************************************************************)
(* A correction note of the same, canonically written role addresses an    *)
(* issue by the version of its first or its latest diagnosis.              *)
(***************************************************************************)
Targets(o, code, r) ==
    /\ r.content_type = "note" /\ r.arg # "ack" /\ r.role \in Roles
    /\ IsIssue(o.issues[code][r.role])
    /\ r.ref_version \in {o.issues[code][r.role].root, o.issues[code][r.role].last}

\* Mutant: ack leaves the issue list alone.
Acknowledged_CloseOnly(issues, r) == IF IsClose(r) THEN NoIssues ELSE issues

\* ack and close drop every issue before the record itself is linted.
Acknowledged(issues, r) == IF IsAck(r) \/ IsClose(r) THEN NoIssues ELSE issues

LintRole(o, r) ==
    IF r.role # toLowerCase(r.role) THEN warn(o, "NON_CANONICAL_ROLE", r, 0)
    ELSE IF Targets(o, "NON_CANONICAL_ROLE", r)
    THEN clear(o, "NON_CANONICAL_ROLE", r.role) ELSE o

Satisfied(code, r) ==
    IF code = "REVIEW_EXIT_CONDITIONS_INCOMPLETE" THEN r.exitOk ELSE r.scopeOk

LintReview(o, code, r, baseline) ==
    IF ~baseline \/ (r.content_type # "review" /\ ~Targets(o, code, r)) THEN o
    ELSE IF Satisfied(code, r) THEN clear(o, code, toLowerCase(r.role))
    ELSE warn(o, code, r, 0)

(***************************************************************************)
(* The fail_design review still waiting for a revision that answers it.    *)
(***************************************************************************)
PendingAfterReview(pending, r, before, after, flow, baseline) ==
    IF r.content_type # "review" THEN pending
    ELSE IF /\ flow = "full" /\ before = "reviewing" /\ after = "designing"
            /\ r.arg = "fail_design" /\ baseline
    THEN r.version
    ELSE IF before = "reviewing" /\ after # "designing" THEN 0
    ELSE pending

ExpectedRef(pending, o, r) ==
    IF pending # 0 THEN pending ELSE o.issues["EXPECTED_REVISION"][toLowerCase(r.role)].requiredRef

\* ref_version === expected also holds when both are undefined (0 here).
ValidRevision(pending, o, r, before, after) ==
    /\ r.content_type = "revision"
    /\ before \in {"revising", "implementing"}
    /\ after = "reviewing"
    /\ r.ref_version = ExpectedRef(pending, o, r)

MissedRevision(pending, o, r, before) ==
    LET issue == o.issues["EXPECTED_REVISION"][toLowerCase(r.role)]
    IN  \/ before = "implementing" /\ r.content_type = "code_changes" /\ pending # 0
        \/ /\ IsIssue(issue) /\ pending = issue.requiredRef
           /\ r.content_type = "revision" /\ before # "closed"

LintRevision(o, pending, r, before, after) ==
    IF ValidRevision(pending, o, r, before, after)
    THEN clear(o, "EXPECTED_REVISION", toLowerCase(r.role))
    ELSE IF MissedRevision(pending, o, r, before)
    THEN warn(o, "EXPECTED_REVISION", r, ExpectedRef(pending, o, r))
    ELSE o

Delivered(r, before, after) ==
    /\ before # after
    /\ r.content_type \in {"code_changes", "revision"}
    /\ after \in {"reviewing", "pending_approval"}

PendingSince(cursor, r, after) ==
    IF after # "pending_approval" THEN 0
    ELSE IF cursor.status = "pending_approval" THEN cursor.pending_since
    ELSE r.version

(***************************************************************************)
(* foldWithLint for one record, in the order of the loop body: the fold,   *)
(* the role, the two review checks, the pending review, the revision.      *)
(***************************************************************************)
foldWithLint(cursor, r, flow, baseline) ==
    LET next    == foldOntoCursor(cursor, r, flow)
        start   == Overlay(next.warnings, Acknowledged(cursor.lintIssues, r))
        roled   == LintRole(start, r)
        exited  == LintReview(roled, "REVIEW_EXIT_CONDITIONS_INCOMPLETE", r, baseline)
        scoped  == LintReview(exited, "REVIEW_SCOPE_SECTION_MISSING", r, baseline)
        pending == PendingAfterReview(cursor.pendingFailDesign, r, cursor.status,
                                      next.status, flow, baseline)
        valid   == ValidRevision(pending, scoped, r, cursor.status, next.status)
        final   == LintRevision(scoped, pending, r, cursor.status, next.status)
    IN  [status |-> next.status,
         prevVersion |-> next.prevVersion,
         warnings |-> final.warnings,
         lintIssues |-> final.issues,
         pendingFailDesign |-> IF valid /\ r.ref_version = pending THEN 0 ELSE pending,
         pending_since |-> PendingSince(cursor, r, next.status),
         round_count |-> cursor.round_count +
                         (IF Delivered(r, cursor.status, next.status) THEN 1 ELSE 0)]
=============================================================================
