----------------------------- MODULE HerdrProofs -----------------------------
(***************************************************************************)
(* The Herdr host: what the prompt delivery, the panes of the agents and   *)
(* the system panes promise, for any number of attempts, tasks, roles, ups *)
(* and panes and any faults.                                               *)
(***************************************************************************)
EXTENDS PromptDelivery, PaneLife, SysPanes, FiniteSetTheorems, TLAPS

(***************************************************************************)
(* PromptDelivery: the delivery of a prompt and the Notifier's handling of *)
(* its outcome.                                                            *)
(***************************************************************************)
AttemptPcs == {"none", "baseline", "text", "enter", "observe", "over"}
ReadErrors == {"none", "fault", "identity"}
SendKinds == {"not-sent", "sent", "uncertain"}
EnterKinds == {"not-attempted", "not-sent", "sent", "uncertain"}
Outcomes == {"none", "not-sent", "unconfirmed"}
Texts == {"no", "staged", "submitted", "lost"}
HandlerPcs == {"none", "canAct", "settle", "settled", "screen", "gate", "before", "final",
               "press", "watch", "over"}

AttemptRecs == [pc : AttemptPcs, base : AgentStatus, settling : BOOLEAN, last : AgentStatus,
                err : ReadErrors, text : SendKinds, calls : Nat, enter : EnterKinds,
                flip : BOOLEAN, known : BOOLEAN, outcome : Outcomes]
HandlerRecs == [pc : HandlerPcs, reeval : BOOLEAN, idle : Nat]
ToldRecs == [alerted : SUBSET Attempts, worked : SUBSET Attempts, seen : SUBSET Attempts]

DeliveryTyped ==
    /\ dl \in [Attempts -> AttemptRecs]
    /\ ev = [a \in Attempts |-> ev[a]]
    /\ copies \in [Attempts -> Nat]
    /\ hd \in [Handlers -> HandlerRecs]
    /\ claimed \in SUBSET Attempts
    /\ busy \in BOOLEAN
    /\ typed \in [Attempts -> Texts]
    /\ keys \in [Attempts -> Nat]
    /\ told \in ToldRecs

FinishedAttempt == [FreshAttempt EXCEPT !.pc = "over", !.outcome = "unconfirmed"]

LEMMA FinishFacts ==
    ASSUME NEW a \in Attempts, NEW d, NEW reason, NEW inBudget, finish(a, d, reason, inBudget)
    PROVE  /\ dl' = [dl EXCEPT ![a] = FinishedAttempt]
           /\ \E n \in 0..MaxEvents :
                /\ copies' = [copies EXCEPT ![a] = n]
                /\ ev' = [ev EXCEPT ![a] = IF n = 0 THEN NoEvidence ELSE Evidence(d, reason, inBudget)]
  BY DEF finish, FinishedAttempt

LEMMA FreshTyped == FreshAttempt \in AttemptRecs /\ FinishedAttempt \in AttemptRecs
  BY DEF FreshAttempt, FinishedAttempt, AttemptRecs, AttemptPcs, ReadErrors, SendKinds, EnterKinds, Outcomes, AgentStatus

LEMMA ObservedTyped ==
    ASSUME NEW d \in AttemptRecs, NEW s \in StatusSample
    PROVE  /\ Observed(d, s) \in AttemptRecs
           /\ \A f \in {"pc", "base", "settling", "text", "calls", "enter", "flip", "known", "outcome"} :
                Observed(d, s)[f] = d[f]
           /\ s \in AgentStatus => Observed(d, s).last = s /\ Observed(d, s).err = "none"
  BY DEF Observed, AttemptRecs, ReadErrors, AgentStatus, StatusSample

(***************************************************************************)
(* The inductive invariant.                                                *)
(***************************************************************************)
\* An attempt on its way: what it has sent, and what is in the pane.
Way(d, t) ==
    /\ d.pc \in {"none", "baseline", "text"} => /\ t = "no" /\ d.text = "not-sent" /\ d.calls = 0
                                                /\ d.enter = "not-attempted"
    /\ d.pc \in {"enter", "observe"} => d.text = "sent" /\ d.calls = 1
    /\ d.pc = "enter" => d.enter = "not-attempted"
    /\ d.pc \in {"text", "enter", "observe"} => d.base # "unknown"
    /\ d.pc = "observe" => d.enter = "sent" /\ d.base # "working"
    /\ d.pc # "over" => ~d.flip /\ d.outcome = "none"
    /\ d.outcome = "not-sent" => t = "no"

WayInv == \A a \in Attempts : Way(dl[a], typed[a])

\* The event of an attempt comes after it, and nobody handles or claims it before.
Untouched(a) ==
    /\ ev[a] = NoEvidence /\ copies[a] = 0
    /\ a \notin claimed /\ a \notin told.seen

EventInv ==
    /\ \A a \in Attempts : dl[a].pc # "over" => Untouched(a)
    /\ \A h \in Handlers : hd[h].pc # "none" => h[2] <= copies[h[1]]
    /\ \A h \in Handlers : hd[h].pc \in {"none", "canAct"} /\ h[2] <= copies[h[1]]
                           => ev[h[1]].reason # "none"

\* A handler between its claim and the end of the remediation.
Active(h) == hd[h].pc \in {"settle", "settled", "screen", "gate", "before", "final", "press", "watch"}

LaneInv ==
    /\ \A h \in Handlers : Active(h) => busy /\ h[1] \in claimed
    /\ \A g, h \in Handlers : Active(g) /\ Active(h) => g = h

ReportInv ==
    /\ \A h \in Handlers : hd[h].pc = "over" => h[1] \in claimed \cup told.alerted \cup told.worked
    /\ \A a \in claimed : \/ a \in told.alerted \cup told.worked
                          \/ \E h \in Handlers : h[1] = a /\ Active(h)

KeysInv ==
    /\ \A a \in Attempts : keys[a] <= 1 /\ (a \notin claimed => keys[a] = 0)
    /\ \A h \in Handlers : Active(h) /\ hd[h].pc # "watch" => keys[h[1]] = 0

\* Before the key, the handler has ruled out that its prompt is worked on, or it
\* has taken a later prompt for its own.
SeenInv ==
    /\ \A a \in told.seen : typed[a] = "submitted"
    /\ \A a \in told.seen \ claimed : ev[a].reason # "none" => ev[a].last = "working"
    /\ \A h \in Handlers : hd[h].pc \in {"settle", "settled", "screen"} => hd[h].reeval
    /\ \A h \in Handlers : \/ hd[h].pc \in {"before", "final", "press"}
                           \/ hd[h].pc = "gate" /\ ~hd[h].reeval
                           => h[1] \notin told.seen \/ LaterPrompt(h[1])

\* The attempts follow each other, and what is submitted was staged last.
OrderInv ==
    /\ \A a, b \in Attempts : a < b /\ dl[b].pc # "none" => dl[a].pc = "over"
    /\ \A a, b \in Attempts : a < b /\ typed[b] = "submitted" => typed[a] # "staged"

DeliveryIInv ==
    /\ DeliveryTyped /\ WayInv /\ EvidenceAccepted
    /\ EventInv /\ LaneInv /\ ReportInv /\ KeysInv /\ SeenInv

(***************************************************************************)
(* Delivery.                                                               *)
(***************************************************************************)
\* What one step does to its attempt, to its event and to the copies of it.
Moves(a, d, n, e) ==
    /\ dl' = [dl EXCEPT ![a] = d]
    /\ copies' = [copies EXCEPT ![a] = n]
    /\ ev' = [ev EXCEPT ![a] = e]
    /\ d \in AttemptRecs /\ n \in Nat
    /\ Way(d, typed'[a])
    /\ n = 0 => e = NoEvidence
    /\ n > 0 => e.reason # "none" /\ parseDeliveryV2(e)
    /\ d.pc # "over" => n = 0

\* Text leaves the composer by being submitted or with the pane.
Kept(t, u) == u = t \/ (t = "staged" /\ u \in {"submitted", "lost"})

DeliveryStep(a) ==
    /\ dl[a].pc # "over"
    /\ UNCHANGED <<hd, claimed, busy, keys>>
    /\ typed' \in [Attempts -> Texts]
    /\ \A b \in Attempts \ {a} : Kept(typed[b], typed'[b])
    /\ typed'[a] = "no" => typed[a] = "no"
    /\ \E d, n, e :
         /\ Moves(a, d, n, e)
         /\ \/ told' = told
            \/ /\ told' = [told EXCEPT !.seen = @ \cup {a}]
               /\ d.pc = "over" /\ typed'[a] = "submitted"
               /\ n > 0 => e.last = "working"

LEMMA FinishMoves ==
    ASSUME DeliveryTyped, NEW a \in Attempts, NEW d, NEW reason, NEW inBudget,
           finish(a, d, reason, inBudget), reason # "none",
           parseDeliveryV2(Evidence(d, reason, inBudget))
    PROVE  \E n, e : /\ Moves(a, FinishedAttempt, n, e)
                     /\ n > 0 => e = Evidence(d, reason, inBudget)
<1>1. PICK n \in 0..MaxEvents :
         /\ dl' = [dl EXCEPT ![a] = FinishedAttempt]
         /\ copies' = [copies EXCEPT ![a] = n]
         /\ ev' = [ev EXCEPT ![a] = IF n = 0 THEN NoEvidence ELSE Evidence(d, reason, inBudget)]
  BY FinishFacts
<1> DEFINE e == IF n = 0 THEN NoEvidence ELSE Evidence(d, reason, inBudget)
<1>2. n \in Nat
  BY <1>1, DeliveryBounds
<1>3. Way(FinishedAttempt, typed'[a]) /\ FinishedAttempt.pc = "over"
  BY DEF Way, FinishedAttempt, FreshAttempt
<1>4. Evidence(d, reason, inBudget).reason # "none"
  BY DEF Evidence
<1>5. Moves(a, FinishedAttempt, n, e)
  BY <1>1, <1>2, <1>3, <1>4, FreshTyped DEF Moves
<1> QED
  BY <1>5

LEMMA ContinueMoves ==
    ASSUME DeliveryTyped, NEW a \in Attempts, Untouched(a), NEW d \in AttemptRecs, Way(d, typed'[a]),
           Continue(a, d)
    PROVE  Moves(a, d, 0, NoEvidence)
  BY DEF Moves, Continue, DeliveryTyped, Untouched

LEMMA NotSentMoves ==
    ASSUME DeliveryTyped, NEW a \in Attempts, Untouched(a), typed'[a] = "no", notSent(a)
    PROVE  \E d : Moves(a, d, 0, NoEvidence)
<1> DEFINE d == [FreshAttempt EXCEPT !.pc = "over", !.outcome = "not-sent"]
<1>1. d \in AttemptRecs /\ Way(d, typed'[a])
  BY DEF AttemptRecs, FreshAttempt, Way, AttemptPcs, ReadErrors, SendKinds, EnterKinds, Outcomes, AgentStatus
<1> QED
  BY <1>1, ContinueMoves DEF notSent

\* An attempt on its way has an evidence the parser accepts, unless it reports a flip.
LEMMA EvidenceOfTheWay ==
    ASSUME NEW d \in AttemptRecs, NEW reason, NEW inBudget, ~d.flip, reason # "attribution-unavailable",
           \/ /\ d.calls = 0 /\ d.text = "not-sent" /\ d.enter = "not-attempted"
              /\ reason \in {"baseline-unknown", "identity-invalid", "deadline"}
           \/ d.calls = 1 /\ d.text = "sent" /\ reason # "text-uncertain"
           \/ d.calls = 1 /\ d.text = "uncertain" /\ d.enter = "not-attempted" /\ reason = "text-uncertain"
    PROVE  parseDeliveryV2(Evidence(d, reason, inBudget))
  BY DEF parseDeliveryV2, Evidence

\* An attempt that neither sends nor ends.
LEMMA QuietDelivery ==
    ASSUME NEW a \in Attempts, DeliveryTyped, dl[a].pc # "over",
           UNCHANGED <<hd, claimed, busy, keys, typed, told>>,
           \E d, n, e : Moves(a, d, n, e)
    PROVE  DeliveryStep(a)
  BY DEF DeliveryStep, DeliveryTyped, Kept

LEMMA DeliverMoves ==
    ASSUME DeliveryIInv, NEW a \in Attempts, Deliver(a)
    PROVE  DeliveryStep(a)
<1>1. DeliveryTyped /\ dl[a].pc = "none" /\ Untouched(a) /\ typed[a] = "no"
  BY DEF DeliveryIInv, EventInv, WayInv, Way, Deliver
<1>2. UNCHANGED <<hd, claimed, busy, keys, typed, told>>
  BY DEF Deliver
<1>3. CASE notSent(a)
  BY <1>1, <1>2, <1>3, NotSentMoves, QuietDelivery
<1>4. CASE Continue(a, [FreshAttempt EXCEPT !.pc = "baseline"])
  <2> DEFINE d == [FreshAttempt EXCEPT !.pc = "baseline"]
  <2>1. d \in AttemptRecs /\ Way(d, typed'[a])
    BY <1>1, <1>2 DEF AttemptRecs, FreshAttempt, Way, AttemptPcs, ReadErrors, SendKinds, EnterKinds, Outcomes, AgentStatus
  <2> QED
    BY <1>1, <1>2, <1>4, <2>1, ContinueMoves, QuietDelivery
<1> QED
  BY <1>3, <1>4 DEF Deliver

LEMMA ReadyMoves ==
    ASSUME DeliveryTyped, NEW a \in Attempts, Untouched(a), NEW d \in AttemptRecs, Way(d, typed[a]),
           d.pc = "baseline", d.base # "unknown", UNCHANGED typed,
           ReadyToSend(a, d)
    PROVE  \E m, n, e : Moves(a, m, n, e)
<1>1. CASE finish(a, d, "deadline", TRUE)
  BY <1>1, EvidenceOfTheWay, FinishMoves DEF Way
<1>2. CASE Continue(a, [d EXCEPT !.pc = "text"])
  <2>1. [d EXCEPT !.pc = "text"] \in AttemptRecs
    BY DEF AttemptRecs, AttemptPcs
  <2>2. Way([d EXCEPT !.pc = "text"], typed'[a])
    BY DEF Way, AttemptRecs
  <2> QED
    BY <1>2, <2>1, <2>2, ContinueMoves
<1> QED
  BY <1>1, <1>2 DEF ReadyToSend

LEMMA BaselineReadMoves ==
    ASSUME DeliveryIInv, NEW a \in Attempts, BaselineRead(a)
    PROVE  DeliveryStep(a)
<1>1. DeliveryTyped /\ dl[a].pc = "baseline" /\ Untouched(a) /\ Way(dl[a], typed[a]) /\ dl[a] \in AttemptRecs
  BY DEF DeliveryIInv, EventInv, WayInv, BaselineRead, DeliveryTyped
<1>2. UNCHANGED <<hd, claimed, busy, keys, typed, told>>
  BY DEF BaselineRead
<1>3. PICK s \in StatusSample :
         LET status == IF s \in AgentStatus THEN s ELSE "unknown"
             settling == dl[a].settling \/ (Born(a) /\ status = "working")
             d == [Observed(dl[a], s) EXCEPT !.base = status, !.settling = settling]
         IN \/ /\ s = "identity"
               /\ finish(a, Observed(dl[a], s), "identity-invalid", TRUE)
            \/ /\ status # "unknown" /\ (settling => status = "idle")
               /\ ReadyToSend(a, d)
            \/ /\ s # "identity" /\ (status = "unknown" \/ (settling /\ status # "idle"))
               /\ \/ Continue(a, d)
                  \/ /\ status = "unknown"
                     /\ finish(a, d, "baseline-unknown", TRUE)
                  \/ /\ status # "unknown"
                     /\ ReadyToSend(a, d)
  BY DEF BaselineRead
<1> DEFINE status == IF s \in AgentStatus THEN s ELSE "unknown"
           settling == dl[a].settling \/ (Born(a) /\ status = "working")
           o == Observed(dl[a], s)
           d == [o EXCEPT !.base = status, !.settling = settling]
<1>4. /\ o \in AttemptRecs
      /\ o.pc = "baseline" /\ o.text = "not-sent" /\ o.calls = 0
      /\ o.enter = "not-attempted" /\ ~o.flip /\ o.outcome = "none"
  <2>1. /\ o \in AttemptRecs
        /\ \A f \in {"pc", "base", "settling", "text", "calls", "enter", "flip", "known", "outcome"} :
              o[f] = dl[a][f]
    BY <1>1, ObservedTyped
  <2> HIDE DEF o
  <2> QED
    BY <1>1, <2>1 DEF Way
<1> HIDE DEF o
<1>5. settling \in BOOLEAN /\ status \in AgentStatus
  BY <1>1 DEF AttemptRecs, AgentStatus
<1> HIDE DEF settling, status
<1>6. /\ d \in AttemptRecs /\ d.base = status
      /\ d.pc = "baseline" /\ d.text = "not-sent" /\ d.calls = 0
      /\ d.enter = "not-attempted" /\ ~d.flip /\ d.outcome = "none"
  BY <1>4, <1>5 DEF AttemptRecs
<1> HIDE DEF d
<1>7. typed[a] = "no" /\ typed'[a] = "no"
  BY <1>1, <1>2 DEF Way
<1>8. Way(d, typed[a]) /\ Way(d, typed'[a])
  BY <1>6, <1>7 DEF Way
<1>9. \/ finish(a, o, "identity-invalid", TRUE)
      \/ status # "unknown" /\ ReadyToSend(a, d)
      \/ Continue(a, d)
      \/ finish(a, d, "baseline-unknown", TRUE)
  BY <1>3 DEF d, o, status, settling
<1>10. CASE finish(a, o, "identity-invalid", TRUE)
  BY <1>1, <1>2, <1>4, <1>10, EvidenceOfTheWay, FinishMoves, QuietDelivery
<1>11. CASE finish(a, d, "baseline-unknown", TRUE)
  BY <1>1, <1>2, <1>6, <1>11, EvidenceOfTheWay, FinishMoves, QuietDelivery
<1>12. CASE status # "unknown" /\ ReadyToSend(a, d)
  BY <1>1, <1>2, <1>6, <1>8, <1>12, ReadyMoves, QuietDelivery
<1>13. CASE Continue(a, d)
  BY <1>1, <1>2, <1>6, <1>8, <1>13, ContinueMoves, QuietDelivery
<1> QED
  BY <1>9, <1>10, <1>11, <1>12, <1>13

\* An Enter into the pane.
LEMMA EnterFacts ==
    ASSUME typed \in [Attempts -> Texts], NEW lands, EnterLands(lands)
    PROVE  /\ typed' \in [Attempts -> Texts]
           /\ \A b \in Attempts : (Kept(typed[b], typed'[b]) /\ typed'[b] # "lost") \/ typed'[b] = typed[b]
  BY DEF EnterLands, Submitted, Texts, Kept

LEMMA SendTextMoves ==
    ASSUME DeliveryIInv, NEW a \in Attempts, SendText(a)
    PROVE  DeliveryStep(a)
<1>1. DeliveryTyped /\ dl[a].pc = "text" /\ Untouched(a) /\ Way(dl[a], typed[a]) /\ dl[a] \in AttemptRecs
  BY DEF DeliveryIInv, EventInv, WayInv, SendText, DeliveryTyped
<1>2. UNCHANGED <<hd, claimed, busy, keys, told>>
  BY DEF SendText
<1>3. PICK s \in Sends :
         LET kind == deliverySend(s)
             d == [dl[a] EXCEPT !.text = kind, !.calls = 1, !.pc = "enter"]
         IN /\ typed' = [typed EXCEPT ![a] = IF s.lands THEN "staged" ELSE @]
            /\ \/ kind = "not-sent" /\ notSent(a)
               \/ kind = "uncertain" /\ finish(a, d, "text-uncertain", TRUE)
               \/ kind = "sent" /\ (finish(a, d, "deadline", TRUE) \/ Continue(a, d))
  BY DEF SendText
<1> DEFINE kind == deliverySend(s)
           d == [dl[a] EXCEPT !.text = kind, !.calls = 1, !.pc = "enter"]
<1>4. /\ typed' \in [Attempts -> Texts] /\ \A b \in Attempts \ {a} : typed'[b] = typed[b]
      /\ typed'[a] = "no" => typed[a] = "no"
  BY <1>1, <1>3 DEF DeliveryTyped, Texts
<1>5. kind \in SendKinds /\ (kind = "not-sent" => typed'[a] = "no")
  <2>1. kind \in SendKinds
    BY DEF deliverySend, SendKinds
  <2>2. ASSUME kind = "not-sent" PROVE typed'[a] = "no"
    <3>1. ~s.lands
      BY <2>2 DEF deliverySend, Sends
    <3> QED
      BY <1>1, <1>3, <3>1 DEF DeliveryTyped, Way
  <2> QED
    BY <2>1, <2>2
<1> HIDE DEF kind
<1>6. /\ d \in AttemptRecs /\ d.text = kind /\ d.calls = 1 /\ d.pc = "enter"
      /\ d.enter = "not-attempted" /\ ~d.flip /\ d.outcome = "none" /\ d.base # "unknown"
  BY <1>1, <1>5 DEF AttemptRecs, Way, AttemptPcs
<1>7. kind = "sent" => Way(d, typed'[a])
  BY <1>6 DEF Way
<1> HIDE DEF d
<1>8. \/ kind = "not-sent" /\ notSent(a)
      \/ kind = "uncertain" /\ finish(a, d, "text-uncertain", TRUE)
      \/ kind = "sent" /\ (finish(a, d, "deadline", TRUE) \/ Continue(a, d))
  BY <1>3 DEF kind, d
<1>9. \E m, n, e : Moves(a, m, n, e)
  <2>1. CASE kind = "not-sent" /\ notSent(a)
    BY <1>1, <1>5, <2>1, NotSentMoves
  <2>2. CASE kind = "uncertain" /\ finish(a, d, "text-uncertain", TRUE)
    BY <1>1, <1>6, <2>2, EvidenceOfTheWay, FinishMoves
  <2>3. CASE kind = "sent" /\ finish(a, d, "deadline", TRUE)
    <3>1. parseDeliveryV2(Evidence(d, "deadline", TRUE))
      BY <1>6, <2>3, EvidenceOfTheWay
    <3> QED
      BY <1>1, <2>3, <3>1, FinishMoves
  <2>4. CASE kind = "sent" /\ Continue(a, d)
    BY <1>1, <1>6, <1>7, <2>4, ContinueMoves
  <2> QED
    BY <1>8, <2>1, <2>2, <2>3, <2>4
<1> QED
  BY <1>1, <1>2, <1>4, <1>9 DEF DeliveryStep, Kept

LEMMA SendEnterMoves ==
    ASSUME DeliveryIInv, NEW a \in Attempts, SendEnter(a)
    PROVE  DeliveryStep(a)
<1>1. DeliveryTyped /\ dl[a].pc = "enter" /\ Untouched(a) /\ Way(dl[a], typed[a]) /\ dl[a] \in AttemptRecs
  BY DEF DeliveryIInv, EventInv, WayInv, SendEnter, DeliveryTyped
<1>2. UNCHANGED <<hd, claimed, busy, keys, told>>
  BY DEF SendEnter
<1>3. PICK s \in Sends :
         LET kind == deliverySend(s)
             d == [dl[a] EXCEPT !.enter = kind, !.pc = "observe"]
         IN /\ EnterLands(s.lands)
            /\ \/ kind = "not-sent" /\ finish(a, d, "enter-not-sent", TRUE)
               \/ kind = "uncertain" /\ finish(a, d, "enter-uncertain", TRUE)
               \/ kind = "sent" /\ d.base = "working" /\ finish(a, d, "baseline-working", TRUE)
               \/ kind = "sent" /\ d.base # "working" /\ Continue(a, d)
  BY DEF SendEnter
<1> DEFINE kind == deliverySend(s)
           d == [dl[a] EXCEPT !.enter = kind, !.pc = "observe"]
<1>4. typed' \in [Attempts -> Texts] /\ \A b \in Attempts : Kept(typed[b], typed'[b])
  BY <1>1, <1>3, EnterFacts DEF DeliveryTyped, Kept
<1>5. kind \in EnterKinds
  BY DEF deliverySend, EnterKinds
<1> HIDE DEF kind
<1>6. /\ d \in AttemptRecs /\ d.enter = kind /\ d.calls = 1 /\ d.text = "sent" /\ d.pc = "observe"
      /\ ~d.flip /\ d.outcome = "none" /\ d.base # "unknown"
  BY <1>1, <1>5 DEF AttemptRecs, Way, AttemptPcs
<1> HIDE DEF d
<1>7. \/ \E reason \in {"enter-not-sent", "enter-uncertain", "baseline-working"} : finish(a, d, reason, TRUE)
      \/ kind = "sent" /\ d.base # "working" /\ Continue(a, d)
  BY <1>3 DEF kind, d
<1>8. \E m, n, e : Moves(a, m, n, e)
  <2>1. CASE \E reason \in {"enter-not-sent", "enter-uncertain", "baseline-working"} : finish(a, d, reason, TRUE)
    BY <1>1, <1>6, <2>1, EvidenceOfTheWay, FinishMoves
  <2>2. CASE kind = "sent" /\ d.base # "working" /\ Continue(a, d)
    <3>1. Way(d, typed'[a])
      BY <1>6, <2>2 DEF Way
    <3> QED
      BY <1>1, <1>6, <2>2, <3>1, ContinueMoves
  <2> QED
    BY <1>7, <2>1, <2>2
<1> QED
  BY <1>1, <1>2, <1>4, <1>8 DEF DeliveryStep, Kept

LEMMA ObserveReadMoves ==
    ASSUME DeliveryIInv, NEW a \in Attempts, ObserveRead(a)
    PROVE  DeliveryStep(a)
<1>1. DeliveryTyped /\ dl[a].pc = "observe" /\ Untouched(a) /\ Way(dl[a], typed[a]) /\ dl[a] \in AttemptRecs
  BY DEF DeliveryIInv, EventInv, WayInv, ObserveRead, DeliveryTyped
<1>2. UNCHANGED <<hd, claimed, busy, keys, typed>>
  BY DEF ObserveRead
<1>3. PICK s \in StatusSample, open \in BOOLEAN : WindowRead(a, s, open) /\ told' = Noticed(a, s)
  BY DEF ObserveRead
<1> DEFINE o == Observed(dl[a], s)
           d == [o EXCEPT !.known = @ \/ (open /\ s \in AgentStatus \ {"unknown"})]
           f == [d EXCEPT !.flip = TRUE]
<1>4. /\ o \in AttemptRecs
      /\ o.pc = "observe" /\ o.text = "sent" /\ o.calls = 1 /\ o.enter = "sent" /\ ~o.flip
      /\ o.base \in NonWorking /\ o.outcome = "none"
      /\ s = "working" => o.last = "working" /\ o.err = "none"
  <2>1. /\ o \in AttemptRecs
        /\ \A g \in {"pc", "base", "settling", "text", "calls", "enter", "flip", "known", "outcome"} :
              o[g] = dl[a][g]
        /\ s \in AgentStatus => o.last = s /\ o.err = "none"
    BY <1>1, ObservedTyped
  <2>2. dl[a].base \in NonWorking
    BY <1>1 DEF Way, AttemptRecs, AgentStatus, NonWorking
  <2> HIDE DEF o
  <2> QED
    BY <1>1, <2>1, <2>2 DEF Way, AgentStatus
<1> HIDE DEF o
<1>5. /\ d \in AttemptRecs
      /\ d.pc = "observe" /\ d.text = "sent" /\ d.calls = 1 /\ d.enter = "sent" /\ ~d.flip
      /\ d.base \in NonWorking /\ d.outcome = "none"
      /\ s = "working" => d.last = "working" /\ d.err = "none"
  BY <1>4 DEF AttemptRecs
<1> DEFINE ended == IF d.known THEN "deadline" ELSE "status-unavailable"
<1>6. \/ s # "working" /\ Continue(a, d)
      \/ finish(a, d, ended, FALSE) \/ finish(a, d, ended, TRUE) \/ finish(a, d, "identity-invalid", TRUE)
      \/ s = "working" /\ finish(a, f, "attribution-unavailable", TRUE)
  BY <1>3 DEF WindowRead, d, o, f, ended
<1> HIDE DEF d
<1>7. /\ f.text = "sent" /\ f.calls = 1 /\ f.enter = "sent" /\ f.flip /\ f.base \in NonWorking
      /\ s = "working" => f.last = "working" /\ f.err = "none"
  BY <1>5 DEF AttemptRecs
<1> HIDE DEF f
<1>8. Way(d, typed'[a])
  BY <1>5 DEF Way, NonWorking
<1>9. ended \in {"deadline", "status-unavailable"}
  OBVIOUS
<1> HIDE DEF ended
<1> DEFINE Moved == \E m, n, e : /\ Moves(a, m, n, e)
                                 /\ s = "working" => m.pc = "over" /\ (n > 0 => e.last = "working")
<1>10. Moved
  <2>0. FinishedAttempt.pc = "over"
    BY DEF FinishedAttempt, FreshAttempt
  <2>1. ASSUME NEW reason \in {"deadline", "status-unavailable", "identity-invalid"}, NEW b \in BOOLEAN,
               finish(a, d, reason, b)
        PROVE  Moved
    <3>1. parseDeliveryV2(Evidence(d, reason, b))
      BY <1>5, <2>1, EvidenceOfTheWay
    <3>2. Evidence(d, reason, b).last = d.last
      BY DEF Evidence
    <3>3. \E n, e : Moves(a, FinishedAttempt, n, e) /\ (n > 0 => e = Evidence(d, reason, b))
      BY <1>1, <2>1, <3>1, FinishMoves
    <3> QED
      BY <1>5, <2>0, <3>2, <3>3
  <2>2. CASE s = "working" /\ finish(a, f, "attribution-unavailable", TRUE)
    <3> DEFINE v == Evidence(f, "attribution-unavailable", TRUE)
    <3>1. parseDeliveryV2(v) /\ v.last = "working"
      BY <1>7, <2>2 DEF parseDeliveryV2, Evidence
    <3>3. \E n, e : Moves(a, FinishedAttempt, n, e) /\ (n > 0 => e = v)
      BY <1>1, <2>2, <3>1, FinishMoves
    <3> QED
      BY <2>0, <3>1, <3>3
  <2>3. CASE s # "working" /\ Continue(a, d)
    BY <1>1, <1>5, <1>8, <2>3, ContinueMoves
  <2> QED
    BY <1>6, <1>9, <2>1, <2>2, <2>3
<1>11. told' = told \/ (s = "working" /\ typed[a] = "submitted" /\ told' = [told EXCEPT !.seen = @ \cup {a}])
  BY <1>3 DEF Noticed
<1> QED
  BY <1>1, <1>2, <1>10, <1>11 DEF DeliveryStep, Kept, DeliveryTyped

\* What is in the pane matters to an attempt only before its text was sent.
LEMMA WayKept ==
    ASSUME NEW d, NEW t, NEW u, Way(d, t), Kept(t, u)
    PROVE  Way(d, u)
  BY DEF Way, Kept

LEMMA LaterKept ==
    ASSUME NEW a \in Attempts, LaterPrompt(a), \A b \in Attempts : b > a => Kept(typed[b], typed'[b])
    PROVE  LaterPrompt(a)'
  BY DEF LaterPrompt, Kept

LEMMA HandlerIndex ==
    ASSUME NEW h \in Handlers
    PROVE  /\ h = <<h[1], h[2]>> /\ h[1] \in Attempts /\ h[2] \in Nat /\ h[2] >= 1
           /\ \A g \in Handlers : g[1] = h[1] /\ g[2] = h[2] => g = h
  BY DEF Handlers

LEMMA DeliveryKeepsInvariant ==
    ASSUME DeliveryIInv, NEW a \in Attempts, DeliveryStep(a)
    PROVE  DeliveryIInv'
<1> USE DEF DeliveryIInv
<1>1. PICK d, n, e : /\ Moves(a, d, n, e)
                     /\ \/ told' = told
                        \/ /\ told' = [told EXCEPT !.seen = @ \cup {a}]
                           /\ d.pc = "over" /\ typed'[a] = "submitted"
                           /\ n > 0 => e.last = "working"
  BY DEF DeliveryStep
<1>2. /\ dl[a].pc # "over" /\ Untouched(a)
      /\ UNCHANGED <<hd, claimed, busy, keys>>
      /\ typed' \in [Attempts -> Texts]
      /\ \A b \in Attempts \ {a} : Kept(typed[b], typed'[b])
  BY DEF DeliveryStep, EventInv
<1>3. /\ dl' = [dl EXCEPT ![a] = d]
      /\ copies' = [copies EXCEPT ![a] = n]
      /\ ev' = [ev EXCEPT ![a] = e]
      /\ d \in AttemptRecs /\ n \in Nat
      /\ Way(d, typed'[a])
      /\ n = 0 => e = NoEvidence
      /\ n > 0 => e.reason # "none" /\ parseDeliveryV2(e)
      /\ d.pc # "over" => n = 0
  BY <1>1 DEF Moves
<1>4. /\ told' \in ToldRecs /\ told'.alerted = told.alerted /\ told'.worked = told.worked
      /\ told'.seen = told.seen \/ (told'.seen = told.seen \cup {a} /\ d.pc = "over")
      /\ a \in told'.seen => typed'[a] = "submitted" /\ (n > 0 => e.last = "working")
  BY <1>1, <1>2 DEF DeliveryTyped, ToldRecs, Untouched
<1>5. /\ dl'[a] = d /\ copies'[a] = n /\ ev'[a] = e
      /\ \A b \in Attempts \ {a} : dl'[b] = dl[b] /\ copies'[b] = copies[b] /\ ev'[b] = ev[b]
  BY <1>3 DEF DeliveryTyped
<1>6. DeliveryTyped'
  BY <1>2, <1>3, <1>4 DEF DeliveryTyped
<1>7. WayInv'
  <2> SUFFICES ASSUME NEW b \in Attempts PROVE Way(dl'[b], typed'[b])
    BY DEF WayInv
  <2>1. CASE b = a
    BY <1>3, <1>5, <2>1
  <2>2. CASE b # a
    BY <1>2, <1>5, <2>2, WayKept DEF WayInv
  <2> QED
    BY <2>1, <2>2
<1>8. NoEvidence.reason = "none"
  BY DEF NoEvidence
<1>9. EvidenceAccepted'
  <2> SUFFICES ASSUME NEW b \in Attempts, ev'[b].reason # "none" PROVE parseDeliveryV2(ev'[b])
    BY DEF EvidenceAccepted, parseDeliveryV2
  <2>1. CASE b = a
    BY <1>3, <1>5, <1>8, <2>1
  <2>2. CASE b # a
    BY <1>5, <2>2 DEF EvidenceAccepted
  <2> QED
    BY <2>1, <2>2
<1>10. \A h \in Handlers : h[1] = a => hd[h].pc = "none"
  <2> SUFFICES ASSUME NEW h \in Handlers, h[1] = a, hd[h].pc # "none" PROVE FALSE
    OBVIOUS
  <2>1. h[2] <= copies[h[1]] /\ copies[a] = 0
    BY <1>2 DEF EventInv, Untouched
  <2> QED
    BY <2>1, HandlerIndex
<1>11. EventInv'
  <2>1. ASSUME NEW b \in Attempts, dl'[b].pc # "over" PROVE Untouched(b)'
    <3>1. CASE b = a
      BY <1>2, <1>3, <1>4, <1>5, <2>1, <3>1 DEF Untouched
    <3>2. CASE b # a
      BY <1>2, <1>4, <1>5, <2>1, <3>2 DEF Untouched, EventInv
    <3> QED
      BY <3>1, <3>2
  <2>2. ASSUME NEW h \in Handlers, hd'[h].pc # "none" PROVE h[2] <= copies'[h[1]]
    BY <1>2, <1>5, <1>10, <2>2, HandlerIndex DEF EventInv
  <2>3. ASSUME NEW h \in Handlers, hd'[h].pc \in {"none", "canAct"}, h[2] <= copies'[h[1]]
        PROVE  ev'[h[1]].reason # "none"
    <3>1. CASE h[1] = a
      <4>1. n > 0
        BY <1>3, <1>5, <2>3, <3>1, HandlerIndex
      <4> QED
        BY <1>3, <1>5, <3>1, <4>1
    <3>2. CASE h[1] # a
      BY <1>2, <1>5, <2>3, <3>2, HandlerIndex DEF EventInv
    <3> QED
      BY <3>1, <3>2
  <2> QED
    BY <2>1, <2>2, <2>3 DEF EventInv
<1>12. LaneInv'
  BY <1>2 DEF LaneInv, Active
<1>13. ReportInv'
  BY <1>2, <1>4 DEF ReportInv, Active
<1>14. KeysInv'
  BY <1>2 DEF KeysInv, Active
<1>15. SeenInv'
  <2>1. ASSUME NEW b \in told'.seen PROVE typed'[b] = "submitted"
    <3>1. b \in Attempts
      BY <1>4 DEF ToldRecs
    <3> QED
      BY <1>2, <1>4, <3>1 DEF SeenInv, Kept
  <2>2. ASSUME NEW b \in told'.seen \ claimed', ev'[b].reason # "none" PROVE ev'[b].last = "working"
    <3>1. b \in Attempts
      BY <1>4 DEF ToldRecs
    <3>2. CASE b = a
      BY <1>3, <1>4, <1>5, <1>8, <2>2, <3>2
    <3>3. CASE b # a
      BY <1>2, <1>4, <1>5, <2>2, <3>1, <3>3 DEF SeenInv
    <3> QED
      BY <3>2, <3>3
  <2>3. ASSUME NEW h \in Handlers, hd'[h].pc # "none", h[1] \notin told.seen \/ LaterPrompt(h[1])
        PROVE  h[1] \notin told'.seen \/ LaterPrompt(h[1])'
    <3>1. CASE h[1] \notin told.seen
      BY <1>2, <1>4, <1>10, <2>3, <3>1
    <3>2. CASE LaterPrompt(h[1])
      <4>1. PICK b \in Attempts : b > h[1] /\ typed[b] # "no"
        BY <3>2 DEF LaterPrompt
      <4>2. CASE b # a
        BY <1>2, <4>1, <4>2 DEF LaterPrompt, Kept
      <4>3. CASE b = a
        BY <4>1, <4>3 DEF LaterPrompt, DeliveryStep
      <4> QED
        BY <4>2, <4>3
    <3> QED
      BY <2>3, <3>1, <3>2
  <2> QED
    BY <1>2, <2>1, <2>2, <2>3 DEF SeenInv
<1> QED
  BY <1>6, <1>7, <1>9, <1>11, <1>12, <1>13, <1>14, <1>15

(***************************************************************************)
(* The handlers.                                                           *)
(***************************************************************************)
ActivePcs == {"settle", "settled", "screen", "gate", "before", "final", "press", "watch"}

\* What a handler may do to the pane: one key, from "press" alone.
OneKey(h) ==
    /\ typed' \in [Attempts -> Texts]
    /\ \A b \in Attempts : Kept(typed[b], typed'[b])
    /\ keys' \in [Attempts -> Nat]
    /\ \A b \in Attempts : b # h[1] => keys'[b] = keys[b]
    /\ keys'[h[1]] = keys[h[1]] \/ (hd[h].pc = "press" /\ keys'[h[1]] = keys[h[1]] + 1)

\* A handler of a remediation may hear that its prompt is worked on.
Hears(h, t) ==
    \/ t = told
    \/ Active(h) /\ t = [told EXCEPT !.seen = @ \cup {h[1]}] /\ typed[h[1]] = "submitted"

Tells(h, t) ==
    \/ told' = t
    \/ told' = [t EXCEPT !.alerted = @ \cup {h[1]}]
    \/ told' = [t EXCEPT !.worked = @ \cup {h[1]}]

Resolved(a) == a \in told'.alerted \cup told'.worked

\* One step of handler h, that leaves r of it.
HandlerMoves(h, r) ==
    /\ UNCHANGED <<dl, copies>> /\ ev' \in {ev, EvidenceRead(h)}
    /\ hd' = [hd EXCEPT ![h] = r] /\ r \in HandlerRecs /\ r.pc # "none"
    /\ OneKey(h)
    /\ \E t : Hears(h, t) /\ Tells(h, t)
    /\ h[2] <= copies[h[1]]
    /\ r.pc = "canAct" => ev' = ev /\ hd[h].pc = "none"
    /\ claimed' \in {claimed, claimed \cup {h[1]}}
    /\ busy' = busy \/ (busy' = TRUE /\ r.pc \in ActivePcs) \/ (busy' = FALSE /\ Active(h))
    /\ r.pc \in ActivePcs => busy' /\ h[1] \in claimed' /\ (Active(h) \/ ~busy)
    /\ r.pc = "over" => h[1] \in claimed' \/ Resolved(h[1])
    /\ Active(h) \/ claimed' # claimed => r.pc \in ActivePcs \/ Resolved(h[1])
    /\ r.pc \in ActivePcs \ {"watch"} =>
         /\ keys' = keys
         /\ (Active(h) /\ hd[h].pc # "watch") \/ h[1] \notin claimed
    /\ r.pc \in {"settle", "settled", "screen"} => r.reeval
    /\ r.pc \in {"before", "final", "press"} \/ (r.pc = "gate" /\ ~r.reeval)
         => h[1] \notin told'.seen \/ LaterPrompt(h[1])

LEMMA HearsFacts ==
    ASSUME DeliveryTyped, NEW h \in Handlers, NEW t, Hears(h, t), Tells(h, t)
    PROVE  /\ told' \in ToldRecs
           /\ told.alerted \subseteq told'.alerted /\ told.worked \subseteq told'.worked
           /\ told.seen \subseteq told'.seen /\ told'.seen \subseteq told.seen \cup {h[1]}
           /\ told'.seen # told.seen => Active(h) /\ typed[h[1]] = "submitted"
<1> USE DEF ToldRecs
<1>1. h[1] \in Attempts
  BY HandlerIndex
<1>2. /\ t \in ToldRecs /\ told \in ToldRecs
      /\ t.alerted = told.alerted /\ t.worked = told.worked
      /\ t.seen = told.seen \/ (t.seen = told.seen \cup {h[1]} /\ Active(h) /\ typed[h[1]] = "submitted")
  BY <1>1 DEF Hears, DeliveryTyped
<1>3. /\ told' \in ToldRecs /\ told'.seen = t.seen
      /\ t.alerted \subseteq told'.alerted /\ t.worked \subseteq told'.worked
  BY <1>1, <1>2 DEF Tells
<1> QED
  BY <1>2, <1>3

LEMMA HandlerKeepsInvariant ==
    ASSUME DeliveryIInv, NEW h \in Handlers, NEW r, HandlerMoves(h, r)
    PROVE  DeliveryIInv'
<1> USE DEF DeliveryIInv
<1>1. h[1] \in Attempts
  BY HandlerIndex
<1>2. /\ told' \in ToldRecs
      /\ told.alerted \subseteq told'.alerted /\ told.worked \subseteq told'.worked
      /\ told.seen \subseteq told'.seen /\ told'.seen \subseteq told.seen \cup {h[1]}
      /\ told'.seen # told.seen => Active(h) /\ typed[h[1]] = "submitted"
  BY HearsFacts DEF HandlerMoves
<1>3. /\ hd'[h] = r /\ \A g \in Handlers : g # h => hd'[g] = hd[g]
      /\ hd' \in [Handlers -> HandlerRecs]
  BY DEF HandlerMoves, DeliveryTyped
<1>4. /\ ev' = [a \in Attempts |-> ev'[a]]
      /\ \A a \in Attempts : ev'[a] = ev[a] \/ ev'[a] = NoEvidence
  BY <1>1 DEF HandlerMoves, EvidenceRead, DeliveryTyped
<1>5. claimed \subseteq claimed' /\ claimed' \subseteq claimed \cup {h[1]} /\ claimed' \in SUBSET Attempts
  BY <1>1 DEF HandlerMoves, DeliveryTyped
<1>6. DeliveryTyped'
  BY <1>2, <1>3, <1>4, <1>5 DEF HandlerMoves, OneKey, DeliveryTyped
<1>7. WayInv'
  BY WayKept DEF HandlerMoves, OneKey, WayInv
<1>8. NoEvidence.reason = "none"
  BY DEF NoEvidence
<1>9. EvidenceAccepted'
  <2> SUFFICES ASSUME NEW b \in Attempts, ev'[b].reason # "none" PROVE parseDeliveryV2(ev'[b])
    BY DEF EvidenceAccepted, parseDeliveryV2
  <2> QED
    BY <1>4, <1>8 DEF EvidenceAccepted
<1>10. EventInv'
  <2>1. dl[h[1]].pc = "over" /\ copies[h[1]] # 0
    BY <1>1, HandlerIndex DEF HandlerMoves, EventInv, Untouched
  <2>2. ASSUME NEW b \in Attempts, dl'[b].pc # "over" PROVE Untouched(b)'
    <3>1. b # h[1] /\ dl[b].pc # "over" /\ dl' = dl /\ copies' = copies
      BY <2>1, <2>2 DEF HandlerMoves
    <3>2. Untouched(b)
      BY <3>1 DEF EventInv
    <3>3. ev'[b] = NoEvidence /\ b \notin claimed' /\ b \notin told'.seen
      BY <1>2, <1>4, <1>5, <3>1, <3>2 DEF Untouched
    <3> QED
      BY <3>1, <3>2, <3>3 DEF Untouched
  <2>3. ASSUME NEW g \in Handlers, hd'[g].pc # "none" PROVE g[2] <= copies'[g[1]]
    BY <1>3, <2>3 DEF HandlerMoves, EventInv
  <2>4. ASSUME NEW g \in Handlers, hd'[g].pc \in {"none", "canAct"}, g[2] <= copies'[g[1]]
        PROVE  ev'[g[1]].reason # "none"
    <3>1. hd[g].pc \in {"none", "canAct"} /\ g[2] <= copies[g[1]] /\ (g = h => ev' = ev)
      BY <1>3, <2>4 DEF HandlerMoves
    <3>2. ev[g[1]].reason # "none" /\ g[1] \in Attempts
      BY <3>1, HandlerIndex DEF EventInv
    <3>3. CASE g # h /\ ev' = EvidenceRead(h)
      <4>1. CASE g[1] = h[1]
        <5>1. g[2] \in 1..copies[h[1]] /\ g[2] # h[2] /\ <<h[1], g[2]>> = g
          BY <3>1, <3>3, <4>1, HandlerIndex DEF DeliveryTyped
        <5>2. EvidenceRead(h) = ev
          BY <3>1, <5>1 DEF EvidenceRead
        <5> QED
          BY <3>2, <3>3, <5>2
      <4>2. CASE g[1] # h[1]
        BY <1>1, <3>2, <3>3, <4>2 DEF EvidenceRead, DeliveryTyped
      <4> QED
        BY <4>1, <4>2
    <3> QED
      BY <3>1, <3>2, <3>3 DEF HandlerMoves
  <2> QED
    BY <2>2, <2>3, <2>4 DEF EventInv
<1>11. \A g \in Handlers : g # h => (Active(g)' <=> Active(g))
  BY <1>3 DEF Active
<1>12. Active(h)' <=> r.pc \in ActivePcs
  BY <1>3 DEF Active, ActivePcs
<1>13. LaneInv'
  <2>1. ASSUME NEW g \in Handlers, Active(g)' PROVE busy' /\ g[1] \in claimed'
    <3>1. CASE g = h
      BY <1>12, <2>1, <3>1 DEF HandlerMoves
    <3>2. CASE g # h
      <4>1. Active(g) /\ busy /\ g[1] \in claimed /\ ~Active(h)
        BY <1>11, <2>1, <3>2 DEF LaneInv
      <4> QED
        BY <1>5, <4>1 DEF HandlerMoves
    <3> QED
      BY <3>1, <3>2
  <2>2. ASSUME NEW f \in Handlers, NEW g \in Handlers, Active(f)', Active(g)' PROVE f = g
    <3>1. ASSUME NEW k \in Handlers, k # h, Active(k)', Active(h)' PROVE FALSE
      <4>1. Active(k) /\ busy
        BY <1>11, <3>1 DEF LaneInv
      <4>2. Active(h)
        BY <1>12, <3>1, <4>1 DEF HandlerMoves
      <4> QED
        BY <3>1, <4>1, <4>2 DEF LaneInv
    <3>2. CASE f # h /\ g # h
      BY <1>11, <2>2, <3>2 DEF LaneInv
    <3> QED
      BY <2>2, <3>1, <3>2
  <2> QED
    BY <2>1, <2>2 DEF LaneInv
<1>14. ReportInv'
  <2>1. ASSUME NEW g \in Handlers, hd'[g].pc = "over"
        PROVE  g[1] \in claimed' \cup told'.alerted \cup told'.worked
    <3>1. CASE g = h
      BY <1>3, <2>1, <3>1 DEF HandlerMoves, Resolved
    <3>2. CASE g # h
      <4>1. g[1] \in claimed \cup told.alerted \cup told.worked
        BY <1>3, <2>1, <3>2 DEF ReportInv
      <4> QED
        BY <1>2, <1>5, <4>1
    <3> QED
      BY <3>1, <3>2
  <2>2. ASSUME NEW b \in claimed'
        PROVE  \/ b \in told'.alerted \cup told'.worked
               \/ \E g \in Handlers : g[1] = b /\ Active(g)'
    <3>1. CASE b \in claimed
      <4>1. CASE b \in told.alerted \cup told.worked
        BY <1>2, <4>1
      <4>2. CASE \E g \in Handlers : g[1] = b /\ Active(g)
        <5>1. PICK g \in Handlers : g[1] = b /\ Active(g)
          BY <4>2
        <5>2. CASE g # h
          BY <1>11, <5>1, <5>2
        <5>3. CASE g = h
          BY <1>12, <5>1, <5>3 DEF HandlerMoves, Resolved
        <5> QED
          BY <5>2, <5>3
      <4> QED
        BY <3>1, <4>1, <4>2 DEF ReportInv
    <3>2. CASE b \notin claimed
      <4>1. b = h[1] /\ claimed' # claimed
        BY <1>5, <2>2, <3>2
      <4> QED
        BY <1>12, <4>1 DEF HandlerMoves, Resolved
    <3> QED
      BY <3>1, <3>2
  <2> QED
    BY <2>1, <2>2 DEF ReportInv
<1>15. KeysInv'
  <2>0. h[1] \notin claimed => keys[h[1]] = 0 /\ ~Active(h)
    BY <1>1 DEF KeysInv, LaneInv
  <2>1. hd[h].pc = "press" => Active(h) /\ keys[h[1]] = 0
    BY DEF KeysInv, Active
  <2>2. ASSUME NEW b \in Attempts PROVE keys'[b] <= 1 /\ (b \notin claimed' => keys'[b] = 0)
    <3>1. keys[b] \in Nat /\ keys[b] <= 1 /\ (b \notin claimed => keys[b] = 0)
      BY DEF KeysInv, DeliveryTyped
    <3>2. CASE keys'[b] = keys[b]
      BY <1>5, <3>1, <3>2
    <3>3. CASE keys'[b] # keys[b]
      <4>1. b = h[1] /\ hd[h].pc = "press" /\ keys'[b] = keys[b] + 1
        BY <3>3 DEF HandlerMoves, OneKey
      <4>2. h[1] \in claimed
        BY <2>1, <4>1 DEF LaneInv
      <4> QED
        BY <1>5, <2>1, <4>1, <4>2
    <3> QED
      BY <3>2, <3>3
  <2>3. ASSUME NEW g \in Handlers, Active(g)', hd'[g].pc # "watch" PROVE keys'[g[1]] = 0
    <3>1. CASE g = h
      BY <1>3, <1>12, <2>0, <2>3, <3>1 DEF HandlerMoves, KeysInv
    <3>2. CASE g # h
      <4>1. Active(g) /\ keys[g[1]] = 0 /\ ~Active(h) /\ g[1] \in Attempts
        BY <1>3, <1>11, <2>3, <3>2, HandlerIndex DEF KeysInv, LaneInv
      <4>2. keys'[g[1]] = keys[g[1]]
        BY <2>1, <4>1 DEF HandlerMoves, OneKey
      <4> QED
        BY <4>1, <4>2
    <3> QED
      BY <3>1, <3>2
  <2> QED
    BY <2>2, <2>3 DEF KeysInv
<1>16. SeenInv'
  <2>1. ASSUME NEW b \in told'.seen PROVE typed'[b] = "submitted"
    <3>1. b \in Attempts /\ typed[b] = "submitted"
      BY <1>1, <1>2 DEF SeenInv, ToldRecs
    <3> QED
      BY <3>1 DEF HandlerMoves, OneKey, Kept
  <2>2. ASSUME NEW b \in told'.seen \ claimed', ev'[b].reason # "none" PROVE ev'[b].last = "working"
    <3>1. b \in told.seen \ claimed /\ b \in Attempts
      <4>1. Active(h) => h[1] \in claimed
        BY DEF LaneInv
      <4> QED
        BY <1>2, <1>5, <2>2, <4>1 DEF ToldRecs
    <3> QED
      BY <1>4, <1>8, <2>2, <3>1 DEF SeenInv
  <2>3. ASSUME NEW g \in Handlers, hd'[g].pc \in {"settle", "settled", "screen"} PROVE hd'[g].reeval
    BY <1>3, <2>3 DEF HandlerMoves, SeenInv
  <2>4. ASSUME NEW g \in Handlers, hd'[g].pc \in {"before", "final", "press"} \/ (hd'[g].pc = "gate" /\ ~hd'[g].reeval)
        PROVE  g[1] \notin told'.seen \/ LaterPrompt(g[1])'
    <3>0. g[1] \in Attempts /\ \A b \in Attempts : Kept(typed[b], typed'[b])
      BY HandlerIndex DEF HandlerMoves, OneKey
    <3>1. CASE g = h
      <4>1. h[1] \notin told'.seen \/ LaterPrompt(h[1])
        BY <1>3, <2>4, <3>1 DEF HandlerMoves
      <4> QED
        BY <1>1, <3>0, <3>1, <4>1, LaterKept
    <3>2. CASE g # h
      <4>1. Active(g) /\ (g[1] \notin told.seen \/ LaterPrompt(g[1]))
        BY <1>3, <2>4, <3>2 DEF SeenInv, Active
      <4>2. ~Active(h)
        BY <3>2, <4>1 DEF LaneInv
      <4> QED
        BY <1>2, <3>0, <4>1, <4>2, LaterKept
    <3> QED
      BY <3>1, <3>2
  <2> QED
    BY <2>1, <2>2, <2>3, <2>4 DEF SeenInv
<1> QED
  BY <1>6, <1>7, <1>9, <1>10, <1>13, <1>14, <1>15, <1>16

LEMMA FreshHandlerFacts ==
    /\ FreshHandler \in HandlerRecs /\ FreshHandler.pc = "none"
    /\ \A pc \in HandlerPcs : LET r == [FreshHandler EXCEPT !.pc = pc] IN r \in HandlerRecs /\ r.pc = pc
  BY DEF FreshHandler, HandlerRecs, HandlerPcs

\* A handler that leaves the pane alone.
HandsOff == UNCHANGED <<typed, keys>>

LEMMA HandsOffFacts ==
    ASSUME DeliveryTyped, NEW h \in Handlers, HandsOff
    PROVE  OneKey(h)
  BY DEF HandsOff, OneKey, Kept, DeliveryTyped

\* A handler at work holds the pane, and its event was there to begin with.
LEMMA AtWork ==
    ASSUME DeliveryIInv, NEW h \in Handlers, Active(h)
    PROVE  /\ busy /\ h[1] \in claimed /\ h[2] <= copies[h[1]]
           /\ hd[h] \in HandlerRecs /\ h[1] \in Attempts
           /\ claimed \in SUBSET Attempts
  BY HandlerIndex DEF DeliveryIInv, LaneInv, EventInv, Active, DeliveryTyped

LEMMA NoticedHears ==
    ASSUME NEW h \in Handlers, NEW s, Active(h)
    PROVE  /\ Hears(h, Noticed(h[1], s))
           /\ s # "working" => Noticed(h[1], s) = told
  BY DEF Hears, Noticed

\* The remediation ends without working having been seen.
LEMMA GivesUpMoves ==
    ASSUME DeliveryIInv, NEW h \in Handlers, Active(h), NEW heard, Hears(h, heard), GivesUp(h, heard),
           UNCHANGED <<dl, ev, copies>>, OneKey(h)
    PROVE  \E r : HandlerMoves(h, r)
<1> DEFINE r == [FreshHandler EXCEPT !.pc = "over"]
<1>1. r \in HandlerRecs /\ r.pc = "over"
  BY FreshHandlerFacts DEF HandlerPcs
<1>2. hd' = [hd EXCEPT ![h] = r] /\ busy' = FALSE /\ claimed' = claimed
      /\ told' = [heard EXCEPT !.alerted = @ \cup {h[1]}]
  BY DEF GivesUp
<1> HIDE DEF r
<1>3. heard \in ToldRecs
  BY AtWork DEF DeliveryIInv, DeliveryTyped, Hears, ToldRecs
<1>4. Resolved(h[1])
  BY <1>2, <1>3 DEF Resolved, ToldRecs
<1>5. HandlerMoves(h, r)
  BY <1>1, <1>2, <1>4, AtWork DEF HandlerMoves, Tells, ActivePcs
<1> QED
  BY <1>5

\* The remediation goes on.
LEMMA GoesMoves ==
    ASSUME DeliveryIInv, NEW h \in Handlers, Active(h), NEW r \in HandlerRecs, Goes(h, r), r.pc \in ActivePcs,
           Hears(h, told'), UNCHANGED <<dl, ev, copies>>, OneKey(h),
           r.pc # "watch" => hd[h].pc # "watch" /\ UNCHANGED keys,
           r.pc \in {"settle", "settled", "screen"} => r.reeval,
           r.pc \in {"before", "final", "press"} \/ (r.pc = "gate" /\ ~r.reeval)
             => h[1] \notin told'.seen \/ LaterPrompt(h[1])
    PROVE  \E k : HandlerMoves(h, k)
<1>1. HandlerMoves(h, r)
  <2>1. hd' = [hd EXCEPT ![h] = r] /\ UNCHANGED <<claimed, busy>>
    BY DEF Goes
  <2> QED
    BY <2>1, AtWork DEF HandlerMoves, Tells, ActivePcs
<1> QED
  BY <1>1

LEMMA GiveUpArrivesMoves ==
    ASSUME DeliveryIInv, NEW h \in Handlers, GiveUpArrives(h)
    PROVE  \E r : HandlerMoves(h, r)
<1>1. /\ hd[h].pc = "none" /\ h[2] <= copies[h[1]] /\ UNCHANGED <<dl, copies, typed, keys>>
      /\ \/ /\ Goes(h, [FreshHandler EXCEPT !.pc = "canAct"]) /\ told' = told /\ ev' = ev
         \/ /\ Rests(h) /\ Alerts(h) /\ ev' = EvidenceRead(h)
  BY DEF GiveUpArrives
<1>2. OneKey(h) /\ ~Active(h) /\ h[1] \in Attempts /\ hd[h] \in HandlerRecs
  BY <1>1, HandsOffFacts, HandlerIndex DEF HandsOff, DeliveryIInv, Active, DeliveryTyped
<1>3. CASE Goes(h, [FreshHandler EXCEPT !.pc = "canAct"]) /\ told' = told /\ ev' = ev
  <2> DEFINE r == [FreshHandler EXCEPT !.pc = "canAct"]
  <2>1. r \in HandlerRecs /\ r.pc = "canAct"
    BY FreshHandlerFacts DEF HandlerPcs
  <2>2. hd' = [hd EXCEPT ![h] = r] /\ UNCHANGED <<claimed, busy>>
    BY <1>3 DEF Goes
  <2> HIDE DEF r
  <2>3. HandlerMoves(h, r)
    BY <1>1, <1>2, <1>3, <2>1, <2>2 DEF HandlerMoves, Hears, Tells, ActivePcs
  <2> QED
    BY <2>3
<1>4. CASE Rests(h) /\ Alerts(h) /\ ev' = EvidenceRead(h)
  <2> DEFINE r == [hd[h] EXCEPT !.pc = "over"]
  <2>1. r \in HandlerRecs /\ r.pc = "over"
    BY <1>2 DEF HandlerRecs, HandlerPcs
  <2>2. hd' = [hd EXCEPT ![h] = r] /\ UNCHANGED <<claimed, busy>>
    BY <1>4 DEF Rests
  <2>3. told' = [told EXCEPT !.alerted = @ \cup {h[1]}]
    BY <1>4 DEF Alerts
  <2>4. Resolved(h[1])
    BY <2>3 DEF Resolved, DeliveryIInv, DeliveryTyped, ToldRecs
  <2> HIDE DEF r
  <2>5. HandlerMoves(h, r)
    BY <1>1, <1>2, <1>4, <2>1, <2>2, <2>3, <2>4 DEF HandlerMoves, Hears, Tells, ActivePcs
  <2> QED
    BY <2>5
<1> QED
  BY <1>1, <1>3, <1>4

LEMMA GiveUpClaimsMoves ==
    ASSUME DeliveryIInv, NEW h \in Handlers, GiveUpClaims(h)
    PROVE  \E r : HandlerMoves(h, r)
<1>1. hd[h].pc = "canAct" /\ UNCHANGED <<dl, copies, typed, keys>> /\ ev' = EvidenceRead(h)
  BY DEF GiveUpClaims
<1>2. /\ OneKey(h) /\ ~Active(h) /\ h[1] \in Attempts /\ hd[h] \in HandlerRecs
      /\ h[2] <= copies[h[1]] /\ ev[h[1]].reason # "none" /\ claimed \in SUBSET Attempts
      /\ told \in ToldRecs
  BY <1>1, HandsOffFacts, HandlerIndex DEF HandsOff, DeliveryIInv, Active, DeliveryTyped, EventInv
<1>3. \/ Rests(h) /\ Alerts(h)
      \/ h[1] \in claimed /\ Rests(h) /\ told' = told
      \/ /\ h[1] \notin claimed /\ Authorizes(ev[h[1]]) /\ ~busy
         /\ claimed' = claimed \cup {h[1]} /\ busy' = TRUE /\ told' = told
         /\ hd' = [hd EXCEPT ![h] = [FreshHandler EXCEPT !.reeval = Reevaluates(ev[h[1]]),
                                       !.pc = IF Reevaluates(ev[h[1]]) THEN "settle" ELSE "gate"]]
      \/ /\ h[1] \notin claimed /\ claimed' = claimed \cup {h[1]} /\ busy' = busy
         /\ hd' = [hd EXCEPT ![h].pc = "over"] /\ Alerts(h)
  BY DEF GiveUpClaims, claim, PaneFree
<1> DEFINE o == [hd[h] EXCEPT !.pc = "over"]
<1>4. o \in HandlerRecs /\ o.pc = "over"
  BY <1>2 DEF HandlerRecs, HandlerPcs
<1> HIDE DEF o
<1>5. Alerts(h) => Resolved(h[1]) /\ told' = [told EXCEPT !.alerted = @ \cup {h[1]}]
  BY <1>2 DEF Alerts, Resolved, ToldRecs
<1>6. CASE Rests(h) /\ (Alerts(h) \/ (h[1] \in claimed /\ told' = told))
  <2>1. hd' = [hd EXCEPT ![h] = o] /\ UNCHANGED <<claimed, busy>>
    BY <1>6 DEF Rests, o
  <2>2. HandlerMoves(h, o)
    BY <1>1, <1>2, <1>4, <1>5, <1>6, <2>1 DEF HandlerMoves, Hears, Tells, ActivePcs
  <2> QED
    BY <2>2
<1>7. CASE /\ h[1] \notin claimed /\ claimed' = claimed \cup {h[1]} /\ busy' = busy
           /\ hd' = [hd EXCEPT ![h].pc = "over"] /\ Alerts(h)
  <2>1. hd' = [hd EXCEPT ![h] = o]
    BY <1>7 DEF o
  <2>2. HandlerMoves(h, o)
    BY <1>1, <1>2, <1>4, <1>5, <1>7, <2>1 DEF HandlerMoves, Hears, Tells, ActivePcs
  <2> QED
    BY <2>2
<1>8. CASE /\ h[1] \notin claimed /\ Authorizes(ev[h[1]]) /\ ~busy
           /\ claimed' = claimed \cup {h[1]} /\ busy' = TRUE /\ told' = told
           /\ hd' = [hd EXCEPT ![h] = [FreshHandler EXCEPT !.reeval = Reevaluates(ev[h[1]]),
                                         !.pc = IF Reevaluates(ev[h[1]]) THEN "settle" ELSE "gate"]]
  <2> DEFINE again == Reevaluates(ev[h[1]])
             r == [FreshHandler EXCEPT !.reeval = again, !.pc = IF again THEN "settle" ELSE "gate"]
  <2>1. again \in BOOLEAN
    BY DEF Reevaluates
  <2>2. ~again => h[1] \notin told.seen
    <3> SUFFICES ASSUME ~again, h[1] \in told.seen PROVE FALSE
      OBVIOUS
    <3>1. ev[h[1]].last \in NonWorking
      BY <1>8 DEF Authorizes
    <3>2. ev[h[1]].last = "working"
      BY <1>2, <1>8 DEF DeliveryIInv, SeenInv
    <3> QED
      BY <3>1, <3>2 DEF NonWorking
  <2> HIDE DEF again
  <2>3. r \in HandlerRecs /\ r.pc = (IF again THEN "settle" ELSE "gate") /\ r.reeval = again
    BY <2>1 DEF FreshHandler, HandlerRecs, HandlerPcs
  <2>4. hd' = [hd EXCEPT ![h] = r]
    BY <1>8 DEF again
  <2> HIDE DEF r
  <2>5. r.pc \in ActivePcs /\ r.pc \notin {"canAct", "over", "none", "settled", "screen", "before", "final", "press", "watch"}
    BY <2>3 DEF ActivePcs
  <2>6. HandlerMoves(h, r)
    BY <1>1, <1>2, <1>8, <2>2, <2>3, <2>4, <2>5 DEF HandlerMoves, Hears, Tells
  <2> QED
    BY <2>6
<1> QED
  BY <1>3, <1>6, <1>7, <1>8

LEMMA SettleReadMoves ==
    ASSUME DeliveryIInv, NEW h \in Handlers, SettleRead(h)
    PROVE  \E r : HandlerMoves(h, r)
<1>1. Active(h) /\ hd[h].pc = "settle" /\ UNCHANGED <<dl, ev, copies, typed, keys>>
  BY DEF SettleRead, Active
<1>2. OneKey(h) /\ hd[h] \in HandlerRecs /\ hd[h].reeval
  BY <1>1, HandsOffFacts, AtWork DEF HandsOff, DeliveryIInv, SeenInv
<1>3. PICK s \in StatusSample :
         IF s = "identity" THEN GivesUp(h, told)
         ELSE /\ told' = Noticed(h[1], s)
              /\ Goes(h, [hd[h] EXCEPT !.pc = "settled", !.idle = IF s = "idle" THEN @ + 1 ELSE 0])
  BY DEF SettleRead
<1>4. CASE s = "identity"
  BY <1>1, <1>2, <1>3, <1>4, GivesUpMoves DEF Hears
<1>5. CASE s # "identity"
  <2> DEFINE n == IF s = "idle" THEN hd[h].idle + 1 ELSE 0
             r == [hd[h] EXCEPT !.pc = "settled", !.idle = n]
  <2>1. n \in Nat
    <3>1. hd[h].idle \in Nat
      BY <1>2 DEF HandlerRecs
    <3> QED
      BY <3>1
  <2>2. Goes(h, r) /\ Hears(h, told')
    BY <1>1, <1>3, <1>5, NoticedHears
  <2> HIDE DEF n
  <2>3. r \in HandlerRecs /\ r.pc = "settled" /\ r.reeval
    BY <1>2, <2>1 DEF HandlerRecs, HandlerPcs
  <2> HIDE DEF r
  <2> QED
    BY <1>1, <1>2, <2>2, <2>3, GoesMoves DEF ActivePcs
<1> QED
  BY <1>4, <1>5

LEMMA SettleDecidesMoves ==
    ASSUME DeliveryIInv, NEW h \in Handlers, SettleDecides(h)
    PROVE  \E r : HandlerMoves(h, r)
<1>1. Active(h) /\ hd[h].pc = "settled" /\ UNCHANGED <<dl, ev, copies, typed, keys>>
  BY DEF SettleDecides, Active
<1>2. OneKey(h) /\ hd[h] \in HandlerRecs /\ hd[h].reeval
  BY <1>1, HandsOffFacts, AtWork DEF HandsOff, DeliveryIInv, SeenInv
<1> DEFINE r == [hd[h] EXCEPT !.pc = IF hd[h].idle >= StableSamples THEN "screen" ELSE "settle",
                              !.idle = IF @ > StableSamples THEN StableSamples ELSE @]
<1>3. GivesUp(h, told) \/ (told' = told /\ Goes(h, r))
  BY DEF SettleDecides
<1>4. CASE GivesUp(h, told)
  BY <1>1, <1>2, <1>4, GivesUpMoves DEF Hears
<1>5. CASE told' = told /\ Goes(h, r)
  <2>1. r \in HandlerRecs /\ r.pc \in {"screen", "settle"} /\ r.reeval
    BY <1>2 DEF HandlerRecs, HandlerPcs, StableSamples
  <2> HIDE DEF r
  <2> QED
    BY <1>1, <1>2, <1>5, <2>1, GoesMoves DEF ActivePcs, Hears
<1> QED
  BY <1>3, <1>4, <1>5

LEMMA SettleScreenMoves ==
    ASSUME DeliveryIInv, NEW h \in Handlers, SettleScreen(h)
    PROVE  \E r : HandlerMoves(h, r)
<1>1. Active(h) /\ hd[h].pc = "screen" /\ UNCHANGED <<dl, ev, copies, typed, keys>>
  BY DEF SettleScreen, Active
<1>2. OneKey(h) /\ hd[h] \in HandlerRecs /\ hd[h].reeval
  BY <1>1, HandsOffFacts, AtWork DEF HandsOff, DeliveryIInv, SeenInv
<1> DEFINE r == [hd[h] EXCEPT !.pc = IF pendingCodexInput THEN "gate" ELSE "settle"]
<1>3. GivesUp(h, told) \/ (told' = told /\ Goes(h, r))
  BY DEF SettleScreen
<1>4. CASE GivesUp(h, told)
  BY <1>1, <1>2, <1>4, GivesUpMoves DEF Hears
<1>5. CASE told' = told /\ Goes(h, r)
  <2>1. r \in HandlerRecs /\ r.pc \in {"gate", "settle"} /\ r.reeval
    BY <1>2 DEF HandlerRecs, HandlerPcs
  <2> HIDE DEF r
  <2> QED
    BY <1>1, <1>2, <1>5, <2>1, GoesMoves DEF ActivePcs, Hears
<1> QED
  BY <1>3, <1>4, <1>5

\* A prompt that still stands in the composer is not being worked on; so if that
\* of the handler is, the one in the composer came later.
LEMMA GatePaneMoves ==
    ASSUME DeliveryIInv, OrderInv, NEW h \in Handlers, GatePane(h)
    PROVE  \E r : HandlerMoves(h, r)
<1>1. Active(h) /\ hd[h].pc = "gate" /\ UNCHANGED <<dl, ev, copies, typed, keys>>
  BY DEF GatePane, Active
<1>2. OneKey(h) /\ hd[h] \in HandlerRecs
  BY <1>1, HandsOffFacts, AtWork DEF HandsOff, DeliveryIInv
<1> DEFINE r == [hd[h] EXCEPT !.pc = "before"]
<1>3. GivesUp(h, told) \/ (told' = told /\ Goes(h, r) /\ (hd[h].reeval => pendingCodexInput))
  BY DEF GatePane
<1>4. CASE GivesUp(h, told)
  BY <1>1, <1>2, <1>4, GivesUpMoves DEF Hears
<1>5. CASE told' = told /\ Goes(h, r) /\ (hd[h].reeval => pendingCodexInput)
  <2>1. r \in HandlerRecs /\ r.pc = "before"
    BY <1>2 DEF HandlerRecs, HandlerPcs
  <2>2. h[1] \notin told.seen \/ LaterPrompt(h[1])
    <3>1. CASE hd[h].reeval
      <4>1. PICK b \in Attempts : typed[b] = "staged"
        BY <1>5, <3>1 DEF pendingCodexInput
      <4>2. h[1] \in told.seen => typed[h[1]] = "submitted" /\ ~(b < h[1]) /\ b # h[1]
        BY <4>1, HandlerIndex DEF DeliveryIInv, SeenInv, OrderInv
      <4>3. h[1] \in Nat /\ b \in Nat
        BY HandlerIndex DEF Attempts
      <4> QED
        BY <4>1, <4>2, <4>3 DEF LaterPrompt
    <3>2. CASE ~hd[h].reeval
      BY <1>1, <3>2 DEF DeliveryIInv, SeenInv
    <3> QED
      BY <3>1, <3>2
  <2> HIDE DEF r
  <2> QED
    BY <1>1, <1>2, <1>5, <2>1, <2>2, GoesMoves DEF ActivePcs, Hears
<1> QED
  BY <1>3, <1>4, <1>5

LEMMA StatusGateMoves ==
    ASSUME DeliveryIInv, NEW h \in Handlers, StatusGate(h)
    PROVE  \E r : HandlerMoves(h, r)
<1>1. /\ Active(h) /\ hd[h].pc \in {"before", "final"}
      /\ h[1] \notin told.seen \/ LaterPrompt(h[1])
      /\ UNCHANGED <<dl, ev, copies, typed, keys>>
  BY DEF StatusGate, Active, DeliveryIInv, SeenInv
<1>2. OneKey(h) /\ hd[h] \in HandlerRecs
  BY <1>1, HandsOffFacts, AtWork DEF HandsOff, DeliveryIInv
<1> DEFINE r == [hd[h] EXCEPT !.pc = IF hd[h].reeval /\ hd[h].pc = "before" THEN "final" ELSE "press"]
<1>3. PICK s \in StatusSample :
         \/ Quiet(h, s) /\ told' = Noticed(h[1], s) /\ Goes(h, r)
         \/ GivesUp(h, Noticed(h[1], s))
  BY DEF StatusGate
<1>4. CASE GivesUp(h, Noticed(h[1], s))
  BY <1>1, <1>2, <1>4, NoticedHears, GivesUpMoves
<1>5. CASE Quiet(h, s) /\ told' = Noticed(h[1], s) /\ Goes(h, r)
  <2>1. r \in HandlerRecs /\ r.pc \in {"final", "press"}
    BY <1>2 DEF HandlerRecs, HandlerPcs
  <2>2. told' = told
    BY <1>1, <1>5, NoticedHears DEF Quiet, NonWorking
  <2> HIDE DEF r
  <2> QED
    BY <1>1, <1>2, <1>5, <2>1, <2>2, GoesMoves DEF ActivePcs, Hears
<1> QED
  BY <1>3, <1>4, <1>5

LEMMA PressMoves ==
    ASSUME DeliveryIInv, NEW h \in Handlers, Press(h)
    PROVE  \E r : HandlerMoves(h, r)
<1>1. Active(h) /\ hd[h].pc = "press" /\ UNCHANGED <<dl, ev, copies>>
  BY DEF Press, Active
<1>2. hd[h] \in HandlerRecs /\ h[1] \in Attempts
  BY <1>1, AtWork
<1>3. PICK s \in Sends :
         /\ EnterLands(s.lands)
         /\ keys' = [keys EXCEPT ![h[1]] = @ + (IF s.spawned THEN 1 ELSE 0)]
         /\ IF deliverySend(s) = "sent"
            THEN Goes(h, [hd[h] EXCEPT !.pc = "watch"]) /\ told' = told
            ELSE GivesUp(h, told)
  BY DEF Press
<1>4. OneKey(h)
  <2>1. /\ typed' \in [Attempts -> Texts]
        /\ \A b \in Attempts : Kept(typed[b], typed'[b])
    BY <1>3, EnterFacts DEF DeliveryIInv, DeliveryTyped, Kept
  <2>2. /\ keys' \in [Attempts -> Nat]
        /\ \A b \in Attempts : b # h[1] => keys'[b] = keys[b]
        /\ keys'[h[1]] = keys[h[1]] \/ keys'[h[1]] = keys[h[1]] + 1
    BY <1>2, <1>3 DEF DeliveryIInv, DeliveryTyped
  <2> QED
    BY <1>1, <2>1, <2>2 DEF OneKey
<1>5. CASE GivesUp(h, told)
  BY <1>1, <1>4, <1>5, GivesUpMoves DEF Hears
<1>6. CASE Goes(h, [hd[h] EXCEPT !.pc = "watch"]) /\ told' = told
  <2> DEFINE r == [hd[h] EXCEPT !.pc = "watch"]
  <2>1. r \in HandlerRecs /\ r.pc = "watch"
    BY <1>2 DEF HandlerRecs, HandlerPcs
  <2> HIDE DEF r
  <2>2. Goes(h, r)
    BY <1>6 DEF r
  <2> QED
    BY <1>1, <1>4, <1>6, <2>1, <2>2, GoesMoves DEF ActivePcs, Hears
<1> QED
  BY <1>3, <1>5, <1>6

\* Another look of the watch changes nothing.
Looks == UNCHANGED <<dl, ev, copies, hd, claimed, busy, typed, keys, told>>

LEMMA WatchMoves ==
    ASSUME DeliveryIInv, NEW h \in Handlers, Watch(h)
    PROVE  (\E r : HandlerMoves(h, r)) \/ Looks
<1>1. Active(h) /\ hd[h].pc = "watch" /\ UNCHANGED <<dl, ev, copies, typed, keys>>
  BY DEF Watch, Active
<1>2. OneKey(h) /\ hd[h] \in HandlerRecs /\ told \in ToldRecs /\ h[1] \in Attempts
  BY <1>1, HandsOffFacts, AtWork DEF HandsOff, DeliveryIInv, DeliveryTyped
<1>3. PICK s \in StatusSample :
         \/ /\ busy' = FALSE /\ claimed' = claimed
            /\ hd' = [hd EXCEPT ![h] = [FreshHandler EXCEPT !.pc = "over"]]
            /\ told' = [Noticed(h[1], s) EXCEPT !.worked = @ \cup {h[1]}]
         \/ GivesUp(h, told)
         \/ UNCHANGED <<hd, claimed, busy, told>>
  BY DEF Watch
<1>4. CASE /\ busy' = FALSE /\ claimed' = claimed
           /\ hd' = [hd EXCEPT ![h] = [FreshHandler EXCEPT !.pc = "over"]]
           /\ told' = [Noticed(h[1], s) EXCEPT !.worked = @ \cup {h[1]}]
  <2> DEFINE r == [FreshHandler EXCEPT !.pc = "over"]
  <2>1. r \in HandlerRecs /\ r.pc = "over"
    BY FreshHandlerFacts DEF HandlerPcs
  <2>2. Hears(h, Noticed(h[1], s)) /\ Tells(h, Noticed(h[1], s))
    BY <1>1, <1>4, NoticedHears DEF Tells
  <2>3. Resolved(h[1])
    <3>1. Noticed(h[1], s) \in ToldRecs
      BY <1>2 DEF Noticed, ToldRecs
    <3> QED
      BY <1>4, <3>1 DEF Resolved, ToldRecs
  <2> HIDE DEF r
  <2>4. hd' = [hd EXCEPT ![h] = r]
    BY <1>4 DEF r
  <2>5. HandlerMoves(h, r)
    BY <1>1, <1>2, <1>4, <2>1, <2>2, <2>3, <2>4, AtWork DEF HandlerMoves, ActivePcs
  <2> QED
    BY <2>5
<1>5. CASE GivesUp(h, told)
  BY <1>1, <1>2, <1>5, GivesUpMoves DEF Hears
<1>6. CASE UNCHANGED <<hd, claimed, busy, told>>
  BY <1>1, <1>6 DEF Looks
<1> QED
  BY <1>3, <1>4, <1>5, <1>6

-----------------------------------------------------------------------------
LEMMA DeliveryInit == Init => DeliveryIInv
<1> SUFFICES ASSUME Init PROVE DeliveryIInv
  OBVIOUS
<1>1. \A a \in Attempts : dl[a] = FreshAttempt /\ ev[a] = NoEvidence /\ copies[a] = 0 /\ typed[a] = "no" /\ keys[a] = 0
  BY DEF Init
<1>2. \A h \in Handlers : hd[h] = FreshHandler /\ hd[h].pc = "none"
  BY FreshHandlerFacts DEF Init
<1>3. DeliveryTyped
  BY FreshTyped, FreshHandlerFacts DEF Init, DeliveryTyped, Texts, ToldRecs
<1>4. WayInv
  BY <1>1 DEF WayInv, Way, FreshAttempt
<1>5. EvidenceAccepted
  BY <1>1 DEF EvidenceAccepted, NoEvidence
<1>6. EventInv
  <2>1. claimed = {} /\ told.seen = {}
    BY DEF Init
  <2> QED
    BY <1>1, <1>2, <2>1, HandlerIndex DEF EventInv, Untouched
<1>7. LaneInv /\ ReportInv /\ KeysInv /\ SeenInv
  BY <1>1, <1>2 DEF Init, LaneInv, ReportInv, KeysInv, SeenInv, Active
<1> QED
  BY <1>3, <1>4, <1>5, <1>6, <1>7 DEF DeliveryIInv

\* A pane that goes, or a human's Enter.
LEMMA PaneMoves ==
    ASSUME DeliveryIInv, typed' \in [Attempts -> Texts], \A a \in Attempts : Kept(typed[a], typed'[a]),
           UNCHANGED <<dl, ev, copies, hd, claimed, busy, keys, told>>
    PROVE  DeliveryIInv'
<1> USE DEF DeliveryIInv
<1>1. DeliveryTyped'
  BY DEF DeliveryTyped
<1>2. WayInv'
  BY WayKept DEF WayInv
<1>3. EvidenceAccepted'
  BY DEF EvidenceAccepted, parseDeliveryV2
<1>4. EventInv'
  BY DEF EventInv, Untouched
<1>5. LaneInv' /\ ReportInv' /\ KeysInv'
  BY DEF LaneInv, ReportInv, KeysInv, Active
<1>6. SeenInv'
  <2>1. /\ \A a \in told.seen : a \in Attempts
        /\ \A h \in Handlers : LaterPrompt(h[1]) => LaterPrompt(h[1])'
    BY LaterKept, HandlerIndex DEF DeliveryTyped, ToldRecs
  <2> QED
    BY <2>1 DEF SeenInv, Kept
<1> QED
  BY <1>1, <1>2, <1>3, <1>4, <1>5, <1>6

LEMMA DeliveryNext == DeliveryIInv /\ OrderInv /\ [Next]_vars => DeliveryIInv'
<1> SUFFICES ASSUME DeliveryIInv, OrderInv, [Next]_vars PROVE DeliveryIInv'
  OBVIOUS
<1>0. typed \in [Attempts -> Texts]
  BY DEF DeliveryIInv, DeliveryTyped
<1>1. CASE PaneGoes
  BY <1>0, <1>1, PaneMoves DEF PaneGoes, Texts, Kept
<1>2. CASE HumanEnters
  BY <1>0, <1>2, PaneMoves DEF HumanEnters, Submitted, Texts, Kept
<1>3. CASE \E a \in Attempts : Delivery(a)
  <2> SUFFICES ASSUME NEW a \in Attempts, Delivery(a) PROVE DeliveryStep(a)
    BY <1>3, DeliveryKeepsInvariant
  <2> QED
    BY DeliverMoves, BaselineReadMoves, SendTextMoves, SendEnterMoves, ObserveReadMoves DEF Delivery
<1>4. CASE \E h \in Handlers : Handler(h)
  <2>1. PICK h \in Handlers : Handler(h)
    BY <1>4
  <2>2. (\E r : HandlerMoves(h, r)) \/ Looks
    BY <2>1, GiveUpArrivesMoves, GiveUpClaimsMoves, SettleReadMoves, SettleDecidesMoves,
       SettleScreenMoves, GatePaneMoves, StatusGateMoves, PressMoves, WatchMoves DEF Handler
  <2>3. CASE Looks
    BY <1>0, <2>3, PaneMoves DEF Looks, Kept
  <2> QED
    BY <2>2, <2>3, HandlerKeepsInvariant
<1>5. CASE UNCHANGED vars
  BY <1>0, <1>5, PaneMoves DEF vars, Kept
<1> QED
  BY <1>1, <1>2, <1>3, <1>4, <1>5 DEF Next

\* Only a step of a delivery changes where the deliveries are, and only its own text
\* gets staged; what is submitted takes all that is staged with it.
LEMMA OrderNext == DeliveryIInv /\ OrderInv /\ [Next]_vars => OrderInv'
<1> SUFFICES ASSUME DeliveryIInv, OrderInv, [Next]_vars PROVE OrderInv'
  OBVIOUS
<1>0. typed \in [Attempts -> Texts] /\ DeliveryTyped /\ Attempts \subseteq Nat
  BY DEF DeliveryIInv, DeliveryTyped, Attempts
<1> DEFINE Mixed == \A a, b \in Attempts :
                      /\ typed'[b] = "submitted" => typed[b] = "submitted" \/ typed'[a] # "staged"
                      /\ typed'[a] = "staged" => typed[a] = "staged"
<1>1. ASSUME typed' = typed \/ typed' = Submitted PROVE Mixed
  BY <1>0, <1>1 DEF Submitted, Texts
<1>2. ASSUME Mixed, dl' = dl PROVE OrderInv'
  BY <1>2 DEF OrderInv
<1>3. ASSUME NEW a \in Attempts, Delivery(a) PROVE OrderInv'
  <2>1. PICK d, n, e : Moves(a, d, n, e)
    BY <1>3, DeliverMoves, BaselineReadMoves, SendTextMoves, SendEnterMoves, ObserveReadMoves
       DEF Delivery, DeliveryStep
  <2>2. /\ dl'[a] = d /\ \A b \in Attempts : b # a => dl'[b] = dl[b]
        /\ dl[a].pc # "over"
    BY <1>0, <1>3, <2>1 DEF Moves, DeliveryTyped, Delivery, Deliver, BaselineRead, SendText, SendEnter, ObserveRead
  <2>3. \A b \in Attempts : b < a => dl[b].pc = "over"
    <3>1. CASE dl[a].pc # "none"
      BY <3>1 DEF OrderInv
    <3>2. CASE dl[a].pc = "none"
      <4>1. a > 1 => dl[a - 1].pc = "over"
        BY <1>3, <3>2 DEF Delivery, Deliver, BaselineRead, SendText, SendEnter, ObserveRead
      <4>2. ASSUME NEW b \in Attempts, b < a PROVE dl[b].pc = "over"
        <5>1. a - 1 \in Attempts /\ dl[a - 1].pc = "over" /\ b <= a - 1
          BY <4>1, <4>2, DeliveryBounds DEF Attempts
        <5> QED
          BY <1>0, <5>1 DEF OrderInv
      <4> QED
        BY <4>2
    <3> QED
      BY <3>1, <3>2
  <2>4. \A b \in Attempts : b > a => dl[b].pc = "none" /\ typed[b] = "no"
    <3>1. \A b \in Attempts : b > a => dl[b].pc = "none"
      BY <2>2 DEF OrderInv
    <3> QED
      BY <3>1 DEF DeliveryIInv, WayInv, Way
  <2>5. \A b, c \in Attempts : b < c /\ dl'[c].pc # "none" => dl'[b].pc = "over"
    <3> SUFFICES ASSUME NEW b \in Attempts, NEW c \in Attempts, b < c, dl'[c].pc # "none"
                 PROVE  dl'[b].pc = "over"
      OBVIOUS
    <3>1. CASE c = a
      BY <1>0, <2>2, <2>3, <3>1
    <3>2. CASE c # a
      <4>1. dl[b].pc = "over" /\ b # a
        BY <2>2, <3>2 DEF OrderInv
      <4> QED
        BY <2>2, <4>1
    <3> QED
      BY <3>1, <3>2
  <2>6. CASE typed' = typed \/ typed' = Submitted
    BY <1>1, <2>5, <2>6 DEF OrderInv
  <2>7. CASE typed' # typed /\ typed' # Submitted
    <3>1. \A b \in Attempts : b # a => typed'[b] = typed[b]
      BY <1>0, <1>3, <2>7 DEF Delivery, Deliver, BaselineRead, SendText, SendEnter, ObserveRead, EnterLands
    <3>2. typed'[a] \in {"staged", typed[a]}
      BY <1>0, <1>3, <2>7 DEF Delivery, Deliver, BaselineRead, SendText, SendEnter, ObserveRead, EnterLands
    <3> QED
      BY <1>0, <2>4, <2>5, <3>1, <3>2 DEF OrderInv
  <2> QED
    BY <2>6, <2>7
<1>4. CASE PaneGoes
  BY <1>0, <1>2, <1>4 DEF PaneGoes, Texts
<1>5. CASE HumanEnters
  BY <1>1, <1>2, <1>5 DEF HumanEnters
<1>6. CASE \E h \in Handlers : Handler(h)
  <2>1. dl' = dl /\ (typed' = typed \/ typed' = Submitted)
    BY <1>6 DEF Handler, GiveUpArrives, GiveUpClaims, SettleRead, SettleDecides, SettleScreen, GatePane,
       StatusGate, Press, Watch, EnterLands
  <2> QED
    BY <1>1, <1>2, <2>1
<1>7. CASE UNCHANGED vars
  BY <1>1, <1>2, <1>7 DEF vars
<1> QED
  BY <1>3, <1>4, <1>5, <1>6, <1>7 DEF Next

\* What delivery.ts, tui-lane.ts and remediator.ts keep at every await.
THEOREM DeliveryInvariant == Spec => [](DeliveryIInv /\ OrderInv)
<1>1. Init => OrderInv
  BY DEF Init, OrderInv, FreshAttempt
<1> QED
  BY <1>1, DeliveryInit, DeliveryNext, OrderNext, PTL DEF Spec

\* Nothing sent means nothing sent, the evidence is accepted, and a give-up
\* that reached the Notifier is never dropped in silence.
THEOREM DeliveryIsHonest == Spec => []DeliveryHonest
<1>1. DeliveryIInv => DeliveryHonest
  <2> SUFFICES ASSUME DeliveryIInv PROVE DeliveryHonest
    OBVIOUS
  <2>1. NotSentIsClean
    BY DEF DeliveryIInv, WayInv, Way, NotSentIsClean
  <2>2. GiveUpReported
    <3> SUFFICES ASSUME NEW a \in Attempts,
                        {h \in Handlers : h[1] = a /\ hd[h].pc # "none"} # {},
                        \A h \in {g \in Handlers : g[1] = a /\ hd[g].pc # "none"} : hd[h].pc = "over"
                 PROVE  a \in told.alerted \cup told.worked
      BY DEF GiveUpReported
    <3>1. PICK h \in Handlers : h[1] = a /\ hd[h].pc = "over"
      OBVIOUS
    <3>2. \A g \in Handlers : g[1] = a => ~Active(g)
      BY DEF Active
    <3> QED
      BY <3>1, <3>2 DEF DeliveryIInv, ReportInv
  <2> QED
    BY <2>1, <2>2 DEF DeliveryHonest, DeliveryIInv
<1> QED
  BY <1>1, DeliveryInvariant, PTL

\* However many copies of a give-up arrive, one machine Enter at most answers an
\* attempt, and one handler at a time is at work in the pane.
THEOREM MachineEntersOnce == Spec => []MachineEnterOnce
<1>1. DeliveryIInv => MachineEnterOnce
  <2> SUFFICES ASSUME DeliveryIInv PROVE MachineEnterOnce
    OBVIOUS
  <2>1. \A a \in Attempts : keys[a] <= 1
    BY DEF DeliveryIInv, KeysInv
  <2>2. ASSUME NEW g \in Handlers, NEW h \in Handlers,
               {hd[g].pc, hd[h].pc} \subseteq {"gate", "before", "final", "press", "watch"}
        PROVE  g = h
    BY <2>2 DEF DeliveryIInv, LaneInv, Active
  <2> QED
    BY <2>1, <2>2 DEF MachineEnterOnce
<1> QED
  BY <1>1, DeliveryInvariant, PTL

\* A key for a prompt that the attempt has seen being worked on is pressed only when
\* a later prompt of the same ending reached the pane (remediator.ts, delivery.ts).
THEOREM NoMachineEnterIntoWork == Spec => NoEnterIntoWork
<1> DEFINE A == \A a \in Attempts : keys'[a] > keys[a] /\ typed[a] = "submitted" /\ a \in told.seen
                                    => LaterPrompt(a)
<1>1. DeliveryIInv /\ [Next]_vars => [A]_vars
  <2> SUFFICES ASSUME DeliveryIInv, Next, NEW a \in Attempts, keys'[a] > keys[a]
               PROVE  a \notin told.seen \/ LaterPrompt(a)
    OBVIOUS
  <2>0. keys[a] \in Nat /\ keys'[a] # keys[a]
    BY DEF DeliveryIInv, DeliveryTyped
  <2>1. PICK h \in Handlers : Handler(h)
    BY <2>0 DEF Next, PaneGoes, HumanEnters, Delivery, Deliver, BaselineRead, SendText, SendEnter, ObserveRead
  <2>2. Press(h)
    BY <2>0, <2>1 DEF Handler, GiveUpArrives, GiveUpClaims, SettleRead, SettleDecides, SettleScreen,
       GatePane, StatusGate, Watch
  <2>3. a = h[1] /\ hd[h].pc = "press"
    BY <2>0, <2>2 DEF Press, DeliveryIInv, DeliveryTyped
  <2> QED
    BY <2>3 DEF DeliveryIInv, SeenInv
<1> QED
  BY <1>1, DeliveryInvariant, PTL DEF Spec, NoEnterIntoWork

(***************************************************************************)
(* SysPanes: the system panes of `tut up`.                                 *)
(***************************************************************************)
UpFields == {"step", "url", "ask", "hub", "port", "herdr", "snap", "listening", "for", "pane"}

UpShape(r) ==
    /\ r = [f \in UpFields |-> r[f]]
    /\ r.for \in Services

PaneFields == {"label", "service", "hub", "port"}

PaneShape(q) == q = [f \in PaneFields |-> q[f]]

SysShape(s) ==
    /\ \E n \in Nat : DOMAIN s = 1..n
    /\ s = [p \in DOMAIN s |-> s[p]]
    /\ \A p \in DOMAIN s : PaneShape(s[p])

SysTyped ==
    /\ SysShape(sys)
    /\ up = [u \in Ups |-> up[u]]
    /\ \A u \in Ups : UpShape(up[u])

\* The panes of s with the label k, and two of them, which is what Cardinality
\* counts.
Of(s, k) == {p \in DOMAIN s : s[p].label = k}

Twins(s) == \E k \in Services : \E p, q \in Of(s, k) : p # q

\* Where an up has still to look for duplicates, or has failed.
Accountable == {"place", "rename", "run", "wait", "notify", "final", "failed", "killed"}

TwinsInv ==
    /\ \A u \in Ups : up[u].step \in {"place", "rename", "run", "wait"} => up[u].herdr
    /\ Twins(sys) => \E u \in Ups : up[u].herdr /\ up[u].step \in Accountable

\* Every up that has begun takes the start lock.
AllLock == \A u \in Ups : up[u].url # NotGiven => up[u].step = "idle"

UpAtWork(r) == r.step \notin Exits \cup {"idle"}

\* The services whose panes the up has still to provide.
Ahead(r) ==
    CASE r.step \in {"probe", "hub"} -> Services
      [] r.step \in {"place", "rename"} -> {r.for, "notify"}
      [] r.step \in {"run", "wait"} -> {"notify"} \ {r.for}
      [] r.step = "notify" -> {"notify"}
      [] OTHER -> {}

ServiceUnderLabel(s) == \A p \in DOMAIN s : s[p].service # "none" => s[p].label = s[p].service

SnapOk(s, r) ==
    /\ \A k \in Services : r.snap[k] # NoPane => r.snap[k] \in DOMAIN s /\ s[r.snap[k]].label \in {k, "closed"}
    /\ \A k \in Ahead(r) : r.herdr /\ r.snap[k] = NoPane => Of(s, k) = {}
    /\ r.step \in {"place", "rename"} => r.snap[r.for] = NoPane
    /\ r.step = "rename" => r.pane \in DOMAIN s /\ s[r.pane].label = "none"
    /\ r.step = "run" => r.pane \in DOMAIN s /\ s[r.pane].label \in {r.for, "closed"}
    /\ r.step \in {"idle", "resolve", "list"} => \A k \in Services : r.snap[k] = NoPane

LockedInv ==
    AllLock =>
      /\ \A u \in Ups : UpAtWork(up[u]) => rigLock = u
      /\ ~Twins(sys) /\ ServiceUnderLabel(sys)
      /\ \A u \in Ups : UpAtWork(up[u]) \/ up[u].step = "idle" => SnapOk(sys, up[u])

SysIInv == SysTyped /\ TwinsInv /\ LockedInv

\* How a step of u moves the start lock.
LockMoves(u, r) ==
    \/ rigLock' = rigLock /\ (UpAtWork(up[u]) \/ r.url # NotGiven)
    \/ rigLock = Unlocked /\ rigLock' = u /\ up[u].step = "idle"
    \/ r.step \in Exits /\ rigLock' = IF rigLock = u THEN Unlocked ELSE rigLock

\* A step of u that leaves the panes alone.
LEMMA QuietUpKeeps ==
    ASSUME SysIInv, NEW u \in Ups, NEW r, up' = [up EXCEPT ![u] = r], UNCHANGED sys,
           UpShape(r), r.url = up[u].url, r.step # "idle", LockMoves(u, r),
           r.step \in {"place", "rename", "run", "wait"} => r.herdr,
           up[u].herdr /\ up[u].step \in Accountable /\ Twins(sys) => r.herdr /\ r.step \in Accountable,
           AllLock /\ SnapOk(sys, up[u]) /\ (UpAtWork(up[u]) \/ up[u].step = "idle") /\ UpAtWork(r) => SnapOk(sys, r),
           up[u].step \notin Exits
    PROVE  SysIInv'
<1> USE DEF SysIInv
<1>1. up'[u] = r /\ \A w \in Ups \ {u} : up'[w] = up[w]
  BY DEF SysTyped
<1>2. SysTyped'
  BY <1>1 DEF SysTyped
<1>3. TwinsInv'
  <2>1. \A w \in Ups : up'[w].step \in {"place", "rename", "run", "wait"} => up'[w].herdr
    BY <1>1 DEF TwinsInv
  <2>2. ASSUME Twins(sys) PROVE \E w \in Ups : up'[w].herdr /\ up'[w].step \in Accountable
    BY <1>1, <2>2 DEF TwinsInv
  <2> QED
    BY <2>1, <2>2 DEF TwinsInv
<1>4. ASSUME AllLock'
      PROVE  /\ \A w \in Ups : UpAtWork(up'[w]) => rigLock' = w
             /\ ~Twins(sys) /\ ServiceUnderLabel(sys)
             /\ \A w \in Ups : UpAtWork(up'[w]) \/ up'[w].step = "idle" => SnapOk(sys, up'[w])
  <2>1. r.url = NotGiven /\ AllLock
    BY <1>1, <1>4 DEF AllLock
  <2>2. /\ \A w \in Ups : UpAtWork(up[w]) => rigLock = w
        /\ ~Twins(sys) /\ ServiceUnderLabel(sys)
        /\ \A w \in Ups : UpAtWork(up[w]) \/ up[w].step = "idle" => SnapOk(sys, up[w])
    BY <2>1 DEF LockedInv
  <2>3. ASSUME NEW w \in Ups, UpAtWork(up'[w]) PROVE rigLock' = w
    <3>1. CASE w = u
      BY <1>1, <2>1, <2>2, <2>3, <3>1 DEF LockMoves, UpAtWork
    <3>2. CASE w # u
      <4>1. rigLock = w
        BY <1>1, <2>2, <2>3, <3>2
      <4>2. ~UpAtWork(up[u]) /\ rigLock # Unlocked
        BY <2>2, <3>2, <4>1, UpAssumption DEF Unlocked
      <4> QED
        BY <2>1, <3>2, <4>1, <4>2 DEF LockMoves
    <3> QED
      BY <3>1, <3>2
  <2>4. ASSUME NEW w \in Ups, UpAtWork(up'[w]) \/ up'[w].step = "idle" PROVE SnapOk(sys, up'[w])
    <3>1. CASE w = u
      <4>1. UpAtWork(up[u]) \/ up[u].step = "idle"
        BY DEF UpAtWork
      <4> QED
        BY <1>1, <2>1, <2>2, <2>4, <3>1, <4>1
    <3>2. CASE w # u
      BY <1>1, <2>2, <2>4, <3>2
    <3> QED
      BY <3>1, <3>2
  <2> QED
    BY <2>2, <2>3, <2>4
<1>5. LockedInv'
  BY <1>4 DEF LockedInv
<1> QED
  BY <1>2, <1>3, <1>5

LEMMA TwinsCounted ==
    ASSUME SysTyped
    PROVE  /\ Duplicated <=> Twins(sys)
           /\ \A k : (\A p, q \in Labelled(k) : p = q) => Cardinality(Labelled(k)) <= 1
<1>1. IsFiniteSet(Panes)
  BY FS_Interval DEF SysTyped, SysShape, Panes
<1>2. ASSUME NEW k PROVE /\ IsFiniteSet(Labelled(k)) /\ Cardinality(Labelled(k)) \in Nat
                         /\ Labelled(k) = Of(sys, k)
  <2>1. Labelled(k) \subseteq Panes /\ Labelled(k) = Of(sys, k)
    BY DEF Labelled, Of, Panes
  <2> QED
    BY <1>1, <2>1, FS_Subset, FS_CardinalityType
<1>3. ASSUME NEW k, \A p, q \in Labelled(k) : p = q PROVE Cardinality(Labelled(k)) <= 1
  <2>1. CASE Labelled(k) = {}
    BY <2>1, FS_EmptySet
  <2>2. CASE Labelled(k) # {}
    <3>1. PICK p : Labelled(k) = {p}
      BY <1>3, <2>2
    <3> QED
      BY <3>1, FS_Singleton
  <2> QED
    BY <2>1, <2>2
<1>4. ASSUME NEW k, NEW p \in Labelled(k), NEW q \in Labelled(k), p # q PROVE Cardinality(Labelled(k)) > 1
  <2>1. {p, q} \subseteq Labelled(k)
    OBVIOUS
  <2>2. Cardinality({p, q}) = 2
    <3>1. IsFiniteSet({p}) /\ Cardinality({p}) = 1 /\ q \notin {p} /\ {p, q} = {p} \cup {q}
      BY <1>4, FS_Singleton
    <3>2. Cardinality({p} \cup {q}) = Cardinality({p}) + 1
      BY <3>1, FS_AddElement
    <3> QED
      BY <3>1, <3>2
  <2>3. Cardinality({p, q}) <= Cardinality(Labelled(k))
    BY <1>2, <2>1, FS_Subset
  <2> QED
    BY <1>2, <2>2, <2>3
<1>5. Duplicated => Twins(sys)
  BY <1>2, <1>3 DEF Duplicated, Twins
<1>6. Twins(sys) => Duplicated
  BY <1>2, <1>4 DEF Duplicated, Twins
<1> QED
  BY <1>3, <1>5, <1>6

\* The records an up goes through.
LEMMA ProceedShape ==
    ASSUME NEW r, UpShape(r), NEW step
    PROVE  LET n == [r EXCEPT !.step = step]
           IN  /\ UpShape(n) /\ n.step = step /\ n.url = r.url /\ n.herdr = r.herdr
               /\ n.snap = r.snap /\ n.for = r.for /\ n.pane = r.pane
  BY DEF UpShape, UpFields

\* An up that leaves by one of its exits, and leaves the panes alone.
LEMMA ExitKeeps ==
    ASSUME SysIInv, NEW u \in Ups, NEW how \in Exits, Exit(u, how), UNCHANGED sys,
           up[u].step \notin Exits,
           up[u].step = "final" /\ up[u].herdr /\ Twins(sys) => how \in {"failed", "killed"},
           how \in {"failed", "killed"} \/ up[u].step = "final"
    PROVE  SysIInv'
<1> DEFINE r == [up[u] EXCEPT !.step = how]
<1>1. /\ UpShape(r) /\ r.step = how /\ r.url = up[u].url /\ r.herdr = up[u].herdr
  BY ProceedShape DEF SysIInv, SysTyped
<1>2. up' = [up EXCEPT ![u] = r] /\ rigLock' = IF rigLock = u THEN Unlocked ELSE rigLock
  BY DEF Exit, Proceed
<1> HIDE DEF r
<1>3. r.step # "idle" /\ r.step \notin {"place", "rename", "run", "wait"} /\ ~UpAtWork(r)
  BY <1>1 DEF Exits, UpAtWork
<1>4. LockMoves(u, r)
  BY <1>1, <1>2 DEF LockMoves
<1>5. up[u].herdr /\ up[u].step \in Accountable /\ Twins(sys) => r.herdr /\ r.step \in Accountable
  BY <1>1 DEF Accountable
<1> QED
  BY <1>1, <1>2, <1>3, <1>4, <1>5, QuietUpKeeps

LEMMA UpLocksKeeps ==
    ASSUME SysIInv, NEW u \in Ups, UpLocks(u)
    PROVE  SysIInv'
<1>1. up[u].step = "idle" /\ UNCHANGED sys /\ up[u].step \notin Exits
  BY DEF UpLocks, Stage, Exits
<1>2. CASE Exit(u, "failed")
  BY <1>1, <1>2, ExitKeeps DEF Exits
<1>3. CASE /\ Proceed(u, "resolve")
           /\ (up[u].url # NotGiven /\ rigLock' = rigLock) \/ (rigLock = Unlocked /\ rigLock' = u)
  <2> DEFINE r == [up[u] EXCEPT !.step = "resolve"]
  <2>1. /\ UpShape(r) /\ r.step = "resolve" /\ r.url = up[u].url /\ r.herdr = up[u].herdr
        /\ r.snap = up[u].snap /\ r.for = up[u].for /\ r.pane = up[u].pane
    BY ProceedShape DEF SysIInv, SysTyped
  <2>2. up' = [up EXCEPT ![u] = r]
    BY <1>3 DEF Proceed
  <2> HIDE DEF r
  <2>3. LockMoves(u, r)
    BY <1>1, <1>3, <2>1 DEF LockMoves
  <2>4. up[u].step \notin Accountable
    BY <1>1 DEF Accountable
  <2>5. SnapOk(sys, up[u]) => SnapOk(sys, r)
    BY <1>1, <2>1 DEF SnapOk, Ahead
  <2> QED
    BY <1>1, <2>1, <2>2, <2>3, <2>4, <2>5, QuietUpKeeps
<1> QED
  BY <1>2, <1>3 DEF UpLocks

LEMMA UpResolvesKeeps ==
    ASSUME SysIInv, NEW u \in Ups, UpResolves(u)
    PROVE  SysIInv'
<1>1. up[u].step = "resolve" /\ UNCHANGED sys /\ up[u].step \notin Exits
  BY DEF UpResolves, Stage, Exits
<1>2. CASE Exit(u, "failed")
  BY <1>1, <1>2, ExitKeeps DEF Exits
<1>3. CASE /\ \E e \in Endpoints(u) : up' = [up EXCEPT ![u].step = "list", ![u].hub = e.hub, ![u].port = e.port]
           /\ rigLock' = rigLock
  <2>1. PICK e \in Endpoints(u) : up' = [up EXCEPT ![u].step = "list", ![u].hub = e.hub, ![u].port = e.port]
    BY <1>3
  <2> DEFINE r == [up[u] EXCEPT !.step = "list", !.hub = e.hub, !.port = e.port]
  <2>2. UpShape(up[u])
    BY DEF SysIInv, SysTyped
  <2>3. /\ UpShape(r) /\ r.step = "list" /\ r.url = up[u].url /\ r.herdr = up[u].herdr
        /\ r.snap = up[u].snap /\ r.for = up[u].for /\ r.pane = up[u].pane
    BY <2>2 DEF UpShape, UpFields
  <2>4. up' = [up EXCEPT ![u] = r]
    BY <2>1 DEF SysIInv, SysTyped
  <2> HIDE DEF r
  <2>5. LockMoves(u, r)
    BY <1>1, <1>3 DEF LockMoves, UpAtWork, Exits
  <2>6. up[u].step \notin Accountable
    BY <1>1 DEF Accountable
  <2>7. SnapOk(sys, up[u]) => SnapOk(sys, r)
    BY <1>1, <2>3 DEF SnapOk, Ahead
  <2> QED
    BY <1>1, <2>3, <2>4, <2>5, <2>6, <2>7, QuietUpKeeps
<1> QED
  BY <1>2, <1>3 DEF UpResolves

LEMMA UpListsKeeps ==
    ASSUME SysIInv, NEW u \in Ups, UpLists(u)
    PROVE  SysIInv'
<1>1. up[u].step = "list" /\ UNCHANGED <<sys, rigLock>> /\ up[u].step \notin Exits
  BY DEF UpLists, Stage, Exits
<1>2. UpShape(up[u])
  BY DEF SysIInv, SysTyped
<1>3. up[u].step \notin Accountable
  BY <1>1 DEF Accountable
<1>4. CASE \E snap \in [Services -> Panes \cup {NoPane}] :
              /\ \A k \in Services : snap[k] \in (IF Labelled(k) = {} THEN {NoPane} ELSE Labelled(k))
              /\ up' = [up EXCEPT ![u].step = "probe", ![u].snap = snap]
  <2>1. PICK snap \in [Services -> Panes \cup {NoPane}] :
              /\ \A k \in Services : snap[k] \in (IF Labelled(k) = {} THEN {NoPane} ELSE Labelled(k))
              /\ up' = [up EXCEPT ![u].step = "probe", ![u].snap = snap]
    BY <1>4
  <2> DEFINE r == [up[u] EXCEPT !.step = "probe", !.snap = snap]
  <2>2. /\ UpShape(r) /\ r.step = "probe" /\ r.url = up[u].url /\ r.herdr = up[u].herdr /\ r.snap = snap
    BY <1>2 DEF UpShape, UpFields
  <2>3. up' = [up EXCEPT ![u] = r]
    BY <2>1 DEF SysIInv, SysTyped
  <2> HIDE DEF r
  <2>4. LockMoves(u, r)
    BY <1>1 DEF LockMoves, UpAtWork, Exits
  <2>5. SnapOk(sys, r)
    <3>1. \A p \in Panes : p # NoPane
      BY DEF SysIInv, SysTyped, SysShape, Panes, NoPane
    <3>2. \A k \in Services : Labelled(k) = Of(sys, k) /\ Labelled(k) \subseteq Panes
      BY DEF Labelled, Of, Panes
    <3>3. ASSUME NEW k \in Services
          PROVE  /\ r.snap[k] # NoPane => r.snap[k] \in DOMAIN sys /\ sys[r.snap[k]].label \in {k, "closed"}
                 /\ r.snap[k] = NoPane => Of(sys, k) = {}
      BY <2>1, <2>2, <3>1, <3>2 DEF Labelled, Panes
    <3>4. Ahead(r) \subseteq Services
      BY <2>2 DEF Ahead, UpShape, Services
    <3> QED
      BY <2>2, <3>3, <3>4 DEF SnapOk
  <2> QED
    BY <1>1, <1>3, <2>2, <2>3, <2>4, <2>5, QuietUpKeeps
<1>5. CASE up' = [up EXCEPT ![u].step = "probe", ![u].herdr = FALSE]
  <2> DEFINE r == [up[u] EXCEPT !.step = "probe", !.herdr = FALSE]
  <2>1. /\ UpShape(r) /\ r.step = "probe" /\ r.url = up[u].url /\ r.herdr = FALSE /\ r.snap = up[u].snap
    BY <1>2 DEF UpShape, UpFields
  <2>2. up' = [up EXCEPT ![u] = r]
    BY <1>5 DEF SysIInv, SysTyped
  <2> HIDE DEF r
  <2>3. LockMoves(u, r)
    BY <1>1 DEF LockMoves, UpAtWork, Exits
  <2>4. SnapOk(sys, up[u]) => SnapOk(sys, r)
    BY <1>1, <2>1 DEF SnapOk
  <2> QED
    BY <1>1, <1>3, <2>1, <2>2, <2>3, <2>4, QuietUpKeeps
<1> QED
  BY <1>4, <1>5 DEF UpLists

LEMMA UpProbesKeeps ==
    ASSUME SysIInv, NEW u \in Ups, UpProbes(u)
    PROVE  SysIInv'
<1>1. up[u].step = "probe" /\ UNCHANGED sys /\ up[u].step \notin Exits
  BY DEF UpProbes, Stage, Exits
<1>2. CASE Exit(u, "failed")
  BY <1>1, <1>2, ExitKeeps DEF Exits
<1>3. CASE /\ up' = [up EXCEPT ![u].step = "hub", ![u].listening = notifyHealthy(up[u].hub, up[u].port)]
           /\ rigLock' = rigLock
  <2> DEFINE b == notifyHealthy(up[u].hub, up[u].port)
             r == [up[u] EXCEPT !.step = "hub", !.listening = b]
  <2>0. up' = [up EXCEPT ![u].step = "hub", ![u].listening = b] /\ UpShape(up[u])
    BY <1>3 DEF SysIInv, SysTyped
  <2> HIDE DEF b
  <2>1. /\ UpShape(r) /\ r.step = "hub" /\ r.url = up[u].url /\ r.herdr = up[u].herdr /\ r.snap = up[u].snap
    BY <2>0 DEF UpShape, UpFields
  <2>2. up' = [up EXCEPT ![u] = r]
    BY <2>0 DEF SysIInv, SysTyped
  <2> HIDE DEF r
  <2>3. LockMoves(u, r)
    BY <1>1, <1>3 DEF LockMoves, UpAtWork, Exits
  <2>4. up[u].step \notin Accountable
    BY <1>1 DEF Accountable
  <2>5. SnapOk(sys, up[u]) => SnapOk(sys, r)
    BY <1>1, <2>1 DEF SnapOk, Ahead
  <2> QED
    BY <1>1, <2>1, <2>2, <2>3, <2>4, <2>5, QuietUpKeeps
<1> QED
  BY <1>2, <1>3 DEF UpProbes

LEMMA ProvisionKeeps ==
    ASSUME SysIInv, NEW u \in Ups, NEW k \in Services, up[u].step = k, up[u].herdr,
           Provision(u, k), UNCHANGED <<sys, rigLock>>
    PROVE  SysIInv'
<1> DEFINE step == IF up[u].snap[k] = NoPane THEN "place" ELSE "run"
           r == [up[u] EXCEPT !.for = k, !.pane = up[u].snap[k], !.step = step]
<1>1. UpShape(up[u]) /\ up[u].step \notin Exits /\ UpAtWork(up[u])
  BY DEF SysIInv, SysTyped, Services, Exits, UpAtWork
<1>2. up' = [up EXCEPT ![u] = r]
  BY DEF Provision, Reusable, SysIInv, SysTyped
<1>3. step \in {"place", "run"} /\ (step = "place" <=> up[u].snap[k] = NoPane)
  OBVIOUS
<1> HIDE DEF step
<1>4. /\ UpShape(r) /\ r.step = step /\ r.url = up[u].url /\ r.herdr = up[u].herdr /\ r.snap = up[u].snap
      /\ r.for = k /\ r.pane = up[u].snap[k]
  BY <1>1 DEF UpShape, UpFields
<1> HIDE DEF r
<1>5. LockMoves(u, r)
  BY <1>1 DEF LockMoves
<1>6. SnapOk(sys, up[u]) => SnapOk(sys, r)
  <2> SUFFICES ASSUME SnapOk(sys, up[u]) PROVE SnapOk(sys, r)
    OBVIOUS
  <2>1. Ahead(r) \subseteq Ahead(up[u]) /\ Ahead(r) \subseteq Services
    BY <1>3, <1>4 DEF Ahead, Services
  <2> QED
    BY <1>3, <1>4, <2>1 DEF SnapOk
<1>7. r.step \in Accountable /\ r.step # "idle"
  BY <1>3, <1>4 DEF Accountable
<1> QED
  BY <1>1, <1>2, <1>4, <1>5, <1>6, <1>7, QuietUpKeeps

\* An up that goes on to another step, and leaves the panes alone.
LEMMA ProceedKeeps ==
    ASSUME SysIInv, NEW u \in Ups, NEW step \in {"notify", "final"}, Proceed(u, step), UNCHANGED <<sys, rigLock>>,
           \/ up[u].step = "hub" /\ step = "notify"
           \/ up[u].step = "notify" /\ step = "final"
           \/ up[u].step = "wait" /\ step = IF up[u].for = "hub" THEN "notify" ELSE "final"
    PROVE  SysIInv'
<1> DEFINE r == [up[u] EXCEPT !.step = step]
<1>1. /\ UpShape(r) /\ r.step = step /\ r.url = up[u].url /\ r.herdr = up[u].herdr
      /\ r.snap = up[u].snap /\ r.for = up[u].for /\ r.pane = up[u].pane /\ UpShape(up[u])
  BY ProceedShape DEF SysIInv, SysTyped
<1>2. up' = [up EXCEPT ![u] = r]
  BY DEF Proceed
<1> HIDE DEF r
<1>3. up[u].step \notin Exits /\ UpAtWork(up[u])
  BY DEF Exits, UpAtWork
<1>4. LockMoves(u, r)
  BY <1>3 DEF LockMoves
<1>5. SnapOk(sys, up[u]) => SnapOk(sys, r)
  <2>1. Ahead(r) \subseteq Ahead(up[u])
    BY <1>1 DEF Ahead, Services
  <2> QED
    BY <1>1, <2>1 DEF SnapOk
<1>6. r.step \in Accountable /\ r.step # "idle"
  BY <1>1 DEF Accountable
<1> QED
  BY <1>1, <1>2, <1>3, <1>4, <1>5, <1>6, QuietUpKeeps

LEMMA UpStepKeeps ==
    ASSUME SysIInv, NEW u \in Ups, UpStepHub(u) \/ UpStepNotify(u)
    PROVE  SysIInv'
<1>1. UNCHANGED <<sys, rigLock>>
  BY DEF UpStepHub, UpStepNotify
<1>2. CASE up[u].step = "hub" /\ Proceed(u, "notify")
  BY <1>1, <1>2, ProceedKeeps
<1>3. CASE up[u].step = "hub" /\ up[u].herdr /\ Provision(u, "hub")
  BY <1>1, <1>3, ProvisionKeeps DEF Services
<1>4. CASE up[u].step = "notify" /\ Proceed(u, "final")
  BY <1>1, <1>4, ProceedKeeps
<1>5. CASE up[u].step = "notify" /\ up[u].herdr /\ Provision(u, "notify")
  BY <1>1, <1>5, ProvisionKeeps DEF Services
<1> QED
  BY <1>2, <1>3, <1>4, <1>5 DEF UpStepHub, UpStepNotify, Stage

LEMMA UpWaitsKeeps ==
    ASSUME SysIInv, NEW u \in Ups, UpWaits(u)
    PROVE  SysIInv'
<1>1. up[u].step = "wait" /\ UNCHANGED sys /\ up[u].step \notin Exits
  BY DEF UpWaits, Stage, Exits
<1>2. CASE Exit(u, "failed")
  BY <1>1, <1>2, ExitKeeps DEF Exits
<1>3. CASE Proceed(u, IF up[u].for = "hub" THEN "notify" ELSE "final") /\ UNCHANGED rigLock
  <2> DEFINE step == IF up[u].for = "hub" THEN "notify" ELSE "final"
  <2>1. step \in {"notify", "final"}
    OBVIOUS
  <2> QED
    BY <1>1, <1>3, <2>1, ProceedKeeps
<1> QED
  BY <1>2, <1>3 DEF UpWaits

LEMMA UpReportsKeeps ==
    ASSUME SysIInv, NEW u \in Ups, UpReports(u)
    PROVE  SysIInv'
<1> DEFINE how == IF ~up[u].herdr THEN "manual" ELSE IF Duplicated THEN "failed" ELSE "ok"
<1>1. up[u].step = "final" /\ UNCHANGED sys /\ Exit(u, how) /\ up[u].step \notin Exits
  BY DEF UpReports, Stage, Exits
<1>2. Duplicated <=> Twins(sys)
  BY TwinsCounted DEF SysIInv
<1>3. how \in Exits /\ (up[u].herdr /\ Twins(sys) => how = "failed")
  BY <1>2 DEF Exits
<1> HIDE DEF how
<1> QED
  BY <1>1, <1>3, ExitKeeps

\* A step of u that changes the panes.
LEMMA LoudUpKeeps ==
    ASSUME SysIInv, NEW u \in Ups, NEW r, up' = [up EXCEPT ![u] = r],
           UpShape(r), r.url = up[u].url, UpAtWork(up[u]), LockMoves(u, r),
           r.step # "idle", r.herdr, r.step \in Accountable, SysShape(sys'),
           AllLock /\ ~Twins(sys) /\ ServiceUnderLabel(sys) /\ SnapOk(sys, up[u])
             => ~Twins(sys') /\ ServiceUnderLabel(sys') /\ (UpAtWork(r) => SnapOk(sys', r))
    PROVE  SysIInv'
<1> USE DEF SysIInv
<1>1. up'[u] = r /\ \A w \in Ups \ {u} : up'[w] = up[w]
  BY DEF SysTyped
<1>2. SysTyped'
  BY <1>1 DEF SysTyped
<1>3. TwinsInv'
  BY <1>1 DEF TwinsInv
<1>4. ASSUME AllLock'
      PROVE  /\ \A w \in Ups : UpAtWork(up'[w]) => rigLock' = w
             /\ ~Twins(sys') /\ ServiceUnderLabel(sys')
             /\ \A w \in Ups : UpAtWork(up'[w]) \/ up'[w].step = "idle" => SnapOk(sys', up'[w])
  <2>1. r.url = NotGiven /\ AllLock
    BY <1>1, <1>4 DEF AllLock
  <2>2. /\ \A w \in Ups : UpAtWork(up[w]) => rigLock = w
        /\ \A w \in Ups : UpAtWork(up[w]) \/ up[w].step = "idle" => SnapOk(sys, up[w])
        /\ ~Twins(sys') /\ ServiceUnderLabel(sys') /\ (UpAtWork(r) => SnapOk(sys', r))
    BY <2>1 DEF LockedInv
  <2>3. rigLock = u
    BY <2>2
  <2>4. \A w \in Ups \ {u} : ~UpAtWork(up'[w])
    BY <1>1, <2>2, <2>3
  <2>5. UpAtWork(r) => rigLock' = u
    BY <2>3, UpAssumption DEF LockMoves, UpAtWork, Unlocked
  <2>6. ASSUME NEW w \in Ups, w # u, up[w].step = "idle" PROVE SnapOk(sys', up[w])
    <3>1. \A k \in Services : up[w].snap[k] = NoPane
      BY <2>2, <2>6 DEF SnapOk
    <3>2. Ahead(up[w]) = {}
      BY <2>6 DEF Ahead
    <3> QED
      BY <2>6, <3>1, <3>2 DEF SnapOk
  <2> QED
    BY <1>1, <2>2, <2>4, <2>5, <2>6
<1>5. LockedInv'
  BY <1>4 DEF LockedInv
<1> QED
  BY <1>2, <1>3, <1>5

LEMMA UpPlacesKeeps ==
    ASSUME SysIInv, NEW u \in Ups, UpPlaces(u)
    PROVE  SysIInv'
<1>1. up[u].step = "place" /\ UNCHANGED rigLock /\ UpShape(up[u]) /\ up[u].herdr /\ UpAtWork(up[u])
  BY DEF UpPlaces, Stage, SysIInv, SysTyped, TwinsInv, UpAtWork, Exits
<1>2. PICK n \in Nat : DOMAIN sys = 1..n
  BY DEF SysIInv, SysTyped, SysShape
<1>3. Cardinality(Panes) + 1 = n + 1
  <2>1. 1 \in Int /\ n \in Int
    OBVIOUS
  <2>2. Cardinality(1..n) = IF 1 > n THEN 0 ELSE n - 1 + 1
    BY <2>1, FS_Interval
  <2>3. Cardinality(1..n) = n
    BY <2>2
  <2> QED
    BY <1>2, <2>3 DEF Panes
<1> DEFINE new == n + 1
           void == [label |-> "none", service |-> "none", hub |-> NotGiven, port |-> NotGiven]
           r == [up[u] EXCEPT !.step = "rename", !.pane = new]
<1>4. /\ sys' = [p \in 1..new |-> IF p = new THEN void ELSE sys[p]]
      /\ up' = [up EXCEPT ![u].step = "rename", ![u].pane = new]
  BY <1>3 DEF UpPlaces
<1>5. /\ DOMAIN sys' = 1..new /\ new \in Nat /\ new \notin DOMAIN sys /\ DOMAIN sys' = DOMAIN sys \cup {new}
      /\ sys'[new] = void /\ \A p \in DOMAIN sys : sys'[p] = sys[p]
  BY <1>2, <1>4
<1>6. PaneShape(void) /\ void.label = "none" /\ void.service = "none"
  BY DEF PaneShape, PaneFields
<1>7. sys' = [p \in DOMAIN sys' |-> sys'[p]]
  BY <1>4
<1> HIDE DEF new, void
<1>8. SysShape(sys')
  BY <1>5, <1>6, <1>7 DEF SysShape, SysIInv, SysTyped
<1>9. /\ UpShape(r) /\ r.step = "rename" /\ r.url = up[u].url /\ r.herdr = up[u].herdr /\ r.snap = up[u].snap
      /\ r.for = up[u].for /\ r.pane = new
  BY <1>1 DEF UpShape, UpFields
<1>10. up' = [up EXCEPT ![u] = r]
  BY <1>4 DEF SysIInv, SysTyped
<1> HIDE DEF r
<1>11. \A k \in Services : Of(sys', k) = Of(sys, k)
  BY <1>5, <1>6 DEF Of, Services
<1>12. ASSUME ~Twins(sys), ServiceUnderLabel(sys), SnapOk(sys, up[u])
       PROVE  ~Twins(sys') /\ ServiceUnderLabel(sys') /\ SnapOk(sys', r)
  <2>1. ~Twins(sys')
    BY <1>11, <1>12 DEF Twins
  <2>2. ServiceUnderLabel(sys')
    BY <1>5, <1>6, <1>12 DEF ServiceUnderLabel
  <2>3. Ahead(r) = Ahead(up[u]) /\ Ahead(r) \subseteq Services
    BY <1>1, <1>9 DEF Ahead, UpShape, Services
  <2>4. SnapOk(sys', r)
    <3>1. ASSUME NEW k \in Services, r.snap[k] # NoPane
          PROVE  r.snap[k] \in DOMAIN sys' /\ sys'[r.snap[k]].label \in {k, "closed"}
      BY <1>5, <1>9, <1>12, <3>1 DEF SnapOk
    <3>2. ASSUME NEW k \in Ahead(r), r.herdr, r.snap[k] = NoPane PROVE Of(sys', k) = {}
      BY <1>9, <1>11, <1>12, <2>3, <3>2 DEF SnapOk
    <3>3. r.snap[r.for] = NoPane
      BY <1>1, <1>9, <1>12 DEF SnapOk
    <3>4. r.pane \in DOMAIN sys' /\ sys'[r.pane].label = "none"
      BY <1>5, <1>6, <1>9
    <3> QED
      BY <1>9, <3>1, <3>2, <3>3, <3>4 DEF SnapOk
  <2> QED
    BY <2>1, <2>2, <2>4
<1>13. LockMoves(u, r)
  BY <1>1 DEF LockMoves
<1>14. r.step \in Accountable /\ r.step # "idle"
  BY <1>9 DEF Accountable
<1> QED
  BY <1>1, <1>8, <1>9, <1>10, <1>12, <1>13, <1>14, LoudUpKeeps

\* The panes after the pane p got the label k.
Renaming(p, k) == [sys EXCEPT ![p].label = k]

LEMMA RenamingShape ==
    ASSUME SysShape(sys), NEW p, NEW k
    PROVE  /\ SysShape(Renaming(p, k)) /\ DOMAIN Renaming(p, k) = DOMAIN sys
           /\ \A q \in DOMAIN sys : /\ Renaming(p, k)[q].service = sys[q].service
                                    /\ Renaming(p, k)[q].label = IF q = p THEN k ELSE sys[q].label
<1> DEFINE s == Renaming(p, k)
<1>1. DOMAIN s = DOMAIN sys /\ s = [q \in DOMAIN s |-> s[q]]
      /\ \A q \in DOMAIN sys : s[q] = IF q = p THEN [sys[q] EXCEPT !.label = k] ELSE sys[q]
  BY DEF Renaming, SysShape
<1>2. ASSUME NEW q \in DOMAIN sys
      PROVE  LET e == [sys[q] EXCEPT !.label = k]
             IN  PaneShape(e) /\ e.label = k /\ e.service = sys[q].service
  BY DEF SysShape, PaneShape, PaneFields
<1> HIDE DEF s
<1>3. SysShape(s)
  BY <1>1, <1>2 DEF SysShape
<1> QED
  BY <1>1, <1>2, <1>3 DEF s

\* While every up takes the lock, the pane that gets its label is the only one.
LEMMA RenamingAlone ==
    ASSUME SysIInv, NEW u \in Ups, up[u].step = "rename",
           ~Twins(sys), ServiceUnderLabel(sys), SnapOk(sys, up[u])
    PROVE  LET s == Renaming(up[u].pane, up[u].for)
           IN  /\ ~Twins(s) /\ ServiceUnderLabel(s)
               /\ \A r : /\ r.step = "run" /\ r.herdr = up[u].herdr /\ r.snap = up[u].snap
                         /\ r.for = up[u].for /\ r.pane = up[u].pane
                         => SnapOk(s, r)
<1> DEFINE p == up[u].pane
           k == up[u].for
           s == Renaming(p, k)
<1>1. k \in Services /\ up[u].herdr
  BY DEF SysIInv, SysTyped, UpShape, TwinsInv
<1>2. /\ DOMAIN s = DOMAIN sys
      /\ \A q \in DOMAIN sys : /\ s[q].service = sys[q].service
                               /\ s[q].label = IF q = p THEN k ELSE sys[q].label
  BY RenamingShape DEF SysIInv, SysTyped
<1>3. p \in DOMAIN sys /\ sys[p].label = "none" /\ up[u].snap[k] = NoPane
  BY DEF SnapOk
<1>4. Ahead(up[u]) = {k, "notify"}
  BY DEF Ahead
<1>5. Of(sys, k) = {}
  BY <1>1, <1>3, <1>4 DEF SnapOk
<1>6. sys[p].service = "none"
  BY <1>3 DEF ServiceUnderLabel
<1> HIDE DEF s, p, k
<1>7. Of(s, k) = {p} /\ \A j \in Services \ {k} : Of(s, j) = Of(sys, j)
  BY <1>2, <1>3, <1>5 DEF Of, Services
<1>8. ~Twins(s)
  BY <1>1, <1>7 DEF Twins
<1>9. ServiceUnderLabel(s)
  BY <1>2, <1>6 DEF ServiceUnderLabel
<1>10. ASSUME NEW r, r.step = "run", r.herdr = up[u].herdr, r.snap = up[u].snap, r.for = k, r.pane = p
       PROVE  SnapOk(s, r)
  <2>1. ASSUME NEW j \in Services, r.snap[j] # NoPane
        PROVE  r.snap[j] \in DOMAIN s /\ s[r.snap[j]].label \in {j, "closed"}
    <3>1. r.snap[j] \in DOMAIN sys /\ sys[r.snap[j]].label \in {j, "closed"}
      BY <1>10, <2>1 DEF SnapOk
    <3>2. r.snap[j] # p
      BY <1>3, <3>1 DEF Services
    <3> QED
      BY <1>2, <3>1, <3>2
  <2>2. ASSUME NEW j \in Ahead(r), r.herdr, r.snap[j] = NoPane PROVE Of(s, j) = {}
    <3>1. j = "notify" /\ j # k /\ j \in Services
      BY <1>10, <2>2 DEF Ahead, Services
    <3>2. Of(sys, j) = {}
      BY <1>4, <1>10, <2>2, <3>1 DEF SnapOk
    <3> QED
      BY <1>7, <3>1, <3>2
  <2>3. r.pane \in DOMAIN s /\ s[r.pane].label = r.for
    BY <1>2, <1>3, <1>10
  <2> QED
    BY <1>10, <2>1, <2>2, <2>3 DEF SnapOk
<1> QED
  BY <1>8, <1>9, <1>10 DEF s, p, k

LEMMA UpRenamesKeeps ==
    ASSUME SysIInv, NEW u \in Ups, UpRenames(u)
    PROVE  SysIInv'
<1>1. up[u].step = "rename" /\ UNCHANGED rigLock /\ up[u].herdr /\ UpAtWork(up[u])
  BY DEF UpRenames, Stage, SysIInv, TwinsInv, UpAtWork, Exits
<1> DEFINE r == [up[u] EXCEPT !.step = "run"]
<1>2. /\ UpShape(r) /\ r.step = "run" /\ r.url = up[u].url /\ r.herdr = up[u].herdr
      /\ r.snap = up[u].snap /\ r.for = up[u].for /\ r.pane = up[u].pane
  BY ProceedShape DEF SysIInv, SysTyped
<1>3. up' = [up EXCEPT ![u] = r] /\ sys' = Renaming(up[u].pane, up[u].for)
  BY DEF UpRenames, Proceed, Renaming
<1> HIDE DEF r
<1>4. SysShape(sys')
  BY <1>3, RenamingShape DEF SysIInv, SysTyped
<1>5. ~Twins(sys) /\ ServiceUnderLabel(sys) /\ SnapOk(sys, up[u])
        => ~Twins(sys') /\ ServiceUnderLabel(sys') /\ SnapOk(sys', r)
  BY <1>1, <1>2, <1>3, RenamingAlone
<1>6. LockMoves(u, r) /\ r.step \in Accountable /\ r.step # "idle"
  BY <1>1, <1>2 DEF LockMoves, Accountable
<1> QED
  BY <1>1, <1>2, <1>3, <1>4, <1>5, <1>6, LoudUpKeeps

LEMMA UpRunsKeeps ==
    ASSUME SysIInv, NEW u \in Ups, UpRuns(u)
    PROVE  SysIInv'
<1>1. up[u].step = "run" /\ up[u].herdr /\ UpAtWork(up[u]) /\ up[u].step \notin Exits /\ UpShape(up[u])
  BY DEF UpRuns, Stage, SysIInv, SysTyped, TwinsInv, UpAtWork, Exits
<1> DEFINE p == up[u].pane
           k == up[u].for
           e == [sys[p] EXCEPT !.service = k, !.hub = up[u].hub, !.port = up[u].port]
<1>2. CASE Exit(u, "failed") /\ UNCHANGED sys
  BY <1>1, <1>2, ExitKeeps DEF Exits
<1>3. CASE /\ sys[p].label # "closed" /\ Proceed(u, "wait") /\ UNCHANGED rigLock
           /\ sys' = IF sys[p].service # "none" THEN sys ELSE [sys EXCEPT ![p] = e]
  <2> DEFINE r == [up[u] EXCEPT !.step = "wait"]
  <2>1. /\ UpShape(r) /\ r.step = "wait" /\ r.url = up[u].url /\ r.herdr = up[u].herdr
        /\ r.snap = up[u].snap /\ r.for = k
    BY ProceedShape DEF SysIInv, SysTyped
  <2>2. up' = [up EXCEPT ![u] = r]
    BY <1>3 DEF Proceed
  <2> HIDE DEF r
  <2>3. p \in DOMAIN sys => PaneShape(e) /\ e.label = sys[p].label /\ e.service = k
    <3> SUFFICES ASSUME p \in DOMAIN sys PROVE PaneShape(e) /\ e.label = sys[p].label /\ e.service = k
      OBVIOUS
    <3>1. PaneShape(sys[p])
      BY DEF SysIInv, SysTyped, SysShape
    <3> QED
      BY <3>1 DEF PaneShape, PaneFields
  <2> HIDE DEF e
  <2>4. /\ DOMAIN sys' = DOMAIN sys /\ sys' = [q \in DOMAIN sys' |-> sys'[q]]
        /\ \A q \in DOMAIN sys : sys'[q] = sys[q] \/ (q = p /\ sys'[q] = e)
    BY <1>3 DEF SysIInv, SysTyped, SysShape
  <2>5. SysShape(sys')
    BY <2>3, <2>4 DEF SysIInv, SysTyped, SysShape
  <2>6. /\ \A q \in DOMAIN sys : sys'[q].label = sys[q].label
        /\ \A q \in DOMAIN sys : sys'[q].service = sys[q].service \/ (q = p /\ sys'[q].service = k)
    BY <2>3, <2>4
  <2>7. ASSUME ~Twins(sys), ServiceUnderLabel(sys), SnapOk(sys, up[u])
        PROVE  ~Twins(sys') /\ ServiceUnderLabel(sys') /\ SnapOk(sys', r)
    <3>1. \A j : Of(sys', j) = Of(sys, j)
      BY <2>4, <2>6 DEF Of
    <3>2. ~Twins(sys')
      BY <2>7, <3>1 DEF Twins
    <3>3. p \in DOMAIN sys /\ sys[p].label = k
      BY <1>1, <1>3, <2>7 DEF SnapOk
    <3>4. ServiceUnderLabel(sys')
      BY <2>4, <2>6, <2>7, <3>3 DEF ServiceUnderLabel
    <3>5. Ahead(r) = Ahead(up[u])
      BY <1>1, <2>1 DEF Ahead
    <3>6. SnapOk(sys', r)
      BY <2>1, <2>4, <2>6, <2>7, <3>1, <3>5 DEF SnapOk
    <3> QED
      BY <3>2, <3>4, <3>6
  <2>8. LockMoves(u, r) /\ r.step \in Accountable /\ r.step # "idle"
    BY <1>1, <1>3, <2>1 DEF LockMoves, Accountable
  <2> QED
    BY <1>1, <2>1, <2>2, <2>5, <2>7, <2>8, LoudUpKeeps
<1> QED
  BY <1>2, <1>3 DEF UpRuns

LEMMA UpStopsKeeps ==
    ASSUME SysIInv, NEW u \in Ups, UpStops(u)
    PROVE  SysIInv'
<1>1. up[u].step \notin Exits \cup {"idle"}
  BY DEF UpStops
<1>2. CASE Exit(u, "killed") /\ UNCHANGED sys
  BY <1>1, <1>2, ExitKeeps DEF Exits
<1>3. CASE Exit(u, "failed") /\ UNCHANGED sys
  BY <1>1, <1>3, ExitKeeps DEF Exits
<1>4. CASE up[u].step = "rename" /\ Exit(u, "failed") /\ sys' = Renaming(up[u].pane, up[u].for)
  <2> DEFINE r == [up[u] EXCEPT !.step = "failed"]
  <2>1. UpShape(r) /\ r.step = "failed" /\ r.url = up[u].url /\ r.herdr = up[u].herdr
    BY ProceedShape DEF SysIInv, SysTyped
  <2>2. up' = [up EXCEPT ![u] = r] /\ rigLock' = IF rigLock = u THEN Unlocked ELSE rigLock
    BY <1>4 DEF Exit, Proceed
  <2> HIDE DEF r
  <2>3. up[u].herdr /\ UpAtWork(up[u]) /\ ~UpAtWork(r)
    BY <1>1, <1>4, <2>1 DEF SysIInv, TwinsInv, UpAtWork, Exits
  <2>4. SysShape(sys')
    BY <1>4, RenamingShape DEF SysIInv, SysTyped
  <2>5. ~Twins(sys) /\ ServiceUnderLabel(sys) /\ SnapOk(sys, up[u]) => ~Twins(sys') /\ ServiceUnderLabel(sys')
    BY <1>4, RenamingAlone
  <2>6. LockMoves(u, r) /\ r.step \in Accountable /\ r.step # "idle"
    BY <2>1, <2>2 DEF LockMoves, Accountable, Exits
  <2> QED
    BY <2>1, <2>2, <2>3, <2>4, <2>5, <2>6, LoudUpKeeps
<1> QED
  BY <1>2, <1>3, <1>4 DEF UpStops, Stage, Renaming

\* A service binds its port or exits, and the user may close its pane.
LEMMA ServiceKeeps ==
    ASSUME SysIInv, UNCHANGED <<up, rigLock>>, SysShape(sys'), DOMAIN sys' = DOMAIN sys,
           \A p \in DOMAIN sys : /\ sys'[p].service \in {sys[p].service, "none"}
                                 /\ \/ sys'[p].label = sys[p].label
                                    \/ sys'[p].label = "closed" /\ sys'[p].service = "none" /\ sys[p].service # "none"
    PROVE  SysIInv'
<1> USE DEF SysIInv
<1>1. SysTyped'
  BY DEF SysTyped
<1>2. \A k \in Services : Of(sys', k) \subseteq Of(sys, k)
  BY DEF Of, Services
<1>3. Twins(sys') => Twins(sys)
  BY <1>2 DEF Twins
<1>4. TwinsInv'
  BY <1>3 DEF TwinsInv
<1>5. ServiceUnderLabel(sys) => ServiceUnderLabel(sys')
  BY DEF ServiceUnderLabel
<1>6. ASSUME NEW u \in Ups, ServiceUnderLabel(sys), SnapOk(sys, up[u]) PROVE SnapOk(sys', up[u])
  <2>1. ASSUME NEW k \in Services, up[u].snap[k] # NoPane
        PROVE  up[u].snap[k] \in DOMAIN sys' /\ sys'[up[u].snap[k]].label \in {k, "closed"}
    BY <1>6, <2>1 DEF SnapOk
  <2>2. Ahead(up[u]) \subseteq Services
    BY DEF Ahead, Services, SysTyped, UpShape
  <2>3. ASSUME NEW k \in Ahead(up[u]), up[u].herdr, up[u].snap[k] = NoPane PROVE Of(sys', k) = {}
    BY <1>2, <1>6, <2>2, <2>3 DEF SnapOk
  <2>4. up[u].step = "rename" => up[u].pane \in DOMAIN sys' /\ sys'[up[u].pane].label = "none"
    BY <1>6 DEF SnapOk, ServiceUnderLabel
  <2>5. up[u].step = "run" => up[u].pane \in DOMAIN sys' /\ sys'[up[u].pane].label \in {up[u].for, "closed"}
    BY <1>6 DEF SnapOk
  <2> QED
    BY <1>6, <2>1, <2>3, <2>4, <2>5 DEF SnapOk
<1>7. LockedInv'
  BY <1>3, <1>5, <1>6 DEF LockedInv, AllLock
<1> QED
  BY <1>1, <1>4, <1>7

LEMMA ServicesKeep ==
    ASSUME SysIInv, NEW p \in Panes, ServiceBinds(p) \/ ServiceExits(p)
    PROVE  SysIInv'
<1>1. UNCHANGED <<up, rigLock>> /\ p \in DOMAIN sys /\ PaneShape(sys[p]) /\ SysShape(sys)
  BY DEF ServiceBinds, ServiceExits, Panes, SysIInv, SysTyped, SysShape
<1> DEFINE e == [sys[p] EXCEPT !.service = "none"]
           c == [sys[p] EXCEPT !.service = "none", !.label = "closed"]
<1>2. /\ PaneShape(e) /\ e.service = "none" /\ e.label = sys[p].label
      /\ PaneShape(c) /\ c.service = "none" /\ c.label = "closed"
  BY <1>1 DEF PaneShape, PaneFields
<1>3. sys[p].service # "none" /\ (sys' = sys \/ sys' = [sys EXCEPT ![p] = e] \/ sys' = [sys EXCEPT ![p] = c])
  BY <1>1 DEF ServiceBinds, ServiceExits, SysShape
<1> HIDE DEF e, c
<1>4. /\ DOMAIN sys' = DOMAIN sys /\ sys' = [q \in DOMAIN sys' |-> sys'[q]]
      /\ \A q \in DOMAIN sys : sys'[q] = sys[q] \/ (q = p /\ sys'[q] \in {e, c})
  BY <1>1, <1>3 DEF SysShape
<1>5. SysShape(sys')
  BY <1>1, <1>2, <1>4 DEF SysShape
<1>6. \A q \in DOMAIN sys : /\ sys'[q].service \in {sys[q].service, "none"}
                            /\ \/ sys'[q].label = sys[q].label
                               \/ sys'[q].label = "closed" /\ sys'[q].service = "none" /\ sys[q].service # "none"
  BY <1>2, <1>3, <1>4
<1> QED
  BY <1>1, <1>4, <1>5, <1>6, ServiceKeeps

LEMMA SysInitially == SysInit => SysIInv
<1> SUFFICES ASSUME SysInit PROVE SysIInv
  OBVIOUS
<1>1. PICK url \in [Ups -> Pairs \cup {NotGiven}], ask \in [Ups -> Pairs \cup {NotGiven}] :
         up = [u \in Ups |-> [Fresh EXCEPT !.url = url[u], !.ask = ask[u]]]
  BY DEF SysInit
<1>2. ASSUME NEW u \in Ups
      PROVE  UpShape(up[u]) /\ up[u].step = "idle" /\ \A k \in Services : up[u].snap[k] = NoPane
  BY <1>1 DEF UpShape, UpFields, Fresh, Services
<1>3. sys = <<>> /\ DOMAIN sys = {}
  <2>1. sys = <<>>
    BY DEF SysInit
  <2>2. DOMAIN <<>> = {}
    OBVIOUS
  <2> QED
    BY <2>1, <2>2
<1>4. SysShape(sys)
  <2>1. DOMAIN sys = 1..0 /\ 0 \in Nat
    BY <1>3
  <2>2. sys = [p \in DOMAIN sys |-> sys[p]]
    BY <1>3
  <2> QED
    BY <1>3, <2>1, <2>2 DEF SysShape
<1>5. SysTyped
  BY <1>1, <1>2, <1>4 DEF SysTyped
<1>6. \A k : Of(sys, k) = {}
  BY <1>3 DEF Of
<1>7. ~Twins(sys) /\ ServiceUnderLabel(sys)
  BY <1>3, <1>6 DEF Twins, ServiceUnderLabel
<1>8. TwinsInv
  BY <1>2, <1>7 DEF TwinsInv
<1>9. ASSUME NEW u \in Ups PROVE SnapOk(sys, up[u]) /\ ~UpAtWork(up[u])
  BY <1>2, <1>6 DEF SnapOk, UpAtWork
<1> QED
  BY <1>5, <1>7, <1>8, <1>9 DEF SysIInv, LockedInv

LEMMA SysNextKeeps == SysIInv /\ [SysNext]_sysVars => SysIInv'
<1> SUFFICES ASSUME SysIInv, [SysNext]_sysVars PROVE SysIInv'
  OBVIOUS
<1>1. ASSUME NEW u \in Ups, UpStep(u) PROVE SysIInv'
  <2>1. CASE UpReports(u)
    BY <2>1, UpReportsKeeps
  <2> QED
    BY <1>1, <2>1, UpLocksKeeps, UpResolvesKeeps, UpListsKeeps, UpProbesKeeps, UpStepKeeps, UpPlacesKeeps,
       UpRenamesKeeps, UpRunsKeeps, UpWaitsKeeps, UpStopsKeeps DEF UpStep
<1>2. ASSUME NEW p \in Panes, ServiceBinds(p) \/ ServiceExits(p) PROVE SysIInv'
  BY <1>2, ServicesKeep
<1>3. CASE UNCHANGED sysVars
  <2>1. UNCHANGED <<sys, up, rigLock>>
    BY <1>3 DEF sysVars
  <2> QED
    BY <2>1, ServiceKeeps DEF SysIInv, SysTyped
<1> QED
  BY <1>1, <1>2, <1>3 DEF SysNext

THEOREM SysInvariant == SysSpec => []SysIInv
  BY SysInitially, SysNextKeeps, PTL DEF SysSpec

\* Duplicates of a system pane never pass in silence, and while every up takes
\* the start lock there are none.
THEOREM SysPanesAreSingle == SysSpec => []SysPanesSingle
<1>1. SysIInv => SysPanesSingle
  <2> SUFFICES ASSUME SysIInv PROVE SysPanesSingle
    OBVIOUS
  <2>0. SysTyped
    BY DEF SysIInv
  <2>1. ASSUME ~Twins(sys), NEW k \in Services PROVE Cardinality(Labelled(k)) <= 1
    <3>1. Labelled(k) = Of(sys, k)
      BY DEF Labelled, Of, Panes
    <3> QED
      BY <2>0, <2>1, <3>1, TwinsCounted DEF Twins
  <2>2. ASSUME \A u \in Ups : up[u].step \in {"idle", "ok", "manual"} PROVE ~Twins(sys)
    BY <2>2 DEF SysIInv, TwinsInv, Accountable
  <2>3. ASSUME AllLock, NEW k \in Services PROVE Cardinality(Labelled(k)) <= 1 /\ Cardinality(Running(k)) <= 1
    <3>1. ~Twins(sys) /\ ServiceUnderLabel(sys)
      BY <2>3 DEF SysIInv, LockedInv
    <3>2. Running(k) \subseteq Labelled(k)
      BY <3>1 DEF Running, Labelled, Panes, ServiceUnderLabel, Services
    <3>3. IsFiniteSet(Labelled(k)) /\ Cardinality(Labelled(k)) <= 1
      <4>1. IsFiniteSet(Panes) /\ Labelled(k) \subseteq Panes
        BY <2>0, FS_Interval DEF SysTyped, SysShape, Panes, Labelled
      <4> QED
        BY <2>1, <3>1, <4>1, FS_Subset
    <3>4. Cardinality(Running(k)) <= Cardinality(Labelled(k))
          /\ Cardinality(Running(k)) \in Nat /\ Cardinality(Labelled(k)) \in Nat
      BY <3>2, <3>3, FS_Subset, FS_CardinalityType
    <3> QED
      BY <3>3, <3>4
  <2> QED
    BY <2>1, <2>2, <2>3 DEF SysPanesSingle, AllLock, Stage
<1> QED
  BY <1>1, SysInvariant, PTL

(***************************************************************************)
(* PaneLife: the panes that agents work in.                                *)
(***************************************************************************)
\* Launches whose tabs carry one label find each other's tabs.
Kin(k, m) == tab_label[k] = tab_label[m]

\* No agent's tab is called like the tab of the system panes; the labels tell
\* the tasks apart; they tell the seats apart.
TabsApart == SysTabLabel \notin TabLabels
TabsNameTasks == TabsApart /\ \A k, m \in Keys : Kin(k, m) => k[1] = m[1]
TabsNameSeats == TabsApart /\ \A k, m \in Keys : Kin(k, m) => k = m

\* Launches of one task, if the labels tell.
SameTask(k, l) == TabsNameTasks => k[1] = l[1]

TaskPaneFields == {"label", "tab", "tabLabel", "status", "agent", "by"}
LaneFields == {"pc", "fresh", "continuity", "anchor", "listed", "snap", "close", "tabs", "tab", "root",
               "new", "tries", "made"}

LaneShape(r) == r = [f \in LaneFields |-> r[f]]

\* A pane among the first n, its label and its tab belong to its maker's kin.
PaneOk(q, n) ==
    /\ q = [f \in TaskPaneFields |-> q[f]]
    /\ q.by \in Keys
    /\ q.label # NoLabel => q.label \in Keys /\ Kin(q.label, q.by)
    /\ q.tab \in 0..n
    /\ q.tabLabel = IF q.tab = None THEN SysTabLabel ELSE tab_label[q.by]

PanesOk(ps, n) ==
    /\ ps = [p \in DOMAIN ps |-> ps[p]]
    /\ DOMAIN ps \subseteq 1..n
    /\ \A p \in DOMAIN ps : PaneOk(ps[p], n)
    /\ \A p, q \in DOMAIN ps : ps[p].tab = ps[q].tab /\ ps[p].tab # None => Kin(ps[p].by, ps[q].by)

\* Everything in tab t of ps was made by kin of l.
KinTab(ps, t, l) == \A p \in DOMAIN ps : ps[p].tab = t => Kin(ps[p].by, l)
KinPane(ps, p, l) == p \in DOMAIN ps => Kin(ps[p].by, l)

\* What a launch holds: tabs and panes of its kin, a list whose panes were
\* what they are, and a plan to close panes of its task.
LaneOk(ps, n, l, r) ==
    /\ r.tab \in 0..n /\ (r.tab # None => KinTab(ps, r.tab, l))
    /\ r.tabs \subseteq 1..n /\ \A t \in r.tabs : KinTab(ps, t, l)
    /\ r.root \in 0..n /\ KinPane(ps, r.root, l)
    /\ r.new \in 0..n /\ KinPane(ps, r.new, l)
    /\ r.close \subseteq 1..n /\ \A p \in r.close : p \in DOMAIN ps => SameTask(ps[p].by, l)
    /\ PanesOk(r.snap, n) /\ \A p \in DOMAIN r.snap : p \in DOMAIN ps => ps[p].by = r.snap[p].by

PanesInv ==
    /\ born \in Nat /\ PanesOk(panes, born)
    /\ lane = [l \in Lanes |-> lane[l]]
    /\ \A l \in Lanes : LaneShape(lane[l]) /\ LaneOk(panes, born, l, lane[l])

\* A launch that may still create a tab has made none.
TabWell(pc, made, tab, tabs) ==
    /\ made \in {0, 1}
    /\ pc \in {"idle", "fresh", "forceClose", "continue", "reap", "reapClose", "create", "create2"} => made = 0
    /\ pc \in {"idle", "fresh", "forceClose", "continue", "reap", "reapClose", "create"} => tab = None
    /\ pc = "split" /\ tab = None => made = 0
    /\ pc \in {"findRoot", "rename", "run", "closeRoot", "move", "sweep", "sweepClose", "runNew",
               "sweepAgain", "sweepLast"} => tab # None
    /\ None \notin tabs

\* Who sits under the key l, or may still turn out to.
Sits(q, l) == q.label = l /\ (q.agent \/ paneIsAlive(q))
Seats(ps, l) == {p \in DOMAIN ps : Sits(ps[p], l)}

\* A list that is still used shows every pane of the key; what it shows dead
\* has stayed so.
ListTells(ps, l, r) ==
    r.listed => \A p \in DOMAIN ps : ps[p].label = l =>
        /\ p \in DOMAIN r.snap /\ r.snap[p].label = l
        /\ ~paneIsAlive(r.snap[p]) => p \notin Seats(ps, l)

Awake(ps, l) == \A p \in DOMAIN ps : ps[p].label = l /\ ps[p].agent => paneIsAlive(ps[p])

Looking(l, r) ==
    \/ r.pc \in {"continue", "reap", "reapClose"}
    \/ r.pc \in {"fresh", "forceClose"} /\ l \notin Cleanups

\* With at most two faults one pane sits under l; where the launch stands says
\* which, and how many faults it took to leave it there.
SeatOk(ps, l, r, f) ==
    /\ \A p, q \in Seats(ps, l) : p = q
    /\ r.pc = "idle" => ~r.listed
    /\ Looking(l, r) => Awake(ps, l) /\ ListTells(ps, l, r)
    /\ r.pc \in {"idle", "fresh", "forceClose", "continue", "reap", "reapClose", "create", "findRoot", "tabs",
                 "recover", "tabs2", "recover2", "create2"} => r.root = None
    /\ r.root # None => r.tab # None /\ (r.root \in DOMAIN ps => ps[r.root].tab = r.tab)
    /\ r.pc \in {"create", "findRoot", "tabs", "recover", "tabs2", "recover2", "create2", "rename"} =>
         Seats(ps, l) = {}
    /\ r.pc \in {"run", "closeRoot", "split", "move", "sweep", "sweepClose"} => Seats(ps, l) \subseteq {r.root}
    /\ r.pc = "closeRoot" => Seats(ps, l) = {} \/ f >= 1
    /\ r.pc \in {"split", "move", "sweep", "sweepClose"} => Seats(ps, l) = {} \/ f >= 2
    /\ r.pc \in {"create2", "tabs2", "recover2", "move", "sweep"} => r.new # r.root
    /\ r.pc = "sweepClose" => Seats(ps, l) = {} \/ r.root \in r.close
    /\ r.pc \in {"runNew", "sweepAgain", "sweepLast", "born"} => Seats(ps, l) \subseteq {r.new}

SeatsInv ==
    /\ faults \in Nat
    /\ faults <= 2 => \A l \in Keys : SeatOk(panes, l, lane[l], faults)

TabWellLane(r) == TabWell(r.pc, r.made, r.tab, r.tabs)

TabsInv == \A l \in Lanes : TabWellLane(lane[l])

\* One step of the panes, n of them born, to ps2 with n2 born: panes keep their
\* maker, a new one is in a tab of its own or in the system panes' tab, and one
\* that moves goes to a tab of its kin.
Evolves(ps, n, ps2, n2) ==
    /\ n \in Nat /\ n2 \in Nat /\ n <= n2
    /\ PanesOk(ps2, n2)
    /\ \A p \in DOMAIN ps2 :
         \/ /\ p \in DOMAIN ps /\ ps2[p].by = ps[p].by
            /\ \/ ps2[p].tab = ps[p].tab
               \/ \E q \in DOMAIN ps : ps[q].tab = ps2[p].tab /\ Kin(ps[q].by, ps[p].by)
         \/ p > n /\ (ps2[p].tab = None \/ ps2[p].tab > n)

LEMMA PanesGrow ==
    ASSUME NEW n \in Nat, NEW n2 \in Nat, n <= n2, NEW ps, PanesOk(ps, n)
    PROVE  PanesOk(ps, n2)
  BY DEF PanesOk, PaneOk

LEMMA EvolvesKinTab ==
    ASSUME NEW ps, NEW n, NEW ps2, NEW n2, Evolves(ps, n, ps2, n2), NEW l, NEW t \in 1..n, KinTab(ps, t, l)
    PROVE  KinTab(ps2, t, l)
<1> SUFFICES ASSUME NEW p \in DOMAIN ps2, ps2[p].tab = t PROVE Kin(ps2[p].by, l)
  BY DEF KinTab
<1>1. t # None /\ ~(t > n)
  BY DEF None, Evolves
<1>2. p \in DOMAIN ps /\ ps2[p].by = ps[p].by
  BY <1>1 DEF Evolves
<1>3. ps[p].tab = t \/ \E q \in DOMAIN ps : ps[q].tab = t /\ Kin(ps[q].by, ps[p].by)
  BY <1>1 DEF Evolves
<1> QED
  BY <1>2, <1>3 DEF KinTab, Kin

LEMMA EvolvesOld ==
    ASSUME NEW ps, NEW n, NEW ps2, NEW n2, Evolves(ps, n, ps2, n2), NEW p \in 0..n, p \in DOMAIN ps2
    PROVE  p \in DOMAIN ps /\ ps2[p].by = ps[p].by
  BY DEF Evolves

LEMMA LaneOkKept ==
    ASSUME NEW ps, NEW n, NEW ps2, NEW n2, Evolves(ps, n, ps2, n2), NEW l, NEW r, LaneOk(ps, n, l, r)
    PROVE  LaneOk(ps2, n2, l, r)
<1>0. n \in Nat /\ n2 \in Nat /\ n <= n2
  BY DEF Evolves
<1>1. r.tab \in 0..n2 /\ (r.tab # None => KinTab(ps2, r.tab, l))
  BY <1>0, EvolvesKinTab DEF LaneOk, None
<1>2. r.tabs \subseteq 1..n2 /\ \A t \in r.tabs : KinTab(ps2, t, l)
  BY <1>0, EvolvesKinTab DEF LaneOk
<1>3. r.root \in 0..n2 /\ KinPane(ps2, r.root, l)
  BY <1>0, EvolvesOld DEF LaneOk, KinPane
<1>4. r.new \in 0..n2 /\ KinPane(ps2, r.new, l)
  BY <1>0, EvolvesOld DEF LaneOk, KinPane
<1>5. r.close \subseteq 1..n2 /\ \A p \in r.close : p \in DOMAIN ps2 => SameTask(ps2[p].by, l)
  <2>1. r.close \subseteq 1..n /\ \A p \in r.close : p \in DOMAIN ps => SameTask(ps[p].by, l)
    BY DEF LaneOk
  <2> QED
    BY <1>0, <2>1, EvolvesOld
<1>6. PanesOk(r.snap, n2) /\ \A p \in DOMAIN r.snap : p \in DOMAIN ps2 => ps2[p].by = r.snap[p].by
  <2>1. PanesOk(r.snap, n) /\ \A p \in DOMAIN r.snap : p \in DOMAIN ps => ps[p].by = r.snap[p].by
    BY DEF LaneOk
  <2>2. DOMAIN r.snap \subseteq 0..n
    BY <1>0, <2>1 DEF PanesOk
  <2>3. PanesOk(r.snap, n2)
    BY <1>0, <2>1, PanesGrow
  <2>4. ASSUME NEW p \in DOMAIN r.snap, p \in DOMAIN ps2 PROVE ps2[p].by = r.snap[p].by
    BY <2>1, <2>2, <2>4, EvolvesOld
  <2> QED
    BY <2>3, <2>4
<1> QED
  BY <1>1, <1>2, <1>3, <1>4, <1>5, <1>6 DEF LaneOk

-----------------------------------------------------------------------------
(* The ways the panes change. *)

LEMMA Unchanging ==
    ASSUME NEW n \in Nat, NEW ps, PanesOk(ps, n)
    PROVE  Evolves(ps, n, ps, n)
  BY DEF Evolves

LEMMA Removing ==
    ASSUME NEW n \in Nat, NEW ps, PanesOk(ps, n), NEW p, NEW ps2, ps2 = [q \in DOMAIN ps \ {p} |-> ps[q]]
    PROVE  Evolves(ps, n, ps2, n)
<1>1. DOMAIN ps2 = DOMAIN ps \ {p} /\ \A q \in DOMAIN ps2 : ps2[q] = ps[q]
  OBVIOUS
<1>2. PanesOk(ps2, n)
  BY <1>1 DEF PanesOk
<1> QED
  BY <1>1, <1>2 DEF Evolves

LEMMA Changing ==
    ASSUME NEW n \in Nat, NEW ps, PanesOk(ps, n), NEW p \in DOMAIN ps, NEW e, PaneOk(e, n), e.by = ps[p].by,
           \/ e.tab = ps[p].tab
           \/ \E q \in DOMAIN ps : ps[q].tab = e.tab /\ Kin(ps[q].by, ps[p].by),
           NEW ps2, ps2 = [ps EXCEPT ![p] = e]
    PROVE  Evolves(ps, n, ps2, n)
<1>1. DOMAIN ps2 = DOMAIN ps /\ ps2[p] = e /\ \A q \in DOMAIN ps : q # p => ps2[q] = ps[q]
  OBVIOUS
<1>2. PanesOk(ps2, n)
  <2>1. ps2 = [q \in DOMAIN ps2 |-> ps2[q]]
    OBVIOUS
  <2>2. \A q \in DOMAIN ps2 : PaneOk(ps2[q], n)
    BY <1>1 DEF PanesOk
  <2>3. ASSUME NEW o \in DOMAIN ps2, NEW q \in DOMAIN ps2, ps2[o].tab = ps2[q].tab, ps2[o].tab # None
        PROVE  Kin(ps2[o].by, ps2[q].by)
    <3>1. \A x \in DOMAIN ps : /\ ps2[x].by = ps[x].by
                              /\ \/ ps2[x].tab = ps[x].tab
                                 \/ \E y \in DOMAIN ps : ps[y].tab = ps2[x].tab /\ Kin(ps[y].by, ps[x].by)
      BY <1>1
    <3>2. PICK y \in DOMAIN ps : ps[y].tab = ps2[o].tab /\ Kin(ps[y].by, ps[o].by)
      BY <1>1, <3>1 DEF Kin
    <3>3. PICK z \in DOMAIN ps : ps[z].tab = ps2[q].tab /\ Kin(ps[z].by, ps[q].by)
      BY <1>1, <3>1 DEF Kin
    <3>4. Kin(ps[y].by, ps[z].by)
      BY <2>3, <3>2, <3>3 DEF PanesOk
    <3> QED
      BY <1>1, <3>1, <3>2, <3>3, <3>4 DEF Kin
  <2> QED
    BY <1>1, <2>1, <2>2, <2>3 DEF PanesOk
<1> QED
  BY <1>1, <1>2 DEF Evolves

LEMMA Appearing ==
    ASSUME NEW n \in Nat, NEW ps, PanesOk(ps, n), NEW e, PaneOk(e, n + 1), e.tab \in {None, n + 1},
           NEW ps2, ps2 = [p \in DOMAIN ps \cup {n + 1} |-> IF p = n + 1 THEN e ELSE ps[p]]
    PROVE  Evolves(ps, n, ps2, n + 1)
<1>1. n + 1 \notin DOMAIN ps
  BY DEF PanesOk
<1>2. DOMAIN ps2 = DOMAIN ps \cup {n + 1} /\ ps2[n + 1] = e /\ \A q \in DOMAIN ps : ps2[q] = ps[q]
  BY <1>1
<1>3. PanesOk(ps, n + 1)
  BY PanesGrow
<1>4. PanesOk(ps2, n + 1)
  <2>1. ps2 = [q \in DOMAIN ps2 |-> ps2[q]]
    OBVIOUS
  <2>2. DOMAIN ps2 \subseteq 1..(n + 1)
    BY <1>2, <1>3 DEF PanesOk
  <2>3. \A p \in DOMAIN ps2 : PaneOk(ps2[p], n + 1)
    BY <1>2, <1>3 DEF PanesOk
  <2>4. ASSUME NEW p \in DOMAIN ps2, NEW q \in DOMAIN ps2, ps2[p].tab = ps2[q].tab, ps2[p].tab # None
        PROVE  Kin(ps2[p].by, ps2[q].by)
    <3>1. \A o \in DOMAIN ps : ps[o].tab \in 0..n
      BY DEF PanesOk, PaneOk
    <3>2. p = q \/ (p \in DOMAIN ps /\ q \in DOMAIN ps)
      BY <1>2, <2>4, <3>1
    <3> QED
      BY <1>2, <2>4, <3>2 DEF PanesOk, Kin
  <2> QED
    BY <2>1, <2>2, <2>3, <2>4 DEF PanesOk
<1>5. \A p \in DOMAIN ps2 : \/ p \in DOMAIN ps /\ ps2[p] = ps[p]
                            \/ p = n + 1 /\ p > n /\ (ps2[p].tab = None \/ ps2[p].tab > n)
  BY <1>2
<1> QED
  BY <1>4, <1>5 DEF Evolves

-----------------------------------------------------------------------------
(* One step of a launch. *)

\* Nothing happens to a pane that a launch of another task made, and nothing
\* but its end to one of no kin.
Own(l) ==
    /\ TabsNameTasks =>
         \A p \in DOMAIN panes : panes[p].by[1] # l[1] => p \in DOMAIN panes' /\ panes'[p] = panes[p]
    /\ \A p \in DOMAIN panes' :
         \/ p \in DOMAIN panes /\ panes'[p] = panes[p]
         \/ l \in Keys /\ Kin(panes'[p].by, l)

\* Launch l becomes r.
LaneMoves(l, r) ==
    /\ lane' = [lane EXCEPT ![l] = r] /\ LaneShape(r)
    /\ Evolves(panes, born, panes', born')
    /\ LaneOk(panes', born', l, r)
    /\ Own(l)

LEMMA LaneMovesKeeps ==
    ASSUME PanesInv, NEW l \in Lanes, NEW r, LaneMoves(l, r)
    PROVE  PanesInv'
<1>1. born' \in Nat /\ PanesOk(panes', born')
  BY DEF LaneMoves, Evolves
<1>2. lane' = [m \in Lanes |-> lane'[m]]
  BY DEF LaneMoves, PanesInv
<1>3. ASSUME NEW m \in Lanes
      PROVE  LaneShape(lane'[m]) /\ LaneOk(panes', born', m, lane'[m])
  <2>1. CASE m = l
    BY <2>1 DEF LaneMoves, PanesInv
  <2>2. CASE m # l
    <3>1. lane'[m] = lane[m]
      BY <2>2 DEF LaneMoves, PanesInv
    <3> QED
      BY <3>1, LaneOkKept DEF LaneMoves, PanesInv
  <2> QED
    BY <2>1, <2>2
<1> QED
  BY <1>1, <1>2, <1>3 DEF PanesInv

LEMMA WithFields ==
    ASSUME NEW r, LaneShape(r), NEW s, DOMAIN s \subseteq LaneFields
    PROVE  LaneShape(With(r, s)) /\ \A f \in LaneFields : With(r, s)[f] = IF f \in DOMAIN s THEN s[f] ELSE r[f]
<1>1. DOMAIN r = LaneFields
  BY DEF LaneShape
<1>2. With(r, s) = [f \in LaneFields |-> IF f \in DOMAIN s THEN s[f] ELSE r[f]]
  BY <1>1 DEF With
<1> QED
  BY <1>2 DEF LaneShape

\* What LaneOk says is about six fields.
LEMMA LaneOkAgain ==
    ASSUME NEW ps, NEW n, NEW l, NEW r, LaneOk(ps, n, l, r), NEW s,
           s.tab = r.tab, s.tabs = r.tabs, s.root = r.root, s.new = r.new, s.close = r.close, s.snap = r.snap
    PROVE  LaneOk(ps, n, l, s)
  BY DEF LaneOk

LEMMA MovingTo ==
    ASSUME PanesInv, NEW l \in Lanes, NEW pc, MovesTo(l, pc)
    PROVE  \E r : /\ lane' = [lane EXCEPT ![l] = r] /\ LaneShape(r)
                  /\ r.pc = pc /\ \A f \in LaneFields : f # "pc" => r[f] = lane[l][f]
<1> DEFINE r == [lane[l] EXCEPT !.pc = pc]
<1>1. LaneShape(lane[l])
  BY DEF PanesInv
<1>2. lane' = [lane EXCEPT ![l] = r]
  BY DEF MovesTo
<1>3. LaneShape(r) /\ r.pc = pc /\ \A f \in LaneFields : f # "pc" => r[f] = lane[l][f]
  BY <1>1 DEF LaneShape, LaneFields
<1> QED
  BY <1>2, <1>3

LEMMA Becoming ==
    ASSUME PanesInv, NEW l \in Lanes, NEW s, DOMAIN s \subseteq LaneFields, Becomes(l, s)
    PROVE  \E r : /\ lane' = [lane EXCEPT ![l] = r] /\ LaneShape(r)
                  /\ \A f \in LaneFields : r[f] = IF f \in DOMAIN s THEN s[f] ELSE lane[l][f]
<1>1. LaneShape(lane[l])
  BY DEF PanesInv
<1>2. lane' = [lane EXCEPT ![l] = With(lane[l], s)]
  BY DEF Becomes
<1>3. /\ LaneShape(With(lane[l], s))
      /\ \A f \in LaneFields : With(lane[l], s)[f] = IF f \in DOMAIN s THEN s[f] ELSE lane[l][f]
  BY <1>1, WithFields
<1> QED
  BY <1>2, <1>3

LEMMA StillPanes == ASSUME PanesInv, UNCHANGED <<panes, born>>, NEW l
                    PROVE  Evolves(panes, born, panes', born') /\ Own(l)
<1>1. Evolves(panes, born, panes', born')
  BY Unchanging DEF PanesInv
<1>2. panes' = panes
  OBVIOUS
<1>3. Own(l)
  BY <1>2 DEF Own
<1> QED
  BY <1>1, <1>3

\* A step that leaves the panes and all but the program counter, or the close
\* plan as it says, of the launch.
LEMMA QuietMoves ==
    ASSUME PanesInv, NEW l \in Lanes, NEW r, UNCHANGED <<panes, born>>,
           lane' = [lane EXCEPT ![l] = r], LaneShape(r),
           \A f \in {"tab", "tabs", "root", "new", "close", "snap"} : r[f] = lane[l][f]
    PROVE  LaneMoves(l, r)
<1>1. LaneOk(panes, born, l, lane[l])
  BY DEF PanesInv
<1>2. LaneOk(panes, born, l, r)
  BY <1>1, LaneOkAgain
<1> QED
  BY <1>2, StillPanes DEF LaneMoves

LEMMA IdleOk == ASSUME NEW n \in Nat, NEW ps, NEW l, PanesOk(ps, n)
                PROVE  LaneShape(Idle) /\ LaneOk(ps, n, l, Idle)
<1>1. LaneShape(Idle)
  BY DEF LaneShape, LaneFields, Idle
<1>2. Idle.tab = 0 /\ Idle.tabs = {} /\ Idle.root = 0 /\ Idle.new = 0 /\ Idle.close = {} /\ Idle.snap = NoList
  BY DEF Idle, None
<1>3. 0 \in 0..n /\ 0 \notin DOMAIN ps
  BY DEF PanesOk
<1>4. PanesOk(NoList, n) /\ DOMAIN NoList = {}
  BY DEF PanesOk, NoList
<1> QED
  BY <1>1, <1>2, <1>3, <1>4 DEF LaneOk, KinPane, None

LEMMA EndingMoves ==
    ASSUME PanesInv, NEW l \in Lanes, Ends(l), Evolves(panes, born, panes', born'), Own(l)
    PROVE  LaneMoves(l, Idle)
<1>1. born' \in Nat /\ PanesOk(panes', born')
  BY DEF Evolves
<1> QED
  BY <1>1, IdleOk DEF LaneMoves, Ends

LEMMA QuietEnding == ASSUME PanesInv, NEW l \in Lanes, Ends(l), UNCHANGED <<panes, born>>
                     PROVE  LaneMoves(l, Idle)
  BY StillPanes, EndingMoves

LEMMA QuietMovesTo == ASSUME PanesInv, NEW l \in Lanes, NEW pc, MovesTo(l, pc), UNCHANGED <<panes, born>>
                      PROVE  \E r : LaneMoves(l, r)
<1>1. PICK r : /\ lane' = [lane EXCEPT ![l] = r] /\ LaneShape(r)
               /\ r.pc = pc /\ \A f \in LaneFields : f # "pc" => r[f] = lane[l][f]
  BY MovingTo
<1>2. \A f \in {"tab", "tabs", "root", "new", "close", "snap"} : r[f] = lane[l][f]
  BY <1>1 DEF LaneFields
<1> QED
  BY <1>1, <1>2, QuietMoves

\* A command on a pane that kin of the launch made.
LEMMA CommandOnKin ==
    ASSUME PanesInv, NEW l \in Keys, NEW p, KinPane(panes, p, l),
           UNCHANGED born,
           \/ panes' = panes
           \/ /\ p \in DOMAIN panes
              /\ \E e : /\ panes' = [panes EXCEPT ![p] = e] /\ PaneOk(e, born) /\ e.by = panes[p].by
                        /\ \/ e.tab = panes[p].tab
                           \/ \E q \in DOMAIN panes : panes[q].tab = e.tab /\ Kin(panes[q].by, panes[p].by)
    PROVE  Evolves(panes, born, panes', born') /\ Own(l)
<1>0. born \in Nat /\ PanesOk(panes, born)
  BY DEF PanesInv
<1>1. CASE panes' = panes
  BY <1>1, StillPanes
<1>2. CASE panes' # panes
  <2>1. p \in DOMAIN panes
    BY <1>2
  <2>2. PICK e : /\ panes' = [panes EXCEPT ![p] = e] /\ PaneOk(e, born) /\ e.by = panes[p].by
                 /\ \/ e.tab = panes[p].tab
                    \/ \E q \in DOMAIN panes : panes[q].tab = e.tab /\ Kin(panes[q].by, panes[p].by)
    BY <1>2
  <2>3. Evolves(panes, born, panes', born')
    BY <1>0, <2>1, <2>2, Changing
  <2>4. SameTask(panes[p].by, l)
    <3>1. panes[p].by \in Keys
      BY <1>0, <2>1 DEF PanesOk, PaneOk
    <3> QED
      BY <2>1, <3>1 DEF KinPane, SameTask, TabsNameTasks
  <2>5. DOMAIN panes' = DOMAIN panes /\ panes'[p].by = panes[p].by /\ \A q \in DOMAIN panes : q # p => panes'[q] = panes[q]
    BY <2>1, <2>2
  <2>6. Kin(panes'[p].by, l)
    BY <2>1, <2>5 DEF KinPane
  <2>7. Own(l)
    BY <2>4, <2>5, <2>6 DEF Own, SameTask
  <2> QED
    BY <2>3, <2>7
<1> QED
  BY <1>1, <1>2

LEMMA RenamedFacts ==
    ASSUME PanesInv, NEW l \in Keys, NEW p, KinPane(panes, p, l), NEW ok, Renamed(p, l, ok)
    PROVE  \/ panes' = panes
           \/ /\ p \in DOMAIN panes
              /\ \E e : /\ panes' = [panes EXCEPT ![p] = e] /\ PaneOk(e, born) /\ e.by = panes[p].by
                        /\ e.tab = panes[p].tab /\ e = [panes[p] EXCEPT !.label = l]
<1>1. CASE p \in DOMAIN panes
  <2> DEFINE e == [panes[p] EXCEPT !.label = l]
  <2>1. PaneOk(panes[p], born) /\ Kin(l, panes[p].by)
    BY <1>1 DEF PanesInv, PanesOk, KinPane, Kin
  <2>2. e.label = l /\ e.by = panes[p].by /\ e.tab = panes[p].tab /\ e.tabLabel = panes[p].tabLabel
        /\ e = [f \in TaskPaneFields |-> e[f]]
    BY <2>1 DEF PaneOk, TaskPaneFields
  <2>3. PaneOk(e, born)
    BY <2>1, <2>2 DEF PaneOk
  <2>4. panes' = panes \/ panes' = [panes EXCEPT ![p] = e]
    BY <1>1 DEF Renamed, Commanded
  <2> QED
    BY <1>1, <2>2, <2>3, <2>4
<1>2. CASE p \notin DOMAIN panes
  BY <1>2 DEF Renamed, Commanded
<1> QED
  BY <1>1, <1>2

LEMMA RanFacts ==
    ASSUME PanesInv, NEW p, NEW ok, Ran(p, ok)
    PROVE  \/ panes' = panes
           \/ /\ p \in DOMAIN panes
              /\ \E e : /\ panes' = [panes EXCEPT ![p] = e] /\ PaneOk(e, born) /\ e.by = panes[p].by
                        /\ e.tab = panes[p].tab /\ e = [panes[p] EXCEPT !.agent = TRUE, !.status = "unknown"]
<1>1. CASE p \in DOMAIN panes
  <2> DEFINE e == [panes[p] EXCEPT !.agent = TRUE, !.status = "unknown"]
  <2>1. PaneOk(panes[p], born)
    BY <1>1 DEF PanesInv, PanesOk
  <2>2. e.label = panes[p].label /\ e.by = panes[p].by /\ e.tab = panes[p].tab /\ e.tabLabel = panes[p].tabLabel
        /\ e = [f \in TaskPaneFields |-> e[f]]
    BY <2>1 DEF PaneOk, TaskPaneFields
  <2>3. PaneOk(e, born)
    BY <2>1, <2>2 DEF PaneOk
  <2>4. panes' = panes \/ panes' = [panes EXCEPT ![p] = e]
    BY <1>1 DEF Ran, Commanded
  <2> QED
    BY <1>1, <2>2, <2>3, <2>4
<1>2. CASE p \notin DOMAIN panes
  BY <1>2 DEF Ran, Commanded
<1> QED
  BY <1>1, <1>2

\* A close of a pane of the launch's task.
LEMMA ClosedFacts ==
    ASSUME PanesInv, NEW l, NEW p, p \in DOMAIN panes => SameTask(panes[p].by, l), Closed(p), UNCHANGED born
    PROVE  Evolves(panes, born, panes', born') /\ Own(l)
<1>0. born \in Nat /\ PanesOk(panes, born)
  BY DEF PanesInv
<1>1. CASE panes' = panes
  BY <1>1, StillPanes
<1>2. CASE panes' = [q \in DOMAIN panes \ {p} |-> panes[q]]
  <2>1. Evolves(panes, born, panes', born')
    BY <1>0, <1>2, Removing
  <2>2. DOMAIN panes' = DOMAIN panes \ {p} /\ \A q \in DOMAIN panes' : panes'[q] = panes[q]
    BY <1>2
  <2>3. Own(l)
    BY <2>2 DEF Own, SameTask
  <2> QED
    BY <2>1, <2>3
<1> QED
  BY <1>1, <1>2 DEF Closed

LEMMA AppearsFacts ==
    ASSUME PanesInv, NEW l \in Keys, NEW t, NEW k, Appears(l, t, k),
           t \in {None, born + 1}, k = IF t = None THEN SysTabLabel ELSE tab_label[l]
    PROVE  /\ Evolves(panes, born, panes', born') /\ Own(l)
           /\ born' = born + 1 /\ born + 1 \in DOMAIN panes' /\ panes'[born + 1].by = l /\ panes'[born + 1].tab = t
<1>0. born \in Nat /\ PanesOk(panes, born) /\ born + 1 # None
  BY DEF PanesInv, None
<1>1. PICK s \in {"idle", "unknown"} :
        panes' = [p \in DOMAIN panes \cup {born + 1} |-> IF p = born + 1 THEN Shell(l, t, k, s) ELSE panes[p]]
  BY DEF Appears
<1> DEFINE e == Shell(l, t, k, s)
<1>2. e.label = NoLabel /\ e.tab = t /\ e.tabLabel = k /\ e.by = l /\ e = [f \in TaskPaneFields |-> e[f]]
  BY DEF Shell, TaskPaneFields
<1> HIDE DEF e
<1>3. PaneOk(e, born + 1)
  BY <1>0, <1>2 DEF PaneOk, None
<1>4. Evolves(panes, born, panes', born + 1)
  BY <1>0, <1>1, <1>2, <1>3, Appearing DEF e
<1>5. Own(l)
  <2>1. born + 1 \notin DOMAIN panes
    BY <1>0 DEF PanesOk
  <2>2. panes' = [p \in DOMAIN panes \cup {born + 1} |-> IF p = born + 1 THEN e ELSE panes[p]]
    BY <1>1 DEF e
  <2>3. DOMAIN panes' = DOMAIN panes \cup {born + 1} /\ panes'[born + 1] = e
        /\ \A p \in DOMAIN panes : panes'[p] = panes[p]
    BY <2>1, <2>2
  <2>4. Kin(e.by, l)
    BY <1>2 DEF Kin
  <2> QED
    BY <2>3, <2>4 DEF Own
<1> QED
  BY <1>1, <1>2, <1>4, <1>5 DEF Appears, e

LaneSteps(l) == \E r : LaneMoves(l, r)

\* The tasks of the panes a plan names.
LEMMA PlannedOwn ==
    ASSUME NEW n \in Nat, NEW ps, PanesOk(ps, n), NEW l \in Lanes, NEW p \in DOMAIN ps,
           ps[p].label # NoLabel, ps[p].label[1] = l[1]
    PROVE  SameTask(ps[p].by, l)
  BY DEF PanesOk, PaneOk, SameTask, TabsNameTasks

LEMMA KeyIsLabel == ASSUME NEW l \in Keys PROVE l # NoLabel
  BY DEF Keys, NoLabel

\* A launch takes a list: the current one, or one that is no later.
LEMMA Listed ==
    ASSUME PanesInv, NEW l \in Lanes
    PROVE  /\ PanesOk(listCurrent(l), born)
           /\ \A p \in DOMAIN listCurrent(l) : p \in DOMAIN panes => panes[p].by = listCurrent(l)[p].by
  BY DEF PanesInv, LaneOk, listCurrent

LEMMA BeginMoves == ASSUME PanesInv, NEW l \in Keys, Begin(l) PROVE LaneSteps(l)
<1>0. l \in Lanes
  BY DEF Lanes
<1>1. PICK fresh \in BOOLEAN, continuity \in {continuityRoles, {}} :
        Becomes(l, [fresh |-> fresh, continuity |-> continuity, anchor |-> selectAnchor,
                    pc |-> CASE fresh -> "fresh" [] ~fresh /\ l[2] \in continuity -> "continue" [] OTHER -> "reap"])
  BY DEF Begin
<1> DEFINE s == [fresh |-> fresh, continuity |-> continuity, anchor |-> selectAnchor,
                 pc |-> CASE fresh -> "fresh" [] ~fresh /\ l[2] \in continuity -> "continue" [] OTHER -> "reap"]
<1>2. DOMAIN s = {"fresh", "continuity", "anchor", "pc"}
  OBVIOUS
<1> HIDE DEF s
<1>3. PICK r : /\ lane' = [lane EXCEPT ![l] = r] /\ LaneShape(r)
               /\ \A f \in LaneFields : r[f] = IF f \in DOMAIN s THEN s[f] ELSE lane[l][f]
  <2>1. DOMAIN s \subseteq LaneFields
    BY <1>2 DEF LaneFields
  <2> QED
    BY <1>0, <1>1, <2>1, Becoming DEF s
<1>4. \A f \in {"tab", "tabs", "root", "new", "close", "snap"} : r[f] = lane[l][f]
  BY <1>2, <1>3 DEF LaneFields
<1> QED
  BY <1>0, <1>3, <1>4, QuietMoves DEF LaneSteps, Begin

LEMMA BeginCleanupMoves == ASSUME PanesInv, NEW l \in Cleanups, BeginCleanup(l) PROVE LaneSteps(l)
  BY QuietMovesTo DEF BeginCleanup, LaneSteps, Lanes

LEMMA ContinueLiveMoves == ASSUME PanesInv, NEW l \in Keys, ContinueLive(l) PROVE LaneSteps(l)
<1>0. l \in Lanes /\ UNCHANGED <<panes, born>>
  BY DEF Lanes, ContinueLive
<1>1. CASE MovesTo(l, "reap")
  BY <1>0, <1>1, QuietMovesTo DEF LaneSteps
<1>2. CASE Ends(l)
  BY <1>0, <1>2, QuietEnding DEF LaneSteps
<1> DEFINE candidates == livePanesForLabel(panes, l)
<1>3. CASE Cardinality(candidates) = 1 /\ Becomes(l, [pc |-> "deliver", new |-> CHOOSE p \in candidates : TRUE])
  <2> DEFINE p == CHOOSE q \in candidates : TRUE
             s == [pc |-> "deliver", new |-> p]
  <2>1. candidates # {}
    BY <1>3, FS_EmptySet
  <2>2. p \in DOMAIN panes /\ panes[p].label = l
    BY <2>1 DEF livePanesForLabel
  <2> HIDE DEF p
  <2>3. DOMAIN s = {"pc", "new"} /\ s["new"] = p
    OBVIOUS
  <2>4. DOMAIN s \subseteq LaneFields
    BY <2>3 DEF LaneFields
  <2>5. Becomes(l, s)
    BY <1>3 DEF p
  <2> HIDE DEF s
  <2>6. PICK r : /\ lane' = [lane EXCEPT ![l] = r] /\ LaneShape(r)
                 /\ \A f \in LaneFields : r[f] = IF f \in DOMAIN s THEN s[f] ELSE lane[l][f]
    BY <1>0, <2>4, <2>5, Becoming
  <2>7. r.tab = lane[l].tab /\ r.tabs = lane[l].tabs /\ r.root = lane[l].root /\ r.new = p
        /\ r.close = lane[l].close /\ r.snap = lane[l].snap
    BY <2>3, <2>6 DEF LaneFields
  <2>8. p \in 0..born /\ KinPane(panes, p, l)
    BY <2>2, KeyIsLabel DEF PanesInv, PanesOk, PaneOk, KinPane, Kin
  <2>9. LaneOk(panes, born, l, r)
    <3>1. LaneOk(panes, born, l, lane[l])
      BY <1>0 DEF PanesInv
    <3> QED
      BY <2>7, <2>8, <3>1 DEF LaneOk
  <2> QED
    BY <1>0, <2>6, <2>9, StillPanes DEF LaneMoves, LaneSteps
<1>4. CASE Becomes(l, [pc |-> "reap", listed |-> TRUE, snap |-> panes])
  <2> DEFINE s == [pc |-> "reap", listed |-> TRUE, snap |-> panes]
  <2>1. DOMAIN s = {"pc", "listed", "snap"} /\ s["snap"] = panes
    OBVIOUS
  <2>2. DOMAIN s \subseteq LaneFields
    BY <2>1 DEF LaneFields
  <2> HIDE DEF s
  <2>3. PICK r : /\ lane' = [lane EXCEPT ![l] = r] /\ LaneShape(r)
                 /\ \A f \in LaneFields : r[f] = IF f \in DOMAIN s THEN s[f] ELSE lane[l][f]
    BY <1>0, <1>4, <2>2, Becoming DEF s
  <2>4. r.tab = lane[l].tab /\ r.tabs = lane[l].tabs /\ r.root = lane[l].root /\ r.new = lane[l].new
        /\ r.close = lane[l].close /\ r.snap = panes
    BY <2>1, <2>3 DEF LaneFields
  <2>5. LaneOk(panes, born, l, r)
    <3>1. LaneOk(panes, born, l, lane[l]) /\ PanesOk(panes, born)
      BY <1>0 DEF PanesInv
    <3> QED
      BY <2>4, <3>1 DEF LaneOk
  <2> QED
    BY <1>0, <2>3, <2>5, StillPanes DEF LaneMoves, LaneSteps
<1> QED
  BY <1>1, <1>2, <1>3, <1>4 DEF ContinueLive

\* A plan is made from the list ps.
LEMMA PlanMoves ==
    ASSUME PanesInv, NEW l \in Lanes, NEW ps, NEW cs, NEW pc, UNCHANGED <<panes, born>>,
           Becomes(l, [pc |-> pc, listed |-> TRUE, snap |-> ps, close |-> cs]),
           PanesOk(ps, born), \A p \in DOMAIN ps : p \in DOMAIN panes => panes[p].by = ps[p].by,
           cs \subseteq DOMAIN ps, \A p \in cs : SameTask(ps[p].by, l)
    PROVE  LaneSteps(l)
<1> DEFINE s == [pc |-> pc, listed |-> TRUE, snap |-> ps, close |-> cs]
<1>1. DOMAIN s = {"pc", "listed", "snap", "close"} /\ s["snap"] = ps /\ s["close"] = cs
  OBVIOUS
<1>2. DOMAIN s \subseteq LaneFields
  BY <1>1 DEF LaneFields
<1> HIDE DEF s
<1>3. PICK r : /\ lane' = [lane EXCEPT ![l] = r] /\ LaneShape(r)
               /\ \A f \in LaneFields : r[f] = IF f \in DOMAIN s THEN s[f] ELSE lane[l][f]
  BY <1>2, Becoming DEF s
<1>4. r.tab = lane[l].tab /\ r.tabs = lane[l].tabs /\ r.root = lane[l].root /\ r.new = lane[l].new
      /\ r.close = cs /\ r.snap = ps
  BY <1>1, <1>3 DEF LaneFields
<1>5. cs \subseteq 1..born /\ \A p \in cs : p \in DOMAIN panes => SameTask(panes[p].by, l)
  BY DEF PanesOk
<1>6. LaneOk(panes, born, l, r)
  <2>1. LaneOk(panes, born, l, lane[l])
    BY DEF PanesInv
  <2> QED
    BY <1>4, <1>5, <2>1 DEF LaneOk
<1> QED
  BY <1>3, <1>6, StillPanes DEF LaneMoves, LaneSteps

LEMMA ForceReapMoves == ASSUME PanesInv, NEW l \in Lanes, ForceReap(l) PROVE LaneSteps(l)
<1>1. CASE Ends(l)
  BY <1>1, QuietEnding DEF ForceReap, LaneSteps
<1>2. CASE Becomes(l, [pc |-> "forceClose", listed |-> TRUE, snap |-> panes, close |-> planForce(panes, l)])
  <2>1. PanesOk(panes, born) /\ born \in Nat
    BY DEF PanesInv
  <2>2. planForce(panes, l) \subseteq DOMAIN panes
    BY DEF planForce
  <2>3. ASSUME NEW p \in planForce(panes, l) PROVE SameTask(panes[p].by, l)
    <3>1. p \in DOMAIN panes /\ (panes[p].label = l \/ (panes[p].label # NoLabel /\ panes[p].label[1] = l[1]))
          /\ (l \notin Cleanups => panes[p].label = l)
      BY DEF planForce, isTaskPane
    <3>2. l \in Keys => l # NoLabel
      BY KeyIsLabel
    <3>3. panes[p].label # NoLabel /\ panes[p].label[1] = l[1]
      <4>1. CASE l \in Cleanups
        BY <4>1 DEF planForce, isTaskPane
      <4>2. CASE l \notin Cleanups
        BY <3>1, <3>2, <4>2 DEF Lanes
      <4> QED
        BY <4>1, <4>2
    <3> QED
      BY <2>1, <3>1, <3>3, PlannedOwn
  <2> QED
    BY <1>2, <2>1, <2>2, <2>3, PlanMoves DEF ForceReap
<1> QED
  BY <1>1, <1>2 DEF ForceReap

LEMMA ReapMoves == ASSUME PanesInv, NEW l \in Keys, Reap(l) PROVE LaneSteps(l)
<1>0. l \in Lanes /\ UNCHANGED <<panes, born>>
  BY DEF Lanes, Reap
<1>1. CASE Unlisted(l)
  BY <1>0, <1>1, QuietEnding DEF Unlisted, LaneSteps
<1>2. CASE ~Unlisted(l)
  <2> DEFINE ps == listCurrent(l)
             cs == planReap(ps, l, lane[l].fresh, lane[l].continuity)
  <2>1. Becomes(l, [pc |-> "reapClose", listed |-> TRUE, snap |-> ps, close |-> cs])
    BY <1>2 DEF Reap
  <2>2. PanesOk(ps, born) /\ born \in Nat /\ \A p \in DOMAIN ps : p \in DOMAIN panes => panes[p].by = ps[p].by
    BY <1>0, Listed DEF PanesInv
  <2> HIDE DEF ps
  <2>3. cs \subseteq DOMAIN ps /\ \A p \in cs : ps[p].label # NoLabel /\ ps[p].label[1] = l[1]
    BY DEF planReap, isTaskPane
  <2> HIDE DEF cs
  <2>4. \A p \in cs : SameTask(ps[p].by, l)
    BY <1>0, <2>2, <2>3, PlannedOwn
  <2> QED
    BY <1>0, <2>1, <2>2, <2>3, <2>4, PlanMoves
<1> QED
  BY <1>1, <1>2

LEMMA CloseNextMoves == ASSUME PanesInv, NEW l \in Lanes, CloseNext(l) PROVE LaneSteps(l)
<1>1. PICK p \in lane[l].close : Closed(p) /\ Becomes(l, [close |-> lane[l].close \ {p}, listed |-> FALSE])
  BY DEF CloseNext
<1>2. born' = born /\ LaneOk(panes, born, l, lane[l])
  BY DEF CloseNext, PanesInv
<1>3. Evolves(panes, born, panes', born') /\ Own(l)
  BY <1>1, <1>2, ClosedFacts DEF LaneOk
<1> DEFINE s == [close |-> lane[l].close \ {p}, listed |-> FALSE]
<1>4. DOMAIN s = {"close", "listed"} /\ s["close"] = lane[l].close \ {p}
  OBVIOUS
<1>5. DOMAIN s \subseteq LaneFields
  BY <1>4 DEF LaneFields
<1> HIDE DEF s
<1>6. PICK r : /\ lane' = [lane EXCEPT ![l] = r] /\ LaneShape(r)
               /\ \A f \in LaneFields : r[f] = IF f \in DOMAIN s THEN s[f] ELSE lane[l][f]
  BY <1>1, <1>5, Becoming DEF s
<1>7. r.tab = lane[l].tab /\ r.tabs = lane[l].tabs /\ r.root = lane[l].root /\ r.new = lane[l].new
      /\ r.close = lane[l].close \ {p} /\ r.snap = lane[l].snap
  BY <1>4, <1>6 DEF LaneFields
<1>8. LaneOk(panes, born, l, r)
  BY <1>2, <1>7 DEF LaneOk
<1>9. LaneOk(panes', born', l, r)
  BY <1>3, <1>8, LaneOkKept
<1> QED
  BY <1>3, <1>6, <1>9 DEF LaneMoves, LaneSteps

LEMMA ForcedMoves == ASSUME PanesInv, NEW l \in Lanes, Forced(l) PROVE LaneSteps(l)
  BY QuietEnding, QuietMovesTo DEF Forced, LaneSteps

LEMMA VerifyMoves == ASSUME PanesInv, NEW l \in Keys, Verify(l) PROVE LaneSteps(l)
<1>0. l \in Lanes /\ UNCHANGED <<panes, born>>
  BY DEF Lanes, Verify
<1>1. CASE Ends(l)
  BY <1>0, <1>1, QuietEnding DEF LaneSteps
<1>2. CASE Becomes(l, [pc |-> "create", fresh |-> FALSE, continuity |-> {}, listed |-> FALSE, snap |-> NoList])
  <2> DEFINE s == [pc |-> "create", fresh |-> FALSE, continuity |-> {}, listed |-> FALSE, snap |-> NoList]
  <2>1. DOMAIN s = {"pc", "fresh", "continuity", "listed", "snap"} /\ s["snap"] = NoList
    OBVIOUS
  <2>2. DOMAIN s \subseteq LaneFields
    BY <2>1 DEF LaneFields
  <2> HIDE DEF s
  <2>3. PICK r : /\ lane' = [lane EXCEPT ![l] = r] /\ LaneShape(r)
                 /\ \A f \in LaneFields : r[f] = IF f \in DOMAIN s THEN s[f] ELSE lane[l][f]
    BY <1>0, <1>2, <2>2, Becoming DEF s
  <2>4. r.tab = lane[l].tab /\ r.tabs = lane[l].tabs /\ r.root = lane[l].root /\ r.new = lane[l].new
        /\ r.close = lane[l].close /\ r.snap = NoList
    BY <2>1, <2>3 DEF LaneFields
  <2>5. LaneOk(panes, born, l, r)
    <3>1. LaneOk(panes, born, l, lane[l])
      BY <1>0 DEF PanesInv
    <3>2. PanesOk(NoList, born) /\ DOMAIN NoList = {}
      BY DEF PanesOk, NoList
    <3> QED
      BY <2>4, <3>1, <3>2 DEF LaneOk
  <2> QED
    BY <1>0, <2>3, <2>5, StillPanes DEF LaneMoves, LaneSteps
<1> QED
  BY <1>1, <1>2 DEF Verify, Unlisted

\* A step that may bring a pane, and after which the launch holds this tab,
\* this root and this new pane.
LEMMA HoldingMoves ==
    ASSUME PanesInv, NEW l \in Lanes, NEW s, NEW tab, NEW tabs, NEW root, NEW new,
           Becomes(l, s), DOMAIN s \subseteq LaneFields,
           Evolves(panes, born, panes', born'), Own(l),
           tab = IF "tab" \in DOMAIN s THEN s["tab"] ELSE lane[l].tab,
           tabs = IF "tabs" \in DOMAIN s THEN s["tabs"] ELSE lane[l].tabs,
           root = IF "root" \in DOMAIN s THEN s["root"] ELSE lane[l].root,
           new = IF "new" \in DOMAIN s THEN s["new"] ELSE lane[l].new,
           "close" \notin DOMAIN s, "snap" \notin DOMAIN s,
           tab = lane[l].tab \/ (tab \in 1..born' /\ KinTab(panes', tab, l)),
           tabs \in {{}, lane[l].tabs} \/ (tabs \subseteq 1..born' /\ \A t \in tabs : KinTab(panes', t, l)),
           root = lane[l].root \/ (root \in 1..born' /\ KinPane(panes', root, l)),
           new = lane[l].new \/ (new \in 1..born' /\ KinPane(panes', new, l))
    PROVE  LaneSteps(l)
<1>1. PICK r : /\ lane' = [lane EXCEPT ![l] = r] /\ LaneShape(r)
               /\ \A f \in LaneFields : r[f] = IF f \in DOMAIN s THEN s[f] ELSE lane[l][f]
  BY Becoming
<1>2. r.tab = tab /\ r.tabs = tabs /\ r.root = root /\ r.new = new /\ r.close = lane[l].close /\ r.snap = lane[l].snap
  BY <1>1 DEF LaneFields
<1>3. LaneOk(panes', born', l, lane[l]) /\ born' \in Nat
  BY LaneOkKept DEF PanesInv, Evolves
<1>4. /\ r.tab \in 0..born' /\ (r.tab # None => KinTab(panes', r.tab, l))
      /\ r.tabs \subseteq 1..born' /\ \A t \in r.tabs : KinTab(panes', t, l)
  BY <1>2, <1>3 DEF LaneOk
<1>5. /\ r.root \in 0..born' /\ KinPane(panes', r.root, l)
      /\ r.new \in 0..born' /\ KinPane(panes', r.new, l)
  BY <1>2, <1>3 DEF LaneOk
<1>6. LaneOk(panes', born', l, r)
  BY <1>2, <1>3, <1>4, <1>5 DEF LaneOk
<1> QED
  BY <1>1, <1>6 DEF LaneMoves, LaneSteps

\* A created tab holds its root and nothing else.
LEMMA CreatedTab ==
    ASSUME PanesInv, NEW l \in Keys, CreatesTab(l)
    PROVE  /\ Evolves(panes, born, panes', born') /\ Own(l) /\ born' = born + 1 /\ born + 1 \in 1..born'
           /\ KinTab(panes', born + 1, l) /\ KinPane(panes', born + 1, l)
<1>1. /\ Evolves(panes, born, panes', born') /\ Own(l)
      /\ born' = born + 1 /\ born + 1 \in DOMAIN panes' /\ panes'[born + 1].by = l
  <2>1. born + 1 # None
    BY DEF PanesInv, None
  <2> QED
    BY <2>1, AppearsFacts DEF CreatesTab
<1>2. born \in Nat /\ PanesOk(panes, born)
  BY DEF PanesInv
<1>3. ASSUME NEW p \in DOMAIN panes', panes'[p].tab = born + 1 PROVE p = born + 1
  <2>1. PICK s \in {"idle", "unknown"} :
          panes' = [q \in DOMAIN panes \cup {born + 1} |->
                      IF q = born + 1 THEN Shell(l, born + 1, tab_label[l], s) ELSE panes[q]]
    BY DEF CreatesTab, Appears
  <2>2. CASE p # born + 1
    <3>1. p \in DOMAIN panes /\ panes[p].tab = born + 1
      BY <1>3, <2>1, <2>2
    <3> QED
      BY <1>2, <3>1 DEF PanesOk, PaneOk
  <2> QED
    BY <2>2
<1> QED
  BY <1>1, <1>2, <1>3 DEF KinTab, KinPane, Kin

LEMMA TabCreateMoves == ASSUME PanesInv, NEW l \in Keys, TabCreate(l) PROVE LaneSteps(l)
<1>0. l \in Lanes /\ born \in Nat
  BY DEF Lanes, PanesInv
<1>1. CASE CreatesTab(l) /\ Becomes(l, [pc |-> "rename", tab |-> born + 1, root |-> born + 1, made |-> 1])
  <2> DEFINE s == [pc |-> "rename", tab |-> born + 1, root |-> born + 1, made |-> 1]
  <2>1. DOMAIN s = {"pc", "tab", "root", "made"} /\ s["tab"] = born + 1 /\ s["root"] = born + 1
    OBVIOUS
  <2>2. DOMAIN s \subseteq LaneFields
    BY <2>1 DEF LaneFields
  <2> HIDE DEF s
  <2> QED
    BY <1>0, <1>1, <2>1, <2>2, CreatedTab, HoldingMoves DEF s
<1>2. CASE CreatesTab(l) /\ Becomes(l, [pc |-> "findRoot", tab |-> born + 1, made |-> 1])
  <2> DEFINE s == [pc |-> "findRoot", tab |-> born + 1, made |-> 1]
  <2>1. DOMAIN s = {"pc", "tab", "made"} /\ s["tab"] = born + 1
    OBVIOUS
  <2>2. DOMAIN s \subseteq LaneFields
    BY <2>1 DEF LaneFields
  <2> HIDE DEF s
  <2> QED
    BY <1>0, <1>2, <2>1, <2>2, CreatedTab, HoldingMoves DEF s
<1>3. ASSUME NEW outcome, CreatesTab(l) \/ UNCHANGED <<panes, born>>,
             Becomes(l, [pc |-> IF MayHaveCreatedTab(outcome) THEN "tabs" ELSE "split", made |-> born' - born])
      PROVE  LaneSteps(l)
  <2> DEFINE s == [pc |-> IF MayHaveCreatedTab(outcome) THEN "tabs" ELSE "split", made |-> born' - born]
  <2>1. DOMAIN s = {"pc", "made"}
    OBVIOUS
  <2>2. DOMAIN s \subseteq LaneFields
    BY <2>1 DEF LaneFields
  <2>3. Evolves(panes, born, panes', born') /\ Own(l)
    BY <1>3, CreatedTab, StillPanes
  <2>4. Becomes(l, s)
    BY <1>3
  <2> HIDE DEF s
  <2> QED
    BY <1>0, <2>1, <2>2, <2>3, <2>4, HoldingMoves
<1>4. CASE Ends(l) /\ UNCHANGED <<panes, born>>
  BY <1>0, <1>4, QuietEnding DEF LaneSteps
<1> QED
  BY <1>1, <1>2, <1>3, <1>4 DEF TabCreate

LEMMA RootThere == ASSUME NEW t, InTab(panes, t) # {} PROVE RootOf(t) \in DOMAIN panes /\ panes[RootOf(t)].tab = t
  BY DEF RootOf, InTab

LEMMA FindRootMoves ==
    ASSUME PanesInv, NEW l \in Keys, lane[l].tab # None, FindRoot(l)
    PROVE  LaneSteps(l)
<1>0. l \in Lanes /\ UNCHANGED <<panes, born>> /\ born \in Nat /\ PanesOk(panes, born)
  BY DEF Lanes, FindRoot, PanesInv
<1>1. CASE MovesTo(l, "split")
  BY <1>0, <1>1, QuietMovesTo DEF LaneSteps
<1>2. CASE InTab(panes, lane[l].tab) # {} /\ Becomes(l, [pc |-> "rename", root |-> RootOf(lane[l].tab)])
  <2> DEFINE p == RootOf(lane[l].tab)
             s == [pc |-> "rename", root |-> p]
  <2>1. p \in DOMAIN panes /\ panes[p].tab = lane[l].tab
    BY <1>2, RootThere
  <2>2. LaneOk(panes, born, l, lane[l])
    BY <1>0 DEF PanesInv
  <2>3. p \in 1..born' /\ KinPane(panes', p, l)
    BY <1>0, <2>1, <2>2 DEF LaneOk, KinTab, KinPane, PanesOk
  <2> HIDE DEF p
  <2>4. DOMAIN s = {"pc", "root"} /\ s["root"] = p
    OBVIOUS
  <2>5. DOMAIN s \subseteq LaneFields
    BY <2>4 DEF LaneFields
  <2>6. Becomes(l, s)
    BY <1>2 DEF p
  <2> HIDE DEF s
  <2> QED
    BY <1>0, <2>3, <2>4, <2>5, <2>6, StillPanes, HoldingMoves
<1> QED
  BY <1>1, <1>2 DEF FindRoot

\* A tab called like the launch's is of its kin.
LEMMA LabelledTabs ==
    ASSUME TabsApart, PanesInv, NEW l \in Keys, NEW t \in TabsLabelled(l)
    PROVE  t \in 1..born /\ t # None /\ KinTab(panes, t, l)
<1>0. born \in Nat /\ PanesOk(panes, born) /\ tab_label[l] \in TabLabels
  BY TabLabelAssumption DEF PanesInv, Keys
<1>1. PICK p \in DOMAIN panes : panes[p].tabLabel = tab_label[l] /\ t = panes[p].tab
  BY DEF TabsLabelled
<1>2. t # None /\ t \in 1..born
  BY <1>0, <1>1 DEF PanesOk, PaneOk, TabsApart, None
<1>3. ASSUME NEW q \in DOMAIN panes, panes[q].tab = t PROVE Kin(panes[q].by, l)
  <2>1. Kin(panes[q].by, panes[p].by)
    BY <1>0, <1>1, <1>2, <1>3 DEF PanesOk
  <2>2. Kin(panes[p].by, l)
    BY <1>0, <1>1, <1>2 DEF PanesOk, PaneOk, Kin
  <2> QED
    BY <2>1, <2>2 DEF Kin
<1> QED
  BY <1>2, <1>3 DEF KinTab

LEMMA RecoverTabsMoves == ASSUME TabsApart, PanesInv, NEW l \in Keys, RecoverTabs(l) PROVE LaneSteps(l)
<1>0. l \in Lanes /\ UNCHANGED <<panes, born>> /\ born \in Nat
  BY DEF Lanes, RecoverTabs, PanesInv
<1>1. CASE Ends(l)
  BY <1>0, <1>1, QuietEnding DEF LaneSteps
<1>2. CASE ~Ends(l)
  <2> DEFINE pc == IF At(l, "tabs") THEN "recover" ELSE "recover2"
             s == [pc |-> pc, tabs |-> TabsLabelled(l)]
  <2>1. DOMAIN s = {"pc", "tabs"} /\ s["tabs"] = TabsLabelled(l)
    OBVIOUS
  <2>2. DOMAIN s \subseteq LaneFields
    BY <2>1 DEF LaneFields
  <2>3. Becomes(l, s)
    BY <1>2 DEF RecoverTabs
  <2>4. TabsLabelled(l) \subseteq 1..born' /\ \A t \in TabsLabelled(l) : KinTab(panes', t, l)
    BY <1>0, LabelledTabs
  <2> HIDE DEF s
  <2> QED
    BY <1>0, <2>1, <2>2, <2>3, <2>4, StillPanes, HoldingMoves
<1> QED
  BY <1>1, <1>2

LEMMA Qualified ==
    ASSUME PanesInv, NEW l \in Lanes, NEW t \in lane[l].tabs, recoverableTab(panes, t)
    PROVE  /\ t \in 1..born /\ KinTab(panes, t, l)
           /\ RootOf(t) \in DOMAIN panes /\ panes[RootOf(t)].tab = t /\ RootOf(t) \in 1..born
           /\ KinPane(panes, RootOf(t), l)
<1>1. LaneOk(panes, born, l, lane[l]) /\ PanesOk(panes, born)
  BY DEF PanesInv
<1>2. RootOf(t) \in DOMAIN panes /\ panes[RootOf(t)].tab = t
  BY RootThere DEF recoverableTab
<1> QED
  BY <1>1, <1>2 DEF LaneOk, KinTab, KinPane, PanesOk

LEMMA RecoverTabMoves == ASSUME PanesInv, NEW l \in Keys, RecoverTab(l) PROVE LaneSteps(l)
<1>0. l \in Lanes /\ UNCHANGED <<panes, born>> /\ born \in Nat
  BY DEF Lanes, RecoverTab, PanesInv
<1> DEFINE qualified == {t \in lane[l].tabs : recoverableTab(panes, t)}
           t == CHOOSE x \in qualified : TRUE
<1>1. CASE Ends(l)
  BY <1>0, <1>1, QuietEnding DEF LaneSteps
<1>2. CASE ~Ends(l)
  <2>1. Cardinality(qualified) = 1
    BY <1>2 DEF RecoverTab
  <2>2. t \in lane[l].tabs /\ recoverableTab(panes, t)
    <3>1. qualified # {}
      BY <2>1, FS_EmptySet
    <3> QED
      BY <3>1
  <2>3. Becomes(l, IF At(l, "recover") THEN [pc |-> "rename", tab |-> t, root |-> RootOf(t), tabs |-> {}]
                   ELSE [pc |-> "move", tab |-> t, tabs |-> {}])
    BY <1>2 DEF RecoverTab
  <2> HIDE DEF t
  <2>4. /\ t \in 1..born' /\ KinTab(panes', t, l)
        /\ RootOf(t) \in 1..born' /\ KinPane(panes', RootOf(t), l)
    BY <1>0, <2>2, Qualified
  <2>5. CASE At(l, "recover")
    <3> DEFINE s == [pc |-> "rename", tab |-> t, root |-> RootOf(t), tabs |-> {}]
    <3>1. DOMAIN s = {"pc", "tab", "root", "tabs"} /\ s["tab"] = t /\ s["root"] = RootOf(t) /\ s["tabs"] = {}
      OBVIOUS
    <3>2. DOMAIN s \subseteq LaneFields
      BY <3>1 DEF LaneFields
    <3>3. Becomes(l, s)
      BY <2>3, <2>5
    <3> HIDE DEF s
    <3> QED
      BY <1>0, <2>4, <3>1, <3>2, <3>3, StillPanes, HoldingMoves
  <2>6. CASE ~At(l, "recover")
    <3> DEFINE s == [pc |-> "move", tab |-> t, tabs |-> {}]
    <3>1. DOMAIN s = {"pc", "tab", "tabs"} /\ s["tab"] = t /\ s["tabs"] = {}
      OBVIOUS
    <3>2. DOMAIN s \subseteq LaneFields
      BY <3>1 DEF LaneFields
    <3>3. Becomes(l, s)
      BY <2>3, <2>6
    <3> HIDE DEF s
    <3> QED
      BY <1>0, <2>4, <3>1, <3>2, <3>3, StillPanes, HoldingMoves
  <2> QED
    BY <2>5, <2>6
<1> QED
  BY <1>1, <1>2

\* A step that changes the panes its own way and ends or moves on.
LEMMA PlainMoves ==
    ASSUME PanesInv, NEW l \in Lanes, Evolves(panes, born, panes', born'), Own(l),
           Ends(l) \/ \E pc : MovesTo(l, pc)
    PROVE  LaneSteps(l)
<1>1. CASE Ends(l)
  BY <1>1, EndingMoves DEF LaneSteps
<1>2. ASSUME NEW pc, MovesTo(l, pc) PROVE LaneSteps(l)
  <2>1. PICK r : /\ lane' = [lane EXCEPT ![l] = r] /\ LaneShape(r)
                 /\ r.pc = pc /\ \A f \in LaneFields : f # "pc" => r[f] = lane[l][f]
    BY <1>2, MovingTo
  <2>2. r.tab = lane[l].tab /\ r.tabs = lane[l].tabs /\ r.root = lane[l].root /\ r.new = lane[l].new
        /\ r.close = lane[l].close /\ r.snap = lane[l].snap
    BY <2>1 DEF LaneFields
  <2>3. LaneOk(panes', born', l, lane[l])
    BY LaneOkKept DEF PanesInv
  <2>4. LaneOk(panes', born', l, r)
    BY <2>2, <2>3, LaneOkAgain
  <2> QED
    BY <2>1, <2>4 DEF LaneMoves, LaneSteps
<1> QED
  BY <1>1, <1>2

LEMMA HeldPanes ==
    ASSUME PanesInv, NEW l \in Lanes
    PROVE  KinPane(panes, lane[l].root, l) /\ KinPane(panes, lane[l].new, l)
  BY DEF PanesInv, LaneOk

LEMMA RenamedEvolves ==
    ASSUME PanesInv, NEW l \in Keys, NEW p, KinPane(panes, p, l), NEW ok, Renamed(p, l, ok), UNCHANGED born
    PROVE  Evolves(panes, born, panes', born') /\ Own(l)
  BY RenamedFacts, CommandOnKin

LEMMA RanEvolves ==
    ASSUME PanesInv, NEW l \in Keys, NEW p, KinPane(panes, p, l), NEW ok, Ran(p, ok), UNCHANGED born
    PROVE  Evolves(panes, born, panes', born') /\ Own(l)
  BY RanFacts, CommandOnKin

LEMMA RenameMoves == ASSUME PanesInv, NEW l \in Keys, RenameRoot(l) \/ RenameNew(l) PROVE LaneSteps(l)
<1>0. l \in Lanes
  BY DEF Lanes
<1>1. CASE RenameRoot(l)
  <2>1. PICK ok \in BOOLEAN : Renamed(lane[l].root, l, ok) /\ MovesTo(l, IF ok THEN "run" ELSE "closeRoot")
    BY <1>1 DEF RenameRoot
  <2> QED
    BY <1>0, <1>1, <2>1, HeldPanes, RenamedEvolves, PlainMoves DEF RenameRoot
<1>2. CASE RenameNew(l)
  <2>1. PICK ok \in BOOLEAN : Renamed(lane[l].new, l, ok) /\ IF ok THEN MovesTo(l, "runNew") ELSE Ends(l)
    BY <1>2 DEF RenameNew
  <2> QED
    BY <1>0, <1>2, <2>1, HeldPanes, RenamedEvolves, PlainMoves DEF RenameNew
<1> QED
  BY <1>1, <1>2

LEMMA RunNewMoves == ASSUME PanesInv, NEW l \in Keys, RunNew(l) PROVE LaneSteps(l)
<1>0. l \in Lanes
  BY DEF Lanes
<1>1. PICK ok \in BOOLEAN : Ran(lane[l].new, ok) /\ IF ok THEN MovesTo(l, "sweepAgain") ELSE Ends(l)
  BY DEF RunNew
<1> QED
  BY <1>0, <1>1, HeldPanes, RanEvolves, PlainMoves DEF RunNew

LEMMA RunRootMoves == ASSUME PanesInv, NEW l \in Keys, RunRoot(l) PROVE LaneSteps(l)
<1>0. l \in Lanes /\ born' = born
  BY DEF Lanes, RunRoot
<1>1. PICK ok \in BOOLEAN :
        Ran(lane[l].root, ok) /\ Becomes(l, IF ok THEN [pc |-> "born", new |-> lane[l].root] ELSE [pc |-> "closeRoot"])
  BY DEF RunRoot
<1>2. Evolves(panes, born, panes', born') /\ Own(l)
  BY <1>0, <1>1, HeldPanes, RanEvolves
<1>3. CASE ok
  <2> DEFINE s == [pc |-> "born", new |-> lane[l].root]
  <2>1. DOMAIN s = {"pc", "new"} /\ s["new"] = lane[l].root
    OBVIOUS
  <2>2. DOMAIN s \subseteq LaneFields
    BY <2>1 DEF LaneFields
  <2>3. Becomes(l, s)
    BY <1>1, <1>3
  <2> HIDE DEF s
  <2>4. PICK r : /\ lane' = [lane EXCEPT ![l] = r] /\ LaneShape(r)
                 /\ \A f \in LaneFields : r[f] = IF f \in DOMAIN s THEN s[f] ELSE lane[l][f]
    BY <1>0, <2>2, <2>3, Becoming
  <2>5. r.tab = lane[l].tab /\ r.tabs = lane[l].tabs /\ r.root = lane[l].root /\ r.new = lane[l].root
        /\ r.close = lane[l].close /\ r.snap = lane[l].snap
    BY <2>1, <2>4 DEF LaneFields
  <2>6. LaneOk(panes', born', l, lane[l])
    BY <1>0, <1>2, LaneOkKept DEF PanesInv
  <2>7. LaneOk(panes', born', l, r)
    BY <2>5, <2>6 DEF LaneOk
  <2> QED
    BY <1>2, <2>4, <2>7 DEF LaneMoves, LaneSteps
<1>4. CASE ~ok
  <2> DEFINE s == [pc |-> "closeRoot"]
  <2>1. DOMAIN s = {"pc"}
    OBVIOUS
  <2>2. DOMAIN s \subseteq LaneFields
    BY <2>1 DEF LaneFields
  <2>3. Becomes(l, s)
    BY <1>1, <1>4
  <2> HIDE DEF s
  <2> QED
    BY <1>0, <1>2, <2>1, <2>2, <2>3, HoldingMoves
<1> QED
  BY <1>3, <1>4

LEMMA CloseRootMoves == ASSUME PanesInv, NEW l \in Keys, CloseRoot(l) PROVE LaneSteps(l)
<1>0. l \in Lanes /\ born' = born /\ Closed(lane[l].root) /\ MovesTo(l, "split")
  BY DEF Lanes, CloseRoot
<1>1. lane[l].root \in DOMAIN panes => SameTask(panes[lane[l].root].by, l)
  BY <1>0, HeldPanes DEF KinPane, SameTask, TabsNameTasks, PanesInv, PanesOk, PaneOk
<1> QED
  BY <1>0, <1>1, ClosedFacts, PlainMoves

LEMMA SplitMoves == ASSUME PanesInv, NEW l \in Keys, Split(l) PROVE LaneSteps(l)
<1>0. l \in Lanes /\ born \in Nat
  BY DEF Lanes, PanesInv
<1>1. CASE Ends(l) /\ UNCHANGED <<panes, born>>
  BY <1>0, <1>1, QuietEnding DEF LaneSteps
<1>2. CASE Appears(l, None, SysTabLabel)
           /\ Becomes(l, [new |-> born + 1, pc |-> IF lane[l].tab = None THEN "create2" ELSE "move"])
  <2> DEFINE s == [new |-> born + 1, pc |-> IF lane[l].tab = None THEN "create2" ELSE "move"]
  <2>1. DOMAIN s = {"new", "pc"} /\ s["new"] = born + 1
    OBVIOUS
  <2>2. DOMAIN s \subseteq LaneFields
    BY <2>1 DEF LaneFields
  <2>3. Becomes(l, s)
    BY <1>2
  <2> HIDE DEF s
  <2>4. Evolves(panes, born, panes', born') /\ Own(l) /\ born' = born + 1 /\ KinPane(panes', born + 1, l)
    <3>1. Evolves(panes, born, panes', born') /\ Own(l) /\ born' = born + 1 /\ panes'[born + 1].by = l
      BY <1>2, AppearsFacts
    <3> QED
      BY <3>1 DEF KinPane, Kin
  <2>5. born + 1 \in 1..born'
    BY <1>0, <2>4
  <2> QED
    BY <1>0, <2>1, <2>2, <2>3, <2>4, <2>5, HoldingMoves
<1> QED
  BY <1>1, <1>2 DEF Split

LEMMA SecondCreateMoves == ASSUME PanesInv, NEW l \in Keys, SecondCreate(l) PROVE LaneSteps(l)
<1>0. l \in Lanes /\ born \in Nat
  BY DEF Lanes, PanesInv
<1>1. CASE CreatesTab(l) /\ Becomes(l, [pc |-> "move", tab |-> born + 1, made |-> lane[l].made + 1])
  <2> DEFINE s == [pc |-> "move", tab |-> born + 1, made |-> lane[l].made + 1]
  <2>1. DOMAIN s = {"pc", "tab", "made"} /\ s["tab"] = born + 1
    OBVIOUS
  <2>2. DOMAIN s \subseteq LaneFields
    BY <2>1 DEF LaneFields
  <2> HIDE DEF s
  <2> QED
    BY <1>0, <1>1, <2>1, <2>2, CreatedTab, HoldingMoves DEF s
<1>2. CASE CreatesTab(l) /\ Becomes(l, [pc |-> "tabs2", made |-> lane[l].made + 1])
  <2> DEFINE s == [pc |-> "tabs2", made |-> lane[l].made + 1]
  <2>1. DOMAIN s = {"pc", "made"}
    OBVIOUS
  <2>2. DOMAIN s \subseteq LaneFields
    BY <2>1 DEF LaneFields
  <2> HIDE DEF s
  <2> QED
    BY <1>0, <1>2, <2>1, <2>2, CreatedTab, HoldingMoves DEF s
<1>3. CASE UNCHANGED <<panes, born>> /\ MovesTo(l, "tabs2")
  BY <1>0, <1>3, QuietMovesTo DEF LaneSteps
<1> QED
  BY <1>1, <1>2, <1>3 DEF SecondCreate

LEMMA MovedFacts ==
    ASSUME PanesInv, NEW t \in 1..born, NEW p \in DOMAIN panes, InTab(panes, t) # {}, NEW l, KinTab(panes, t, l),
           KinPane(panes, p, l)
    PROVE  LET e == [panes[p] EXCEPT !.tab = t, !.tabLabel = panes[CHOOSE q \in InTab(panes, t) : TRUE].tabLabel]
           IN  /\ PaneOk(e, born) /\ e.by = panes[p].by /\ e.tab = t /\ e.label = panes[p].label
               /\ e.agent = panes[p].agent /\ e.status = panes[p].status
               /\ \E q \in DOMAIN panes : panes[q].tab = e.tab /\ Kin(panes[q].by, panes[p].by)
<1> DEFINE q == CHOOSE o \in InTab(panes, t) : TRUE
           k == panes[q].tabLabel
           e == [panes[p] EXCEPT !.tab = t, !.tabLabel = k]
<1>1. q \in DOMAIN panes /\ panes[q].tab = t
  BY DEF InTab
<1> HIDE DEF q
<1>2. PaneOk(panes[p], born) /\ PaneOk(panes[q], born) /\ t # None
  BY <1>1 DEF PanesInv, PanesOk, None
<1>3. Kin(panes[q].by, panes[p].by)
  BY <1>1 DEF KinTab, KinPane, Kin
<1>4. k = tab_label[panes[p].by]
  BY <1>1, <1>2, <1>3 DEF PaneOk, Kin
<1> HIDE DEF k
<1>5. e.by = panes[p].by /\ e.tab = t /\ e.label = panes[p].label /\ e.tabLabel = k
      /\ e.agent = panes[p].agent /\ e.status = panes[p].status /\ e = [f \in TaskPaneFields |-> e[f]]
  BY <1>2 DEF PaneOk, TaskPaneFields
<1> HIDE DEF e
<1>6. PaneOk(e, born)
  BY <1>2, <1>4, <1>5 DEF PaneOk
<1> QED
  BY <1>1, <1>3, <1>5, <1>6 DEF e, k, q

LEMMA MoveMoves == ASSUME PanesInv, NEW l \in Keys, lane[l].tab # None, Move(l) PROVE LaneSteps(l)
<1>0. l \in Lanes /\ born' = born /\ born \in Nat /\ LaneOk(panes, born, l, lane[l])
  BY DEF Lanes, Move, PanesInv
<1> DEFINE t == lane[l].tab
           p == lane[l].new
<1>1. t \in 1..born /\ KinTab(panes, t, l) /\ KinPane(panes, p, l)
  BY <1>0 DEF LaneOk, None
<1>2. Evolves(panes, born, panes', born') /\ Own(l)
  <2>1. CASE panes' = panes
    BY <1>0, <2>1, StillPanes
  <2>2. CASE panes' # panes
    <3> DEFINE e == [panes[p] EXCEPT !.tab = t, !.tabLabel = panes[CHOOSE q \in InTab(panes, t) : TRUE].tabLabel]
    <3>1. p \in DOMAIN panes /\ InTab(panes, t) # {} /\ panes' = [panes EXCEPT ![p] = e]
      BY <2>2 DEF Move, Commanded
    <3>2. PaneOk(e, born) /\ e.by = panes[p].by
          /\ \E q \in DOMAIN panes : panes[q].tab = e.tab /\ Kin(panes[q].by, panes[p].by)
      BY <1>1, <3>1, MovedFacts
    <3> HIDE DEF e, t, p
    <3> QED
      BY <1>0, <1>1, <3>1, <3>2, CommandOnKin
  <2> QED
    BY <2>1, <2>2
<1>3. PICK ok \in BOOLEAN : IF ok THEN Becomes(l, [pc |-> "sweep", tries |-> 0]) ELSE Ends(l)
  BY DEF Move
<1>4. CASE ~ok
  BY <1>0, <1>2, <1>3, <1>4, PlainMoves
<1>5. CASE ok
  <2> DEFINE s == [pc |-> "sweep", tries |-> 0]
  <2>1. DOMAIN s = {"pc", "tries"}
    OBVIOUS
  <2>2. DOMAIN s \subseteq LaneFields
    BY <2>1 DEF LaneFields
  <2>3. Becomes(l, s)
    BY <1>3, <1>5
  <2> HIDE DEF s
  <2> QED
    BY <1>0, <1>2, <2>1, <2>2, <2>3, HoldingMoves
<1> QED
  BY <1>4, <1>5

\* A sweep closes panes of the launch's own tab.
LEMMA SweepMoves ==
    ASSUME PanesInv, NEW l \in Keys, lane[l].tab # None, Sweep(l) \/ SweepAgain(l)
    PROVE  LaneSteps(l)
<1>0. l \in Lanes /\ UNCHANGED <<panes, born>> /\ born \in Nat /\ LaneOk(panes, born, l, lane[l]) /\ PanesOk(panes, born)
  BY DEF Lanes, Sweep, SweepAgain, PanesInv
<1> DEFINE cs == InTab(panes, lane[l].tab) \ {lane[l].new}
<1>1. cs \subseteq 1..born /\ \A p \in cs : SameTask(panes[p].by, l)
  <2>1. cs \subseteq DOMAIN panes /\ \A p \in cs : panes[p].tab = lane[l].tab
    BY DEF InTab
  <2> HIDE DEF cs
  <2> QED
    BY <1>0, <2>1 DEF LaneOk, KinTab, PanesOk, PaneOk, SameTask, TabsNameTasks
<1> HIDE DEF cs
<1>2. ASSUME NEW pc, Becomes(l, [pc |-> pc, close |-> cs]) PROVE LaneSteps(l)
  <2> DEFINE s == [pc |-> pc, close |-> cs]
  <2>1. DOMAIN s = {"pc", "close"} /\ s["close"] = cs
    OBVIOUS
  <2>2. DOMAIN s \subseteq LaneFields
    BY <2>1 DEF LaneFields
  <2> HIDE DEF s
  <2>3. PICK r : /\ lane' = [lane EXCEPT ![l] = r] /\ LaneShape(r)
                 /\ \A f \in LaneFields : r[f] = IF f \in DOMAIN s THEN s[f] ELSE lane[l][f]
    BY <1>0, <1>2, <2>2, Becoming DEF s
  <2>4. r.tab = lane[l].tab /\ r.tabs = lane[l].tabs /\ r.root = lane[l].root /\ r.new = lane[l].new
        /\ r.close = cs /\ r.snap = lane[l].snap
    BY <2>1, <2>3 DEF LaneFields
  <2>5. LaneOk(panes, born, l, r)
    BY <1>0, <1>1, <2>4 DEF LaneOk
  <2> QED
    BY <1>0, <2>3, <2>5, StillPanes DEF LaneMoves, LaneSteps
<1>3. ASSUME NEW n, Becomes(l, [tries |-> n]) PROVE LaneSteps(l)
  <2> DEFINE s == [tries |-> n]
  <2>1. DOMAIN s = {"tries"}
    OBVIOUS
  <2>2. DOMAIN s \subseteq LaneFields
    BY <2>1 DEF LaneFields
  <2>3. Becomes(l, s)
    BY <1>3
  <2> HIDE DEF s
  <2> QED
    BY <1>0, <2>1, <2>2, <2>3, StillPanes, HoldingMoves
<1>4. CASE Becomes(l, [pc |-> "sweepClose"])
  <2> DEFINE s == [pc |-> "sweepClose"]
  <2>1. DOMAIN s = {"pc"}
    OBVIOUS
  <2>2. DOMAIN s \subseteq LaneFields
    BY <2>1 DEF LaneFields
  <2>3. Becomes(l, s)
    BY <1>4
  <2> HIDE DEF s
  <2> QED
    BY <1>0, <2>1, <2>2, <2>3, StillPanes, HoldingMoves
<1>5. CASE MovesTo(l, "sweepLast")
  BY <1>0, <1>5, QuietMovesTo DEF LaneSteps
<1> QED
  BY <1>2, <1>3, <1>4, <1>5 DEF Sweep, SweepAgain, cs

LEMMA LastMoves == ASSUME PanesInv, NEW l \in Keys, Birthed(l) \/ DeliverPrompt(l) PROVE LaneSteps(l)
<1>1. l \in Lanes /\ UNCHANGED <<panes, born>>
  BY DEF Lanes, Birthed, DeliverPrompt
<1> QED
  BY <1>1, QuietEnding, QuietMovesTo DEF Birthed, DeliverPrompt, LaneSteps

LEMMA ChildKilledMoves == ASSUME PanesInv, NEW l \in Lanes, ChildKilled(l) PROVE LaneSteps(l)
  BY QuietEnding DEF ChildKilled, LaneSteps

-----------------------------------------------------------------------------
(* Tabs: no launch makes a second one. *)

\* Launch l steps to a state of which TabWell holds.
TabSteps(l) == \E r : lane' = [lane EXCEPT ![l] = r] /\ TabWellLane(r)

LEMMA TabStepsKeeps ==
    ASSUME PanesInv, TabsInv, NEW l \in Lanes, TabSteps(l)
    PROVE  TabsInv'
<1>1. PICK r : lane' = [lane EXCEPT ![l] = r] /\ TabWellLane(r)
  BY DEF TabSteps
<1>2. \A m \in Lanes : lane'[m] = IF m = l THEN r ELSE lane[m]
  BY <1>1 DEF PanesInv
<1> QED
  BY <1>1, <1>2 DEF TabsInv

LEMMA BecomingTab ==
    ASSUME PanesInv, NEW l \in Lanes, NEW s, Becomes(l, s), DOMAIN s \subseteq LaneFields,
           NEW pc, pc = IF "pc" \in DOMAIN s THEN s["pc"] ELSE lane[l].pc,
           NEW made, made = IF "made" \in DOMAIN s THEN s["made"] ELSE lane[l].made,
           NEW tab, tab = IF "tab" \in DOMAIN s THEN s["tab"] ELSE lane[l].tab,
           NEW tabs, tabs = IF "tabs" \in DOMAIN s THEN s["tabs"] ELSE lane[l].tabs,
           TabWell(pc, made, tab, tabs)
    PROVE  TabSteps(l)
<1>1. PICK r : /\ lane' = [lane EXCEPT ![l] = r] /\ LaneShape(r)
               /\ \A f \in LaneFields : r[f] = IF f \in DOMAIN s THEN s[f] ELSE lane[l][f]
  BY Becoming
<1>2. r.pc = pc /\ r.made = made /\ r.tab = tab /\ r.tabs = tabs
  BY <1>1 DEF LaneFields
<1> QED
  BY <1>1, <1>2 DEF TabSteps, TabWellLane

LEMMA MovingTab ==
    ASSUME PanesInv, NEW l \in Lanes, NEW pc, MovesTo(l, pc),
           TabWell(pc, lane[l].made, lane[l].tab, lane[l].tabs)
    PROVE  TabSteps(l)
<1>1. PICK r : /\ lane' = [lane EXCEPT ![l] = r] /\ LaneShape(r)
               /\ r.pc = pc /\ \A f \in LaneFields : f # "pc" => r[f] = lane[l][f]
  BY MovingTo
<1>2. r.pc = pc /\ r.made = lane[l].made /\ r.tab = lane[l].tab /\ r.tabs = lane[l].tabs
  BY <1>1 DEF LaneFields
<1> QED
  BY <1>1, <1>2 DEF TabSteps, TabWellLane

LEMMA EndingTab == ASSUME NEW l, Ends(l) PROVE TabSteps(l)
<1>1. TabWellLane(Idle)
  BY DEF TabWellLane, TabWell, Idle, None
<1> QED
  BY <1>1 DEF Ends, TabSteps

\* Before the birth.
LEMMA SeekingTab ==
    ASSUME PanesInv, TabsInv, NEW l \in Lanes,
           \/ l \in Keys /\ (Begin(l) \/ ContinueLive(l) \/ Reap(l) \/ Verify(l))
           \/ BeginCleanup(l) \/ ForceReap(l) \/ CloseNext(l) \/ Forced(l) \/ ChildKilled(l)
    PROVE  TabSteps(l)
<1> DEFINE early == {"idle", "fresh", "forceClose", "continue", "reap", "reapClose", "create"}
<1>0. TabWell(lane[l].pc, lane[l].made, lane[l].tab, lane[l].tabs)
  BY DEF TabsInv, TabWellLane
<1>1. ASSUME NEW s, Becomes(l, s), DOMAIN s \subseteq LaneFields, lane[l].pc \in early,
             "pc" \in DOMAIN s, s["pc"] \in early \cup {"deliver"},
             "made" \notin DOMAIN s, "tab" \notin DOMAIN s, "tabs" \notin DOMAIN s
      PROVE  TabSteps(l)
  <2>1. TabWell(s["pc"], lane[l].made, lane[l].tab, lane[l].tabs)
    BY <1>0, <1>1 DEF TabWell
  <2> QED
    BY <1>1, <2>1, BecomingTab
<1>2. ASSUME NEW pc, MovesTo(l, pc), lane[l].pc \in early, pc \in early PROVE TabSteps(l)
  <2>1. TabWell(pc, lane[l].made, lane[l].tab, lane[l].tabs)
    BY <1>0, <1>2 DEF TabWell
  <2> QED
    BY <1>2, <2>1, MovingTab
<1>3. CASE l \in Keys /\ Begin(l)
  <2>1. PICK fresh \in BOOLEAN, continuity \in {continuityRoles, {}} :
          Becomes(l, [fresh |-> fresh, continuity |-> continuity, anchor |-> selectAnchor,
                      pc |-> CASE fresh -> "fresh" [] ~fresh /\ l[2] \in continuity -> "continue" [] OTHER -> "reap"])
    BY <1>3 DEF Begin
  <2> DEFINE s == [fresh |-> fresh, continuity |-> continuity, anchor |-> selectAnchor,
                   pc |-> CASE fresh -> "fresh" [] ~fresh /\ l[2] \in continuity -> "continue" [] OTHER -> "reap"]
  <2>2. DOMAIN s = {"fresh", "continuity", "anchor", "pc"} /\ s["pc"] \in early
    OBVIOUS
  <2>3. Becomes(l, s) /\ lane[l].pc \in early
    BY <1>3, <2>1 DEF Begin, At
  <2> HIDE DEF s
  <2> QED
    BY <1>1, <2>2, <2>3 DEF LaneFields
<1>4. CASE l \in Keys /\ ContinueLive(l)
  <2>0. lane[l].pc \in early
    BY <1>4 DEF ContinueLive, At
  <2>1. ASSUME NEW p, Becomes(l, [pc |-> "deliver", new |-> p]) PROVE TabSteps(l)
    <3> DEFINE s == [pc |-> "deliver", new |-> p]
    <3>1. DOMAIN s = {"pc", "new"} /\ s["pc"] = "deliver"
      OBVIOUS
    <3>2. Becomes(l, s)
      BY <2>1
    <3> HIDE DEF s
    <3> QED
      BY <1>1, <2>0, <3>1, <3>2 DEF LaneFields
  <2>2. ASSUME NEW ps, Becomes(l, [pc |-> "reap", listed |-> TRUE, snap |-> ps]) PROVE TabSteps(l)
    <3> DEFINE s == [pc |-> "reap", listed |-> TRUE, snap |-> ps]
    <3>1. DOMAIN s = {"pc", "listed", "snap"} /\ s["pc"] = "reap"
      OBVIOUS
    <3>2. Becomes(l, s)
      BY <2>2
    <3> HIDE DEF s
    <3> QED
      BY <1>1, <2>0, <3>1, <3>2 DEF LaneFields
  <2> QED
    BY <1>2, <1>4, <2>0, <2>1, <2>2, EndingTab DEF ContinueLive
<1>5. ASSUME NEW pc \in early, NEW ps, NEW cs,
             Becomes(l, [pc |-> pc, listed |-> TRUE, snap |-> ps, close |-> cs]), lane[l].pc \in early
      PROVE  TabSteps(l)
  <2> DEFINE s == [pc |-> pc, listed |-> TRUE, snap |-> ps, close |-> cs]
  <2>1. DOMAIN s = {"pc", "listed", "snap", "close"} /\ s["pc"] = pc
    OBVIOUS
  <2>2. Becomes(l, s)
    BY <1>5
  <2> HIDE DEF s
  <2> QED
    BY <1>1, <1>5, <2>1, <2>2 DEF LaneFields
<1>6. CASE l \in Keys /\ Reap(l)
  BY <1>5, <1>6, EndingTab DEF Reap, Unlisted, At
<1>7. CASE l \in Keys /\ Verify(l)
  <2> DEFINE s == [pc |-> "create", fresh |-> FALSE, continuity |-> {}, listed |-> FALSE, snap |-> NoList]
  <2>1. DOMAIN s = {"pc", "fresh", "continuity", "listed", "snap"} /\ s["pc"] = "create"
    OBVIOUS
  <2>2. lane[l].pc \in early /\ (Ends(l) \/ Becomes(l, s))
    BY <1>7 DEF Verify, Unlisted, At
  <2> HIDE DEF s
  <2>3. CASE Becomes(l, s)
    BY <1>1, <2>1, <2>2, <2>3 DEF LaneFields
  <2> QED
    BY <2>2, <2>3, EndingTab
<1>8. CASE BeginCleanup(l)
  BY <1>2, <1>8 DEF BeginCleanup, At
<1>9. CASE ForceReap(l)
  BY <1>5, <1>9, EndingTab DEF ForceReap, At
<1>10. CASE CloseNext(l)
  <2>1. PICK p \in lane[l].close : Becomes(l, [close |-> lane[l].close \ {p}, listed |-> FALSE])
    BY <1>10 DEF CloseNext
  <2> DEFINE s == [close |-> lane[l].close \ {p}, listed |-> FALSE]
  <2>2. DOMAIN s = {"close", "listed"}
    OBVIOUS
  <2>3. Becomes(l, s)
    BY <2>1
  <2> HIDE DEF s
  <2>4. DOMAIN s \subseteq LaneFields
    BY <2>2 DEF LaneFields
  <2> QED
    BY <1>0, <2>2, <2>3, <2>4, BecomingTab
<1>11. CASE Forced(l)
  BY <1>2, <1>11, EndingTab DEF Forced, At
<1>12. CASE ChildKilled(l)
  BY <1>12, EndingTab DEF ChildKilled
<1> QED
  BY <1>3, <1>4, <1>6, <1>7, <1>8, <1>9, <1>10, <1>11, <1>12

LEMMA BirthTab ==
    ASSUME TabsApart, PanesInv, TabsInv, NEW l \in Keys,
           \/ TabCreate(l) \/ FindRoot(l) \/ RecoverTabs(l) \/ RecoverTab(l)
           \/ RenameRoot(l) \/ RunRoot(l) \/ CloseRoot(l) \/ Split(l) \/ SecondCreate(l) \/ Move(l)
    PROVE  TabSteps(l)
<1>0. TabWell(lane[l].pc, lane[l].made, lane[l].tab, lane[l].tabs) /\ l \in Lanes /\ born \in Nat
  BY DEF TabsInv, TabWellLane, Lanes, PanesInv
<1>1. CASE TabCreate(l)
  <2>0. lane[l].pc = "create" /\ lane[l].tab = None /\ None \notin lane[l].tabs /\ born + 1 # None
    BY <1>0, <1>1 DEF TabCreate, At, TabWell, None
  <2>1. CASE Becomes(l, [pc |-> "rename", tab |-> born + 1, root |-> born + 1, made |-> 1])
    <3> DEFINE s == [pc |-> "rename", tab |-> born + 1, root |-> born + 1, made |-> 1]
    <3>1. DOMAIN s = {"pc", "tab", "root", "made"} /\ s["pc"] = "rename" /\ s["tab"] = born + 1 /\ s["made"] = 1
      OBVIOUS
    <3>2. Becomes(l, s)
      BY <2>1
    <3> HIDE DEF s
    <3>3. TabWell("rename", 1, born + 1, lane[l].tabs) /\ DOMAIN s \subseteq LaneFields
      BY <2>0, <3>1 DEF TabWell, LaneFields
    <3> QED
      BY <1>0, <3>1, <3>2, <3>3, BecomingTab
  <2>2. CASE Becomes(l, [pc |-> "findRoot", tab |-> born + 1, made |-> 1])
    <3> DEFINE s == [pc |-> "findRoot", tab |-> born + 1, made |-> 1]
    <3>1. DOMAIN s = {"pc", "tab", "made"} /\ s["pc"] = "findRoot" /\ s["tab"] = born + 1 /\ s["made"] = 1
      OBVIOUS
    <3>2. Becomes(l, s)
      BY <2>2
    <3> HIDE DEF s
    <3>3. TabWell("findRoot", 1, born + 1, lane[l].tabs) /\ DOMAIN s \subseteq LaneFields
      BY <2>0, <3>1 DEF TabWell, LaneFields
    <3> QED
      BY <1>0, <3>1, <3>2, <3>3, BecomingTab
  <2>3. ASSUME NEW outcome \in {"unparsed", "signal", "exit"}, (outcome # "exit" /\ CreatesTab(l)) \/ UNCHANGED born,
               Becomes(l, [pc |-> IF MayHaveCreatedTab(outcome) THEN "tabs" ELSE "split", made |-> born' - born])
        PROVE  TabSteps(l)
    <3> DEFINE pc == IF MayHaveCreatedTab(outcome) THEN "tabs" ELSE "split"
               made == born' - born
               s == [pc |-> pc, made |-> made]
    <3>1. made \in {0, 1} /\ pc \in {"tabs", "split"} /\ (pc = "split" => made = 0)
      BY <1>0, <2>3 DEF CreatesTab, Appears, MayHaveCreatedTab
    <3>2. Becomes(l, s)
      BY <2>3
    <3> HIDE DEF pc, made
    <3>3. DOMAIN s = {"pc", "made"} /\ s["pc"] = pc /\ s["made"] = made
      OBVIOUS
    <3> HIDE DEF s
    <3>4. TabWell(pc, made, lane[l].tab, lane[l].tabs) /\ DOMAIN s \subseteq LaneFields
      BY <2>0, <3>1, <3>3 DEF TabWell, LaneFields
    <3> QED
      BY <1>0, <3>2, <3>3, <3>4, BecomingTab
  <2> QED
    BY <1>1, <2>1, <2>2, <2>3, EndingTab DEF TabCreate
<1>2. CASE FindRoot(l)
  <2>0. lane[l].pc = "findRoot" /\ lane[l].tab # None
    BY <1>0, <1>2 DEF FindRoot, At, TabWell
  <2>1. CASE MovesTo(l, "split")
    BY <1>0, <2>0, <2>1, MovingTab DEF TabWell
  <2>2. ASSUME NEW p, Becomes(l, [pc |-> "rename", root |-> p]) PROVE TabSteps(l)
    <3> DEFINE s == [pc |-> "rename", root |-> p]
    <3>1. DOMAIN s = {"pc", "root"} /\ s["pc"] = "rename"
      OBVIOUS
    <3>2. Becomes(l, s)
      BY <2>2
    <3> HIDE DEF s
    <3>3. TabWell("rename", lane[l].made, lane[l].tab, lane[l].tabs) /\ DOMAIN s \subseteq LaneFields
      BY <1>0, <2>0, <3>1 DEF TabWell, LaneFields
    <3> QED
      BY <1>0, <3>1, <3>2, <3>3, BecomingTab
  <2> QED
    BY <1>2, <2>1, <2>2 DEF FindRoot
<1>3. CASE RecoverTabs(l)
  <2> DEFINE pc == IF At(l, "tabs") THEN "recover" ELSE "recover2"
             s == [pc |-> pc, tabs |-> TabsLabelled(l)]
  <2>1. DOMAIN s = {"pc", "tabs"} /\ s["pc"] = pc /\ s["tabs"] = TabsLabelled(l)
    OBVIOUS
  <2>2. Ends(l) \/ Becomes(l, s)
    BY <1>3 DEF RecoverTabs
  <2>3. None \notin TabsLabelled(l)
    BY LabelledTabs
  <2> HIDE DEF s
  <2>4. TabWell(pc, lane[l].made, lane[l].tab, TabsLabelled(l)) /\ DOMAIN s \subseteq LaneFields
    BY <1>0, <1>3, <2>1, <2>3 DEF TabWell, LaneFields
  <2> QED
    BY <1>0, <2>1, <2>2, <2>4, BecomingTab, EndingTab
<1>4. CASE RecoverTab(l)
  <2>1. ASSUME NEW t, t \in lane[l].tabs, NEW p,
               Becomes(l, IF At(l, "recover") THEN [pc |-> "rename", tab |-> t, root |-> p, tabs |-> {}]
                          ELSE [pc |-> "move", tab |-> t, tabs |-> {}])
        PROVE  TabSteps(l)
    <3>0. t # None
      BY <1>0, <2>1 DEF TabWell
    <3>1. CASE At(l, "recover")
      <4> DEFINE s == [pc |-> "rename", tab |-> t, root |-> p, tabs |-> {}]
      <4>1. DOMAIN s = {"pc", "tab", "root", "tabs"} /\ s["pc"] = "rename" /\ s["tab"] = t /\ s["tabs"] = {}
        OBVIOUS
      <4>2. Becomes(l, s)
        BY <2>1, <3>1
      <4> HIDE DEF s
      <4>3. TabWell("rename", lane[l].made, t, {}) /\ DOMAIN s \subseteq LaneFields
        BY <1>0, <3>0, <4>1 DEF TabWell, LaneFields
      <4> QED
        BY <1>0, <4>1, <4>2, <4>3, BecomingTab
    <3>2. CASE ~At(l, "recover")
      <4> DEFINE s == [pc |-> "move", tab |-> t, tabs |-> {}]
      <4>1. DOMAIN s = {"pc", "tab", "tabs"} /\ s["pc"] = "move" /\ s["tab"] = t /\ s["tabs"] = {}
        OBVIOUS
      <4>2. Becomes(l, s)
        BY <2>1, <3>2
      <4> HIDE DEF s
      <4>3. TabWell("move", lane[l].made, t, {}) /\ DOMAIN s \subseteq LaneFields
        BY <1>0, <3>0, <4>1 DEF TabWell, LaneFields
      <4> QED
        BY <1>0, <4>1, <4>2, <4>3, BecomingTab
    <3> QED
      BY <3>1, <3>2
  <2> DEFINE qualified == {t \in lane[l].tabs : recoverableTab(panes, t)}
             t == CHOOSE x \in qualified : TRUE
  <2>2. Ends(l) \/ Cardinality(qualified) = 1
    BY <1>4 DEF RecoverTab
  <2>3. CASE ~Ends(l)
    <3>1. qualified # {}
      BY <2>2, <2>3, FS_EmptySet
    <3>2. t \in lane[l].tabs
      BY <3>1
    <3> QED
      BY <1>4, <2>1, <2>3, <3>2 DEF RecoverTab
  <2> QED
    BY <2>3, EndingTab
<1>5. CASE RenameRoot(l) \/ CloseRoot(l)
  <2>1. lane[l].pc \in {"rename", "closeRoot"} /\ \E pc \in {"run", "closeRoot", "split"} : MovesTo(l, pc)
    BY <1>5 DEF RenameRoot, CloseRoot, At
  <2> QED
    BY <1>0, <2>1, MovingTab DEF TabWell
<1>6. CASE RunRoot(l)
  <2>0. lane[l].pc = "run" /\ lane[l].tab # None
    BY <1>0, <1>6 DEF RunRoot, At, TabWell
  <2>1. CASE Becomes(l, [pc |-> "born", new |-> lane[l].root])
    <3> DEFINE s == [pc |-> "born", new |-> lane[l].root]
    <3>1. DOMAIN s = {"pc", "new"} /\ s["pc"] = "born"
      OBVIOUS
    <3>2. Becomes(l, s)
      BY <2>1
    <3> HIDE DEF s
    <3>3. TabWell("born", lane[l].made, lane[l].tab, lane[l].tabs) /\ DOMAIN s \subseteq LaneFields
      BY <1>0, <3>1 DEF TabWell, LaneFields
    <3> QED
      BY <1>0, <3>1, <3>2, <3>3, BecomingTab
  <2>2. CASE Becomes(l, [pc |-> "closeRoot"])
    <3> DEFINE s == [pc |-> "closeRoot"]
    <3>1. DOMAIN s = {"pc"} /\ s["pc"] = "closeRoot"
      OBVIOUS
    <3>2. Becomes(l, s)
      BY <2>2
    <3> HIDE DEF s
    <3>3. TabWell("closeRoot", lane[l].made, lane[l].tab, lane[l].tabs) /\ DOMAIN s \subseteq LaneFields
      BY <1>0, <2>0, <3>1 DEF TabWell, LaneFields
    <3> QED
      BY <1>0, <3>1, <3>2, <3>3, BecomingTab
  <2> QED
    BY <1>6, <2>1, <2>2 DEF RunRoot
<1>7. CASE Split(l)
  <2> DEFINE pc == IF lane[l].tab = None THEN "create2" ELSE "move"
             s == [new |-> born + 1, pc |-> pc]
  <2>1. DOMAIN s = {"new", "pc"} /\ s["pc"] = pc
    OBVIOUS
  <2>2. lane[l].pc = "split" /\ (Ends(l) \/ Becomes(l, s))
    BY <1>7 DEF Split, At
  <2> HIDE DEF s
  <2>3. TabWell(pc, lane[l].made, lane[l].tab, lane[l].tabs) /\ DOMAIN s \subseteq LaneFields
    BY <1>0, <2>1, <2>2 DEF TabWell, LaneFields
  <2> QED
    BY <1>0, <2>1, <2>2, <2>3, BecomingTab, EndingTab
<1>8. CASE SecondCreate(l)
  <2>0. lane[l].pc = "create2" /\ lane[l].made = 0 /\ lane[l].made + 1 = 1 /\ born + 1 # None
    BY <1>0, <1>8 DEF SecondCreate, At, TabWell, None
  <2>1. CASE Becomes(l, [pc |-> "move", tab |-> born + 1, made |-> lane[l].made + 1])
    <3> DEFINE s == [pc |-> "move", tab |-> born + 1, made |-> lane[l].made + 1]
    <3>1. DOMAIN s = {"pc", "tab", "made"} /\ s["pc"] = "move" /\ s["tab"] = born + 1 /\ s["made"] = 1
      BY <2>0
    <3>2. Becomes(l, s)
      BY <2>1
    <3> HIDE DEF s
    <3>3. TabWell("move", 1, born + 1, lane[l].tabs) /\ DOMAIN s \subseteq LaneFields
      BY <1>0, <2>0, <3>1 DEF TabWell, LaneFields
    <3> QED
      BY <1>0, <3>1, <3>2, <3>3, BecomingTab
  <2>2. CASE Becomes(l, [pc |-> "tabs2", made |-> lane[l].made + 1])
    <3> DEFINE s == [pc |-> "tabs2", made |-> lane[l].made + 1]
    <3>1. DOMAIN s = {"pc", "made"} /\ s["pc"] = "tabs2" /\ s["made"] = 1
      BY <2>0
    <3>2. Becomes(l, s)
      BY <2>2
    <3> HIDE DEF s
    <3>3. TabWell("tabs2", 1, lane[l].tab, lane[l].tabs) /\ DOMAIN s \subseteq LaneFields
      BY <1>0, <3>1 DEF TabWell, LaneFields
    <3> QED
      BY <1>0, <3>1, <3>2, <3>3, BecomingTab
  <2>3. CASE MovesTo(l, "tabs2")
    BY <1>0, <2>3, MovingTab DEF TabWell
  <2> QED
    BY <1>8, <2>1, <2>2, <2>3 DEF SecondCreate
<1>9. CASE Move(l)
  <2> DEFINE s == [pc |-> "sweep", tries |-> 0]
  <2>1. DOMAIN s = {"pc", "tries"} /\ s["pc"] = "sweep"
    OBVIOUS
  <2>2. lane[l].pc = "move" /\ (Ends(l) \/ Becomes(l, s))
    BY <1>9 DEF Move, At
  <2> HIDE DEF s
  <2>3. TabWell("sweep", lane[l].made, lane[l].tab, lane[l].tabs) /\ DOMAIN s \subseteq LaneFields
    BY <1>0, <2>1, <2>2 DEF TabWell, LaneFields
  <2> QED
    BY <1>0, <2>1, <2>2, <2>3, BecomingTab, EndingTab
<1> QED
  BY <1>1, <1>2, <1>3, <1>4, <1>5, <1>6, <1>7, <1>8, <1>9

LEMMA SweepTab ==
    ASSUME PanesInv, TabsInv, NEW l \in Keys,
           Sweep(l) \/ RenameNew(l) \/ RunNew(l) \/ SweepAgain(l) \/ Birthed(l) \/ DeliverPrompt(l)
    PROVE  TabSteps(l)
<1> DEFINE late == {"sweep", "sweepClose", "runNew", "sweepAgain", "sweepLast"}
<1>0. TabWell(lane[l].pc, lane[l].made, lane[l].tab, lane[l].tabs) /\ l \in Lanes
  BY DEF TabsInv, TabWellLane, Lanes
<1>1. ASSUME NEW pc, pc \in late \cup {"born"}, lane[l].pc \in late, MovesTo(l, pc)
      PROVE  TabSteps(l)
  BY <1>0, <1>1, MovingTab DEF TabWell
<1>2. ASSUME NEW s, Becomes(l, s), DOMAIN s \subseteq LaneFields, lane[l].pc \in late,
             "pc" \in DOMAIN s => s["pc"] \in late,
             "made" \notin DOMAIN s, "tab" \notin DOMAIN s, "tabs" \notin DOMAIN s
      PROVE  TabSteps(l)
  <2> DEFINE pc == IF "pc" \in DOMAIN s THEN s["pc"] ELSE lane[l].pc
  <2>1. TabWell(pc, lane[l].made, lane[l].tab, lane[l].tabs)
    BY <1>0, <1>2 DEF TabWell
  <2> QED
    BY <1>0, <1>2, <2>1, BecomingTab
<1>3. ASSUME NEW pc \in late, NEW cs, Becomes(l, [pc |-> pc, close |-> cs]), lane[l].pc \in late PROVE TabSteps(l)
  <2> DEFINE s == [pc |-> pc, close |-> cs]
  <2>1. DOMAIN s = {"pc", "close"} /\ s["pc"] = pc
    OBVIOUS
  <2>2. Becomes(l, s)
    BY <1>3
  <2> HIDE DEF s
  <2> QED
    BY <1>2, <1>3, <2>1, <2>2 DEF LaneFields
<1>4. ASSUME NEW n, Becomes(l, [tries |-> n]), lane[l].pc \in late PROVE TabSteps(l)
  <2> DEFINE s == [tries |-> n]
  <2>1. DOMAIN s = {"tries"}
    OBVIOUS
  <2>2. Becomes(l, s)
    BY <1>4
  <2> HIDE DEF s
  <2> QED
    BY <1>2, <1>4, <2>1, <2>2 DEF LaneFields
<1>5. ASSUME Becomes(l, [pc |-> "sweepClose"]), lane[l].pc \in late PROVE TabSteps(l)
  <2> DEFINE s == [pc |-> "sweepClose"]
  <2>1. DOMAIN s = {"pc"} /\ s["pc"] = "sweepClose"
    OBVIOUS
  <2>2. Becomes(l, s)
    BY <1>5
  <2> HIDE DEF s
  <2> QED
    BY <1>2, <1>5, <2>1, <2>2 DEF LaneFields
<1>6. CASE Sweep(l) \/ SweepAgain(l)
  BY <1>1, <1>3, <1>4, <1>5, <1>6 DEF Sweep, SweepAgain, At
<1>7. CASE RenameNew(l) \/ RunNew(l) \/ Birthed(l) \/ DeliverPrompt(l)
  BY <1>1, <1>7, EndingTab DEF RenameNew, RunNew, Birthed, DeliverPrompt, At
<1> QED
  BY <1>6, <1>7

-----------------------------------------------------------------------------
(* The specification. *)

\* An agent in pane p goes on or exits.
LEMMA AgentFacts ==
    ASSUME PanesInv, NEW p \in DOMAIN panes, AgentMoves(p) \/ AgentExits(p)
    PROVE  /\ UNCHANGED <<lane, born, faults>> /\ Evolves(panes, born, panes', born')
           /\ DOMAIN panes' = DOMAIN panes
           /\ \A q \in DOMAIN panes :
                /\ panes'[q].label = panes[q].label /\ panes'[q].tab = panes[q].tab
                /\ q # p => panes'[q] = panes[q]
           /\ panes[p].agent /\ (paneIsAlive(panes'[p]) \/ ~panes'[p].agent)
<1>0. PaneOk(panes[p], born) /\ born \in Nat /\ PanesOk(panes, born) /\ born' = born
  BY DEF PanesInv, PanesOk, AgentMoves, AgentExits
<1>1. \E e : /\ panes' = [panes EXCEPT ![p] = e] /\ PaneOk(e, born) /\ e.by = panes[p].by /\ e.tab = panes[p].tab
             /\ e.label = panes[p].label /\ (paneIsAlive(e) \/ ~e.agent)
  <2>1. CASE AgentMoves(p)
    <3>1. PICK s \in {"idle", "working"} : panes' = [panes EXCEPT ![p].status = s]
      BY <2>1 DEF AgentMoves
    <3> DEFINE e == [panes[p] EXCEPT !.status = s]
    <3>2. e.label = panes[p].label /\ e.by = panes[p].by /\ e.tab = panes[p].tab /\ e.tabLabel = panes[p].tabLabel
          /\ e.status = s /\ e = [f \in TaskPaneFields |-> e[f]]
      BY <1>0 DEF PaneOk, TaskPaneFields
    <3>3. PaneOk(e, born) /\ paneIsAlive(e)
      BY <1>0, <3>2 DEF PaneOk, paneIsAlive
    <3>4. panes' = [panes EXCEPT ![p] = e]
      BY <3>1
    <3> QED
      BY <3>2, <3>3, <3>4
  <2>2. CASE AgentExits(p)
    <3> DEFINE e == [panes[p] EXCEPT !.agent = FALSE, !.status = "unknown"]
    <3>1. panes' = [panes EXCEPT ![p] = e]
      BY <2>2 DEF AgentExits
    <3>2. e.label = panes[p].label /\ e.by = panes[p].by /\ e.tab = panes[p].tab /\ e.tabLabel = panes[p].tabLabel
          /\ e.agent = FALSE /\ e = [f \in TaskPaneFields |-> e[f]]
      BY <1>0 DEF PaneOk, TaskPaneFields
    <3>3. PaneOk(e, born)
      BY <1>0, <3>2 DEF PaneOk
    <3> QED
      BY <3>1, <3>2, <3>3
  <2> QED
    BY <2>1, <2>2
<1>2. PICK e : /\ panes' = [panes EXCEPT ![p] = e] /\ PaneOk(e, born) /\ e.by = panes[p].by /\ e.tab = panes[p].tab
               /\ e.label = panes[p].label /\ (paneIsAlive(e) \/ ~e.agent)
  BY <1>1
<1>3. Evolves(panes, born, panes', born')
  BY <1>0, <1>2, Changing
<1> QED
  BY <1>2, <1>3 DEF AgentMoves, AgentExits

LEMMA LanesEndure ==
    ASSUME PanesInv, lane' = lane, Evolves(panes, born, panes', born')
    PROVE  PanesInv'
<1>1. born' \in Nat /\ PanesOk(panes', born')
  BY DEF Evolves
<1>2. ASSUME NEW m \in Lanes PROVE LaneShape(lane'[m]) /\ LaneOk(panes', born', m, lane'[m])
  BY LaneOkKept DEF PanesInv
<1> QED
  BY <1>1, <1>2 DEF PanesInv

\* The steps of launch or cleanup l.
LaneNext(l) ==
    \/ l \in Keys /\ Launch(l)
    \/ l \in Cleanups /\ BeginCleanup(l)
    \/ ForceReap(l) \/ CloseNext(l) \/ Forced(l) \/ ChildKilled(l)

LEMMA PaneCases ==
    ASSUME [PaneNext]_paneVars
    PROVE  \/ \E l \in Lanes : LaneNext(l)
           \/ \E p \in DOMAIN panes : AgentMoves(p) \/ AgentExits(p)
           \/ UNCHANGED <<panes, lane, born>> /\ (faults' = faults \/ Fails)
  BY DEF PaneNext, paneVars, LaneNext, Lanes, AnchorCloses

LEMMA LaneNextSteps ==
    ASSUME TabsApart, PanesInv, TabsInv, NEW l \in Lanes, LaneNext(l)
    PROVE  LaneSteps(l)
<1>1. ASSUME NEW pcs, lane[l].pc \in pcs,
             pcs \subseteq {"findRoot", "move", "sweep", "sweepAgain"}
      PROVE  lane[l].tab # None
  BY <1>1 DEF TabsInv, TabWellLane, TabWell
<1>2. CASE l \in Keys /\ Launch(l)
  <2>0. l \in Keys
    BY <1>2
  <2>1. CASE Begin(l) \/ ContinueLive(l) \/ Reap(l) \/ Verify(l)
    BY <2>0, <2>1, BeginMoves, ContinueLiveMoves, ReapMoves, VerifyMoves
  <2>2. CASE TabCreate(l) \/ RecoverTabs(l) \/ RecoverTab(l)
    BY <2>0, <2>2, TabCreateMoves, RecoverTabsMoves, RecoverTabMoves
  <2>3. CASE FindRoot(l)
    BY <1>1, <2>0, <2>3, FindRootMoves DEF FindRoot, At
  <2>4. CASE RenameRoot(l) \/ RunRoot(l) \/ CloseRoot(l)
    BY <2>0, <2>4, RenameMoves, RunRootMoves, CloseRootMoves
  <2>5. CASE Split(l) \/ SecondCreate(l)
    BY <2>0, <2>5, SplitMoves, SecondCreateMoves
  <2>6. CASE Move(l)
    BY <1>1, <2>0, <2>6, MoveMoves DEF Move, At
  <2>7. CASE Sweep(l) \/ SweepAgain(l)
    BY <1>1, <2>0, <2>7, SweepMoves DEF Sweep, SweepAgain, At
  <2>8. CASE RenameNew(l) \/ RunNew(l) \/ Birthed(l) \/ DeliverPrompt(l)
    BY <2>0, <2>8, RenameMoves, RunNewMoves, LastMoves
  <2> QED
    BY <1>2, <2>1, <2>2, <2>3, <2>4, <2>5, <2>6, <2>7, <2>8 DEF Launch
<1>3. CASE l \in Cleanups /\ BeginCleanup(l)
  BY <1>3, BeginCleanupMoves
<1>4. CASE ForceReap(l) \/ CloseNext(l) \/ Forced(l) \/ ChildKilled(l)
  BY <1>4, ForceReapMoves, CloseNextMoves, ForcedMoves, ChildKilledMoves
<1> QED
  BY <1>2, <1>3, <1>4 DEF LaneNext

LEMMA PanesInitially == PaneInit => PanesInv /\ TabsInv
<1> SUFFICES ASSUME PaneInit PROVE PanesInv /\ TabsInv
  OBVIOUS
<1>1. PanesOk(NoList, 0) /\ 0 \in Nat
  BY DEF PanesOk, NoList
<1>2. ASSUME NEW l \in Lanes
      PROVE  LaneShape(lane[l]) /\ LaneOk(panes, born, l, lane[l]) /\ TabWellLane(lane[l])
  <2>1. lane[l] = Idle /\ panes = NoList /\ born = 0
    BY DEF PaneInit
  <2>2. TabWellLane(Idle)
    BY DEF TabWellLane, TabWell, Idle, None
  <2> QED
    BY <1>1, <2>1, <2>2, IdleOk
<1>3. lane = [l \in Lanes |-> lane[l]] /\ born \in Nat /\ PanesOk(panes, born)
  BY <1>1 DEF PaneInit
<1> QED
  BY <1>2, <1>3 DEF PanesInv, TabsInv

LEMMA PanesNext == TabsApart /\ PanesInv /\ TabsInv /\ [PaneNext]_paneVars => PanesInv'
<1> SUFFICES ASSUME TabsApart, PanesInv, TabsInv, [PaneNext]_paneVars PROVE PanesInv'
  OBVIOUS
<1>1. ASSUME NEW l \in Lanes, LaneNext(l) PROVE PanesInv'
  <2>1. PICK r : LaneMoves(l, r)
    BY <1>1, LaneNextSteps DEF LaneSteps
  <2> QED
    BY <2>1, LaneMovesKeeps
<1>2. ASSUME NEW p \in DOMAIN panes, AgentMoves(p) \/ AgentExits(p) PROVE PanesInv'
  BY <1>2, AgentFacts, LanesEndure
<1>3. CASE UNCHANGED <<panes, lane, born>>
  BY <1>3 DEF PanesInv
<1> QED
  BY <1>1, <1>2, <1>3, PaneCases

\* ... with no more than TabsApart.
LEMMA TabsNext == TabsApart /\ PanesInv /\ TabsInv /\ [PaneNext]_paneVars => TabsInv'
<1> SUFFICES ASSUME TabsApart, PanesInv, TabsInv, [PaneNext]_paneVars PROVE TabsInv'
  OBVIOUS
<1>1. ASSUME NEW l \in Lanes, LaneNext(l) PROVE TabsInv'
  <2>1. TabSteps(l)
    <3>1. CASE l \in Keys /\ Launch(l)
      BY <3>1, SeekingTab, BirthTab, SweepTab DEF Launch
    <3>2. CASE ~(l \in Keys /\ Launch(l))
      BY <1>1, <3>2, SeekingTab DEF LaneNext
    <3> QED
      BY <3>1, <3>2
  <2> QED
    BY <2>1, TabStepsKeeps
<1>2. CASE lane' = lane
  BY <1>2 DEF TabsInv
<1> QED
  BY <1>1, <1>2, PaneCases, AgentFacts

LEMMA PanesHold == ASSUME TabsApart PROVE PaneSpec => [](PanesInv /\ TabsInv)
<1>1. PanesInv /\ TabsInv /\ [PaneNext]_paneVars => (PanesInv /\ TabsInv)'
  BY PanesNext, TabsNext
<1> QED
  BY <1>1, PanesInitially, PTL DEF PaneSpec

\* When the labels of tabs tell the tasks apart, no launch or cleanup closes,
\* renames or starts anything in a pane that another task's launch made.
THEOREM ForeignPanesAreKept == ASSUME TabsNameTasks PROVE PaneSpec => ForeignPanesKept
<1> DEFINE A == \A l \in Lanes : lane'[l] # lane[l] =>
                   \A p \in DOMAIN panes : panes[p].by[1] # l[1] => p \in DOMAIN panes' /\ panes'[p] = panes[p]
<1>1. PanesInv /\ TabsInv /\ [PaneNext]_paneVars => [A]_paneVars
  <2>0. TabsApart
    BY DEF TabsNameTasks
  <2> SUFFICES ASSUME PanesInv, TabsInv, [PaneNext]_paneVars, NEW l \in Lanes, lane'[l] # lane[l] PROVE Own(l)
    BY <2>0 DEF Own
  <2>1. PICK m \in Lanes : LaneNext(m)
    BY PaneCases, AgentFacts
  <2>2. PICK r : LaneMoves(m, r)
    BY <2>0, <2>1, LaneNextSteps DEF LaneSteps
  <2>3. l = m
    BY <2>2 DEF LaneMoves, PanesInv
  <2> QED
    BY <2>2, <2>3 DEF LaneMoves
<1>2. PaneSpec => [](PanesInv /\ TabsInv)
  BY PanesHold DEF TabsNameTasks
<1> QED
  BY <1>1, <1>2, PTL DEF PaneSpec, ForeignPanesKept

\* No launch ever makes a second tab, also when tasks share their labels.
THEOREM OneTabIsMade == ASSUME TabsApart PROVE PaneSpec => []OneTabPerLaunch
<1>1. TabsInv => OneTabPerLaunch
  BY DEF TabsInv, TabWellLane, TabWell, OneTabPerLaunch
<1> QED
  BY <1>1, PanesHold, PTL

-----------------------------------------------------------------------------
(* Seats: with at most two faults no two panes sit under one key. *)

\* A step of the panes in which no pane sits down under l: one that carries l
\* has carried it, and if it changes it was an agent's, which moves or exits.
Tame(ps, ps2, l) ==
    \A p \in DOMAIN ps2 : ps2[p].label = l =>
        /\ p \in DOMAIN ps /\ ps[p].label = l
        /\ \/ ps2[p].agent = ps[p].agent /\ ps2[p].status = ps[p].status
           \/ ps[p].agent /\ (paneIsAlive(ps2[p]) \/ ~ps2[p].agent)

\* Pane p stays in its tab if it stays.
Rooted(ps, ps2, p) == p \in DOMAIN ps2 => p \in DOMAIN ps /\ ps2[p].tab = ps[p].tab

LEMMA TameSeats ==
    ASSUME NEW ps, NEW ps2, NEW l, Tame(ps, ps2, l)
    PROVE  /\ Seats(ps2, l) \subseteq Seats(ps, l)
           /\ Awake(ps, l) => Awake(ps2, l)
           /\ \A r : ListTells(ps, l, r) => ListTells(ps2, l, r)
<1>1. Seats(ps2, l) \subseteq Seats(ps, l)
  BY DEF Tame, Seats, Sits, paneIsAlive
<1>2. Awake(ps, l) => Awake(ps2, l)
  BY DEF Tame, Awake, paneIsAlive
<1>3. ASSUME NEW r, ListTells(ps, l, r) PROVE ListTells(ps2, l, r)
  BY <1>1, <1>3 DEF Tame, ListTells
<1> QED
  BY <1>1, <1>2, <1>3

LEMMA SeatOkKept ==
    ASSUME NEW ps, NEW ps2, NEW l, NEW r, NEW f \in Nat, NEW f2 \in Nat, f <= f2,
           SeatOk(ps, l, r, f), Tame(ps, ps2, l), Rooted(ps, ps2, r.root)
    PROVE  SeatOk(ps2, l, r, f2)
<1>1. Seats(ps2, l) \subseteq Seats(ps, l)
  BY TameSeats
<1>2. Looking(l, r) => Awake(ps2, l) /\ ListTells(ps2, l, r)
  BY TameSeats DEF SeatOk
<1>3. r.root # None => r.tab # None /\ (r.root \in DOMAIN ps2 => ps2[r.root].tab = r.tab)
  BY DEF SeatOk, Rooted
<1>4. \A p, q \in Seats(ps2, l) : p = q
  BY <1>1 DEF SeatOk
<1>5. Seats(ps, l) = {} => Seats(ps2, l) = {}
  BY <1>1
<1>6. f >= 1 => f2 >= 1
  OBVIOUS
<1>7. f >= 2 => f2 >= 2
  OBVIOUS
<1> HIDE DEF Seats, Looking, Awake, ListTells
<1> QED
  BY <1>1, <1>2, <1>3, <1>4, <1>5, <1>6, <1>7 DEF SeatOk

LEMMA LabelIsMaker ==
    ASSUME TabsNameSeats, NEW n, NEW ps, PanesOk(ps, n), NEW l \in Keys, NEW p \in DOMAIN ps, ps[p].label = l
    PROVE  ps[p].by = l
  BY KeyIsLabel DEF PanesOk, PaneOk, TabsNameSeats

-----------------------------------------------------------------------------
(* Steps of others *)

LEMMA OthersTame ==
    ASSUME TabsNameSeats, PanesInv, NEW l \in Keys, NEW m \in Lanes, m # l, NEW r, LaneMoves(m, r)
    PROVE  Tame(panes, panes', l) /\ Rooted(panes, panes', lane[l].root)
<1>1. PanesOk(panes', born') /\ PanesOk(panes, born) /\ born \in Nat /\ l \in Lanes
  BY DEF LaneMoves, Evolves, PanesInv, Lanes
<1>2. ASSUME NEW p \in DOMAIN panes', panes'[p].by = l PROVE p \in DOMAIN panes /\ panes'[p] = panes[p]
  BY <1>2 DEF LaneMoves, Own, TabsNameSeats
<1>3. Tame(panes, panes', l)
  <2> SUFFICES ASSUME NEW p \in DOMAIN panes', panes'[p].label = l
               PROVE  p \in DOMAIN panes /\ panes'[p] = panes[p]
    BY DEF Tame
  <2>1. panes'[p].by = l
    BY <1>1, LabelIsMaker
  <2> QED
    BY <1>2, <2>1
<1>4. Rooted(panes, panes', lane[l].root)
  <2> DEFINE p == lane[l].root
  <2>1. p \in 0..born /\ KinPane(panes, p, l)
    BY <1>1 DEF PanesInv, LaneOk
  <2> HIDE DEF p
  <2> SUFFICES ASSUME p \in DOMAIN panes' PROVE p \in DOMAIN panes /\ panes'[p] = panes[p]
    BY DEF Rooted, p
  <2>2. p \in DOMAIN panes /\ panes'[p].by = panes[p].by
    BY <2>1, EvolvesOld DEF LaneMoves
  <2>3. panes[p].by = l
    BY <1>1, <2>1, <2>2 DEF KinPane, PanesOk, PaneOk, TabsNameSeats
  <2> QED
    BY <1>2, <2>2, <2>3
<1> QED
  BY <1>3, <1>4

LEMMA AgentsTame ==
    ASSUME PanesInv, NEW p \in DOMAIN panes, AgentMoves(p) \/ AgentExits(p), NEW l, NEW q
    PROVE  Tame(panes, panes', l) /\ Rooted(panes, panes', q)
  BY AgentFacts DEF Tame, Rooted

-----------------------------------------------------------------------------
(* The launch's own steps *)

LEMMA StillTame ==
    ASSUME panes' = panes, NEW l, NEW p
    PROVE  Tame(panes, panes', l) /\ Rooted(panes, panes', p)
  BY DEF Tame, Rooted

LEMMA ClosedTame ==
    ASSUME NEW q, Closed(q), NEW l, NEW p
    PROVE  /\ Tame(panes, panes', l) /\ Rooted(panes, panes', p)
           /\ q \notin DOMAIN panes' \/ Fails
<1>1. \/ panes' = panes /\ Fails
      \/ DOMAIN panes' = DOMAIN panes \ {q} /\ \A o \in DOMAIN panes' : panes'[o] = panes[o]
  BY DEF Closed
<1> QED
  BY <1>1 DEF Tame, Rooted

LEMMA AppearsTame ==
    ASSUME PanesInv, NEW l \in Keys, NEW t, NEW k, Appears(l, t, k), NEW m \in Keys
    PROVE  /\ Tame(panes, panes', m) /\ \A p \in 0..born : Rooted(panes, panes', p)
           /\ panes'[born + 1].tab = t /\ born' = born + 1
<1>1. PICK s \in {"idle", "unknown"} :
        panes' = [p \in DOMAIN panes \cup {born + 1} |-> IF p = born + 1 THEN Shell(l, t, k, s) ELSE panes[p]]
  BY DEF Appears
<1> DEFINE e == Shell(l, t, k, s)
<1>2. e.label = NoLabel /\ e.tab = t
  BY DEF Shell
<1> HIDE DEF e
<1>3. born + 1 \notin DOMAIN panes /\ born \in Nat
  BY DEF PanesInv, PanesOk
<1>4. DOMAIN panes' = DOMAIN panes \cup {born + 1} /\ panes'[born + 1] = e
      /\ \A p \in DOMAIN panes : panes'[p] = panes[p]
  BY <1>1, <1>3 DEF e
<1>5. Tame(panes, panes', m)
  BY <1>2, <1>4, KeyIsLabel DEF Tame
<1>6. \A p \in 0..born : Rooted(panes, panes', p)
  BY <1>3, <1>4 DEF Rooted
<1> QED
  BY <1>2, <1>4, <1>5, <1>6 DEF Appears

\* Launch l steps to a state of which SeatOk holds.
SeatSteps(l) == \E r : lane' = [lane EXCEPT ![l] = r] /\ SeatOk(panes', l, r, faults')

\* What a step of l starts from.
SeatCase(l) ==
    /\ l \in Keys /\ l \in Lanes
    /\ TabsNameSeats /\ PanesInv /\ TabsInv
    /\ faults \in Nat /\ faults' \in Nat /\ faults <= faults' /\ faults' <= 2
    /\ SeatOk(panes, l, lane[l], faults)

LEMMA SeatBecoming ==
    ASSUME NEW l, SeatCase(l), NEW s, DOMAIN s \subseteq LaneFields, Becomes(l, s)
    PROVE  \E r : /\ lane' = [lane EXCEPT ![l] = r]
                  /\ r.pc = IF "pc" \in DOMAIN s THEN s["pc"] ELSE lane[l].pc
                  /\ r.listed = IF "listed" \in DOMAIN s THEN s["listed"] ELSE lane[l].listed
                  /\ r.snap = IF "snap" \in DOMAIN s THEN s["snap"] ELSE lane[l].snap
                  /\ r.close = IF "close" \in DOMAIN s THEN s["close"] ELSE lane[l].close
                  /\ r.tab = IF "tab" \in DOMAIN s THEN s["tab"] ELSE lane[l].tab
                  /\ r.root = IF "root" \in DOMAIN s THEN s["root"] ELSE lane[l].root
                  /\ r.new = IF "new" \in DOMAIN s THEN s["new"] ELSE lane[l].new
<1>1. PICK r : /\ lane' = [lane EXCEPT ![l] = r] /\ LaneShape(r)
               /\ \A f \in LaneFields : r[f] = IF f \in DOMAIN s THEN s[f] ELSE lane[l][f]
  BY Becoming DEF SeatCase
<1> QED
  BY <1>1 DEF LaneFields

LEMMA SeatMoving ==
    ASSUME NEW l, SeatCase(l), NEW pc, MovesTo(l, pc)
    PROVE  \E r : /\ lane' = [lane EXCEPT ![l] = r] /\ r.pc = pc
                  /\ r.listed = lane[l].listed /\ r.snap = lane[l].snap /\ r.close = lane[l].close
                  /\ r.tab = lane[l].tab /\ r.root = lane[l].root /\ r.new = lane[l].new
<1>1. PICK r : /\ lane' = [lane EXCEPT ![l] = r] /\ LaneShape(r)
               /\ r.pc = pc /\ \A f \in LaneFields : f # "pc" => r[f] = lane[l][f]
  BY MovingTo DEF SeatCase
<1> QED
  BY <1>1 DEF LaneFields

\* A launch that ends leaves one pane at most under its key.
LEMMA EndingSeat ==
    ASSUME NEW l, Ends(l), \A p, q \in Seats(panes', l) : p = q
    PROVE  SeatSteps(l)
<1>1. Idle.pc = "idle" /\ Idle.listed = FALSE /\ Idle.root = None
  BY DEF Idle, None
<1>2. SeatOk(panes', l, Idle, faults')
  BY <1>1 DEF SeatOk, Looking
<1> QED
  BY <1>2 DEF Ends, SeatSteps

LEMMA TameEnding ==
    ASSUME NEW l, SeatCase(l), Ends(l), Tame(panes, panes', l)
    PROVE  SeatSteps(l)
  BY TameSeats, EndingSeat DEF SeatCase, SeatOk

\* Nothing that SeatOk speaks of happens.
LEMMA SeatStays ==
    ASSUME NEW l, SeatCase(l), Tame(panes, panes', l), Rooted(panes, panes', lane[l].root)
    PROVE  SeatOk(panes', l, lane[l], faults')
  BY SeatOkKept DEF SeatCase

LEMMA BeginSeat == ASSUME NEW l, SeatCase(l), Begin(l) PROVE SeatSteps(l)
<1>0. SeatOk(panes', l, lane[l], faults') /\ panes' = panes
  BY SeatStays, StillTame DEF Begin
<1>1. PICK fresh \in BOOLEAN, continuity \in {continuityRoles, {}} :
        Becomes(l, [fresh |-> fresh, continuity |-> continuity, anchor |-> selectAnchor,
                    pc |-> CASE fresh -> "fresh" [] ~fresh /\ l[2] \in continuity -> "continue" [] OTHER -> "reap"])
  BY DEF Begin
<1> DEFINE s == [fresh |-> fresh, continuity |-> continuity, anchor |-> selectAnchor,
                 pc |-> CASE fresh -> "fresh" [] ~fresh /\ l[2] \in continuity -> "continue" [] OTHER -> "reap"]
<1>2. DOMAIN s = {"fresh", "continuity", "anchor", "pc"} /\ s["pc"] \in {"fresh", "continue", "reap"}
  OBVIOUS
<1>3. DOMAIN s \subseteq LaneFields
  BY <1>2 DEF LaneFields
<1>4. Becomes(l, s)
  BY <1>1
<1> HIDE DEF s
<1>5. PICK r : /\ lane' = [lane EXCEPT ![l] = r] /\ r.pc \in {"fresh", "continue", "reap"}
               /\ r.listed = lane[l].listed /\ r.root = lane[l].root
  BY <1>2, <1>3, <1>4, SeatBecoming
<1>6. lane[l].pc = "idle"
  BY DEF Begin, At
<1>7. Awake(panes', l) /\ ListTells(panes', l, r)
  BY <1>0, <1>5, <1>6 DEF SeatOk, ListTells, Awake, Begin, Settled
<1>8. SeatOk(panes', l, r, faults')
  BY <1>0, <1>5, <1>6, <1>7 DEF SeatOk
<1> QED
  BY <1>5, <1>8 DEF SeatSteps

\* A new list tells; so does the one at hand.
LEMMA ListTellsNow ==
    ASSUME NEW ps, NEW l, Awake(ps, l), NEW r, r.snap = ps
    PROVE  ListTells(ps, l, r)
  BY DEF ListTells, Awake, Seats, Sits

LEMMA ContinueSeat == ASSUME NEW l, SeatCase(l), ContinueLive(l) PROVE SeatSteps(l)
<1>0. SeatOk(panes', l, lane[l], faults') /\ panes' = panes /\ lane[l].pc = "continue"
  BY SeatStays, StillTame DEF ContinueLive, At
<1>1. Awake(panes', l) /\ ListTells(panes', l, lane[l])
  BY <1>0 DEF SeatOk, Looking
<1>2. CASE MovesTo(l, "reap")
  <2>1. PICK r : /\ lane' = [lane EXCEPT ![l] = r] /\ r.pc = "reap"
                 /\ r.listed = lane[l].listed /\ r.snap = lane[l].snap /\ r.root = lane[l].root
    BY <1>2, SeatMoving
  <2>2. ListTells(panes', l, r)
    BY <1>1, <2>1 DEF ListTells
  <2>3. SeatOk(panes', l, r, faults')
    BY <1>0, <1>1, <2>1, <2>2 DEF SeatOk
  <2> QED
    BY <2>1, <2>3 DEF SeatSteps
<1>3. CASE Ends(l)
  BY <1>0, <1>3, EndingSeat DEF SeatOk
<1>4. ASSUME NEW p, Becomes(l, [pc |-> "deliver", new |-> p]) PROVE SeatSteps(l)
  <2> DEFINE s == [pc |-> "deliver", new |-> p]
  <2>1. DOMAIN s = {"pc", "new"} /\ s["pc"] = "deliver"
    OBVIOUS
  <2>2. Becomes(l, s) /\ DOMAIN s \subseteq LaneFields
    BY <1>4, <2>1 DEF LaneFields
  <2> HIDE DEF s
  <2>3. PICK r : /\ lane' = [lane EXCEPT ![l] = r] /\ r.pc = "deliver" /\ r.root = lane[l].root /\ r.tab = lane[l].tab
    BY <2>1, <2>2, SeatBecoming
  <2>4. SeatOk(panes', l, r, faults')
    BY <1>0, <2>3 DEF SeatOk, Looking
  <2> QED
    BY <2>3, <2>4 DEF SeatSteps
<1>5. CASE Becomes(l, [pc |-> "reap", listed |-> TRUE, snap |-> panes])
  <2> DEFINE s == [pc |-> "reap", listed |-> TRUE, snap |-> panes]
  <2>1. DOMAIN s = {"pc", "listed", "snap"} /\ s["pc"] = "reap" /\ s["snap"] = panes
    OBVIOUS
  <2>2. Becomes(l, s) /\ DOMAIN s \subseteq LaneFields
    BY <1>5, <2>1 DEF LaneFields
  <2> HIDE DEF s
  <2>3. PICK r : /\ lane' = [lane EXCEPT ![l] = r] /\ r.pc = "reap" /\ r.snap = panes /\ r.root = lane[l].root
    BY <2>1, <2>2, SeatBecoming
  <2>4. ListTells(panes', l, r)
    BY <1>0, <1>1, <2>3, ListTellsNow
  <2>5. SeatOk(panes', l, r, faults')
    BY <1>0, <1>1, <2>3, <2>4 DEF SeatOk
  <2> QED
    BY <2>3, <2>5 DEF SeatSteps
<1> QED
  BY <1>2, <1>3, <1>4, <1>5 DEF ContinueLive

LEMMA ForceReapSeat == ASSUME NEW l, SeatCase(l), ForceReap(l) PROVE SeatSteps(l)
<1>0. SeatOk(panes', l, lane[l], faults') /\ panes' = panes /\ lane[l].pc = "fresh"
  BY SeatStays, StillTame DEF ForceReap, At
<1>1. CASE Ends(l)
  BY <1>0, <1>1, EndingSeat DEF SeatOk
<1>2. CASE Becomes(l, [pc |-> "forceClose", listed |-> TRUE, snap |-> panes, close |-> planForce(panes, l)])
  <2> DEFINE s == [pc |-> "forceClose", listed |-> TRUE, snap |-> panes, close |-> planForce(panes, l)]
  <2>1. DOMAIN s = {"pc", "listed", "snap", "close"} /\ s["pc"] = "forceClose" /\ s["snap"] = panes
    OBVIOUS
  <2>2. Becomes(l, s) /\ DOMAIN s \subseteq LaneFields
    BY <1>2, <2>1 DEF LaneFields
  <2> HIDE DEF s
  <2>3. PICK r : /\ lane' = [lane EXCEPT ![l] = r] /\ r.pc = "forceClose" /\ r.snap = panes /\ r.root = lane[l].root
    BY <2>1, <2>2, SeatBecoming
  <2>4. l \notin Cleanups => Awake(panes', l)
    BY <1>0 DEF SeatOk, Looking
  <2>5. l \notin Cleanups => ListTells(panes', l, r)
    BY <1>0, <2>3, <2>4, ListTellsNow
  <2>6. SeatOk(panes', l, r, faults')
    BY <1>0, <2>3, <2>4, <2>5 DEF SeatOk, Looking
  <2> QED
    BY <2>3, <2>6 DEF SeatSteps
<1> QED
  BY <1>1, <1>2 DEF ForceReap

LEMMA ReapSeat == ASSUME NEW l, SeatCase(l), Reap(l) PROVE SeatSteps(l)
<1>0. SeatOk(panes', l, lane[l], faults') /\ panes' = panes /\ lane[l].pc = "reap"
  BY SeatStays, StillTame DEF Reap, At
<1>1. Awake(panes', l) /\ ListTells(panes', l, lane[l])
  BY <1>0 DEF SeatOk, Looking
<1>2. CASE Unlisted(l)
  BY <1>0, <1>2, EndingSeat DEF Unlisted, SeatOk
<1>3. CASE ~Unlisted(l)
  <2> DEFINE ps == listCurrent(l)
             s == [pc |-> "reapClose", listed |-> TRUE, snap |-> ps,
                   close |-> planReap(ps, l, lane[l].fresh, lane[l].continuity)]
  <2>1. DOMAIN s = {"pc", "listed", "snap", "close"} /\ s["pc"] = "reapClose" /\ s["snap"] = ps
    OBVIOUS
  <2>2. Becomes(l, s) /\ DOMAIN s \subseteq LaneFields
    BY <1>3, <2>1 DEF LaneFields, Reap
  <2> HIDE DEF s
  <2>3. PICK r : /\ lane' = [lane EXCEPT ![l] = r] /\ r.pc = "reapClose" /\ r.snap = ps /\ r.root = lane[l].root
    BY <2>1, <2>2, SeatBecoming
  <2>4. ListTells(panes', l, r)
    <3>1. CASE lane[l].listed
      BY <1>1, <2>3, <3>1 DEF ListTells, listCurrent
    <3>2. CASE ~lane[l].listed
      BY <1>0, <1>1, <2>3, <3>2, ListTellsNow DEF listCurrent
    <3> QED
      BY <3>1, <3>2
  <2>5. SeatOk(panes', l, r, faults')
    BY <1>0, <1>1, <2>3, <2>4 DEF SeatOk
  <2> QED
    BY <2>3, <2>5 DEF SeatSteps
<1> QED
  BY <1>2, <1>3

LEMMA ForcedSeat == ASSUME NEW l, SeatCase(l), Forced(l) PROVE SeatSteps(l)
<1>0. SeatOk(panes', l, lane[l], faults') /\ panes' = panes /\ lane[l].pc = "forceClose"
  BY SeatStays, StillTame DEF Forced, At
<1>1. CASE Ends(l)
  BY <1>0, <1>1, EndingSeat DEF SeatOk
<1>2. CASE l \notin Cleanups /\ MovesTo(l, "reap")
  <2>1. PICK r : /\ lane' = [lane EXCEPT ![l] = r] /\ r.pc = "reap"
                 /\ r.listed = lane[l].listed /\ r.snap = lane[l].snap /\ r.root = lane[l].root
    BY <1>2, SeatMoving
  <2>2. Awake(panes', l) /\ ListTells(panes', l, lane[l])
    BY <1>0, <1>2 DEF SeatOk, Looking
  <2>3. ListTells(panes', l, r)
    BY <2>1, <2>2 DEF ListTells
  <2>4. SeatOk(panes', l, r, faults')
    BY <1>0, <2>1, <2>2, <2>3 DEF SeatOk
  <2> QED
    BY <2>1, <2>4 DEF SeatSteps
<1> QED
  BY <1>1, <1>2 DEF Forced

LEMMA CloseNextSeat == ASSUME NEW l, SeatCase(l), CloseNext(l) PROVE SeatSteps(l)
<1>1. PICK p \in lane[l].close : Closed(p) /\ Becomes(l, [close |-> lane[l].close \ {p}, listed |-> FALSE])
  BY DEF CloseNext
<1>2. /\ Tame(panes, panes', l) /\ Rooted(panes, panes', lane[l].root)
      /\ p \notin DOMAIN panes' \/ faults' = faults + 1
  BY <1>1, ClosedTame DEF Fails
<1>3. SeatOk(panes', l, lane[l], faults')
  BY <1>2, SeatStays
<1>4. lane[l].pc \in {"forceClose", "reapClose", "sweepClose", "sweepLast"}
  BY DEF CloseNext
<1> DEFINE s == [close |-> lane[l].close \ {p}, listed |-> FALSE]
<1>5. DOMAIN s = {"close", "listed"} /\ s["close"] = lane[l].close \ {p} /\ s["listed"] = FALSE
  OBVIOUS
<1>6. Becomes(l, s) /\ DOMAIN s \subseteq LaneFields
  BY <1>1, <1>5 DEF LaneFields
<1> HIDE DEF s
<1>7. PICK r : /\ lane' = [lane EXCEPT ![l] = r] /\ r.pc = lane[l].pc /\ r.listed = FALSE
               /\ r.close = lane[l].close \ {p}
               /\ r.tab = lane[l].tab /\ r.root = lane[l].root /\ r.new = lane[l].new
  BY <1>5, <1>6, SeatBecoming
<1>8. ListTells(panes', l, r)
  BY <1>7 DEF ListTells
<1>9. ASSUME r.pc = "sweepClose" PROVE Seats(panes', l) = {} \/ r.root \in r.close
  <2> SUFFICES ASSUME Seats(panes', l) # {} PROVE r.root \in r.close
    OBVIOUS
  <2>1. Seats(panes', l) = {lane[l].root} /\ lane[l].root \in lane[l].close
    BY <1>3, <1>7, <1>9 DEF SeatOk
  <2>2. Seats(panes, l) # {} /\ faults >= 2
    BY <1>2, <1>7, <1>9, <2>1, TameSeats DEF SeatCase, SeatOk
  <2>3. p \notin DOMAIN panes'
    BY <1>2, <2>2 DEF SeatCase
  <2>4. lane[l].root \in DOMAIN panes'
    BY <2>1 DEF Seats
  <2> QED
    BY <1>7, <2>1, <2>3, <2>4
<1>10. SeatOk(panes', l, r, faults')
  BY <1>3, <1>4, <1>7, <1>8, <1>9 DEF SeatOk, Looking
<1> QED
  BY <1>7, <1>10 DEF SeatSteps

\* The survivor check sees every pane that sits under l.
LEMMA VerifySeat == ASSUME NEW l, SeatCase(l), Verify(l) PROVE SeatSteps(l)
<1>0. SeatOk(panes', l, lane[l], faults') /\ panes' = panes /\ lane[l].pc = "reapClose"
  BY SeatStays, StillTame DEF Verify, At
<1>1. CASE Ends(l)
  BY <1>0, <1>1, EndingSeat DEF SeatOk
<1>2. CASE ~Ends(l)
  <2> DEFINE s == [pc |-> "create", fresh |-> FALSE, continuity |-> {}, listed |-> FALSE, snap |-> NoList]
  <2>0. ~Survives(listCurrent(l), l) /\ Becomes(l, s)
    BY <1>2 DEF Verify, Unlisted
  <2>1. DOMAIN s = {"pc", "fresh", "continuity", "listed", "snap"} /\ s["pc"] = "create"
    OBVIOUS
  <2>2. DOMAIN s \subseteq LaneFields
    BY <2>1 DEF LaneFields
  <2> HIDE DEF s
  <2>3. PICK r : /\ lane' = [lane EXCEPT ![l] = r] /\ r.pc = "create" /\ r.root = lane[l].root
    BY <2>0, <2>1, <2>2, SeatBecoming
  <2>4. Awake(panes, l) /\ ListTells(panes, l, lane[l])
    BY <1>0 DEF SeatOk, Looking
  <2>5. Seats(panes, l) = {}
    <3>1. CASE lane[l].listed
      BY <2>0, <2>4, <3>1 DEF Survives, livePanesForLabel, listCurrent, ListTells, Seats, Sits
    <3>2. CASE ~lane[l].listed
      BY <2>0, <2>4, <3>2 DEF Survives, livePanesForLabel, listCurrent, Awake, Seats, Sits
    <3> QED
      BY <3>1, <3>2
  <2>6. SeatOk(panes', l, r, faults')
    BY <1>0, <2>3, <2>5 DEF SeatOk, Looking
  <2> QED
    BY <2>3, <2>6 DEF SeatSteps
<1> QED
  BY <1>1, <1>2

\* The launch may be a cleanup, where a role is called so.
LEMMA BeginCleanupSeat == ASSUME NEW l \in Cleanups, SeatCase(l), BeginCleanup(l) PROVE SeatSteps(l)
<1>0. SeatOk(panes', l, lane[l], faults') /\ panes' = panes /\ lane[l].pc = "idle"
  BY SeatStays, StillTame DEF BeginCleanup, At
<1>1. PICK r : /\ lane' = [lane EXCEPT ![l] = r] /\ r.pc = "fresh" /\ r.root = lane[l].root
  BY SeatMoving DEF BeginCleanup
<1>2. SeatOk(panes', l, r, faults')
  BY <1>0, <1>1 DEF SeatOk, Looking
<1> QED
  BY <1>1, <1>2 DEF SeatSteps

LEMMA KilledSeat == ASSUME NEW l, SeatCase(l), ChildKilled(l) \/ DeliverPrompt(l) PROVE SeatSteps(l)
  BY TameEnding, StillTame DEF ChildKilled, DeliverPrompt

HeldRoot(l) == lane[l].root \in 0..born /\ lane[l].new \in 0..born

LEMMA HoldsRoot == ASSUME NEW l, SeatCase(l)
                   PROVE  HeldRoot(l) /\ born \in Nat /\ born + 1 # None /\ None \notin DOMAIN panes
<1>1. born \in Nat /\ PanesOk(panes, born) /\ LaneOk(panes, born, l, lane[l])
  BY DEF SeatCase, PanesInv
<1>2. born + 1 # None /\ None \notin DOMAIN panes
  BY <1>1 DEF None, PanesOk
<1> QED
  BY <1>1, <1>2 DEF LaneOk, HeldRoot

\* A tab appears, and the launch notes it or does not.
LEMMA CreatedSeat ==
    ASSUME NEW l, SeatCase(l), CreatesTab(l) \/ panes' = panes
    PROVE  Tame(panes, panes', l) /\ SeatOk(panes', l, lane[l], faults')
<1>1. Tame(panes, panes', l) /\ Rooted(panes, panes', lane[l].root)
  BY AppearsTame, StillTame, HoldsRoot DEF CreatesTab, SeatCase, HeldRoot
<1> QED
  BY <1>1, SeatStays

LEMMA TabCreateSeat == ASSUME NEW l, SeatCase(l), TabCreate(l) PROVE SeatSteps(l)
<1>0. lane[l].pc = "create" /\ lane[l].tab = None /\ (CreatesTab(l) \/ panes' = panes)
  BY DEF TabCreate, At, SeatCase, TabsInv, TabWellLane, TabWell
<1>1. SeatOk(panes', l, lane[l], faults')
  BY <1>0, CreatedSeat
<1>2. Seats(panes', l) = {} /\ lane[l].root = None
  BY <1>0, <1>1 DEF SeatOk
<1>3. CASE CreatesTab(l) /\ Becomes(l, [pc |-> "rename", tab |-> born + 1, root |-> born + 1, made |-> 1])
  <2> DEFINE s == [pc |-> "rename", tab |-> born + 1, root |-> born + 1, made |-> 1]
  <2>1. DOMAIN s = {"pc", "tab", "root", "made"} /\ s["pc"] = "rename" /\ s["tab"] = born + 1 /\ s["root"] = born + 1
    OBVIOUS
  <2>2. Becomes(l, s) /\ DOMAIN s \subseteq LaneFields
    BY <1>3, <2>1 DEF LaneFields
  <2> HIDE DEF s
  <2>3. PICK r : lane' = [lane EXCEPT ![l] = r] /\ r.pc = "rename" /\ r.tab = born + 1 /\ r.root = born + 1
    BY <2>1, <2>2, SeatBecoming
  <2>4. panes'[born + 1].tab = born + 1
    BY <1>3, AppearsTame DEF CreatesTab, SeatCase
  <2>5. SeatOk(panes', l, r, faults')
    BY <1>2, <2>3, <2>4, HoldsRoot DEF SeatOk, Looking
  <2> QED
    BY <2>3, <2>5 DEF SeatSteps
<1>4. CASE Becomes(l, [pc |-> "findRoot", tab |-> born + 1, made |-> 1])
  <2> DEFINE s == [pc |-> "findRoot", tab |-> born + 1, made |-> 1]
  <2>1. DOMAIN s = {"pc", "tab", "made"} /\ s["pc"] = "findRoot"
    OBVIOUS
  <2>2. Becomes(l, s) /\ DOMAIN s \subseteq LaneFields
    BY <1>4, <2>1 DEF LaneFields
  <2> HIDE DEF s
  <2>3. PICK r : lane' = [lane EXCEPT ![l] = r] /\ r.pc = "findRoot" /\ r.root = lane[l].root
    BY <2>1, <2>2, SeatBecoming
  <2>4. SeatOk(panes', l, r, faults')
    BY <1>2, <2>3 DEF SeatOk, Looking
  <2> QED
    BY <2>3, <2>4 DEF SeatSteps
<1>5. ASSUME NEW outcome,
             Becomes(l, [pc |-> IF MayHaveCreatedTab(outcome) THEN "tabs" ELSE "split", made |-> born' - born])
      PROVE  SeatSteps(l)
  <2> DEFINE s == [pc |-> IF MayHaveCreatedTab(outcome) THEN "tabs" ELSE "split", made |-> born' - born]
  <2>1. DOMAIN s = {"pc", "made"} /\ s["pc"] \in {"tabs", "split"}
    OBVIOUS
  <2>2. Becomes(l, s) /\ DOMAIN s \subseteq LaneFields
    BY <1>5, <2>1 DEF LaneFields
  <2> HIDE DEF s
  <2>3. PICK r : lane' = [lane EXCEPT ![l] = r] /\ r.pc \in {"tabs", "split"} /\ r.root = lane[l].root
    BY <2>1, <2>2, SeatBecoming
  <2>4. SeatOk(panes', l, r, faults')
    BY <1>2, <2>3 DEF SeatOk, Looking
  <2> QED
    BY <2>3, <2>4 DEF SeatSteps
<1>6. CASE Ends(l)
  BY <1>2, <1>6, EndingSeat
<1> QED
  BY <1>3, <1>4, <1>5, <1>6 DEF TabCreate

LEMMA FindRootSeat == ASSUME NEW l, SeatCase(l), FindRoot(l) PROVE SeatSteps(l)
<1>0. lane[l].pc = "findRoot" /\ lane[l].tab # None /\ panes' = panes
  BY DEF FindRoot, At, SeatCase, TabsInv, TabWellLane, TabWell
<1>1. SeatOk(panes', l, lane[l], faults')
  BY <1>0, SeatStays, StillTame
<1>2. Seats(panes', l) = {} /\ lane[l].root = None
  BY <1>0, <1>1 DEF SeatOk
<1>3. CASE MovesTo(l, "split")
  <2>1. PICK r : lane' = [lane EXCEPT ![l] = r] /\ r.pc = "split" /\ r.root = lane[l].root
    BY <1>3, SeatMoving
  <2>2. SeatOk(panes', l, r, faults')
    BY <1>2, <2>1 DEF SeatOk, Looking
  <2> QED
    BY <2>1, <2>2 DEF SeatSteps
<1>4. CASE InTab(panes, lane[l].tab) # {} /\ Becomes(l, [pc |-> "rename", root |-> RootOf(lane[l].tab)])
  <2> DEFINE p == RootOf(lane[l].tab)
             s == [pc |-> "rename", root |-> p]
  <2>1. DOMAIN s = {"pc", "root"} /\ s["pc"] = "rename" /\ s["root"] = p
    OBVIOUS
  <2>2. Becomes(l, s) /\ DOMAIN s \subseteq LaneFields
    BY <1>4, <2>1 DEF LaneFields
  <2>3. panes[p].tab = lane[l].tab
    BY <1>4, RootThere
  <2> HIDE DEF s, p
  <2>4. PICK r : lane' = [lane EXCEPT ![l] = r] /\ r.pc = "rename" /\ r.root = p /\ r.tab = lane[l].tab
    BY <2>1, <2>2, SeatBecoming
  <2>5. SeatOk(panes', l, r, faults')
    BY <1>0, <1>2, <2>3, <2>4 DEF SeatOk, Looking
  <2> QED
    BY <2>4, <2>5 DEF SeatSteps
<1> QED
  BY <1>3, <1>4 DEF FindRoot

LEMMA RecoverTabsSeat == ASSUME NEW l, SeatCase(l), RecoverTabs(l) PROVE SeatSteps(l)
<1>0. lane[l].pc \in {"tabs", "tabs2"} /\ panes' = panes
  BY DEF RecoverTabs
<1>1. SeatOk(panes', l, lane[l], faults')
  BY <1>0, SeatStays, StillTame
<1>2. CASE Ends(l)
  BY <1>1, <1>2, EndingSeat DEF SeatOk
<1>3. CASE ~Ends(l)
  <2> DEFINE pc == IF At(l, "tabs") THEN "recover" ELSE "recover2"
             s == [pc |-> pc, tabs |-> TabsLabelled(l)]
  <2>1. DOMAIN s = {"pc", "tabs"} /\ s["pc"] = pc
    OBVIOUS
  <2>2. Becomes(l, s) /\ DOMAIN s \subseteq LaneFields
    BY <1>3, <2>1 DEF LaneFields, RecoverTabs
  <2>3. pc = "recover" \/ (pc = "recover2" /\ lane[l].pc = "tabs2")
    BY <1>0 DEF At
  <2> HIDE DEF s, pc
  <2>4. PICK r : lane' = [lane EXCEPT ![l] = r] /\ r.pc = pc /\ r.root = lane[l].root /\ r.new = lane[l].new
    BY <2>1, <2>2, SeatBecoming
  <2>5. SeatOk(panes', l, r, faults')
    BY <1>0, <1>1, <2>3, <2>4 DEF SeatOk, Looking
  <2> QED
    BY <2>4, <2>5 DEF SeatSteps
<1> QED
  BY <1>2, <1>3

LEMMA RecoverTabSeat == ASSUME NEW l, SeatCase(l), RecoverTab(l) PROVE SeatSteps(l)
<1>0. lane[l].pc \in {"recover", "recover2"} /\ panes' = panes /\ None \notin lane[l].tabs
  BY DEF RecoverTab, SeatCase, TabsInv, TabWellLane, TabWell
<1>1. SeatOk(panes', l, lane[l], faults')
  BY <1>0, SeatStays, StillTame
<1>2. Seats(panes', l) = {} /\ lane[l].root = None
  BY <1>0, <1>1 DEF SeatOk
<1> DEFINE qualified == {t \in lane[l].tabs : recoverableTab(panes, t)}
           t == CHOOSE x \in qualified : TRUE
<1>3. CASE Ends(l)
  BY <1>1, <1>3, EndingSeat DEF SeatOk
<1>4. CASE ~Ends(l)
  <2>1. Cardinality(qualified) = 1
    BY <1>4 DEF RecoverTab
  <2>2. t \in lane[l].tabs /\ recoverableTab(panes, t)
    <3>1. qualified # {}
      BY <2>1, FS_EmptySet
    <3> QED
      BY <3>1
  <2>3. Becomes(l, IF At(l, "recover") THEN [pc |-> "rename", tab |-> t, root |-> RootOf(t), tabs |-> {}]
                   ELSE [pc |-> "move", tab |-> t, tabs |-> {}])
    BY <1>4 DEF RecoverTab
  <2> HIDE DEF t
  <2>4. t # None /\ panes[RootOf(t)].tab = t
    BY <1>0, <2>2, Qualified DEF SeatCase
  <2>5. CASE At(l, "recover")
    <3> DEFINE s == [pc |-> "rename", tab |-> t, root |-> RootOf(t), tabs |-> {}]
    <3>1. DOMAIN s = {"pc", "tab", "root", "tabs"} /\ s["pc"] = "rename" /\ s["tab"] = t /\ s["root"] = RootOf(t)
      OBVIOUS
    <3>2. Becomes(l, s) /\ DOMAIN s \subseteq LaneFields
      BY <2>3, <2>5, <3>1 DEF LaneFields
    <3> HIDE DEF s
    <3>3. PICK r : lane' = [lane EXCEPT ![l] = r] /\ r.pc = "rename" /\ r.root = RootOf(t) /\ r.tab = t
      BY <3>1, <3>2, SeatBecoming
    <3>4. SeatOk(panes', l, r, faults')
      BY <1>0, <1>2, <2>4, <3>3 DEF SeatOk, Looking
    <3> QED
      BY <3>3, <3>4 DEF SeatSteps
  <2>6. CASE ~At(l, "recover")
    <3> DEFINE s == [pc |-> "move", tab |-> t, tabs |-> {}]
    <3>1. DOMAIN s = {"pc", "tab", "tabs"} /\ s["pc"] = "move"
      OBVIOUS
    <3>2. Becomes(l, s) /\ DOMAIN s \subseteq LaneFields
      BY <2>3, <2>6, <3>1 DEF LaneFields
    <3> HIDE DEF s
    <3>3. PICK r : lane' = [lane EXCEPT ![l] = r] /\ r.pc = "move" /\ r.root = lane[l].root /\ r.new = lane[l].new
      BY <3>1, <3>2, SeatBecoming
    <3>4. lane[l].pc = "recover2"
      BY <1>0, <2>6 DEF At
    <3>5. SeatOk(panes', l, r, faults')
      BY <1>1, <1>2, <3>3, <3>4 DEF SeatOk, Looking
    <3> QED
      BY <3>3, <3>5 DEF SeatSteps
  <2> QED
    BY <2>5, <2>6
<1> QED
  BY <1>3, <1>4

\* A rename, or the start of an agent, may let one pane sit down: p.
LEMMA CommandedSeats ==
    ASSUME NEW l, SeatCase(l), NEW p, KinPane(panes, p, l), NEW ok, Renamed(p, l, ok) \/ Ran(p, ok)
    PROVE  /\ Seats(panes', l) \subseteq Seats(panes, l) \cup {p}
           /\ \A q : Rooted(panes, panes', q)
           /\ ~ok => (panes' = panes /\ p \notin DOMAIN panes) \/ faults' = faults + 1
<1>1. \/ panes' = panes
      \/ p \in DOMAIN panes /\ \E e : panes' = [panes EXCEPT ![p] = e] /\ e.tab = panes[p].tab
  <2>0. PanesInv /\ l \in Keys
    BY DEF SeatCase
  <2>1. CASE Renamed(p, l, ok)
    BY <2>0, <2>1, RenamedFacts
  <2>2. CASE Ran(p, ok)
    BY <2>0, <2>2, RanFacts
  <2> QED
    BY <2>1, <2>2
<1>2. /\ DOMAIN panes' = DOMAIN panes /\ \A q \in DOMAIN panes : q # p => panes'[q] = panes[q]
      /\ p \in DOMAIN panes => panes'[p].tab = panes[p].tab
  BY <1>1
<1>3. ~ok => (panes' = panes /\ p \notin DOMAIN panes) \/ faults' = faults + 1
  BY DEF Renamed, Ran, Commanded, Fails
<1> QED
  BY <1>2, <1>3 DEF Seats, Rooted

LEMMA RenameRootSeat == ASSUME NEW l, SeatCase(l), RenameRoot(l) PROVE SeatSteps(l)
<1> DEFINE root == lane[l].root
<1>0. lane[l].pc = "rename" /\ SeatOk(panes, l, lane[l], faults) /\ faults \in Nat
  BY DEF RenameRoot, At, SeatCase
<1>1. PICK ok \in BOOLEAN : Renamed(root, l, ok) /\ MovesTo(l, IF ok THEN "run" ELSE "closeRoot")
  BY DEF RenameRoot
<1>2. Seats(panes, l) = {}
  BY <1>0 DEF SeatOk
<1>3. /\ Seats(panes', l) \subseteq {root} /\ Rooted(panes, panes', root)
      /\ ~ok => Seats(panes', l) = {} \/ faults' >= 1
  <2>1. KinPane(panes, root, l)
    BY HeldPanes DEF SeatCase
  <2>2. /\ Seats(panes', l) \subseteq Seats(panes, l) \cup {root} /\ Rooted(panes, panes', root)
        /\ ~ok => panes' = panes \/ faults' = faults + 1
    BY <1>1, <2>1, CommandedSeats
  <2> QED
    BY <1>0, <1>2, <2>2
<1>4. PICK r : /\ lane' = [lane EXCEPT ![l] = r] /\ r.pc = IF ok THEN "run" ELSE "closeRoot"
               /\ r.tab = lane[l].tab /\ r.root = root
  BY <1>1, SeatMoving
<1>5. r.root # None => r.tab # None /\ (r.root \in DOMAIN panes' => panes'[r.root].tab = r.tab)
  BY <1>0, <1>3, <1>4 DEF SeatOk, Rooted
<1>6. SeatOk(panes', l, r, faults')
  BY <1>3, <1>4, <1>5 DEF SeatOk, Looking
<1> QED
  BY <1>4, <1>6 DEF SeatSteps

LEMMA RunRootSeat == ASSUME NEW l, SeatCase(l), RunRoot(l) PROVE SeatSteps(l)
<1> DEFINE root == lane[l].root
<1>0. lane[l].pc = "run" /\ SeatOk(panes, l, lane[l], faults) /\ faults \in Nat
  BY DEF RunRoot, At, SeatCase
<1>1. PICK ok \in BOOLEAN :
        Ran(root, ok) /\ Becomes(l, IF ok THEN [pc |-> "born", new |-> root] ELSE [pc |-> "closeRoot"])
  BY DEF RunRoot
<1>2. Seats(panes, l) \subseteq {root}
  BY <1>0 DEF SeatOk
<1>3. /\ Seats(panes', l) \subseteq {root} /\ Rooted(panes, panes', root)
      /\ ~ok => Seats(panes', l) = {} \/ faults' >= 1
  <2>1. KinPane(panes, root, l)
    BY HeldPanes DEF SeatCase
  <2>2. /\ Seats(panes', l) \subseteq Seats(panes, l) \cup {root} /\ Rooted(panes, panes', root)
        /\ ~ok => (panes' = panes /\ root \notin DOMAIN panes) \/ faults' = faults + 1
    BY <1>1, <2>1, CommandedSeats
  <2>3. ASSUME panes' = panes, root \notin DOMAIN panes PROVE Seats(panes', l) = {}
    BY <1>2, <2>3 DEF Seats
  <2> QED
    BY <1>0, <1>2, <2>2, <2>3
<1>4. \E r : /\ lane' = [lane EXCEPT ![l] = r] /\ r.pc = IF ok THEN "born" ELSE "closeRoot"
             /\ r.tab = lane[l].tab /\ r.root = root /\ (ok => r.new = root)
  <2>1. CASE ok
    <3> DEFINE s == [pc |-> "born", new |-> root]
    <3>1. DOMAIN s = {"pc", "new"} /\ s["pc"] = "born" /\ s["new"] = root
      OBVIOUS
    <3>2. Becomes(l, s) /\ DOMAIN s \subseteq LaneFields
      BY <1>1, <2>1, <3>1 DEF LaneFields
    <3> HIDE DEF s
    <3> QED
      BY <2>1, <3>1, <3>2, SeatBecoming
  <2>2. CASE ~ok
    <3> DEFINE s == [pc |-> "closeRoot"]
    <3>1. DOMAIN s = {"pc"} /\ s["pc"] = "closeRoot"
      OBVIOUS
    <3>2. Becomes(l, s) /\ DOMAIN s \subseteq LaneFields
      BY <1>1, <2>2, <3>1 DEF LaneFields
    <3> HIDE DEF s
    <3> QED
      BY <2>2, <3>1, <3>2, SeatBecoming
  <2> QED
    BY <2>1, <2>2
<1>5. PICK r : /\ lane' = [lane EXCEPT ![l] = r] /\ r.pc = IF ok THEN "born" ELSE "closeRoot"
               /\ r.tab = lane[l].tab /\ r.root = root /\ (ok => r.new = root)
  BY <1>4
<1>6. r.root # None => r.tab # None /\ (r.root \in DOMAIN panes' => panes'[r.root].tab = r.tab)
  BY <1>0, <1>3, <1>5 DEF SeatOk, Rooted
<1>7. SeatOk(panes', l, r, faults')
  BY <1>3, <1>5, <1>6 DEF SeatOk, Looking
<1> QED
  BY <1>5, <1>7 DEF SeatSteps

LEMMA CloseRootSeat == ASSUME NEW l, SeatCase(l), CloseRoot(l) PROVE SeatSteps(l)
<1>0. lane[l].pc = "closeRoot" /\ Closed(lane[l].root) /\ MovesTo(l, "split")
  BY DEF CloseRoot, At
<1>1. /\ Tame(panes, panes', l) /\ Rooted(panes, panes', lane[l].root)
      /\ lane[l].root \notin DOMAIN panes' \/ faults' = faults + 1
  BY <1>0, ClosedTame DEF Fails
<1>2. SeatOk(panes', l, lane[l], faults')
  BY <1>1, SeatStays
<1>3. Seats(panes', l) = {} \/ faults' >= 2
  <2> SUFFICES ASSUME Seats(panes', l) # {} PROVE faults' >= 2
    OBVIOUS
  <2>1. lane[l].root \in DOMAIN panes' /\ Seats(panes, l) # {}
    BY <1>0, <1>1, <1>2, TameSeats DEF SeatOk, Seats
  <2>2. faults >= 1 /\ faults \in Nat
    BY <1>0, <2>1 DEF SeatCase, SeatOk
  <2> QED
    BY <1>1, <2>1, <2>2
<1>4. PICK r : lane' = [lane EXCEPT ![l] = r] /\ r.pc = "split" /\ r.tab = lane[l].tab /\ r.root = lane[l].root
  BY <1>0, SeatMoving
<1>5. SeatOk(panes', l, r, faults')
  BY <1>0, <1>2, <1>3, <1>4 DEF SeatOk, Looking
<1> QED
  BY <1>4, <1>5 DEF SeatSteps

LEMMA SplitSeat == ASSUME NEW l, SeatCase(l), Split(l) PROVE SeatSteps(l)
<1>0. lane[l].pc = "split"
  BY DEF Split, At
<1>1. CASE Ends(l) /\ panes' = panes
  BY <1>1, TameEnding, StillTame
<1>2. CASE ~(Ends(l) /\ panes' = panes)
  <2> DEFINE pc == IF lane[l].tab = None THEN "create2" ELSE "move"
             s == [new |-> born + 1, pc |-> pc]
  <2>0. Appears(l, None, SysTabLabel) /\ Becomes(l, s)
    BY <1>2 DEF Split
  <2>1. DOMAIN s = {"pc", "new"} /\ s["pc"] = pc /\ s["new"] = born + 1
    OBVIOUS
  <2>2. DOMAIN s \subseteq LaneFields
    BY <2>1 DEF LaneFields
  <2> HIDE DEF s
  <2>3. PICK r : lane' = [lane EXCEPT ![l] = r] /\ r.pc = pc /\ r.new = born + 1 /\ r.tab = lane[l].tab
                 /\ r.root = lane[l].root
    BY <2>0, <2>1, <2>2, SeatBecoming
  <2>4. Tame(panes, panes', l) /\ Rooted(panes, panes', lane[l].root)
    BY <2>0, AppearsTame, HoldsRoot DEF SeatCase, HeldRoot
  <2>5. SeatOk(panes', l, lane[l], faults')
    BY <2>4, SeatStays
  <2>6. lane[l].root # born + 1
    BY HoldsRoot DEF HeldRoot
  <2>7. SeatOk(panes, l, lane[l], faults)
    BY DEF SeatCase
  <2>8. lane[l].tab = None => lane[l].root = None /\ Seats(panes', l) = {}
    <3> SUFFICES ASSUME lane[l].tab = None PROVE lane[l].root = None /\ Seats(panes', l) = {}
      OBVIOUS
    <3>1. lane[l].root = None /\ Seats(panes, l) \subseteq {None}
      BY <1>0, <2>7 DEF SeatOk
    <3>2. Seats(panes, l) = {}
      BY <3>1, HoldsRoot DEF Seats
    <3> QED
      BY <2>4, <3>1, <3>2, TameSeats
  <2>9. SeatOk(panes', l, r, faults')
    BY <1>0, <2>3, <2>5, <2>6, <2>8 DEF SeatOk, Looking
  <2> QED
    BY <2>3, <2>9 DEF SeatSteps
<1> QED
  BY <1>1, <1>2

LEMMA SecondCreateSeat == ASSUME NEW l, SeatCase(l), SecondCreate(l) PROVE SeatSteps(l)
<1>0. lane[l].pc = "create2" /\ (CreatesTab(l) \/ panes' = panes)
  BY DEF SecondCreate, At
<1>1. SeatOk(panes', l, lane[l], faults')
  BY <1>0, CreatedSeat
<1>2. Seats(panes', l) = {} /\ lane[l].root = None /\ lane[l].new # lane[l].root
  BY <1>0, <1>1 DEF SeatOk
<1>3. ASSUME NEW r, lane' = [lane EXCEPT ![l] = r], r.pc \in {"move", "tabs2"}, r.root = lane[l].root,
             r.new = lane[l].new
      PROVE  SeatSteps(l)
  <2>1. SeatOk(panes', l, r, faults')
    BY <1>2, <1>3 DEF SeatOk, Looking
  <2> QED
    BY <1>3, <2>1 DEF SeatSteps
<1>4. CASE Becomes(l, [pc |-> "move", tab |-> born + 1, made |-> lane[l].made + 1])
  <2> DEFINE s == [pc |-> "move", tab |-> born + 1, made |-> lane[l].made + 1]
  <2>1. DOMAIN s = {"pc", "tab", "made"} /\ s["pc"] = "move"
    OBVIOUS
  <2>2. Becomes(l, s) /\ DOMAIN s \subseteq LaneFields
    BY <1>4, <2>1 DEF LaneFields
  <2> HIDE DEF s
  <2> QED
    BY <1>3, <2>1, <2>2, SeatBecoming
<1>5. CASE Becomes(l, [pc |-> "tabs2", made |-> lane[l].made + 1])
  <2> DEFINE s == [pc |-> "tabs2", made |-> lane[l].made + 1]
  <2>1. DOMAIN s = {"pc", "made"} /\ s["pc"] = "tabs2"
    OBVIOUS
  <2>2. Becomes(l, s) /\ DOMAIN s \subseteq LaneFields
    BY <1>5, <2>1 DEF LaneFields
  <2> HIDE DEF s
  <2> QED
    BY <1>3, <2>1, <2>2, SeatBecoming
<1>6. CASE MovesTo(l, "tabs2")
  BY <1>3, <1>6, SeatMoving
<1> QED
  BY <1>4, <1>5, <1>6 DEF SecondCreate

LEMMA MoveSeat == ASSUME NEW l, SeatCase(l), Move(l) PROVE SeatSteps(l)
<1> DEFINE t == lane[l].tab
           p == lane[l].new
<1>0. lane[l].pc = "move" /\ SeatOk(panes, l, lane[l], faults) /\ p # lane[l].root
  BY DEF Move, At, SeatCase, SeatOk
<1>1. \A q \in DOMAIN panes' :
        /\ q \in DOMAIN panes /\ panes'[q].label = panes[q].label
        /\ panes'[q].agent = panes[q].agent /\ panes'[q].status = panes[q].status
        /\ q # p => panes'[q] = panes[q]
  <2>1. CASE panes' # panes
    <3> DEFINE e == [panes[p] EXCEPT !.tab = t, !.tabLabel = panes[CHOOSE q \in InTab(panes, t) : TRUE].tabLabel]
    <3>1. p \in DOMAIN panes /\ InTab(panes, t) # {} /\ panes' = [panes EXCEPT ![p] = e]
      BY <2>1 DEF Move, Commanded
    <3>2. t \in 1..born /\ KinTab(panes, t, l) /\ KinPane(panes, p, l)
      <4>1. LaneOk(panes, born, l, lane[l]) /\ t # None
        BY <1>0 DEF SeatCase, PanesInv, TabsInv, TabWellLane, TabWell
      <4> QED
        BY <4>1, HoldsRoot DEF LaneOk, None
    <3>3. e.label = panes[p].label /\ e.agent = panes[p].agent /\ e.status = panes[p].status
      BY <3>1, <3>2, MovedFacts DEF SeatCase
    <3> HIDE DEF e, p, t
    <3> QED
      BY <3>1, <3>3
  <2> QED
    BY <2>1
<1>2. Tame(panes, panes', l) /\ Rooted(panes, panes', lane[l].root)
  <2>1. Tame(panes, panes', l)
    BY <1>1 DEF Tame
  <2>2. Rooted(panes, panes', lane[l].root)
    <3> DEFINE root == lane[l].root
    <3>1. root # p
      BY <1>0
    <3> HIDE DEF root, p
    <3>2. Rooted(panes, panes', root)
      BY <1>1, <3>1 DEF Rooted
    <3> QED
      BY <3>2 DEF root
  <2> QED
    BY <2>1, <2>2
<1>3. SeatOk(panes', l, lane[l], faults')
  BY <1>2, SeatStays
<1>4. CASE Ends(l)
  BY <1>2, <1>4, TameEnding
<1>5. CASE Becomes(l, [pc |-> "sweep", tries |-> 0])
  <2> DEFINE s == [pc |-> "sweep", tries |-> 0]
  <2>1. DOMAIN s = {"pc", "tries"} /\ s["pc"] = "sweep"
    OBVIOUS
  <2>2. Becomes(l, s) /\ DOMAIN s \subseteq LaneFields
    BY <1>5, <2>1 DEF LaneFields
  <2> HIDE DEF s
  <2>3. PICK r : lane' = [lane EXCEPT ![l] = r] /\ r.pc = "sweep" /\ r.tab = lane[l].tab
                 /\ r.root = lane[l].root /\ r.new = lane[l].new
    BY <2>1, <2>2, SeatBecoming
  <2>4. SeatOk(panes', l, r, faults')
    BY <1>0, <1>3, <2>3 DEF SeatOk, Looking
  <2> QED
    BY <2>3, <2>4 DEF SeatSteps
<1> QED
  BY <1>4, <1>5 DEF Move

LEMMA SweepSeat == ASSUME NEW l, SeatCase(l), Sweep(l) PROVE SeatSteps(l)
<1>0. lane[l].pc = "sweep" /\ panes' = panes
  BY DEF Sweep, At
<1>1. SeatOk(panes', l, lane[l], faults') /\ lane[l].new # lane[l].root
  <2>1. SeatOk(panes', l, lane[l], faults')
    BY <1>0, SeatStays, StillTame
  <2> QED
    BY <1>0, <2>1 DEF SeatOk
<1>2. CASE Becomes(l, [pc |-> "sweepClose", close |-> InTab(panes, lane[l].tab) \ {lane[l].new}])
  <2> DEFINE cs == InTab(panes, lane[l].tab) \ {lane[l].new}
             s == [pc |-> "sweepClose", close |-> cs]
  <2>1. DOMAIN s = {"pc", "close"} /\ s["pc"] = "sweepClose" /\ s["close"] = cs
    OBVIOUS
  <2>2. Becomes(l, s) /\ DOMAIN s \subseteq LaneFields
    BY <1>2, <2>1 DEF LaneFields
  <2> HIDE DEF s
  <2>3. PICK r : lane' = [lane EXCEPT ![l] = r] /\ r.pc = "sweepClose" /\ r.tab = lane[l].tab
                 /\ r.root = lane[l].root /\ r.new = lane[l].new /\ r.close = cs
    BY <2>1, <2>2, SeatBecoming
  <2>4. Seats(panes', l) = {} \/ r.root \in r.close
    <3> SUFFICES ASSUME Seats(panes', l) # {} PROVE r.root \in r.close
      OBVIOUS
    <3>1. Seats(panes', l) \subseteq {r.root}
      BY <1>0, <1>1, <2>3 DEF SeatOk
    <3>2. r.root \in DOMAIN panes /\ r.root # None
      BY <1>0, <3>1, HoldsRoot DEF Seats
    <3>3. panes[r.root].tab = lane[l].tab
      BY <1>0, <1>1, <2>3, <3>2 DEF SeatOk
    <3> QED
      BY <1>1, <2>3, <3>2, <3>3 DEF InTab
  <2> HIDE DEF cs
  <2>5. SeatOk(panes', l, r, faults')
    BY <1>0, <1>1, <2>3, <2>4 DEF SeatOk, Looking
  <2> QED
    BY <2>3, <2>5 DEF SeatSteps
<1>3. ASSUME Fails, Becomes(l, [tries |-> lane[l].tries + 1]) PROVE SeatSteps(l)
  <2> DEFINE s == [tries |-> lane[l].tries + 1]
  <2>1. DOMAIN s = {"tries"}
    OBVIOUS
  <2>2. Becomes(l, s) /\ DOMAIN s \subseteq LaneFields
    BY <1>3, <2>1 DEF LaneFields
  <2> HIDE DEF s
  <2>3. PICK r : lane' = [lane EXCEPT ![l] = r] /\ r.pc = "sweep" /\ r.tab = lane[l].tab
                 /\ r.root = lane[l].root /\ r.new = lane[l].new
    BY <1>0, <2>1, <2>2, SeatBecoming
  <2>4. SeatOk(panes', l, r, faults')
    BY <1>0, <1>1, <2>3 DEF SeatOk, Looking
  <2> QED
    BY <2>3, <2>4 DEF SeatSteps
<1>4. ASSUME Fails, Becomes(l, [pc |-> "sweepClose"]) PROVE SeatSteps(l)
  <2> DEFINE s == [pc |-> "sweepClose"]
  <2>1. DOMAIN s = {"pc"} /\ s["pc"] = "sweepClose"
    OBVIOUS
  <2>2. Becomes(l, s) /\ DOMAIN s \subseteq LaneFields
    BY <1>4, <2>1 DEF LaneFields
  <2> HIDE DEF s
  <2>3. PICK r : lane' = [lane EXCEPT ![l] = r] /\ r.pc = "sweepClose" /\ r.tab = lane[l].tab
                 /\ r.root = lane[l].root
    BY <2>1, <2>2, SeatBecoming
  <2>4. Seats(panes', l) = {}
    BY <1>0, <1>4 DEF SeatCase, SeatOk, Fails
  <2>5. SeatOk(panes', l, r, faults')
    BY <1>0, <1>1, <2>3, <2>4 DEF SeatOk, Looking
  <2> QED
    BY <2>3, <2>5 DEF SeatSteps
<1> QED
  BY <1>2, <1>3, <1>4 DEF Sweep

LEMMA RenameNewSeat == ASSUME NEW l, SeatCase(l), RenameNew(l) PROVE SeatSteps(l)
<1> DEFINE new == lane[l].new
<1>0. lane[l].pc = "sweepClose" /\ lane[l].close = {} /\ SeatOk(panes, l, lane[l], faults)
  BY DEF RenameNew, At, SeatCase
<1>1. PICK ok \in BOOLEAN : Renamed(new, l, ok) /\ IF ok THEN MovesTo(l, "runNew") ELSE Ends(l)
  BY DEF RenameNew
<1>2. Seats(panes, l) = {}
  BY <1>0 DEF SeatOk
<1>3. Seats(panes', l) \subseteq {new} /\ Rooted(panes, panes', lane[l].root)
  <2>1. KinPane(panes, new, l)
    BY HeldPanes DEF SeatCase
  <2> QED
    BY <1>1, <1>2, <2>1, CommandedSeats
<1>4. CASE ~ok
  BY <1>1, <1>3, <1>4, EndingSeat
<1>5. CASE ok
  <2>1. PICK r : /\ lane' = [lane EXCEPT ![l] = r] /\ r.pc = "runNew"
                 /\ r.tab = lane[l].tab /\ r.root = lane[l].root /\ r.new = new
    BY <1>1, <1>5, SeatMoving
  <2>2. r.root # None => r.tab # None /\ (r.root \in DOMAIN panes' => panes'[r.root].tab = r.tab)
    BY <1>0, <1>3, <2>1 DEF SeatOk, Rooted
  <2>3. SeatOk(panes', l, r, faults')
    BY <1>3, <2>1, <2>2 DEF SeatOk, Looking
  <2> QED
    BY <2>1, <2>3 DEF SeatSteps
<1> QED
  BY <1>4, <1>5

LEMMA RunNewSeat == ASSUME NEW l, SeatCase(l), RunNew(l) PROVE SeatSteps(l)
<1> DEFINE new == lane[l].new
<1>0. lane[l].pc = "runNew" /\ SeatOk(panes, l, lane[l], faults)
  BY DEF RunNew, At, SeatCase
<1>1. PICK ok \in BOOLEAN : Ran(new, ok) /\ IF ok THEN MovesTo(l, "sweepAgain") ELSE Ends(l)
  BY DEF RunNew
<1>2. Seats(panes, l) \subseteq {new}
  BY <1>0 DEF SeatOk
<1>3. Seats(panes', l) \subseteq {new} /\ Rooted(panes, panes', lane[l].root)
  <2>1. KinPane(panes, new, l)
    BY HeldPanes DEF SeatCase
  <2> QED
    BY <1>1, <1>2, <2>1, CommandedSeats
<1>4. CASE ~ok
  BY <1>1, <1>3, <1>4, EndingSeat
<1>5. CASE ok
  <2>1. PICK r : /\ lane' = [lane EXCEPT ![l] = r] /\ r.pc = "sweepAgain"
                 /\ r.tab = lane[l].tab /\ r.root = lane[l].root /\ r.new = new
    BY <1>1, <1>5, SeatMoving
  <2>2. r.root # None => r.tab # None /\ (r.root \in DOMAIN panes' => panes'[r.root].tab = r.tab)
    BY <1>0, <1>3, <2>1 DEF SeatOk, Rooted
  <2>3. SeatOk(panes', l, r, faults')
    BY <1>3, <2>1, <2>2 DEF SeatOk, Looking
  <2> QED
    BY <2>1, <2>3 DEF SeatSteps
<1> QED
  BY <1>4, <1>5

LEMMA BirthedSeat == ASSUME NEW l, SeatCase(l), SweepAgain(l) \/ Birthed(l) PROVE SeatSteps(l)
<1>0. lane[l].pc \in {"sweepAgain", "sweepLast"} /\ panes' = panes
  BY DEF SweepAgain, Birthed, At
<1>1. SeatOk(panes', l, lane[l], faults')
  BY <1>0, SeatStays, StillTame
<1>2. ASSUME NEW r, lane' = [lane EXCEPT ![l] = r], r.pc \in {"sweepLast", "born"},
             r.tab = lane[l].tab, r.root = lane[l].root, r.new = lane[l].new
      PROVE  SeatSteps(l)
  <2>1. SeatOk(panes', l, r, faults')
    BY <1>0, <1>1, <1>2 DEF SeatOk, Looking
  <2> QED
    BY <1>2, <2>1 DEF SeatSteps
<1>3. ASSUME NEW cs, Becomes(l, [pc |-> "sweepLast", close |-> cs]) PROVE SeatSteps(l)
  <2> DEFINE s == [pc |-> "sweepLast", close |-> cs]
  <2>1. DOMAIN s = {"pc", "close"} /\ s["pc"] = "sweepLast"
    OBVIOUS
  <2>2. Becomes(l, s) /\ DOMAIN s \subseteq LaneFields
    BY <1>3, <2>1 DEF LaneFields
  <2> HIDE DEF s
  <2> QED
    BY <1>2, <2>1, <2>2, SeatBecoming
<1>4. ASSUME NEW pc \in {"sweepLast", "born"}, MovesTo(l, pc) PROVE SeatSteps(l)
  BY <1>2, <1>4, SeatMoving
<1> QED
  BY <1>3, <1>4 DEF SweepAgain, Birthed

LEMMA CommandFaults ==
    /\ \A p, e, ok : Commanded(p, e, ok) => faults' = faults \/ Fails
    /\ \A p, l, ok : Renamed(p, l, ok) \/ Ran(p, ok) => faults' = faults \/ Fails
    /\ \A p : Closed(p) => faults' = faults \/ Fails
<1>1. \A p, e, ok : Commanded(p, e, ok) => faults' = faults \/ Fails
  BY DEF Commanded, Works
<1>2. \A p, l, ok : Renamed(p, l, ok) \/ Ran(p, ok) => faults' = faults \/ Fails
  BY <1>1 DEF Renamed, Ran
<1>3. \A p : Closed(p) => faults' = faults \/ Fails
  BY DEF Closed, Works
<1> QED
  BY <1>1, <1>2, <1>3

LEMMA LaneFaults == ASSUME NEW l, LaneNext(l) PROVE faults' = faults \/ Fails
<1> USE DEF Works
<1>1. CASE Begin(l) \/ ContinueLive(l) \/ Reap(l) \/ Verify(l)
  BY <1>1 DEF Begin, ContinueLive, Reap, Verify, Unlisted
<1>2. CASE TabCreate(l) \/ FindRoot(l) \/ RecoverTabs(l) \/ RecoverTab(l)
  BY <1>2 DEF TabCreate, FindRoot, RecoverTabs, RecoverTab
<1>3. CASE RenameRoot(l) \/ RunRoot(l) \/ CloseRoot(l) \/ RenameNew(l) \/ RunNew(l)
  BY <1>3, CommandFaults DEF RenameRoot, RunRoot, CloseRoot, RenameNew, RunNew
<1>4. CASE Split(l) \/ SecondCreate(l)
  BY <1>4 DEF Split, SecondCreate
<1>5. CASE Move(l)
  <2>1. (\E p, e, ok : Commanded(p, e, ok)) \/ Works
    BY <1>5 DEF Move
  <2> QED
    BY <2>1, CommandFaults
<1>6. CASE Sweep(l) \/ SweepAgain(l) \/ Birthed(l) \/ DeliverPrompt(l) \/ BeginCleanup(l)
  BY <1>6 DEF Sweep, SweepAgain, Birthed, DeliverPrompt, BeginCleanup
<1>7. CASE ForceReap(l) \/ CloseNext(l) \/ Forced(l) \/ ChildKilled(l)
  BY <1>7, CommandFaults DEF ForceReap, CloseNext, Forced, ChildKilled
<1> QED
  BY <1>1, <1>2, <1>3, <1>4, <1>5, <1>6, <1>7 DEF LaneNext, Launch

LEMMA LaneNextSeat == ASSUME NEW l, SeatCase(l), LaneNext(l) PROVE SeatSteps(l)
<1>1. CASE Launch(l)
  BY <1>1, BeginSeat, ContinueSeat, ReapSeat, VerifySeat, TabCreateSeat, FindRootSeat, RecoverTabsSeat, RecoverTabSeat,
     RenameRootSeat, RunRootSeat, CloseRootSeat, SplitSeat, SecondCreateSeat, MoveSeat, SweepSeat, RenameNewSeat,
     RunNewSeat, BirthedSeat, KilledSeat DEF Launch
<1>2. CASE ~Launch(l)
  BY <1>2, BeginCleanupSeat, ForceReapSeat, CloseNextSeat, ForcedSeat, KilledSeat DEF LaneNext
<1> QED
  BY <1>1, <1>2

LEMMA SeatsInitially == PaneInit => SeatsInv
<1> SUFFICES ASSUME PaneInit PROVE SeatsInv
  OBVIOUS
<1>1. panes = NoList /\ faults = 0 /\ DOMAIN NoList = {}
  BY DEF PaneInit, NoList
<1>2. ASSUME NEW l \in Keys PROVE SeatOk(panes, l, lane[l], faults)
  <2>1. lane[l] = Idle
    BY DEF PaneInit, Lanes
  <2>2. Idle.pc = "idle" /\ Idle.listed = FALSE /\ Idle.root = None
    BY DEF Idle, None
  <2>3. Seats(panes, l) = {}
    BY <1>1 DEF Seats
  <2> QED
    BY <2>1, <2>2, <2>3 DEF SeatOk, Looking
<1> QED
  BY <1>1, <1>2 DEF SeatsInv

LEMMA SeatsNext == TabsNameSeats /\ PanesInv /\ TabsInv /\ SeatsInv /\ [PaneNext]_paneVars => SeatsInv'
<1> SUFFICES ASSUME TabsNameSeats, PanesInv, TabsInv, SeatsInv, [PaneNext]_paneVars PROVE SeatsInv'
  OBVIOUS
<1>0. TabsApart
  BY DEF TabsNameSeats
<1>1. faults' \in Nat /\ faults \in Nat /\ faults <= faults'
  <2>1. faults' = faults \/ Fails
    BY PaneCases, LaneFaults, AgentFacts
  <2> QED
    BY <2>1 DEF SeatsInv, Fails
<1> SUFFICES ASSUME faults' <= 2, NEW l \in Keys PROVE SeatOk(panes', l, lane'[l], faults')
  BY <1>1 DEF SeatsInv
<1>2. SeatOk(panes, l, lane[l], faults) /\ l \in Lanes
  BY <1>1 DEF SeatsInv, Lanes
<1>3. ASSUME NEW m \in Lanes, LaneNext(m) PROVE SeatOk(panes', l, lane'[l], faults')
  <2>1. CASE m = l
    <3>1. SeatCase(l)
      BY <1>1, <1>2 DEF SeatCase
    <3>2. PICK r : lane' = [lane EXCEPT ![l] = r] /\ SeatOk(panes', l, r, faults')
      BY <1>3, <2>1, <3>1, LaneNextSeat DEF SeatSteps
    <3>3. lane'[l] = r
      BY <1>2, <3>2 DEF PanesInv
    <3> QED
      BY <3>2, <3>3
  <2>2. CASE m # l
    <3>1. PICK r : LaneMoves(m, r)
      BY <1>0, <1>3, LaneNextSteps DEF LaneSteps
    <3>2. lane'[l] = lane[l]
      BY <1>2, <2>2, <3>1 DEF LaneMoves, PanesInv
    <3>3. Tame(panes, panes', l) /\ Rooted(panes, panes', lane[l].root)
      BY <2>2, <3>1, OthersTame
    <3> QED
      BY <1>1, <1>2, <3>2, <3>3, SeatOkKept
  <2> QED
    BY <2>1, <2>2
<1>4. ASSUME NEW p \in DOMAIN panes, AgentMoves(p) \/ AgentExits(p) PROVE SeatOk(panes', l, lane'[l], faults')
  <2>1. lane'[l] = lane[l]
    BY <1>4, AgentFacts
  <2>2. Tame(panes, panes', l) /\ Rooted(panes, panes', lane[l].root)
    BY <1>4, AgentsTame
  <2> QED
    BY <1>1, <1>2, <2>1, <2>2, SeatOkKept
<1>5. CASE UNCHANGED <<panes, lane, born>>
  <2>1. Tame(panes, panes', l) /\ Rooted(panes, panes', lane[l].root) /\ lane'[l] = lane[l]
    BY <1>5, StillTame
  <2> QED
    BY <1>1, <1>2, <2>1, SeatOkKept
<1> QED
  BY <1>3, <1>4, <1>5, PaneCases

LEMMA SeatsSingle == SeatsInv /\ TabsInv => (faults <= 2 => SeatsUnambiguous)
<1> SUFFICES ASSUME SeatsInv, TabsInv, faults <= 2 PROVE SeatsUnambiguous
  OBVIOUS
<1>1. OneTabPerLaunch
  BY DEF TabsInv, TabWellLane, TabWell, OneTabPerLaunch
<1>2. ASSUME NEW l \in Keys PROVE Cardinality(livePanesForLabel(panes, l)) <= 1
  <2> DEFINE S == livePanesForLabel(panes, l)
  <2>1. \A p, q \in S : p = q
    BY DEF SeatsInv, SeatOk, Seats, Sits, livePanesForLabel
  <2>2. CASE S = {}
    BY <2>2, FS_EmptySet
  <2>3. CASE S # {}
    <3>1. PICK p : S = {p}
      BY <2>1, <2>3
    <3> QED
      BY <3>1, FS_Singleton
  <2> QED
    BY <2>2, <2>3
<1> QED
  BY <1>1, <1>2 DEF SeatsUnambiguous, OneSeat

\* When the labels of tabs tell the launches apart, no two live panes carry one
\* key until a third command has failed or launcher been killed; the third is
\* what it takes (a root that is named, not started in, and closed by neither
\* the birth nor the sweep).
THEOREM SeatsStayUnambiguous == ASSUME TabsNameSeats PROVE PaneSpec => [](faults <= 2 => SeatsUnambiguous)
<1>1. PanesInv /\ TabsInv /\ SeatsInv /\ [PaneNext]_paneVars => SeatsInv'
  BY SeatsNext
<1>2. PaneSpec => [](PanesInv /\ TabsInv)
  BY PanesHold DEF TabsNameSeats
<1> QED
  BY <1>1, <1>2, SeatsInitially, SeatsSingle, PTL DEF PaneSpec
=============================================================================
