--------------------------- MODULE PromptDelivery ---------------------------
(***************************************************************************)
(* One prompt into one herdr pane: the single delivery attempt of the      *)
(* launcher (herdr/launcher/delivery.ts), the evidence it posts when it    *)
(* cannot tell whether the prompt was consumed, and the Notifier's         *)
(* controlled second Enter (tui-lane.ts handleDeliveryGiveUp,              *)
(* remediator.ts).                                                         *)
(*                                                                         *)
(* The detector's status is no proof of anything, so every read may return *)
(* any status; a call may fail, come late, or be lost after it acted.      *)
(* Attempts of one pane follow each other, but the handlers of a finished  *)
(* attempt run beside the next one.  An action ends at an await.           *)
(***************************************************************************)
EXTENDS Integers, FiniteSets, FiniteSetsExt

CONSTANTS MaxAttempts,  \* delivery attempts into the pane, one after the other
          MaxEvents     \* give-up events the port may see in all, copies included

ASSUME DeliveryBounds == MaxAttempts \in Nat \ {0} /\ MaxEvents \in Nat \ {0}

Attempts == 1..MaxAttempts
Handlers == Attempts \X (1..MaxEvents)

VARIABLES
    dl,       \* delivery attempts: how far, and what finish() will report
    ev,       \* the evidence in an attempt's event, while a copy of it is unread
    copies,   \* how many copies of its event reach the port
    hd,       \* give-up handlers
    claimed,  \* attempts claimed in the lane's and the remediator's ledgers
    busy,     \* the pane is being remediated
    pane,     \* is the target still there; is its agent codex
    typed,    \* what became of an attempt's text: "no", "staged", "submitted", "lost"
    keys,     \* Enters the remediator pressed for an attempt
    told      \* attempts alerted, attempts whose remediation saw working, attempts whose own
              \* reads showed working after the prompt was consumed

vars == <<dl, ev, copies, hd, claimed, busy, pane, typed, keys, told>>

-----------------------------------------------------------------------------
AgentStatus == {"idle", "quiet", "working", "unknown"}  \* "quiet": blocked or done
NonWorking == {"idle", "quiet"}

(* What a status read may return now: a status, a broken identity, another  *)
(* fault, or an answer past its deadline.                                   *)
StatusSample == {"fault", "late"} \cup (IF pane.here THEN AgentStatus ELSE {"identity"})

(* What a send may do: whether the herdr child was spawned, whether the     *)
(* keys reached the pane, and whether its answer came in time and well.     *)
Sends == {s \in [spawned : BOOLEAN, lands : BOOLEAN, acked : BOOLEAN] :
            /\ s.lands => s.spawned /\ pane.here
            /\ s.acked => s.lands}

(* Mutant: any fault of the call counts as "nothing was sent". *)
deliverySend_FaultIsClean(s) == IF s.acked THEN "sent" ELSE "not-sent"

deliverySend(s) == IF ~s.spawned THEN "not-sent" ELSE IF s.acked THEN "sent" ELSE "uncertain"

FreshAttempt ==
    [pc |-> "none", base |-> "unknown", settling |-> FALSE, last |-> "unknown", err |-> "none",
     text |-> "not-sent", calls |-> 0, enter |-> "not-attempted", flip |-> FALSE,
     known |-> FALSE, outcome |-> "none"]

NoEvidence == [reason |-> "none"]

FreshHandler == [pc |-> "none", reeval |-> FALSE, idle |-> 0]

Init ==
    /\ dl = [a \in Attempts |-> FreshAttempt]
    /\ ev = [a \in Attempts |-> NoEvidence]
    /\ copies = [a \in Attempts |-> 0]
    /\ hd = [h \in Handlers |-> FreshHandler]
    /\ claimed = {} /\ busy = FALSE
    /\ \E codex \in BOOLEAN : pane = [here |-> TRUE, codex |-> codex]
    /\ typed = [a \in Attempts |-> "no"]
    /\ keys = [a \in Attempts |-> 0]
    /\ told = [alerted |-> {}, worked |-> {}, seen |-> {}]

-----------------------------------------------------------------------------
(***************************************************************************)
(* The pane, its agent and its human.                                      *)
(***************************************************************************)
PaneGoes ==
    /\ pane.here
    /\ pane' = [pane EXCEPT !.here = FALSE]
    /\ typed' = [a \in Attempts |-> IF typed[a] = "staged" THEN "lost" ELSE typed[a]]
    /\ UNCHANGED <<dl, ev, copies, hd, claimed, busy, keys, told>>

Submitted == [a \in Attempts |-> IF typed[a] = "staged" THEN "submitted" ELSE typed[a]]

(* An Enter that reached the pane submits the composer or is taken for a    *)
(* newline.                                                                 *)
EnterLands(lands) == typed' \in IF lands THEN {typed, Submitted} ELSE {typed}

HumanEnters ==
    /\ pane.here /\ typed # Submitted
    /\ typed' = Submitted
    /\ UNCHANGED <<dl, ev, copies, hd, claimed, busy, pane, keys, told>>

-----------------------------------------------------------------------------
(***************************************************************************)
(* Delivery.                                                               *)
(***************************************************************************)
(* The `last' observation: late data never overwrites it. *)
Observed(d, s) ==
    IF s = "late" THEN d
    ELSE [d EXCEPT !.last = IF s \in AgentStatus THEN s ELSE "unknown",
                   !.err = IF s \in AgentStatus THEN "none" ELSE s]

Noticed(a, s) == IF s = "working" /\ typed[a] = "submitted"
                 THEN [told EXCEPT !.seen = @ \cup {a}] ELSE told

Evidence(d, reason, inBudget) ==
    [reason |-> reason, before |-> d.base, last |-> d.last, err |-> d.err,
     flip |-> d.flip, text |-> d.text, calls |-> d.calls, enter |-> d.enter, inBudget |-> inBudget]

(* finish(): the outcome is exit 0, "do not resend"; the evidence is frozen *)
(* and posted once, best effort.                                            *)
finish(a, d, reason, inBudget) ==
    /\ dl' = [dl EXCEPT ![a] = [FreshAttempt EXCEPT !.pc = "over", !.outcome = "unconfirmed"]]
    /\ \E n \in 0..MaxEvents :
         /\ n + MapThenSumSet(LAMBDA b : copies[b], Attempts) <= MaxEvents
         /\ copies' = [copies EXCEPT ![a] = n]
         /\ ev' = [ev EXCEPT ![a] = IF n = 0 THEN NoEvidence ELSE Evidence(d, reason, inBudget)]

Continue(a, d) == dl' = [dl EXCEPT ![a] = d] /\ UNCHANGED <<ev, copies>>

(* notSent(): exit 1, the caller may try again after a look. *)
notSent(a) == Continue(a, [FreshAttempt EXCEPT !.pc = "over", !.outcome = "not-sent"])

(* The launcher spends its 170 s before the delivery starts, or not.  The   *)
(* first attempt is into a born pane, a later one continues.                *)
Deliver(a) ==
    /\ dl[a].pc = "none" /\ (a > 1 => dl[a - 1].pc = "over")
    /\ \/ notSent(a)
       \/ Continue(a, [FreshAttempt EXCEPT !.pc = "baseline"])
    /\ UNCHANGED <<hd, claimed, busy, pane, typed, keys, told>>

Born(a) == a = 1

(* The budget for two calls and the flip window is checked once more before *)
(* the text is sent.                                                        *)
ReadyToSend(a, d) == finish(a, d, "deadline", TRUE) \/ Continue(a, [d EXCEPT !.pc = "text"])

BaselineRead(a) ==
    /\ dl[a].pc = "baseline"
    /\ \E s \in StatusSample :
         LET status == IF s \in AgentStatus THEN s ELSE "unknown"
             settling == dl[a].settling \/ (Born(a) /\ status = "working")
             d == [Observed(dl[a], s) EXCEPT !.base = status, !.settling = settling]
         IN \/ /\ s = "identity"
               /\ finish(a, Observed(dl[a], s), "identity-invalid", TRUE)
            \/ /\ status # "unknown" /\ (settling => status = "idle")
               /\ ReadyToSend(a, d)
            \/ /\ s # "identity" /\ (status = "unknown" \/ (settling /\ status # "idle"))
               /\ \/ Continue(a, d)
                  \/ /\ status = "unknown"            \* readiness is used up
                     /\ finish(a, d, "baseline-unknown", TRUE)
                  \/ /\ status # "unknown"            \* fallback on the final probe
                     /\ ReadyToSend(a, d)
    /\ UNCHANGED <<hd, claimed, busy, pane, typed, keys, told>>

SendText(a) ==
    /\ dl[a].pc = "text"
    /\ \E s \in Sends :
         LET kind == deliverySend(s)
             d == [dl[a] EXCEPT !.text = kind, !.calls = 1, !.pc = "enter"]
         IN /\ typed' = [typed EXCEPT ![a] = IF s.lands THEN "staged" ELSE @]
            /\ \/ kind = "not-sent" /\ notSent(a)
               \/ kind = "uncertain" /\ finish(a, d, "text-uncertain", TRUE)
               \/ kind = "sent" /\ (finish(a, d, "deadline", TRUE) \/ Continue(a, d))
    /\ UNCHANGED <<hd, claimed, busy, pane, keys, told>>

SendEnter(a) ==
    /\ dl[a].pc = "enter"
    /\ \E s \in Sends :
         LET kind == deliverySend(s)
             d == [dl[a] EXCEPT !.enter = kind, !.pc = "observe"]
         IN /\ EnterLands(s.lands)
            /\ \/ kind = "not-sent" /\ finish(a, d, "enter-not-sent", TRUE)
               \/ kind = "uncertain" /\ finish(a, d, "enter-uncertain", TRUE)
               \/ kind = "sent" /\ d.base = "working" /\ finish(a, d, "baseline-working", TRUE)
               \/ kind = "sent" /\ d.base # "working" /\ Continue(a, d)
    /\ UNCHANGED <<hd, claimed, busy, pane, keys, told>>

(* A sample of the window; `open' is the second look at the clock.          *)
WindowRead(a, s, open) ==
    LET d == [Observed(dl[a], s) EXCEPT !.known = @ \/ (open /\ s \in AgentStatus \ {"unknown"})]
        ended == IF d.known THEN "deadline" ELSE "status-unavailable"
    IN CASE ~open -> finish(a, d, ended, FALSE)
         [] open /\ s = "identity" -> finish(a, d, "identity-invalid", TRUE)
         [] open /\ s = "working" ->
              finish(a, [d EXCEPT !.flip = TRUE], "attribution-unavailable", TRUE)
         [] OTHER -> Continue(a, d) \/ finish(a, d, ended, TRUE)

ObserveRead(a) ==
    /\ dl[a].pc = "observe"
    /\ \E s \in StatusSample, open \in BOOLEAN :
         WindowRead(a, s, open) /\ told' = Noticed(a, s)
    /\ UNCHANGED <<hd, claimed, busy, pane, typed, keys>>

-----------------------------------------------------------------------------
(***************************************************************************)
(* The give-up handler of the lane and the remediator.                     *)
(***************************************************************************)
parseDeliveryV2(e) ==
    /\ IF e.calls = 0
       THEN /\ e.text = "not-sent" /\ e.enter = "not-attempted" /\ ~e.flip
            /\ e.reason \in {"baseline-unknown", "identity-invalid", "deadline"}
       ELSE IF e.reason = "text-uncertain"
            THEN e.text = "uncertain" /\ e.enter = "not-attempted"
            ELSE e.text = "sent"
    /\ e.flip => /\ e.before \in NonWorking /\ e.last = "working" /\ e.enter = "sent"
                 /\ e.err = "none" /\ e.inBudget
    /\ e.reason = "attribution-unavailable" => e.flip

Reevaluates(e) == e.reason = "attribution-unavailable" /\ e.before \in NonWorking /\ pane.codex

(* Mutant: the last status of the window is not looked at. *)
Authorizes_AnyLast(e) ==
    /\ Reevaluates(e) \/ (e.reason = "deadline" /\ e.before \in NonWorking)
    /\ e.flip => Reevaluates(e)
    /\ e.err = "none" /\ e.text = "sent" /\ e.enter = "sent"

(* What authorizes a key at all.  Evidence of an unknown baseline never has *)
(* a text that was sent, so the wait written for it is never entered.       *)
Authorizes(e) ==
    /\ Reevaluates(e) \/ (e.reason = "deadline" /\ {e.before, e.last} \subseteq NonWorking)
    /\ e.flip => Reevaluates(e)
    /\ e.err = "none" /\ e.text = "sent" /\ e.enter = "sent"

(* Whether the task still waits for this role and remediation is on; both  *)
(* may have changed, and changed back, by any look.                        *)
canAct == BOOLEAN

Rests(h) == UNCHANGED <<claimed, busy>> /\ hd' = [hd EXCEPT ![h] = [@ EXCEPT !.pc = "over"]]

(* The handler falls through to the manual alert. *)
Alerts(h) == told' = [told EXCEPT !.alerted = @ \cup {h[1]}]

(* remediate() returns without working-observed: the pane is free again and *)
(* a human is told.                                                         *)
GivesUp(h, heard) ==
    /\ busy' = FALSE /\ claimed' = claimed
    /\ hd' = [hd EXCEPT ![h] = [FreshHandler EXCEPT !.pc = "over"]]
    /\ told' = [heard EXCEPT !.alerted = @ \cup {h[1]}]

Goes(h, r) == hd' = [hd EXCEPT ![h] = r] /\ UNCHANGED <<claimed, busy>>

(* Mutant: the pane is not locked against the handler of another attempt. *)
PaneFree_Unlocked == TRUE

PaneFree == ~busy

claim(a) == IF a \in claimed THEN "duplicate" ELSE "new"

(* Evidence left once h has read it: nothing when h held the last copy. *)
EvidenceRead(h) ==
    IF \E i \in 1..copies[h[1]] : i # h[2] /\ hd[<<h[1], i>>].pc \in {"none", "canAct"}
    THEN ev ELSE [ev EXCEPT ![h[1]] = NoEvidence]

GiveUpArrives(h) ==
    /\ hd[h].pc = "none" /\ h[2] <= copies[h[1]]
    /\ \A i \in 1..h[2] - 1 : hd[<<h[1], i>>].pc # "none"   \* copies are interchangeable
    /\ \E ok \in canAct :
         IF parseDeliveryV2(ev[h[1]]) /\ ok
         THEN Goes(h, [FreshHandler EXCEPT !.pc = "canAct"]) /\ told' = told /\ ev' = ev
         ELSE Rests(h) /\ Alerts(h) /\ ev' = EvidenceRead(h)
    /\ UNCHANGED <<dl, copies, pane, typed, keys>>

(* The state came back: the claims and remediate()'s guards follow without  *)
(* another await.                                                           *)
GiveUpClaims(h) ==
    LET a == h[1] IN
    /\ hd[h].pc = "canAct"
    /\ \E ok \in canAct :
         \/ ~ok /\ Rests(h) /\ Alerts(h)
         \/ ok /\ claim(a) = "duplicate" /\ Rests(h) /\ told' = told
         \/ /\ ok /\ claim(a) = "new"
            /\ IF Authorizes(ev[a]) /\ PaneFree
               THEN /\ claimed' = claimed \cup {a} /\ busy' = TRUE /\ told' = told
                    /\ hd' = [hd EXCEPT ![h] =
                         [FreshHandler EXCEPT !.reeval = Reevaluates(ev[a]),
                            !.pc = IF Reevaluates(ev[a]) THEN "settle" ELSE "gate"]]
               ELSE /\ claimed' = claimed \cup {a} /\ busy' = busy
                    /\ hd' = [hd EXCEPT ![h].pc = "over"]
                    /\ Alerts(h)
    /\ ev' = EvidenceRead(h)
    /\ UNCHANGED <<dl, copies, pane, typed, keys>>

StableSamples == 3

(* Reevaluation: three idle samples in a row, then the composer itself.     *)
SettleRead(h) ==
    /\ hd[h].pc = "settle"
    /\ \E s \in StatusSample :
         IF s = "identity" THEN GivesUp(h, told)
         ELSE /\ told' = Noticed(h[1], s)
              /\ Goes(h, [hd[h] EXCEPT !.pc = "settled", !.idle = IF s = "idle" THEN @ + 1 ELSE 0])
    /\ UNCHANGED <<dl, ev, copies, pane, typed, keys>>

SettleDecides(h) ==
    /\ hd[h].pc = "settled"
    /\ \E ok \in canAct :
         \/ GivesUp(h, told)                          \* ~ok, or the deadline
         \/ /\ ok /\ told' = told
            /\ Goes(h, [hd[h] EXCEPT !.pc = IF hd[h].idle >= StableSamples
                                            THEN "screen" ELSE "settle",
                          !.idle = IF @ > StableSamples THEN StableSamples ELSE @])
    /\ UNCHANGED <<dl, ev, copies, pane, typed, keys>>

(* The last composer of the visible screen ends like the prompt.  What is   *)
(* compared is a hash of the last 80 characters, and the prompts into one   *)
(* pane are one template of its role, task and skill: every staged prompt   *)
(* passes for every attempt, and several copies in a row pass as well.      *)
pendingCodexInput == pane.here /\ \E b \in Attempts : typed[b] = "staged"

SettleScreen(h) ==
    /\ hd[h].pc = "screen"
    /\ \/ GivesUp(h, told)                            \* pane-mismatch, the deadline or an error
       \/ /\ told' = told
          /\ Goes(h, [hd[h] EXCEPT !.pc = IF pendingCodexInput THEN "gate" ELSE "settle"])
    /\ UNCHANGED <<dl, ev, copies, pane, typed, keys>>

(* canAct, the label, and for a reevaluation the composer once more.        *)
GatePane(h) ==
    /\ hd[h].pc = "gate"
    /\ \/ GivesUp(h, told)
       \/ /\ pane.here /\ (hd[h].reeval => pendingCodexInput)
          /\ Goes(h, [hd[h] EXCEPT !.pc = "before"]) /\ told' = told
    /\ UNCHANGED <<dl, ev, copies, pane, typed, keys>>

Quiet(h, s) == s \in IF hd[h].reeval THEN {"idle"} ELSE NonWorking

(* The status before the key, then the intent on record; a reevaluation     *)
(* reads the status a last time after that.                                 *)
StatusGate(h) ==
    /\ hd[h].pc \in {"before", "final"}
    /\ \E s \in StatusSample, ok \in canAct :
         IF Quiet(h, s) /\ ok
         THEN /\ told' = Noticed(h[1], s)
              /\ Goes(h, [hd[h] EXCEPT !.pc = IF hd[h].reeval /\ hd[h].pc = "before"
                                              THEN "final" ELSE "press"])
         ELSE GivesUp(h, Noticed(h[1], s))
    /\ UNCHANGED <<dl, ev, copies, pane, typed, keys>>

Press(h) ==
    /\ hd[h].pc = "press"
    /\ \E s \in Sends :
         /\ EnterLands(s.lands)
         /\ keys' = [keys EXCEPT ![h[1]] = @ + (IF s.spawned THEN 1 ELSE 0)]
         /\ IF deliverySend(s) = "sent"
            THEN Goes(h, [hd[h] EXCEPT !.pc = "watch"]) /\ told' = told
            ELSE GivesUp(h, told)
    /\ UNCHANGED <<dl, ev, copies, pane>>

Watch(h) ==
    /\ hd[h].pc = "watch"
    /\ \E s \in StatusSample, ok \in canAct :
         \/ /\ s = "working"
            /\ busy' = FALSE /\ claimed' = claimed
            /\ hd' = [hd EXCEPT ![h] = [FreshHandler EXCEPT !.pc = "over"]]
            /\ told' = [Noticed(h[1], s) EXCEPT !.worked = @ \cup {h[1]}]
         \/ s # "working" /\ GivesUp(h, told)         \* ~ok, the identity, or the deadline
         \/ s \notin {"working", "identity"} /\ ok /\ UNCHANGED <<hd, claimed, busy, told>>
    /\ UNCHANGED <<dl, ev, copies, pane, typed, keys>>

-----------------------------------------------------------------------------
Delivery(a) == Deliver(a) \/ BaselineRead(a) \/ SendText(a) \/ SendEnter(a) \/ ObserveRead(a)

Handler(h) ==
    \/ GiveUpArrives(h) \/ GiveUpClaims(h) \/ SettleRead(h) \/ SettleDecides(h) \/ SettleScreen(h)
    \/ GatePane(h) \/ StatusGate(h) \/ Press(h) \/ Watch(h)

Next ==
    \/ PaneGoes \/ HumanEnters
    \/ \E a \in Attempts : Delivery(a)
    \/ \E h \in Handlers : Handler(h)

Spec == Init /\ [][Next]_vars

-----------------------------------------------------------------------------
(* Exit 1 of the launcher tells its caller that nothing was sent and that   *)
(* it may try again after a look: then no text of the attempt is in the     *)
(* pane, whatever became of the herdr child that was to type it.            *)
NotSentIsClean == \A a \in Attempts : dl[a].outcome = "not-sent" => typed[a] = "no"

(* Every block of evidence the launcher posts is one the Notifier's parser  *)
(* accepts: no way out of a delivery writes a combination the other side    *)
(* throws away, which would leave the human without its reason.             *)
EvidenceAccepted == \A a \in Attempts : ev[a].reason # "none" => parseDeliveryV2(ev[a])

(* However often the event arrives, and however the handlers of two         *)
(* attempts interleave, the machine presses Enter at most once for an       *)
(* attempt, and never from two handlers at a time into one pane.            *)
MachineEnterOnce ==
    /\ \A a \in Attempts : keys[a] <= 1
    /\ \A g, h \in Handlers :
         {hd[g].pc, hd[h].pc} \subseteq {"gate", "before", "final", "press", "watch"} => g = h

(* A prompt was typed into the pane after that of attempt a.                *)
LaterPrompt(a) == \E b \in Attempts : b > a /\ typed[b] # "no"

(* When one of the attempt's own status reads has shown the agent working   *)
(* on its prompt, the machine presses Enter for it only if a later prompt   *)
(* was typed into the pane.  Then it may: the later prompt ends alike, so   *)
(* the handler of the consumed one takes it for its own.                    *)
NoEnterIntoWork ==
    [][\A a \in Attempts : keys'[a] > keys[a] /\ typed[a] = "submitted" /\ a \in told.seen
                           => LaterPrompt(a)]_vars

(* No give-up that reached the Notifier ends in silence: when the handlers  *)
(* of an attempt are done, a human has been alerted or working was seen     *)
(* after the machine's Enter.                                               *)
GiveUpReported ==
    \A a \in Attempts :
        LET mine == {h \in Handlers : h[1] = a /\ hd[h].pc # "none"}
        IN mine # {} /\ (\A h \in mine : hd[h].pc = "over") => a \in told.alerted \cup told.worked

(* What the launcher says is so: nothing sent means nothing sent, and a     *)
(* give-up reaches the human with evidence that was accepted.               *)
DeliveryHonest == NotSentIsClean /\ EvidenceAccepted /\ GiveUpReported
=============================================================================
