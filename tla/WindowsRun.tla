----------------------------- MODULE WindowsRun -----------------------------
(***************************************************************************)
(* One managed run on Windows: the detached supervisor                     *)
(* (src/core/run/supervisor-windows.ts), its stop controller               *)
(* (windows-controller.ts), the native broker that owns the Job object and *)
(* is reached over one pipe (windows-broker.ts, broker.ps1), the callers   *)
(* of stopRun and a viewer of the log (control-windows.ts).                *)
(*                                                                         *)
(* A broker request is one step: it is answered, or the pipe is poisoned   *)
(* for good (a timeout, a write error, a late or malformed frame, a broker *)
(* error), whether or not the broker acted.  Nothing is ever sent again.   *)
(* An update of meta.json is a transaction under its lock and one step.    *)
(***************************************************************************)
EXTENDS Naturals, Sequences

CONSTANTS Callers,   \* stopRun calls; a call's nonce and request id is the call
          Nobody,    \* no call
          MaxOutput  \* bound on the log's length

ASSUME CallersAssumption == Nobody \notin Callers /\ MaxOutput \in Nat

VARIABLES
    job,      \* the root process and the other members of its Job object
    output,   \* length of the run's log, written by the members of the job (kept
              \* where there is a viewer)
    stage,    \* control actions the broker has reserved, whatever became of them
    pipe,     \* the supervisor's channel to the broker
    record,   \* meta.json
    watch,    \* the supervisor: step, nonce in hand and the step after its challenge,
              \* observation, outcome of the stage or of the stop
    budget,   \* the stop controller's deadline for the stage it is in
    answer,   \* what startRun tells its caller
    caller,   \* each stopRun call: its step, then its answer (or it is never made)
    hold,     \* holder of stop.lock
    viewer    \* an attachRun call: step and cursor (or it is never made)

winVars == <<job, output, stage, pipe, record, watch, budget, answer, caller, hold, viewer>>

WINDOWS_ACTIONS == <<"break", "taskkill-tree", "taskkill-tree-force">>

PhaseOf == <<"cooperative", "term", "kill">>

OutcomeOf == [i \in 1..3 |-> <<"forced-break", "forced-term", "forced-kill">>[i]]

Stopped == {"already-ended", "forced-break", "forced-term", "forced-kill"}

NoStop == [id |-> Nobody, phase |-> "requested", actions |-> <<>>, result |-> "none"]

Truth == [root_exited |-> job.root = "dead", job_empty |-> job.root # "alive" /\ ~job.members]

Over(o) == o.root_exited /\ o.job_empty

WinInit ==
    /\ job = [root |-> "unborn", members |-> FALSE]
    /\ output = 0 /\ stage = 0 /\ pipe = "up"
    /\ record = [life |-> "absent", status |-> "running", probe |-> Nobody, ack |-> Nobody,
                 error |-> FALSE, seen |-> Truth, stop |-> NoStop]
    /\ watch = [step |-> "launch", nonce |-> Nobody, then |-> "observe", seen |-> Truth,
                outcome |-> "none"]
    /\ budget = "running"
    /\ answer = "waiting"
    /\ caller \in [Callers -> {"idle", "never"}]
    /\ hold = Nobody
    /\ viewer \in [step : {"idle", "never"}, cursor : {0}]

-----------------------------------------------------------------------------
(***************************************************************************)
(* Vocabulary of the supervisor's steps.                                   *)
(***************************************************************************)
Step(step) == watch.step = step

Go(step) == watch' = [watch EXCEPT !.step = step]

Watching == watch.step \notin {"done", "dead"}

Unanswered == record.stop.id # Nobody /\ record.stop.result = "none"

Tell(view) == answer' = IF answer = "waiting" THEN view ELSE answer

\* BrokerClient.request rejects at once on a poisoned channel.
Reply == pipe = "up" /\ UNCHANGED pipe

Silence == pipe' = "poisoned"

-----------------------------------------------------------------------------
(***************************************************************************)
(* Startup: the broker, the suspended target in its job, meta.json.  Only  *)
(* a supervisor that could not be forked is a certain failure.             *)
(***************************************************************************)
ForkFails ==
    /\ Step("launch") /\ Go("dead") /\ Tell("failed")
    /\ UNCHANGED <<job, output, stage, pipe, record, budget, caller, hold, viewer>>

LaunchBroker ==
    /\ Step("launch")
    /\ \/ Go("create") /\ UNCHANGED answer
       \/ Go("dead") /\ Tell("uncertain")
    /\ UNCHANGED <<job, output, stage, pipe, record, budget, caller, hold, viewer>>

CreateTarget ==
    /\ Step("create")
    /\ \/ Reply /\ job' = [job EXCEPT !.root = "alive"] /\ Go("initialize") /\ UNCHANGED answer
       \/ /\ Silence /\ Go("dead") /\ Tell("uncertain")
          /\ job' \in {job, [job EXCEPT !.root = "alive"]}
    /\ UNCHANGED <<output, stage, record, budget, caller, hold, viewer>>

\* A failure to initialise leaves no meta.json to note the error in.
Initialize ==
    /\ Step("initialize")
    /\ \/ record' = [record EXCEPT !.life = "open"] /\ Go("read") /\ Tell("started")
       \/ Go("dead") /\ Tell("uncertain") /\ UNCHANGED record
    /\ UNCHANGED <<job, output, stage, pipe, budget, caller, hold, viewer>>

\* startRun gives up after 40 s, or sees the supervisor exit.
StartTimesOut ==
    /\ answer = "waiting" /\ answer' = "uncertain"
    /\ UNCHANGED <<job, output, stage, pipe, record, watch, budget, caller, hold, viewer>>

-----------------------------------------------------------------------------
(***************************************************************************)
(* The monitor loop: answer a challenge through the broker, observe, note  *)
(* the observation, answer once more, let the controller step, and end the *)
(* run once the root has exited and its job is empty.                      *)
(***************************************************************************)
Challenged == record.probe # Nobody /\ record.probe # record.ack

\* acknowledge: straight on when there is no new probe.
Acknowledging(then) ==
    watch' = [watch EXCEPT !.step = IF Challenged THEN "challenge" ELSE then,
                           !.then = then, !.nonce = record.probe]

LoopRead ==
    /\ Step("read") /\ Acknowledging("observe")
    /\ UNCHANGED <<job, output, stage, pipe, record, budget, answer, caller, hold, viewer>>

\* The broker echoes the nonce and the echo is published; meanwhile another
\* call may have put its own probe on disk.
Acknowledge ==
    /\ Step("challenge")
    /\ \/ Reply /\ record' = [record EXCEPT !.ack = watch.nonce] /\ Go(watch.then)
       \/ Reply /\ UNCHANGED record /\ Go("fail")
       \/ Silence /\ UNCHANGED record /\ Go("fail")
    /\ UNCHANGED <<job, output, stage, budget, answer, caller, hold, viewer>>

Observe ==
    /\ Step("observe")
    /\ \/ Reply /\ watch' = [watch EXCEPT !.step = "note", !.seen = Truth]
       \/ Silence /\ Go("fail")
    /\ UNCHANGED <<job, output, stage, record, budget, answer, caller, hold, viewer>>

NoteObservation ==
    /\ Step("note")
    /\ \/ record' = [record EXCEPT !.seen = watch.seen] /\ Acknowledging("control")
       \/ UNCHANGED record /\ Go("fail")
    /\ UNCHANGED <<job, output, stage, pipe, budget, answer, caller, hold, viewer>>

\* After the controller: a failed stop ends the observation, not the target.
LoopCheck ==
    /\ Step("check")
    /\ Go(IF record.stop.result = "incomplete" THEN "done"
          ELSE IF Over(watch.seen) THEN "final" ELSE "read")
    /\ UNCHANGED <<job, output, stage, pipe, record, budget, answer, caller, hold, viewer>>

EndRun ==
    /\ Step("final")
    /\ \/ Unanswered /\ Go("read") /\ UNCHANGED record
       \/ /\ ~Unanswered /\ Go("done")
          /\ record' = [record EXCEPT !.life = "ended", !.status = IF @ = "stopped" THEN @ ELSE "exited"]
       \/ Go("fail") /\ UNCHANGED record
    /\ UNCHANGED <<job, output, stage, pipe, budget, answer, caller, hold, viewer>>

-----------------------------------------------------------------------------
(***************************************************************************)
(* WindowsStopController.  Its own throws are caught by step, which fails  *)
(* the request; only a throw of that ends the supervisor.                  *)
(***************************************************************************)
Actions == record.stop.actions

\* Mutant: the root's exit alone settles the request.
Settles_RootOnly(o) == o.root_exited

Settles(o) == Over(o)

\* The last stage that reached a target names the result.
Delivered == {i \in 1..Len(Actions) : Actions[i].hit}

StoppedAs == IF Delivered = {} THEN "already-ended"
             ELSE OutcomeOf[CHOOSE i \in Delivered : \A j \in Delivered : j <= i]

\* An attempt without its receipt is never followed by another.
Receipted == \A i \in 1..Len(Actions) : Actions[i].delivery = "sent"

NextStage == Len(Actions) + 1

\* What the controller does about an observation o of the broker.
Decide(o) ==
    IF Settles(o) THEN [watch EXCEPT !.step = "finish", !.outcome = StoppedAs]
    ELSE IF Len(Actions) > 0 /\ budget = "running" THEN [watch EXCEPT !.step = "check"]
    ELSE IF Len(Actions) = 3 THEN [watch EXCEPT !.step = "finish", !.outcome = "incomplete"]
    ELSE [watch EXCEPT !.step = "intend"]

\* advance up to its first update.  The request is read before the broker is
\* asked and used after; nobody but this supervisor changes it once published.
Advance ==
    /\ Step("control")
    /\ IF ~Unanswered THEN Go("check") /\ UNCHANGED pipe
       ELSE IF ~Receipted THEN watch' = [watch EXCEPT !.step = "refuse"] /\ UNCHANGED pipe
       ELSE \/ Reply /\ watch' = Decide(Truth)
            \/ Silence /\ watch' = [watch EXCEPT !.step = "refuse"]
    /\ UNCHANGED <<job, output, stage, record, budget, answer, caller, hold, viewer>>

\* The intent is durable, as "uncertain", before the broker hears of it.
Intend ==
    /\ Step("intend")
    /\ \/ /\ record' = [record EXCEPT !.stop.phase = PhaseOf[NextStage],
                !.stop.actions = Append(@, [action |-> WINDOWS_ACTIONS[NextStage],
                                            delivery |-> "uncertain", hit |-> FALSE])]
          /\ Go("act")
       \/ UNCHANGED record /\ Go("refuse")
    /\ UNCHANGED <<job, output, stage, pipe, budget, answer, caller, hold, viewer>>

\* The broker reserves the stage before its native calls; break is for a live
\* root, taskkill for every live member.
Reaches == IF Len(Actions) = 1 THEN job.root = "alive" ELSE ~Truth.job_empty

Act ==
    /\ Step("act")
    /\ \/ /\ Reply /\ stage' = stage + 1 /\ budget' = "running"
          /\ watch' = [watch EXCEPT !.step = "receipt",
                                    !.outcome = IF Reaches THEN "hit" ELSE "miss"]
       \/ /\ Silence /\ stage' \in {stage, stage + 1} /\ Go("refuse") /\ UNCHANGED budget
    /\ UNCHANGED <<job, output, record, answer, caller, hold, viewer>>

Receipt ==
    /\ Step("receipt")
    /\ \/ /\ record' = [record EXCEPT !.stop.actions[Len(Actions)] =
                            [@ EXCEPT !.delivery = "sent", !.hit = watch.outcome = "hit"]]
          /\ Go("check")
       \/ UNCHANGED record /\ Go("refuse")
    /\ UNCHANGED <<job, output, stage, pipe, budget, answer, caller, hold, viewer>>

Concluded(outcome) ==
    [record EXCEPT !.stop.result = outcome,
                   !.stop.phase = IF outcome \in Stopped THEN "completed" ELSE "incomplete",
                   !.life = IF outcome \in Stopped THEN "ended" ELSE @,
                   !.error = @ \/ outcome = "incomplete"]

Finished ==
    /\ Step("finish")
    /\ \/ record' = Concluded(watch.outcome) /\ Go("check")
       \/ UNCHANGED record /\ Go("refuse")
    /\ UNCHANGED <<job, output, stage, pipe, budget, answer, caller, hold, viewer>>

\* fail: never turn a lost receipt into success.
Failing == IF Unanswered THEN Concluded("incomplete") ELSE record

Refuse ==
    /\ Step("refuse")
    /\ \/ record' = Failing /\ Go("check")
       \/ UNCHANGED record /\ Go("fail")
    /\ UNCHANGED <<job, output, stage, pipe, budget, answer, caller, hold, viewer>>

-----------------------------------------------------------------------------
(***************************************************************************)
(* Anything thrown in the loop: fail the request, then note the error; the *)
(* broker goes with the supervisor and leaves the target running.          *)
(***************************************************************************)
FailRequest ==
    /\ Step("fail")
    /\ \/ record' = Failing /\ Go("noteError")
       \/ UNCHANGED record /\ Go("dead")
    /\ UNCHANGED <<job, output, stage, pipe, budget, answer, caller, hold, viewer>>

NoteError ==
    /\ Step("noteError") /\ Go("dead")
    /\ \/ record' = [record EXCEPT !.error = TRUE]
       \/ UNCHANGED record
    /\ UNCHANGED <<job, output, stage, pipe, budget, answer, caller, hold, viewer>>

SupervisorLost ==
    /\ Watching /\ Go("dead")
    /\ UNCHANGED <<job, output, stage, pipe, record, budget, answer, caller, hold, viewer>>

-----------------------------------------------------------------------------
(***************************************************************************)
(* stopRun, as on POSIX but for the error a dead supervisor left behind.   *)
(***************************************************************************)
complete == record.life = "ended" /\ (record.stop.id = Nobody \/ record.stop.result \in Stopped)

terminal == record.stop.result # "none" \/ complete

TerminalAnswer == IF record.stop.result = "incomplete" THEN "failure" ELSE "success"

Move(c, at) == caller' = [caller EXCEPT ![c] = at]

Unhold(c) == hold' = IF hold = c THEN Nobody ELSE hold

CallBegins(c) ==
    /\ caller[c] = "idle" /\ record.life # "absent"
    /\ Move(c, IF terminal THEN TerminalAnswer ELSE IF record.stop.id # Nobody THEN "wait" ELSE "lock")
    /\ UNCHANGED <<job, output, stage, pipe, record, watch, budget, answer, hold, viewer>>

CallLocks(c) ==
    /\ caller[c] = "lock"
    /\ \/ hold = Nobody /\ hold' = c /\ Move(c, "check")
       \/ hold # Nobody /\ UNCHANGED hold /\ Move(c, "failure")
    /\ UNCHANGED <<job, output, stage, pipe, record, watch, budget, answer, viewer>>

CallChallenges(c) ==
    /\ caller[c] = "check"
    /\ \/ terminal /\ Move(c, TerminalAnswer) /\ Unhold(c) /\ UNCHANGED record
       \/ ~terminal /\ record.stop.id # Nobody /\ Move(c, "wait") /\ Unhold(c) /\ UNCHANGED record
       \/ /\ ~terminal /\ record.stop.id = Nobody /\ (record.error \/ ~Watching)
          /\ Move(c, "failure") /\ Unhold(c) /\ UNCHANGED record
       \/ /\ ~terminal /\ record.stop.id = Nobody /\ ~record.error
          /\ record' = [record EXCEPT !.probe = c] /\ Move(c, "probe") /\ UNCHANGED hold
    /\ UNCHANGED <<job, output, stage, pipe, watch, budget, answer, viewer>>

\* The acknowledgement of this call's nonce, or the deadline.
CallProbes(c) ==
    /\ caller[c] = "probe"
    /\ \/ terminal /\ Move(c, TerminalAnswer) /\ Unhold(c)
       \/ ~terminal /\ ~record.error /\ record.ack = c /\ Move(c, "request") /\ UNCHANGED hold
       \/ ~terminal /\ (record.error \/ record.ack # c) /\ Move(c, "failure") /\ Unhold(c)
    /\ UNCHANGED <<job, output, stage, pipe, record, watch, budget, answer, viewer>>

CallRequests(c) ==
    /\ caller[c] = "request"
    /\ record' = IF complete \/ record.stop.id # Nobody THEN record
                 ELSE [record EXCEPT !.status = "stopped", !.stop = [NoStop EXCEPT !.id = c]]
    /\ Move(c, "wait") /\ Unhold(c)
    /\ UNCHANGED <<job, output, stage, pipe, watch, budget, answer, viewer>>

\* The result; or an error, a lost supervisor, the deadline.
CallWaits(c) ==
    /\ caller[c] = "wait"
    /\ Move(c, IF terminal THEN TerminalAnswer ELSE "failure")
    /\ UNCHANGED <<job, output, stage, pipe, record, watch, budget, answer, hold, viewer>>

CallDies(c) ==
    /\ caller[c] \in {"lock", "check", "probe", "request", "wait"}
    /\ Move(c, "failure") /\ Unhold(c)
    /\ UNCHANGED <<job, output, stage, pipe, record, watch, budget, answer, viewer>>

-----------------------------------------------------------------------------
(***************************************************************************)
(* attachRun starts near the end of the log: drain to the size seen, look  *)
(* at meta.json, and drain once more before the view ends.  A drain may    *)
(* block on the reader's output.                                           *)
(***************************************************************************)
AttachBegins ==
    /\ viewer.step = "idle" /\ record.life # "absent"
    /\ viewer' = [step |-> "look", cursor |-> output]
    /\ UNCHANGED <<job, output, stage, pipe, record, watch, budget, answer, caller, hold>>

AttachLook ==
    /\ viewer.step = "look"
    /\ \/ complete /\ viewer' = [viewer EXCEPT !.step = "last"]
       \/ /\ ~complete /\ (record.error \/ record.stop.result = "incomplete" \/ ~Watching)
          /\ viewer' = [viewer EXCEPT !.step = "lost"]
       \/ ~complete /\ viewer' = [viewer EXCEPT !.cursor = output]
    /\ UNCHANGED <<job, output, stage, pipe, record, watch, budget, answer, caller, hold>>

AttachLastDrain ==
    /\ viewer.step = "last" /\ viewer' = [step |-> "shown", cursor |-> output]
    /\ UNCHANGED <<job, output, stage, pipe, record, watch, budget, answer, caller, hold>>

-----------------------------------------------------------------------------
(***************************************************************************)
(* The target and the clock.  Members appear while some member lives; the  *)
(* job has no kill-on-close, so losing the broker changes nothing here.    *)
(***************************************************************************)
TargetMoves ==
    /\ ~Truth.job_empty
    /\ \/ job.root = "alive" /\ job' = [job EXCEPT !.root = "dead"] /\ UNCHANGED output
       \/ job' = [job EXCEPT !.members = ~@] /\ UNCHANGED output
       \/ viewer.step # "never" /\ output < MaxOutput /\ output' = output + 1 /\ UNCHANGED job
    /\ UNCHANGED <<stage, pipe, record, watch, budget, answer, caller, hold, viewer>>

BudgetPasses ==
    /\ budget = "running" /\ budget' = "expired"
    /\ UNCHANGED <<job, output, stage, pipe, record, watch, answer, caller, hold, viewer>>

-----------------------------------------------------------------------------
WinMonitor ==
    \/ LoopRead \/ Acknowledge \/ Observe \/ NoteObservation \/ Advance \/ Intend \/ Act \/ Receipt
    \/ Finished \/ Refuse \/ LoopCheck \/ EndRun \/ FailRequest \/ NoteError

WinNext ==
    \/ ForkFails \/ LaunchBroker \/ CreateTarget \/ Initialize \/ StartTimesOut
    \/ WinMonitor \/ SupervisorLost
    \/ \E c \in Callers :
        CallBegins(c) \/ CallLocks(c) \/ CallChallenges(c) \/ CallProbes(c) \/ CallRequests(c)
        \/ CallWaits(c) \/ CallDies(c)
    \/ AttachBegins \/ AttachLook \/ AttachLastDrain
    \/ TargetMoves \/ BudgetPasses

WinSpec == WinInit /\ [][WinNext]_winVars

-----------------------------------------------------------------------------
\* What tut ps shows as gone: a complete run, or one whose fresh observation
\* says so.
ListedGone == complete \/ Over(record.seen)

\* No success is premature, in meta.json, in a stopRun answer or in tut ps: the
\* root has exited and its job is empty; and no run ends over a request that
\* nobody answered.
WindowsStopHonest ==
    /\ (record.life = "ended" \/ ListedGone \/ \E c \in Callers : caller[c] = "success") => Over(Truth)
    /\ record.life = "ended" => ~Unanswered

\* Each control stage is intended on disk before the broker may act on it, sent
\* once, and never followed by another while its receipt is missing: a stop
\* that lost a receipt is not a success.
StagesNeverReplayed ==
    /\ stage <= Len(Actions)
    /\ \A i \in 1..Len(Actions) : i < Len(Actions) => Actions[i].delivery = "sent" /\ i <= stage
    /\ record.stop.result \in Stopped => Receipted

\* A view that ended as complete has shown everything the command wrote.
ViewIsWhole == viewer.step = "shown" => viewer.cursor = output

\* No command on Windows reports more than is so: neither a stop, one
\* whose stages are known, nor a view.
WindowsHonest == WindowsStopHonest /\ StagesNeverReplayed /\ ViewIsWhole
=============================================================================
