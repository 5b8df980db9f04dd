----------------------------- MODULE RunControl -----------------------------
(***************************************************************************)
(* One managed run: the detached supervisor that owns the command's        *)
(* process group (src/core/run/supervisor.ts), its stop controller         *)
(* (stop-controller.ts), the process that started it (startRun) and the    *)
(* CLI calls that ask it to stop (stopRun in control-posix.ts).  They      *)
(* share nothing but meta.json, whose updates are transactions under the   *)
(* meta lock (FileLock), so an update is one step.                         *)
(*                                                                         *)
(* Every await of the supervisor ends an action.  What the world does      *)
(* (processes die, descendants appear, the exit event arrives, deadlines   *)
(* pass, anyone crashes) happens between any two of them.                  *)
(***************************************************************************)
EXTENDS Naturals, Sequences

CONSTANTS Clients,          \* stopRun calls; a call's nonce and request id is the call
          None,             \* no call
          MaxWriteFailures, \* meta updates of the supervisor that throw
          UnknownProbes     \* kill(-pgid, 0) may fail with EPERM

ASSUME ClientsAssumption == None \notin Clients
ASSUME FaultsAssumption == MaxWriteFailures \in Nat /\ UnknownProbes \in BOOLEAN

VARIABLES
    os,        \* the command's root process and its descendants in the group
    outcome,   \* the exit event of the root, as the supervisor has seen it
    meta,      \* meta.json
    sup,       \* the supervisor: step, adopted request, next phase or result, delivery
    timer,     \* the stop controller's deadline
    starter,   \* what startRun tells its caller
    client,    \* each stopRun call: its step, then its answer
    stopLock,  \* holder of stop.lock
    failures   \* meta updates that have thrown

posixVars == <<os, outcome, meta, sup, timer, starter, client, stopLock, failures>>

Phases == {"requested", "cooperative", "term", "kill", "completed", "incomplete"}

Signals == {"SIGINT", "SIGTERM", "SIGKILL"}

Successes == {"already-ended", "cooperative", "forced-term", "forced-kill"}

NoRequest == [id |-> None, phase |-> "requested", signals |-> <<>>, result |-> "none"]

PosixInit ==
    /\ os = [root |-> "unborn", kids |-> "gone"]
    /\ outcome = "none"
    /\ meta = [life |-> "absent", status |-> "running", root |-> "unknown",
               probe |-> None, ack |-> None, request |-> NoRequest]
    /\ sup = [step |-> "spawn", request |-> None, arg |-> "none", delivery |-> "uncertain"]
    /\ timer = "running"
    /\ starter = "waiting"
    /\ client = [c \in Clients |-> "idle"]
    /\ stopLock = None
    /\ failures = 0

SupAlive == sup.step \notin {"done", "dead"}

GroupGone == os.root # "alive" /\ os.kids = "gone"

\* probe(-pgid): a dead root belongs to its group until it is reaped, which is
\* when the exit event is emitted.
ProbeGroup ==
    (IF GroupGone /\ outcome = "exited" THEN {"gone"} ELSE {"alive"})
    \cup (IF UnknownProbes THEN {"unknown"} ELSE {})

Pending == meta.request.id # None /\ meta.request.result = "none"

InStep(step) == sup.step = step

StepTo(step) == sup' = [sup EXCEPT !.step = step]

\* Leave the supervisor's current step for another, with its argument.
StepToWith(step, arg) == sup' = [sup EXCEPT !.step = step, !.arg = arg]

-----------------------------------------------------------------------------
(***************************************************************************)
(* Startup: spawn the command, publish meta.json, answer the handshake.    *)
(***************************************************************************)
Answer(view) == starter' = IF starter = "waiting" THEN view ELSE starter

SupSpawn ==
    /\ InStep("spawn")
    /\ os' = [os EXCEPT !.root = "alive"]
    /\ StepTo("publish")
    /\ UNCHANGED <<outcome, meta, timer, starter, client, stopLock, failures>>

\* No process came to life, and the caller is told so.
SupSpawnFails ==
    /\ InStep("spawn")
    /\ Answer("failed") /\ StepTo("dead")
    /\ UNCHANGED <<os, outcome, meta, timer, client, stopLock, failures>>

SupPublish ==
    /\ InStep("publish")
    /\ meta' = [meta EXCEPT !.life = "open"]
    /\ Answer("started") /\ StepTo("poll")
    /\ UNCHANGED <<os, outcome, timer, client, stopLock, failures>>

\* The group was signalled with SIGKILL, but nobody has seen it die.
SupPublishFails ==
    /\ InStep("publish") /\ failures < MaxWriteFailures
    /\ failures' = failures + 1
    /\ Answer("uncertain") /\ StepTo("dead")
    /\ UNCHANGED <<os, outcome, meta, timer, client, stopLock>>

\* startRun gives up after 5 s, or sees the supervisor exit.
HandshakeTimesOut ==
    /\ starter = "waiting"
    /\ starter' = "uncertain"
    /\ UNCHANGED <<os, outcome, meta, sup, timer, client, stopLock, failures>>

-----------------------------------------------------------------------------
(***************************************************************************)
(* The monitor loop: answer a challenge, note the root's exit, let the     *)
(* controller step, and finish once the group is gone.                     *)
(***************************************************************************)
SupAcknowledge ==
    /\ InStep("poll")
    /\ meta' = [meta EXCEPT !.ack = meta.probe]
    /\ StepTo("root")
    /\ UNCHANGED <<os, outcome, timer, starter, client, stopLock, failures>>

SupNoteRoot ==
    /\ InStep("root")
    /\ meta' = IF outcome = "exited" THEN [meta EXCEPT !.root = "exited"] ELSE meta
    /\ StepTo("control")
    /\ UNCHANGED <<os, outcome, timer, starter, client, stopLock, failures>>

\* The log may have grown since it was read: then the loop goes round.
SupEnd ==
    /\ InStep("end")
    /\ \/ outcome = "exited" /\ "gone" \in ProbeGroup /\ StepTo("final")
       \/ StepTo("poll")
    /\ UNCHANGED <<os, outcome, meta, timer, starter, client, stopLock, failures>>

Ended == [meta EXCEPT !.life = "ended",
                      !.status = IF @ = "stopped" THEN "stopped" ELSE "exited"]

\* Mutant: the final update trusts the request it saw in the loop.
SupFinal_NoRecheck ==
    /\ InStep("final")
    /\ meta' = Ended /\ StepTo("done")
    /\ UNCHANGED <<os, outcome, timer, starter, client, stopLock, failures>>

SupFinal ==
    /\ InStep("final")
    /\ IF Pending THEN StepTo("poll") /\ UNCHANGED meta
       ELSE StepTo("done") /\ meta' = Ended
    /\ UNCHANGED <<os, outcome, timer, starter, client, stopLock, failures>>

-----------------------------------------------------------------------------
(***************************************************************************)
(* StopController.step: what to do about the request, from the exit event, *)
(* a probe of the group and the deadline.                                  *)
(***************************************************************************)
Sent(signal) == \E i \in 1..Len(meta.request.signals) :
                    meta.request.signals[i] = [signal |-> signal, delivery |-> "sent"]

SettledAs ==
    IF Sent("SIGKILL") THEN "forced-kill"
    ELSE IF Sent("SIGTERM") THEN "forced-term"
    ELSE IF Sent("SIGINT") THEN "cooperative" ELSE "already-ended"

Settled(group) == outcome = "exited" /\ group = "gone"

NextPhase == [cooperative |-> "term", term |-> "kill"]

\* finish looks once more: only an exit it has seen and a group that is gone make
\* a success.
Confirmed(result) == {IF Settled(again) THEN result ELSE "incomplete" : again \in ProbeGroup}

Finish(result) == \E confirmed \in Confirmed(result) : StepToWith("finish", confirmed)

Enter(phase) == StepToWith("enter", phase)

\* The first step for a request.  One that is not fresh is never replayed (a
\* defence of the code: only this supervisor moves a request on).
Adopted(group) ==
    IF meta.request.phase # "requested" \/ group = "unknown" THEN {"finish"} \X {"incomplete"}
    ELSE IF Settled(group) THEN {"finish"} \X Confirmed("already-ended")
    ELSE {"enter"} \X {IF outcome = "exited" THEN "term" ELSE "cooperative"}

ControlAdopt(group) ==
    /\ sup.request = None
    /\ \E to \in Adopted(group) :
        sup' = [sup EXCEPT !.request = meta.request.id, !.step = to[1], !.arg = to[2]]

\* Mutant: a group that outlives SIGKILL is watched for ever.
ControlEscalate_NoBudget(group) ==
    IF group = "gone" THEN Finish("incomplete")
    ELSE IF meta.request.phase \in DOMAIN NextPhase
    THEN Enter(NextPhase[meta.request.phase])
    ELSE StepTo("end")

\* The deadline has passed and the group is not known to have ended.  (An
\* absent group whose root's exit was not seen is a defence of the code.)
ControlEscalate(group) ==
    IF group = "gone" THEN Finish("incomplete")
    ELSE IF meta.request.phase \in DOMAIN NextPhase
    THEN Enter(NextPhase[meta.request.phase])
    ELSE Finish("incomplete")

ControlContinue(group) ==
    /\ sup.request # None
    /\ IF group = "unknown" THEN Finish("incomplete")
       ELSE IF Settled(group) THEN Finish(SettledAs)
       ELSE IF timer = "running" THEN StepTo("end")
       ELSE ControlEscalate(group)

SupControl ==
    /\ InStep("control")
    /\ IF ~Pending THEN StepTo("end")
       ELSE \E group \in ProbeGroup : ControlAdopt(group) \/ ControlContinue(group)
    /\ UNCHANGED <<os, outcome, meta, timer, starter, client, stopLock, failures>>

SupFinish ==
    /\ InStep("finish")
    /\ meta' = [meta EXCEPT !.request.result = sup.arg,
                            !.request.phase = IF sup.arg \in Successes THEN "completed" ELSE "incomplete",
                            !.life = IF sup.arg \in Successes THEN "ended" ELSE @]
    /\ StepTo("end")
    /\ UNCHANGED <<os, outcome, timer, starter, client, stopLock, failures>>

-----------------------------------------------------------------------------
(***************************************************************************)
(* enter and send: publish the phase, publish the intent, signal, publish  *)
(* the delivery.                                                           *)
(***************************************************************************)
SignalOf == [cooperative |-> "SIGINT", term |-> "SIGTERM", kill |-> "SIGKILL"]

Attempt(delivery) == [signal |-> SignalOf[sup.arg], delivery |-> delivery]

SupEnter ==
    /\ InStep("enter")
    /\ timer' = "running"
    /\ meta' = [meta EXCEPT !.request.phase = sup.arg]
    /\ StepTo("intend")
    /\ UNCHANGED <<os, outcome, starter, client, stopLock, failures>>

\* Before the intent and again before the system call: SIGINT goes to the root
\* only while it is known not to have exited, and nothing to an absent group.
Worthwhile(group) == group = "alive" /\ (sup.arg = "cooperative" => outcome = "none")

SupIntend ==
    /\ InStep("intend")
    /\ \E group \in ProbeGroup :
        IF Worthwhile(group)
        THEN /\ meta' = [meta EXCEPT !.request.signals = Append(@, Attempt("uncertain"))]
             /\ StepTo("kill")
        ELSE /\ StepTo(IF group = "unknown" /\ (sup.arg = "cooperative" => outcome = "none")
                     THEN "fail" ELSE "end")
             /\ UNCHANGED meta
    /\ UNCHANGED <<os, outcome, timer, starter, client, stopLock, failures>>

\* kill(2) delivers, finds that the descendants it was meant for have just
\* gone, or is refused.
Deliveries == {"sent"} \cup (IF outcome = "exited" THEN {"esrch"} ELSE {})
                       \cup (IF UnknownProbes THEN {"error"} ELSE {})

SupKill ==
    /\ InStep("kill")
    /\ \E group \in ProbeGroup :
        IF Worthwhile(group)
        THEN /\ \E delivery \in Deliveries :
                    sup' = [sup EXCEPT !.step = "sent", !.delivery = delivery]
             /\ timer' = "running"
        ELSE /\ StepTo(IF group = "unknown" /\ (sup.arg = "cooperative" => outcome = "none")
                     THEN "fail" ELSE "end")
             /\ UNCHANGED timer
    /\ UNCHANGED <<os, outcome, meta, starter, client, stopLock, failures>>

\* A refused signal ends the monitor.
SupRecordDelivery ==
    /\ InStep("sent")
    /\ meta' = [meta EXCEPT !.request.signals =
            [i \in 1..Len(@) |-> IF @[i].signal = SignalOf[sup.arg] THEN Attempt(sup.delivery) ELSE @[i]]]
    /\ StepTo(IF sup.delivery = "error" THEN "fail" ELSE "end")
    /\ UNCHANGED <<os, outcome, timer, starter, client, stopLock, failures>>

-----------------------------------------------------------------------------
(***************************************************************************)
(* Anything thrown in the loop ends the supervisor; a pending request is   *)
(* answered with "incomplete" if that can still be written.                *)
(***************************************************************************)
SupUpdateThrows ==
    /\ sup.step \in {"poll", "root", "final", "finish", "enter", "intend", "sent"}
    /\ failures < MaxWriteFailures
    /\ failures' = failures + 1
    /\ StepTo("fail")
    /\ UNCHANGED <<os, outcome, meta, timer, starter, client, stopLock>>

\* Mutant: the failure handler answers whether or not there is an answer.
SupFail_Overwrites ==
    /\ InStep("fail")
    /\ meta' = IF meta.request.id # None
               THEN [meta EXCEPT !.request.result = "incomplete", !.request.phase = "incomplete"]
               ELSE meta
    /\ StepTo("dead")
    /\ UNCHANGED <<os, outcome, timer, starter, client, stopLock, failures>>

SupFail ==
    /\ InStep("fail")
    /\ meta' = IF Pending
               THEN [meta EXCEPT !.request.result = "incomplete", !.request.phase = "incomplete"]
               ELSE meta
    /\ StepTo("dead")
    /\ UNCHANGED <<os, outcome, timer, starter, client, stopLock, failures>>

SupCrash ==
    /\ SupAlive
    /\ StepTo("dead")
    /\ UNCHANGED <<os, outcome, meta, timer, starter, client, stopLock, failures>>

-----------------------------------------------------------------------------
(***************************************************************************)
(* stopRun.  "success" and "failure" are its answers; a thrown error is a  *)
(* failure too.                                                            *)
(***************************************************************************)
Completed == meta.request.result # "none" \/ meta.life = "ended"

CompletedAs ==
    IF meta.request.id = None \/ meta.request.result \in Successes THEN "success" ELSE "failure"

Become(c, at) == client' = [client EXCEPT ![c] = at]

Unlock(c) == stopLock' = IF stopLock = c THEN None ELSE stopLock

StopBegin(c) ==
    /\ client[c] = "idle" /\ meta.life # "absent"
    /\ Become(c, IF Completed THEN CompletedAs ELSE IF meta.request.id # None THEN "poll" ELSE "lock")
    /\ UNCHANGED <<os, outcome, meta, sup, timer, starter, stopLock, failures>>

StopLock(c) ==
    /\ client[c] = "lock"
    /\ \/ stopLock = None /\ stopLock' = c /\ Become(c, "check")
       \/ UNCHANGED stopLock /\ Become(c, "failure")
    /\ UNCHANGED <<os, outcome, meta, sup, timer, starter, failures>>

\* Under stop.lock, look again; a live supervisor pid is not proof enough (it
\* may be in use by another process), so challenge it.
StopCheck(c) ==
    /\ client[c] = "check"
    /\ \/ Completed /\ Become(c, CompletedAs) /\ Unlock(c) /\ UNCHANGED meta
       \/ ~Completed /\ meta.request.id # None /\ Become(c, "poll") /\ Unlock(c) /\ UNCHANGED meta
       \/ ~Completed /\ meta.request.id = None /\ ~SupAlive /\ Become(c, "failure") /\ Unlock(c) /\ UNCHANGED meta
       \/ /\ ~Completed /\ meta.request.id = None
          /\ meta' = [meta EXCEPT !.probe = c]
          /\ Become(c, "challenge") /\ UNCHANGED stopLock
    /\ UNCHANGED <<os, outcome, sup, timer, starter, failures>>

StopChallenge(c) ==
    /\ client[c] = "challenge"
    /\ \/ Completed /\ Become(c, CompletedAs) /\ Unlock(c)
       \/ ~Completed /\ meta.ack = c /\ Become(c, "request") /\ UNCHANGED stopLock
       \/ ~Completed /\ meta.ack # c /\ Become(c, "failure") /\ Unlock(c)
    /\ UNCHANGED <<os, outcome, meta, sup, timer, starter, failures>>

StopRequest(c) ==
    /\ client[c] = "request"
    /\ meta' = IF meta.life = "ended" \/ meta.request.id # None THEN meta
               ELSE [meta EXCEPT !.status = "stopped", !.request = [NoRequest EXCEPT !.id = c]]
    /\ Become(c, "poll") /\ Unlock(c)
    /\ UNCHANGED <<os, outcome, sup, timer, starter, failures>>

\* Waiting for the result; a lost supervisor or the deadline ends the wait.
StopPoll(c) ==
    /\ client[c] = "poll"
    /\ Become(c, IF Completed THEN CompletedAs ELSE "failure")
    /\ UNCHANGED <<os, outcome, meta, sup, timer, starter, stopLock, failures>>

\* The caller dies; its stop.lock is retired as a dead owner's.
StopCrash(c) ==
    /\ client[c] \in {"lock", "check", "challenge", "request", "poll"}
    /\ Become(c, "dead") /\ Unlock(c)
    /\ UNCHANGED <<os, outcome, meta, sup, timer, starter, failures>>

-----------------------------------------------------------------------------
(***************************************************************************)
(* The command's processes, the exit event and the clock.                  *)
(***************************************************************************)
RootExits ==
    /\ os.root = "alive" /\ os' = [os EXCEPT !.root = "dead"]
    /\ UNCHANGED <<outcome, meta, sup, timer, starter, client, stopLock, failures>>

KidsAppear ==
    /\ os.root = "alive" /\ os.kids = "gone" /\ os' = [os EXCEPT !.kids = "alive"]
    /\ UNCHANGED <<outcome, meta, sup, timer, starter, client, stopLock, failures>>

KidsVanish ==
    /\ os.kids = "alive" /\ os' = [os EXCEPT !.kids = "gone"]
    /\ UNCHANGED <<outcome, meta, sup, timer, starter, client, stopLock, failures>>

ExitEvent ==
    /\ os.root = "dead" /\ outcome = "none" /\ SupAlive
    /\ outcome' = "exited"
    /\ UNCHANGED <<os, meta, sup, timer, starter, client, stopLock, failures>>

DeadlinePasses ==
    /\ timer = "running" /\ timer' = "expired"
    /\ UNCHANGED <<os, outcome, meta, sup, starter, client, stopLock, failures>>

-----------------------------------------------------------------------------
Monitor ==
    \/ SupAcknowledge \/ SupNoteRoot \/ SupControl \/ SupFinish
    \/ SupEnter \/ SupIntend \/ SupKill \/ SupRecordDelivery
    \/ SupEnd \/ SupFinal \/ SupFail

Startup == SupSpawn \/ SupSpawnFails \/ SupPublish \/ SupPublishFails \/ HandshakeTimesOut

StopStep(c) ==
    \/ StopBegin(c) \/ StopLock(c) \/ StopCheck(c) \/ StopChallenge(c) \/ StopRequest(c)
    \/ StopPoll(c) \/ StopCrash(c)

World == RootExits \/ KidsAppear \/ KidsVanish \/ ExitEvent \/ DeadlinePasses

PosixNext ==
    \/ Startup \/ Monitor \/ SupUpdateThrows \/ SupCrash
    \/ \E c \in Clients : StopStep(c)
    \/ World

PosixSpec == PosixInit /\ [][PosixNext]_posixVars

-----------------------------------------------------------------------------
Deliverances == {"uncertain", "sent", "esrch", "error"}

Attempts == [signal : Signals, delivery : Deliverances]

Requests == [id : Clients \cup {None}, phase : Phases, signals : Seq(Attempts),
             result : Successes \cup {"none", "incomplete"}]

\* Every variable has its type.
PosixTypeOK ==
    /\ os \in [root : {"unborn", "alive", "dead"}, kids : {"alive", "gone"}]
    /\ outcome \in {"none", "exited"}
    /\ meta \in [life : {"absent", "open", "ended"}, status : {"running", "stopped", "exited"},
                 root : {"unknown", "exited"}, probe : Clients \cup {None},
                 ack : Clients \cup {None}, request : Requests]
    /\ sup \in [step : {"spawn", "publish", "poll", "root", "control", "finish", "enter",
                        "intend", "kill", "sent", "end", "final", "fail", "done", "dead"},
                request : Clients \cup {None},
                arg : Phases \cup Successes \cup {"none"}, delivery : Deliverances]
    /\ timer \in {"running", "expired"}
    /\ starter \in {"waiting", "started", "failed", "uncertain"}
    /\ client \in [Clients -> {"idle", "lock", "check", "challenge", "request", "poll",
                               "success", "failure", "dead"}]
    /\ stopLock \in Clients \cup {None}
    /\ failures \in Nat

\* A run is never closed over a request nobody answered: a request that races
\* the natural exit is seen by the final update, or sees the closed run.
EndedIsAnswered == meta.life = "ended" => ~Pending

\* "exited" is the end of a run nobody asked to stop.
ExitedWithoutRequest == meta.status = "exited" => meta.request.id = None

\* A success, in meta.json or in stopRun's answer, is never premature: the root
\* has exited and its group is gone.
SuccessMeansGone ==
    (meta.request.result \in Successes \/ \E c \in Clients : client[c] = "success")
        => os.root = "dead" /\ GroupGone

\* Signals escalate one by one: SIGKILL only after SIGTERM was intended, no
\* signal twice.
SignalsEscalate ==
    LET sent == [i \in DOMAIN meta.request.signals |-> meta.request.signals[i].signal]
    IN  sent \in {<<>>, <<"SIGINT">>, <<"SIGTERM">>, <<"SIGINT", "SIGTERM">>,
                  <<"SIGTERM", "SIGKILL">>, <<"SIGINT", "SIGTERM", "SIGKILL">>}

\* A start reported as failed for certain left no process behind, so its
\* reservation may be given up.
CertainFailureIsClean == starter = "failed" => os.root = "unborn"

\* What the POSIX run's record and its answers say is so, in every state.
PosixStopHonest ==
    /\ PosixTypeOK
    /\ EndedIsAnswered /\ ExitedWithoutRequest /\ SuccessMeansGone /\ SignalsEscalate /\ CertainFailureIsClean

\* One request per run, answered once: neither the request nor its result is
\* ever replaced, however many calls, failures and retries there are.
KeepsAnswer ==
    /\ meta.request.id # None => meta'.request.id = meta.request.id
    /\ meta.request.result # "none" => meta'.request.result = meta.request.result
=============================================================================
