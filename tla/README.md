# Verification of TUT (take-ur-turn)

TLA+ models of the parts of TUT that carry its guarantees, the TLC runs that
check them on small instances, and TLAPS proofs for every size of instance.
Paths below are relative to the repository (`src/` is the repository, so the
TypeScript is under `src/src/`).

## 1. The system and its parts

TUT lets several coding agents work on one project by taking turns.  A local
**Context Hub** keeps an append-only log per task; the state of a task is a pure
function of its log; a **Notifier** watches the derived state and starts the
next agent; **launchers** start agents as supervised processes or in terminal
panes of the herdr multiplexer; humans decide at approval gates.

| part | code | state it keeps | modules |
|---|---|---|---|
| status derivation, lint | `core/hub/state-machine.ts`, `record-lint.ts` | none: a cursor that is folded | `TaskFold`, `RecordLint`, `TaskLog` |
| Hub file store, fold cache, recovery | `core/hub/store.ts`, `store/*` | `meta.json`, one file per record, a cursor per task, `*.recovered`, `recovery.jsonl` | `HubStore` |
| Hub doors | `core/hub/http.ts`, `server.ts`, `hub-client.ts`, `core/mcp/*` | connections | `HubDoors` |
| board | `core/hub/board-client.ts`, `run-store.ts`, `kibitz-http.ts` | what a browser shows | `BoardPage` |
| archive locks | `core/run/store.ts` `lockFile` | lock files | `FileLock` |
| run archive, resume of plain runs, repair | `core/run/store.ts`, `resume.ts`, `admission.ts`, `repair.ts` | a directory per run | `RunArchive`, `SessionLease` |
| run supervision on POSIX | `core/run/supervisor.ts`, `stop-controller.ts`, `control-posix.ts` | the run's `meta.json`, the process group | `RunControl` |
| run supervision on Windows | `core/run/*windows*.ts`, `scripts/windows-run/broker.ps1` | the same, a Job object, a pipe | `WindowsRun` |
| launch doors, admission, managed resume | `core/launcher/launch.ts`, `core/run/admission.ts`, `resume.ts`, `launch-entry.ts`, `standalone/launcher-headless/*` | `admission.lock`, markers, the Notifier's seat | `HeadlessLaunch` |
| notifier | `core/notifier/*`, `standalone/notifier/detached-lane.ts` | snapshot, log cache, parked candidates, alerts | `Notifier` |
| herdr lane of the notifier | `herdr/notifier/tui-lane.ts` | launch chains, fuses, sweeps | `TuiLane` |
| prompt delivery, second Enter | `herdr/launcher/delivery.ts`, `escalation.ts`, `remediator.ts` | ledgers of attempts | `PromptDelivery` |
| agents' panes | `herdr/launcher/birth.ts`, `lifecycle.ts`, `anchor.ts`, `compat.ts` | panes and tabs | `PaneLife` |
| system panes | `herdr/power/up.ts` | panes and ports | `SysPanes` |
| standalone power, start lock | `standalone/power/*`, `core/hub/rig-lock.ts`, `rig-discovery.ts` | `power.json`, `up.lock`, processes | `Power` |

How they interact: agents and humans publish records through the Hub's HTTP/MCP
doors into the store; the store folds the log (with lint) and answers with the
derived state; the Notifier polls snapshots and publishes launch markers with
`expected_version`; a launcher takes `admission.lock`, writes an intent and
starts a supervisor, or asks herdr for a pane and types the prompt into it;
supervisor, `stopRun` and `startRun` share nothing but the run's `meta.json`,
updated under a file lock; `up` and `down` share `power.json`, the start lock and
the process table.

What is hard here: operations of one Node process interleave at every `await`
(readers are not queued); the Hub, supervisors, Notifier and CLI calls are
separate processes that may die at any point and share only files; git may add
record files behind the store's back; the record and its counter are two files;
locks must be reclaimed from dead owners; stopping a process group races its
natural exit; herdr commands may act and still fail; pids are recycled.
`PROJECT.json` lists the hazards at their lines with the properties that guard
them.

What makes each part correct: the derived status never leaves a flow's table and
never talks a task past the approval gate; no record is lost, renumbered or
overwritten and the cache equals the cold fold; at most one live holder of a
lock; a stop request is answered exactly once and never with a premature success;
a task and a native session have one agent at a time; every turn is answered;
nothing is typed twice; no foreign process or pane is touched; what a command or
the screen says is so.

## 2. Modules

Models of parts that share no state are composed in one MC module, where a
behaviour is one of one part: `MCHub` (`TaskLog`, `HubStore`), `MCRunControl`
(`FileLock`, `RunControl`, `WindowsRun`), `MCHerdr` (`PromptDelivery`,
`PaneLife`, `SysPanes`), `MCHubDoors` (`HubDoors`, `BoardPage`).  The others
instantiate one module.  Where one module relies on another, it takes what that
one shows as a step: a meta update is atomic because of `FileLock`, a supervisor
in `HeadlessLaunch` and `RunArchive` is what `RunControl` does in detail, the
launches of one role in `PaneLife` are in turn because of `TuiLane`, a cursor in
`HubStore` is what `TaskLog` gives a meaning.

The theorems are in modules of their own, which extend the modules they are about
(section 4).

### TaskFold, RecordLint, TaskLog

`fold`, `foldOntoCursor` and `foldWithLint` are operators from a cursor and a
record to a cursor, one operator per row of the code's `switch`.  A record keeps
what the fold looks at: `content_type`, publisher role, `arg` (verdict, decision
or `ack`), `ref_version` (0: absent) and two flags that stand for what parsing
the body yields: the exit conditions are complete (`exitOk`), the scope section
is there (`scopeOk`).  `TaskLog` lands records on the cursor: `AppendRecord` is the
store's numbering, `LandOutOfBand` a foreign file with any version, repeated or
skipped; `AppendSpec` is a log to which only the store's own numbering added.
`judged` and `landed` are history variables.  The warnings array is a
set; roles are the four of the code, in canonical and mixed case.

### HubStore

One action per stretch of code between two awaits.  `job` is the mutation at the
head of the task's queue (`Store.enqueue`), `creating` the one in the global
queue, `reads` the readers, which nothing queues.  A record file is
`<<version, type>>` with its writer, its content's version and whether its bytes
validate.  A cursor is represented by the sequence of records folded.  `Crash`,
`ForeignFileLands`, `RecordRots`, `MetaRots` and `AppendMetaFails` are the
faults, each with a budget.  The temporary file of `writeRecordExclusive` and the
sweep of leftovers are not visible to any reader and left out; so are argument
validation, project scope and the refusal to repair a frozen task.  A registration
becomes void when its damaged original changes once more (`recovery.ts:330`); a file
of the model rots once, so there is nothing to void.

### FileLock

One action per system call of `lockFile` and of the release function.  The
deadline is a budget of passes (`MaxTries`), with `TimeOut` possible on every
pass.  Inode numbers may be reused as soon as a file is gone, pids are not.  The
retry of `EPERM`/`EACCES`/`EBUSY` on Windows is left out.

### RunControl, WindowsRun

`RunControl`: the supervisor is a chain of steps, one per `await`.  `os` is the
command's root and its descendants; `outcome` the exit event; `ProbeGroup` what
`kill(-pgid, 0)` may answer, unknown included.  `SupUpdateThrows` makes a meta
write fail, `SupCrash` and `StopCrash` kill a process.  Reading the log for a
session id, `attachRun` and `listRuns` are left out.

`WindowsRun` is the second implementation of the same contract.  A broker request
is one step: it is answered, or the pipe is poisoned for good, whether or not the
broker acted.  The stop controller's three stages, the challenge by nonce, the
observation that `tut ps` trusts and the drain of `attachRun` are actions.  The
diagnostic line a broken supervisor appends to the log is not counted as output.

### HeadlessLaunch

Three doors launch a detached run for one task, from different processes.  They
share the log, the run archive and `admission.lock`; the Notifier also keeps the
seat of the task in memory.  An attempt is one launch; its `door` record is what
the process remembers between awaits (versions read, the wake note, `--force`,
the number of the pass).  A content record says who is waited for next, which is
all that the gates ask of a fold; `Human` stands for approval and attention,
where no agent may be launched.  Logs only grow, so a read is the version it
returned.  `life` is what an attempt's intent, `meta.json` and processes amount
to; `lost` is a pending intent that nobody will change any more.

`PollFetch`, `PollObserve` and then one of `PollClose`, `PollLaunch` and
`PollQuiet` are one round of `compareAndAct`.  Which edge, wake note, parked
candidate or catch-up makes a round launch is left open here (it is `Notifier`'s
subject): any round may launch for a free task, with any note as its wake.
`CloseStop` is the part of `closeTask` that runs outside the compare queue.
`LockTimesOut`, `GateFails`, `PlanFails`, the two `...Unanswered`,
`HandshakeTimesOut`, `SpawnFails`, `SupervisorDies`, `DoorCrashes` and
`NotifierCrashes` are the faults.  Runs started by `tut run --task` take no
admission lock, so `OneRunPerTask` is about managed runs.

### Notifier

The compare rounds for one task in detached mode.  A round is `Fetch`, `Observe`,
`Decide` (with the scan of new notes) and the launch; an action ends where the
engine awaits the Hub.  `cache` is the merged log of `log-cache.ts` with its
version and its signature, `lane` what `detached-lane.ts` keeps
(`pendingNoteScans`, `humanWakeVersions`, `headlessPending`, the stop boundary),
`alerts` the bookkeeping of `notifications.ts`.  `lane.human` tells "no entry in
`humanWakeVersions`" (`NoWake`) from an entry 0, because `allowsNoteWake` and
`coalesceBusy` ask whether there is one: a candidate parked without an instruction
comes back with version 0 and may be launched.  Records, notes of humans and workers, foreign
duplicates and rewinds, degraded and vanished stays, stops, mode switches, failed
reads and restarts happen in between.  Whether admission lets a launch through is
left open (`StartSettles`).  `past` is history: what the finished round owed and
did, up to which version they have dealt with the log (`upto`), whether a foreign
change is still unseen (`hidden`) and whether a degraded stay has made the Notifier
forget one that it had seen (`forgot`).  With `Unwatched = FALSE` a foreign change is seen by a poll before another
record follows it; otherwise a change and its reversal between two polls are
invisible to any poller.  With `Crowded = FALSE` no poll finds a hand-over together
with a note of a worker (`Apart`).

### TuiLane

The herdr lane for one task: the round that plans a launch, its marker, the
launcher children chained per task and role, the working fuse, the early signals
and the done sweep with its three barriers.  Signals carry the pane's role, never
the launch they belong to, as in the code.  Assumed: the fuse outlasts a log read
and an announcement.  A done event that lands while a child waits in its chain is
outside of `ArchivedBeforeReap`, which is about events before the marker.
`past` is history: which launches had a signal handled in time (`told`) and which
were alarmed in their own turn (`plain`).

### PromptDelivery, PaneLife, SysPanes

They use herdr and share no state.  `PromptDelivery` is one delivery attempt, the
evidence it posts, and the Notifier's controlled second Enter.  Every status read
may return any status, a call may fail, come late or be lost after it acted.  The
composer is compared by a hash of its last 80 characters (`remediator.ts:82-83`),
which the prompts of one role, task and skill share: any staged prompt passes for
any attempt (`pendingCodexInput`), so the handler of a consumed attempt may press
Enter for a later one's text.  `NoEnterIntoWork` therefore says that the machine
presses Enter for a prompt it has seen worked on only when a later prompt was typed
into the pane; without that exception TLC finds it violated (two attempts, 22
states).  `MachineEnterOnce` holds without exception, because what counts there is
the claim in the ledger.
Cancellation by a signal is not modelled; the wait for an unknown baseline in the
remediator cannot be reached with evidence the launcher writes.

`PaneLife` is what a launch does to panes: rediscovery by label, reap, birth in a
tab or by a split, cleanup.  Every step is one herdr command that may fail with
or without effect; a launcher may be killed.  Assumed (`Settled`): herdr has
detected an agent, or it is gone, before the next launch of its key.

`SysPanes` is `tut up` on herdr: the Hub's and the Notifier's pane, the choice of
the port pair, the start lock that an up with `--url` does not take.  The dry
run, the usage watcher's pane and the agent labels of the duplicate check are
left out.

### Power

`tut up` (with and without `--adopt`) and `tut down` over `power.json`,
`power-members.jsonl`, `up.lock` and a process table with recycled pids, start
tokens, sessions and groups.  A service is adopted only beside a live Hub of the
workspace, before and after the look at its process (`Owned`).  Between two awaits a service dies, a foreign
program takes a free pid, a service is started by hand, a child registers, tokens
cannot be read, or a call is killed.  Assumed: a pid rests between the look at it
and the signal (`Resting`: no pid is recycled in that gap, which the code cannot
close), and a process binds its port or exits before the next
command (`Settled`).  POSIX branches only.

### RunArchive, SessionLease

The archives of one native session: `meta.json` written as a temporary file and
renamed, intents, the evidence a repair moves aside.  Supervisors, resumes of
plain runs and repairs write there and die between any two writes; a power loss
kills them all and may tear the files written last.  `SessionLease` is the
abstract specification: at most one run works on the session, and it passes on
only through a moment in which nobody does.

### HubDoors, BoardPage

`HubDoors`: a call through one of three doors (one client per call, the shared
lazily connected session, the stdio bridge with recovery and heartbeat) while
Hubs stop, crash, start and change ports.  A request of the bridge is three steps,
because two awaits lie in it: `fallbackRequestHandler` asks the upstream or waits
for the recovery ("parked"), `RequestProbed` is the answer to the look at who
listens (`stdio-bridge.ts:72`), `RequestPosted` the POST (`:75`), which goes to
whoever listens by then.  In the gap the workspace's Hub may go and a foreign one
take the port, so a call *can* reach the store of another workspace: `overtaken` is
the history of the calls in the gap when that happened, and `NoStray` says that no
other call of a bridge goes astray.  The handshake has the same two steps.
`Cancelled` is the host taking back a request, which starts no recovery.  Forwarded
notifications, which write nothing, are left out.

`BoardPage`: two pollers, the root latch and the detail panel with its log cursor.
A panel has one request in flight, and an answer for a panel that was replaced
changes an object nobody shows (`board-client.ts:488`): the model drops it, and
`ScreenTruthful` is about the cursor and the screen of the panel that is shown.

## 3. Runs

| run | instance | shows |
|---|---|---|
| `Hub` | logs of 5 records over every row and of 6 for the lints; 3 publishes with a crash, a foreign file and a failed meta write; 1 publish, 1 reader, 2 flows, 2 sources with damage and recovery; 3 publishes with and 1 without `expected_version` and no fault | `LogSound`, `LintSound`, `StoreSafe`, `OneMarkerPerBase`, `DecisionsStand`, `NeverOverwrites` |
| `Hub_stale_cas` | 2 publishes with `expected_version`, 1 failed meta write | **violated** `OneMarkerPerBase`: both land on one base version |
| `RunControl` | 3 lock processes, 2 inodes, 2 deaths; 2 stop calls with crashes, unknown probes and a failing write on POSIX; 2 stop calls or one and a viewer on Windows | `LockSafe`, `PosixStopHonest`, `WindowsHonest`, `SettledStays`, `RunsMakeProgress` |
| `HeadlessLaunch` | one launch per door, 1 further record, 1 fault | `OneRunPerTask`, `AdmissionSound`, `TracesRight` |
| `HeadlessLaunch_close` | auto launch and resume, 1 further record, 1 fault, 1 Notifier restart | `LaunchesEnd` |
| `Notifier` | a whitelisted role and one that is not, 4 records (notes of humans and workers among them), 2 events | `TurnAnswered`, `GateReadsWholeLog`, `AlertsOncePerStay`, `StopSticks`, `StallIsReal` |
| `Notifier_worker_note` | the same with `Crowded`, no event | **violated** `TurnAnswered`: the hand-over is dropped |
| `TuiLane` | 2 roles, 2 launches, 1 content record, 1 wake note, 2 done events, a shutdown; 3 content records where none of these disturbs | `ArchivedBeforeReap`, `ChildrenInOrder`, `FuseTruthful`, `QuietAfterClose` |
| `Herdr` | 2 attempts and 2 events; 2 tasks, 2 roles, 2 launches, 2 faults; 2 ups, 2 port pairs, 1 mishap | `DeliveryHonest`, `MachineEnterOnce`, `NoEnterIntoWork`, `SeatsUnambiguous`, `ForeignPanesKept`, `SysPanesSingle` |
| `Power` | 2 ups (one adopting), 1 down, 3 services, 4 pids, 2 port pairs, 2 events, each kind once | `DownHonest`, `UpsInTurn`, `FactsKept` |
| `RunArchive` | 2 resumes, 1 repair, 3 runs, 2 faults, 2 power losses | `LeaseImplemented`, `EvidenceKept`, `OnlyTheDeadRepaired` |
| `HubDoors` | 2 calls, 2 ports, 2 clients, 3 Hub events, 2 retries; 1 task, 2 versions, 2 runs, 1 change of Hub | `DoorSound`, `CallSettles`, `ScreenTruthful`, `PanelCatchesUp` |

Several properties are conjunctions of named parts, each stated where it is
defined: `LogSound` (the cursor's type, `FlowStatuses`, `GateHoldsApproval`,
`UnjudgedWorkIsFlagged`, `ReviewsFollowDeliveries`), `LintSound`
(`SentBackRemembersReview`, `IssuesMatchWarnings`), `DecisionsStand`
(`ClosedStays`, `GateClearedByDecision`), `StoreSafe` (types, `UniqueVersions`,
`AckedIsOnDisk`, `MetaNotAhead`, `CacheCoherent`, `AppendKnowsItsLog`,
`RegistrationUsable`), `LockSafe` (`MutualExclusion`, `OwnershipNeverLost`,
`GuardHeld`), `PosixStopHonest` (`EndedIsAnswered`, `ExitedWithoutRequest`,
`SuccessMeansGone`, `SignalsEscalate`, `CertainFailureIsClean`), `WindowsHonest`
(`WindowsStopHonest`, `StagesNeverReplayed`, `ViewIsWhole`), `SettledStays`
(`SafeRemoval`, `KeepsAnswer`), `AdmissionSound` (the
doors' types, `AdmittedAtOneVersion`), `TracesRight` (`OneMarkerPerGeneration`,
`SeatFollowsRun`), `LaunchesEnd` (`LockReleased`, `CloseStopsRun`),
`DeliveryHonest` (`NotSentIsClean`, `EvidenceAccepted`, `GiveUpReported`),
`SeatsUnambiguous` (`OneSeat`, `OneTabPerLaunch`), `DownHonest`
(`NoForeignSignal`, `StoppedMeansGone`), `UpsInTurn` (`OneUpAtATime`,
`FailedUpLeavesNothing`), `DoorSound` (`LandsOnce`, `NoStray`, `NothingLingers`).

Refinement: `RunArchive` implements `SessionLease` with the set of runs whose
process group is alive as the holders (`LeaseImplemented`).

Bounds.  A fold property is violated by a short sequence (gate in, gate out, one
more record), so 5 records over every row reach it; lint chains need a review, a
correction with reference and a further round.  Three publishes let two race
while a third has landed; one crash or one failed meta write already makes the
counter lag, a second adds nothing the next append does not repair.  Three lock
processes are a dead owner, a reclaimer and a third that creates anew; two deaths
let the reclaimer die under its guard.  Two stop calls are enough for one to take
over from one that died.  One launch per door lets every pair of doors race with
a third waiting.  Four records are a hand-over, an instruction, a marker and one
more that overtakes it; two events combine a stop, a restart, a foreign change or
a failed read with another.  Two launches of a lane are one in flight and one
behind it.  Two environment events let a service die and its pid be taken, or an
up be killed and a service be replaced by hand.  Two clients are the bridge's first
connection and the one after a recovery, three Hub events a Hub that goes, a foreign
one that takes its port and a Hub of ours elsewhere.  Two power losses tear a repaired
archive again, which is when names of evidence collide.  Three content records of a
lane bring the turn back to a role, which is when the fuse of an earlier turn may
still be armed; `Bound` in `MCTuiLane` keeps them apart from notes, done events and
the shutdown, which the theorems of `RigProofs` cover together.  Symmetry is used for
roles (`TuiLane`), tasks (`Herdr`), resumers and repairers (`RunArchive`), in runs
without liveness properties.

Deadlock checking is off where the system really stops: logs are bounded, every
call has ended, the run has ended.  It is on for `HeadlessLaunch`, where the
Notifier polls for ever.

Fairness.  Lock: a live process runs its call on; nobody has to call, to leave
its critical section or to die.  Stop protocols: the supervisor's loop runs, an
exit event is delivered, a deadline passes; nothing makes a process of the
command exit.  `HeadlessLaunch`: processes that did not crash go on, the Notifier
keeps polling, a supervisor publishes its run; `Acquire` is strongly fair:
`lockFile` polls every few milliseconds, holders keep the lock for one bounded
admission, and attempts are finite.  `HubDoors`: the fetch timeout settles a
request, whichever door it is at (one fairness condition for each call), the Hub
works off its queue, the bridge's schedule runs on; no Hub has to come back.  What
`CallSettles` shows beyond the timeouts is that the schedule ends: a request parked
behind a recovery is asked anew or fails with the bridge, however often the Hub goes
again during a handshake (its mutant forgets to count an attempt).  `BoardPage`: pollers and timers go on, and a request that is retried
again and again gets through in the end (strong fairness of the answers).

### Disagreements between the code and its docs

Two are kept as runs and listed under `findings` in `PROJECT.json`:

- `expected_version` is compared with the counter alone (`store.ts:224`), which a
  failed meta write leaves behind the records.
- A worker's note seen in the same poll as a hand-over makes the detached lane
  drop the hand-over (`engine.ts:555`, `detached-lane.ts:93`).

Others were met and shape what the passing runs assume:

- After a crash between a record and its counter, a publisher that rereads and
  retries as `skills/common.md:103-106` says conflicts until somebody publishes
  without `expected_version` (`store.ts:224`).
- A close that meets a reservation taken over from a CLI intent does not stop it
  (`runtime.ts:375`), although `design/standalone-host.md:193` says the close
  waits for the start and stops the run.  `CloseStopsRun` is about runs that are
  up and startups that hold the seat.
- A lock timeout leaves a seat without a run id (`runtime.ts:227`): the task
  counts as busy until another door launches or the Notifier restarts.
- A working signal has to read the log first when there is a wake note, or when a
  fuse of an earlier launch of the role is still armed; when the launcher returns
  during that read the signal is dropped and the fuse alarms falsely
  (`tui-lane.ts:560`, against the comments at 338-345 and 1180-1183).  A watch may
  also be cleared in place of the obsolete one that was judged
  (`tui-lane.ts:479-498`).
- `tui-lane.ts:730-735` says that no stale launch alarm is raised once the task has
  advanced, but only `waiting_for` is compared: the fuse of a launch whose turn came
  back to its role after another content record alarms in the later turn.
  `FuseTruthful` is about a launch in its own turn, without a wake note and without
  a fuse of an earlier launch.
- A tab whose creation could not be parsed is adopted by its label
  (`birth.ts:384`); with a label template that does not name the task this may be
  another task's tab, against `birth.ts:382-383`.  `MCHerdr` uses labels that
  name the task.
- When the Hub is dead and its Notifier lives, a standalone `up` moves to the next
  port pair, raises a second Notifier and forgets the first
  (`rig-discovery.ts:271-277`, against `standalone-up.ts:471` and
  `design/standalone-host.md:13`): `FactsKept` asks for a running Hub.  On herdr
  the same up fails loudly, and later ups refuse until the user closes the pane.
- `clear` (`record-lint.ts:36`) joins warnings by code and version, so in a log
  with a repeated version correcting one role's issue hides another's: the lint
  scene has logs the store wrote.
- A controlled second Enter can land in the wrong prompt: an old give-up event takes
  a later attempt's staged prompt for its own (`remediator.ts:82-84`), as above.
- `stdio-bridge.ts:71` says of the look before every fetch that "a restarted port may
  now be foreign"; a port that changes hands after the look is not noticed.
- The extension check of the fold cache (`fold-cache.ts:117`) trusts the version
  in a file's name: set `ForeignSkew` to `TRUE` in `Hub.cfg`.
- `log-cache.ts:204-212` says that a merge which missed a repeated version is
  evicted by the next tick at which attention has cleared.  `prev` there is the entry
  of the last snapshot alone: when the task spends that tick in the degraded list,
  `prev.tasks` has no entry for it, the clearing edge is not seen, and the record
  stays missing until another eviction.  Met while proving `GateReadsWholeLog`, which
  excepts it by `past.forgot`; it takes more events than the run allows.
- A reclaimer that dies under its guard directory blocks retirement for good;
  the code reports the lock as unverifiable and leaves it to a human.

## 4. Proofs

The theorems hold for every value of the constants that the named assumptions of
the modules allow: any number of processes, calls, records, faults and restarts.
Each proof has one lemma for the initial states, one for each action and each part
of the invariant that it touches, and one that the invariant gives the property.
The inductive invariants were checked by TLC before they were proved.

**`HubProofs`** of `TaskLog` and `RecordLint` (any log, payloads and foreign
versions): `LogStaysSound` (`LogSound`), `DecisionsHold` (`DecisionsStand`),
`SentBackIsRemembered` and `LintsAreSound` (`LintSound`).  The invariant `LInv` strengthens
`UnjudgedWorkIsFlagged` to "flagged by a *gate* warning", because any other warning
can be acknowledged away, and says that gate warnings carry the code
`OUT_OF_TABLE`, so that the lint layer, which edits warnings by code, cannot touch
them.  `IssuesMatchWarnings` is proved of `AppendSpec`: `clear` joins warnings by
code and version, so it needs that two issues of one code never share a version,
which a foreign record may break (section 3).  That the review is remembered needs
no such hypothesis.

Of `HubStore`: `StoreKeepsItsWord`, `RecordsAreWrittenOnce` (`NeverOverwrites`),
`StoreIsSafe` (`StoreSafe`), `OneMarkerLands` (`OneMarkerPerBase`).  `StoreInv` says
that the version of the append under way is above every name its directory listing
had and every record of the store, and that from its link on the record is there
under its writer.  `FoldInv` says that every cursor, cached, in an append or in a
reader, is the sorted list of the names of its token with the copies where the token
lists them; it needs `ForeignSkew = FALSE`, since the extension check trusts the
version in a file's name.  `OneMarkerLands` needs `CounterFollows`: no crash and no
failed meta write between a record and its counter (the run `Hub_stale_cas` shows
what happens with one), and no repair of a task that is still being created, which
would let the creation reset the counter.

**`RunControlProofs`**: `LockIsSafe` (`LockSafe`) and `RetirementIsSafe`;
`StopIsHonest` (`PosixStopHonest`) and `AnswerIsKept`, the two halves of
`SettledStays` being `RetirementIsSafe` and `AnswerIsKept`; `WindowsReportsAreHonest`
(`WindowsHonest`).  Exclusion is not inductive as it stands: a process between
creation and release is the one named by the file (or the file is still empty and
it is the one creation), a guard's holder is unique, and a process about to unlink
has a *raw* owner that is dead and is still what the file says: a dead owner cannot
publish anew, so the file cannot change under the guard.  For a stop on POSIX the
invariant says that whoever is about to report an end has seen the group gone, that
a controller works only on a pending request, and which signals may have been sent
at each phase: SIGTERM is passed over only when nobody is left to receive it.  On
Windows the log of attempts is behind the broker's count by at most the attempt
that is about to be sent.

**`RunArchiveProofs`**: `SessionIsLeased` (`LeaseImplemented`, the refinement of
`SessionLease`: initial states and every step), `DeadRunsAreRepaired`
(`OnlyTheDeadRepaired`), `EvidenceStays` (`EvidenceKept`).  What is inductive is not
that one run is alive but that one *may* live: a reserved or newborn run counts.
Such a run occupies the session through its meta or through its intent, except the
first, which may not show its session yet and is alone (`FirstAlone`); no file of it,
torn ones included, says that it ended; and an adoption between its two renames is
alone with a dead run.  Evidence is counted: each content has at least as many names
after a repair's step as before.

**`HeadlessLaunchProofs`**: `Admission` (`OneRunPerTask`), `VerdictStands`,
`AdmissionIsSound` (`AdmissionSound`), `TracesAreRight` (`TracesRight`).  `AInv` says
that a door inside the critical section is the lock's holder, that at most one
attempt occupies the task, a lost one included, and that what a resume found in the
archive still holds when it forks: it scans before it publishes its marker, and only
the lock keeps the archive as it was in between.  What a door knows of the log are
versions of a log that only grows (`Known`), so `/state` and the log, read one after
the other, agree with one version.  The seat is a fold over the archive (`syncNew`,
a recursive function): an induction over the *set* of directories seen shows that it
ends with the occupant, which is the newest directory.

**`RigProofs`** of `TuiLane`: `PanesAreArchivedFirst` (`ArchivedBeforeReap`),
`ChildrenTakeTurns` (`ChildrenInOrder`), `AlarmsAreTrue` (`FuseTruthful`),
`ClosedLaneIsQuiet` (`QuietAfterClose`).  `ChainWell`: the launches used so far are
numbered from 1, the chain of a role holds them in increasing order, and only its
head is past the queue.  `SweepsWell`: the registered barrier is the last sweep
begun, and what a round owed when it wrote its marker is awaited or over.  `LogWell`:
in a turn that no note has disturbed the marker is the newest record, and its role
is the one that the log and the snapshot wait for, so no second launch can be marked
in that turn.  `FuseWell`: a launch that was told of has its entry in flight removed,
its fuse spared or cleared, as long as its turn lasts and the lane is open; a call
that counts cannot be about a launch that was already alarmed.

Of `Power`: `DownIsHonest` (`DownHonest`) and `UpsTakeTurns` (`UpsInTurn`), for any
number of ups, downs, pids and events.  What makes a number in `power.json` safe to
kill is an invariant about facts (`FactIn`): a process that has the recorded token
leads its own group and is not foreign, because tokens are never given twice, a new
one is above every recorded one, and the health gate reads the token of a pid that
the call still holds; and whoever has the recorded session is in the recorded group,
because a child starts in the group of the one it inherits from.  It must hold of
every copy: in the file, in what a down has read, in the prior state and the new
facts of an up.  From it `StoppedMeansGone` is a matter of each service a down has
passed: its group was empty, so nobody had the token or the session, and none can
come to have them (`GoneIn`).  For the ups, the lock names its holder
(`LockIn`: who retires a lock found its owner dead, and the dead stay dead), and all
that a call raised is in the groups it reaps (`RaisedIn`), children of its services
included.  The proof needs the assumption `Resting` of section 2: `NoForeignSignal` is
about pids recycled at any time but between the check of a token and the signal.

**`DoorsProofs`**: `DoorsAreSound` (`DoorSound`) and `ScreenIsTruthful`
(`ScreenTruthful`).  For the doors: what landed is what a handler has done, and a
call that was not sent has no handler, so there is nothing to replay; every open or
connecting client is the one the session or the bridge names.  A call that was
checked found its own Hub at its port, and its bridge keeps it on that port; if
another workspace's Hub is there when the POST arrives, it came in between, and
`overtaken` has the call (`Overtakes`).  For the page: both
lists carry the latched root, and a request for the log starts at the cursor and its
answer leads one chunk further at most, so no chunk is shown twice or skipped.

**`NotifierProofs`**: `TurnsAreAnswered` (`TurnAnswered`), `GateIsWellRead`
(`GateReadsWholeLog`), `StopsStick` (`StopSticks`), `OneAlertPerStay`
(`AlertsOncePerStay`), `StallsAreReal` (`StallIsReal`), over `TypesHold`.  The parts
of the invariant build on each other.

- `AlertInv`: the presence flags follow the place of the last snapshot, whatever is
  not in `tasks[]` has no approval edge and no clock that can fire, and within a
  round the alert state is claimed only as far as the decision needs it.
- `CacheInv`: with no foreign change unseen, the cache is exactly the log up to its
  version (`Exact`).  An unseen change leaves it either ahead of the log or off only
  at repeated versions that attention still shows (`Off`, `Ahead`), so that the next
  snapshot evicts it or a later edge of attention does, unless that edge is lost
  (`forgot`).
- `StopInv`: after a round has seen the stop, no instruction from before it is
  remembered as one that stands alone (`HumanOk`), and none can be scanned any more:
  the boundary keeps it out, or it lies at or below every version a scan may start
  from (`LowOk`).  A record the cache still knows after it was taken back is older
  than the one that has its version now (`Phantoms`).  A plan at its marker was made
  on the log the marker lands on (`MarkOk`).
- For the answers: scans start at or below `upto`, the version up to which the
  rounds have dealt with the log (`UptoWell`); what the cache misses was dealt with,
  or the next snapshot still shows it (`TurnSound`), so a scan finds every
  instruction of its snapshot that is due (`ScanIsWhole`).  A round that sees a
  hand-over reads no new note of a worker: what the log has beyond the last snapshot
  names another role only if a content record came, and then no worker's note did
  (`ApartInv`); a note the cache still knows after it was taken back lies above every
  version the round scans (`GhostsAbove`, `HandOverAlone`); a scan that is carried on
  belongs to the same turn (`ScanSame`).  A wake that comes with a turn therefore
  belongs to an instruction, which is why the lane neither drops the launch nor
  refuses to park it (`Answered`).

`GateIsWellRead`, `StopsStick` and `TurnsAreAnswered` assume `Unwatched = FALSE`: a
foreign change and what reverses it are not both made between two polls, which no
poller could tell from no change.  `TurnsAreAnswered` also assumes
`Crowded = FALSE`: no poll finds a hand-over together with a note of a worker,
because the code then does drop the hand-over (the run `Notifier_worker_note`).
Notes of workers at any other moment are covered.  The proof found two things: the presence of an entry in
`humanWakeVersions` had been modelled as a version above 0, which made the model drop
a free candidate that the code launches, and the lost edge of attention of section 3.

**`HerdrProofs`** of `PromptDelivery`: `DeliveryIsHonest` (`DeliveryHonest`),
`MachineEntersOnce` (`MachineEnterOnce`), `NoMachineEnterIntoWork`
(`NoEnterIntoWork`), for any attempts, faults, events and handlers.  Where an attempt stands
says what it has sent and what may be in the pane (`WayInv`); its event comes after
it, with evidence that the Notifier accepts (`EventInv`); the handler at work is
alone and has claimed its event (`LaneInv`), so an attempt has at most one key, and
none before the handler that claimed it watches (`KeysInv`); a claimed event ends in
an alert, in work seen, or has its handler still at work (`ReportInv`); and a handler
close to its key has ruled out that its prompt is worked on, or a later one was typed
(`SeenInv`).  The step from the screen to that needs the order of the attempts
(`OrderInv`): what is submitted takes all that was staged with it, so a prompt that
is staged while an earlier one is worked on came later.

Of `SysPanes`: `SysPanesAreSingle` (`SysPanesSingle`).  Two panes of one label imply
an up that has still to look for duplicates, has failed or was killed (`TwinsInv`);
while every up takes the start lock, the one at work holds it, and the panes that its
list did not show are not there (`LockedInv`).

Of `PaneLife`: `ForeignPanesAreKept` (`ForeignPanesKept`), `OneTabIsMade`
(`OneTabPerLaunch`), `SeatsStayUnambiguous` (`SeatsUnambiguous`), for any tasks,
roles, launches, cleanups and failing commands.

- `PanesInv`: panes, tabs and lists, current or stale, go together by the label of
  those who made them; a list that a launch or cleanup acts on tells it of a pane
  whether it is of its own task.
- `TabsInv`: a launch that may still create a tab has made none.
- `SeatsInv`: where a launch stands tells which pane may sit at its key and how many
  faults it took to leave it there (`SeatOk`).  Steps of the others seat no pane under
  the key (`Tame`).

The theorems need that labels tell apart what is to be told apart: `TabsApart` (no
agent's tab is labelled as the system's), `TabsNameTasks` (the tabs of two tasks
never have one label), `TabsNameSeats` (nor those of two launches).  `OneTabIsMade`
needs the first alone, which the default template satisfies.  The default template
`TUT {role}` (`workspace.ts:39`) satisfies the others while one task is in flight; with
two, TLC finds both properties violated, because a launch whose creation failed with
effect adopts the other task's tab (section 3).  `SeatsUnambiguous` is about at most
two faults, and the bound is sharp: a rename that fails with effect, then the close
of the root pane, then the sweep's close leave two panes with one key.

Only model-checked: every liveness property (`RunsMakeProgress`, `LaunchesEnd`,
`CallSettles`, `PanelCatchesUp`: fairness is out of the prover's reach), and
`FactsKept` of `Power`, which holds for two ups and not for three: a Hub dies, its
Notifier lives, the next up moves to the second pair of ports, somebody starts a Hub
by hand on the first pair before the new Hub binds, and then two Hubs of the workspace
answer; a third up takes the one at the lower pair and writes `power.json` without the
other, which runs on unrecorded (TLC finds it with three ups, one death and one Hub
started by hand, in 44 states).

## 5. Plan

Next, in this order:

1. `FactsKept` for rigs with one Hub: the hypothesis has to follow which Hub each up
   has seen since it read the prior state.
2. Abstract specifications: `HubStore` implements an append-only log;
   `RunControl` and `WindowsRun` implement one stop service that answers once.
3. Completions and silence alerts of the headless runtime, `attachRun` on POSIX.

Not modelled, and why:

- Project scope and its probe, slugs, the sweep of temporary files: they decide
  where a task lives and what is refused, not what happens to it afterwards.
- The close audit, stats, doctor, preflight, live view, usage audit scripts:
  reports without state of their own.
- Command-line arguments, configuration, target resolution, checkouts, shell
  quoting, notification channels: parsing, formatting and I/O.
- `standalone/power/windows.ts`, the framing of the broker protocol and the
  session file of Pi on Windows: thin layers over external programs.
