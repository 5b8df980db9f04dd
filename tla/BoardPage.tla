----------------------------- MODULE BoardPage -----------------------------
(***************************************************************************)
(* The board: the page of board-client.ts in a browser, and the read-only  *)
(* routes it lives on (/state, /runs, /tasks/:id/versions, /runs/:id/log). *)
(*                                                                         *)
(* Two pollers refresh the task list and the run list; the detail panel    *)
(* follows the selected task: a live task shows the log of its newest run, *)
(* read chunk by chunk from a cursor, any other task shows its records.    *)
(* Every request is sent, answered by the Hub and delivered in separate    *)
(* steps, and may fail instead; a response that belongs to a stopped       *)
(* poller or a stopped panel is ignored by the page and not modelled.      *)
(*                                                                         *)
(* A log is a number of bytes and a chunk at most one byte.  A truncated   *)
(* log does not grow again (the Hub could not tell it from an append).     *)
(* Task and run ids are unique to a workspace.                             *)
(***************************************************************************)
EXTENDS Integers, Sequences

CONSTANTS
  Tasks,       \* the tasks of the workspace
  MaxVersion,  \* bound: records of a task
  MaxRuns,     \* bound: runs of a task
  MaxLog,      \* bound: bytes of a log
  MaxSwaps,    \* bound: times the port changes hands
  MaxActs,     \* bound: times the page is hidden or the log reloaded
  NoTask

VARIABLES
  served,      \* the workspace whose Hub answers on the port
  swaps,
  task,        \* task[t]: what the Hub's store says of t
  log,         \* log[t][r]: bytes in the log of t's run r
  cut,         \* the logs that were truncated
  page,        \* hubRoot, rootChanged, suspended, selected and the acts so far
  poll,        \* poll[k]: the answer under way to poller k, or NoSnapshot
  snap,        \* snap[k]: the snapshot poller k has accepted
  detail       \* the detail panel

world == <<served, swaps, task, log, cut>>
boardVars == <<served, swaps, task, log, cut, page, poll, snap, detail>>

Kinds == {"tasks", "runs"}
Live(t) == task[t].live

(* An answer: what came back, and the next cursor or the version.          *)
NoAnswer == [is |-> "none", at |-> 0]
NoSnapshot == [root |-> "none", view |-> <<>>]

NoDetail == [id |-> NoTask, live |-> FALSE, run |-> 0, pc |-> "idle", ask |-> 0, ans |-> NoAnswer,
             cursor |-> 0, shown |-> <<>>, data |-> 0, stopped |-> FALSE, retry |-> FALSE]

(* The page has been loaded, or loaded and put away again.                 *)
BoardStart(hidden) ==
  /\ served \in {"home", "other"} /\ swaps = 0
  /\ \E live \in BOOLEAN : task = [t \in Tasks |-> [live |-> live, version |-> 1, run |-> 0]]
  /\ log = [t \in Tasks |-> [r \in 1 .. MaxRuns |-> 0]]
  /\ cut = {}
  /\ page = [root |-> "none", changed |-> FALSE, suspended |-> hidden, sel |-> NoTask, acts |-> 0]
  /\ poll = [k \in Kinds |-> NoSnapshot]
  /\ snap = [k \in Kinds |-> NoSnapshot]
  /\ detail = NoDetail

BoardInit == BoardStart(FALSE)

-----------------------------------------------------------------------------
(* What the Hub and the agents do meanwhile.                               *)

TaskMoves(t) ==
  /\ task[t].version < MaxVersion
  /\ \E live \in BOOLEAN : task' = [task EXCEPT ![t].version = @ + 1, ![t].live = live]
  /\ UNCHANGED <<served, swaps, log, cut, page, poll, snap, detail>>

RunStarts(t) ==
  /\ Live(t) /\ task[t].run < MaxRuns
  /\ task' = [task EXCEPT ![t].run = @ + 1]
  /\ UNCHANGED <<served, swaps, log, cut, page, poll, snap, detail>>

LogGrows(t) ==
  LET r == task[t].run IN
  /\ r > 0 /\ <<t, r>> \notin cut /\ log[t][r] < MaxLog
  /\ log' = [log EXCEPT ![t][r] = @ + 1]
  /\ UNCHANGED <<served, swaps, task, cut, page, poll, snap, detail>>

LogCut(t) ==
  LET r == task[t].run IN
  /\ r > 0 /\ log[t][r] > 0 /\ cut = {}
  /\ log' = [log EXCEPT ![t][r] = 0]
  /\ cut' = {<<t, r>>}
  /\ UNCHANGED <<served, swaps, task, page, poll, snap, detail>>

PortSwapped ==
  /\ swaps < MaxSwaps
  /\ swaps' = swaps + 1
  /\ served' = IF served = "home" THEN "other" ELSE "home"
  /\ UNCHANGED <<task, log, cut, page, poll, snap, detail>>

-----------------------------------------------------------------------------
(* The detail panel.                                                       *)

Active == ~page.suspended /\ ~page.changed

(* A new panel starts from byte 0 with an empty screen.                    *)
FreshDetail_OldCursor(d, t, live, run) ==
  [NoDetail EXCEPT !.id = t, !.live = live, !.run = run, !.cursor = d.cursor]

FreshDetail(d, t, live, run) == [NoDetail EXCEPT !.id = t, !.live = live, !.run = run]

(* latestRun of the accepted run list; no list, no run.                    *)
latestRun(sn, t) == IF t \notin DOMAIN sn["runs"].view THEN 0 ELSE sn["runs"].view[t]

pollLog(d) == [d EXCEPT !.pc = "busy", !.ask = d.cursor]

(* The records are asked for at the version the task list shows.           *)
pollRecords(d, version) == [d EXCEPT !.pc = "busy", !.ask = version]

NeedsRecords_Once(d, version) == d.data = 0

NeedsRecords(d, version) == d.data # version

syncDetail(d, sn, sel) ==
  IF sel \notin DOMAIN sn["tasks"].view THEN NoDetail
  ELSE
    LET t == sn["tasks"].view[sel]
        run == IF t.live THEN latestRun(sn, sel) ELSE 0
        kept == d.id = sel /\ d.live = t.live /\ d.run = run /\ ~d.stopped
        e == IF kept THEN d ELSE FreshDetail(d, sel, t.live, run)
    IN IF t.live THEN IF run # 0 /\ e.pc = "idle" THEN pollLog(e) ELSE e
       ELSE IF e.pc = "idle" /\ NeedsRecords(e, t.version) THEN pollRecords(e, t.version) ELSE e

stopDetail(d) == IF d = NoDetail THEN d ELSE [d EXCEPT !.stopped = TRUE, !.pc = "idle", !.ans = NoAnswer, !.ask = 0]

-----------------------------------------------------------------------------
(* The pollers.                                                            *)

(* handleState, RunReadStore.snapshot: one consistent view per request.    *)
(* Our tasks do not exist in another workspace.                            *)
handleState == [t \in Tasks |-> [live |-> task[t].live, version |-> task[t].version]]
snapshot == [t \in Tasks |-> task[t].run]

Reply(k) ==
  [root |-> served,
   view |-> IF served # "home" THEN <<>> ELSE IF k = "tasks" THEN handleState ELSE snapshot]

PollServed(k) ==
  /\ ~page.suspended /\ poll[k] = NoSnapshot
  /\ poll' = [poll EXCEPT ![k] = Reply(k)]
  /\ UNCHANGED <<world, page, snap, detail>>

(* acceptRoot: the first answer decides the root of the page; another root *)
(* latches rootChanged, and the panel stops for good.                      *)
acceptRoot(root) == ~page.changed /\ page.root \in {"none", root}

PollDone(k) ==
  /\ poll[k] # NoSnapshot
  /\ poll' = [poll EXCEPT ![k] = NoSnapshot]
  /\ IF acceptRoot(poll[k].root)
     THEN /\ page' = [page EXCEPT !.root = poll[k].root]
          /\ snap' = [snap EXCEPT ![k] = poll[k]]
          /\ detail' = syncDetail(detail, snap', page.sel)
     ELSE /\ page' = [page EXCEPT !.changed = TRUE]
          /\ detail' = stopDetail(detail)
          /\ UNCHANGED snap
  /\ UNCHANGED world

(* A poll that fails or runs into its deadline keeps the snapshot; the     *)
(* update syncs the panel all the same.                                    *)
PollFails(k) ==
  /\ ~page.suspended
  /\ poll' = [poll EXCEPT ![k] = NoSnapshot]
  /\ detail' = IF Active THEN syncDetail(detail, snap, page.sel) ELSE detail
  /\ UNCHANGED <<world, page, snap>>

-----------------------------------------------------------------------------
(* The panel's requests.                                                   *)

Open == detail # NoDetail /\ ~detail.stopped

(* pollLog's timer.                                                        *)
LogTimer ==
  /\ Open /\ detail.pc = "timer" /\ Active
  /\ detail' = pollLog(detail)
  /\ UNCHANGED <<world, page, poll, snap>>

(* readLogRange: a cursor beyond the size is refused; otherwise at most one*)
(* chunk up to the size seen by this request.                              *)
readLogRange(t, r, from) ==
  IF from > log[t][r] THEN [is |-> "416", at |-> 0]
  ELSE [is |-> "ok", at |-> IF from < log[t][r] THEN from + 1 ELSE from]

(* handleKibitzRead: ids of another workspace are not found.               *)
handleKibitzRead ==
  /\ Open /\ detail.pc = "busy" /\ detail.ans = NoAnswer
  /\ detail' = [detail EXCEPT !.ans =
       IF served # "home" THEN [is |-> "404", at |-> 0]
       ELSE IF detail.live THEN readLogRange(detail.id, detail.run, detail.ask)
       ELSE [is |-> "ok", at |-> task[detail.id].version]]
  /\ UNCHANGED <<world, page, poll, snap>>

Answered == Open /\ detail.pc = "busy" /\ detail.ans # NoAnswer

appendLog(d) == IF d.ans.at > d.ask THEN Append(d.shown, d.ask) ELSE d.shown

(* A chunk counts only when it starts at the cursor; a refused range halts *)
(* the panel until somebody reloads it.                                    *)
LogDone ==
  /\ Answered /\ detail.live /\ detail.ans.is # "404"
  /\ detail' =
       IF detail.ans.is = "416" THEN [detail EXCEPT !.pc = "halted", !.ans = NoAnswer, !.ask = 0]
       ELSE [detail EXCEPT !.pc = "timer", !.ans = NoAnswer, !.ask = 0,
               !.cursor = detail.ans.at, !.shown = appendLog(detail)]
  /\ UNCHANGED <<world, page, poll, snap>>

(* The records count only when they are the version that was asked for.    *)
RecordsDone ==
  /\ Answered /\ ~detail.live /\ detail.ans.is # "404"
  /\ detail' = [detail EXCEPT !.pc = "idle", !.ans = NoAnswer, !.ask = 0,
       !.data = IF detail.ans.at = detail.ask THEN detail.ask ELSE @,
       !.retry = detail.ans.at # detail.ask]
  /\ UNCHANGED <<world, page, poll, snap>>

(* A failed request keeps the cursor and the data, and is tried again.     *)
RequestFails ==
  /\ Open /\ detail.pc = "busy"
  /\ detail' = [detail EXCEPT !.pc = IF detail.live THEN "timer" ELSE "idle",
                  !.ans = NoAnswer, !.ask = 0, !.retry = ~detail.live]
  /\ UNCHANGED <<world, page, poll, snap>>

-----------------------------------------------------------------------------
(* The user and the browser.                                               *)

(* hashchange; choosing another bucket clears the hash.                    *)
Select(t) ==
  /\ t # page.sel
  /\ page' = [page EXCEPT !.sel = t]
  /\ detail' = IF Active THEN syncDetail(detail, snap, t) ELSE detail
  /\ UNCHANGED <<world, poll, snap>>

Reload ==
  /\ Open /\ detail.live /\ Active /\ page.acts < MaxActs
  /\ page' = [page EXCEPT !.acts = @ + 1]
  /\ detail' = syncDetail(NoDetail, snap, page.sel)
  /\ UNCHANGED <<world, poll, snap>>

(* tick: a records panel whose retry is due is synced.                     *)
tick ==
  /\ Open /\ Active /\ ~detail.live /\ detail.retry
  /\ detail' = syncDetail(detail, snap, page.sel)
  /\ UNCHANGED <<world, page, poll, snap>>

PageHide ==
  /\ ~page.suspended /\ page.acts < MaxActs
  /\ page' = [page EXCEPT !.suspended = TRUE, !.acts = @ + 1]
  /\ poll' = [k \in Kinds |-> NoSnapshot]
  /\ detail' = stopDetail(detail)
  /\ UNCHANGED <<world, snap>>

PageShow ==
  /\ page.suspended
  /\ page' = [page EXCEPT !.suspended = FALSE]
  /\ UNCHANGED <<world, poll, snap, detail>>

-----------------------------------------------------------------------------
HubSide ==
  \/ \E t \in Tasks : TaskMoves(t) \/ RunStarts(t) \/ LogGrows(t) \/ LogCut(t)
  \/ PortSwapped

PageSide ==
  \/ \E k \in Kinds : PollServed(k) \/ PollDone(k) \/ PollFails(k)
  \/ LogTimer \/ handleKibitzRead \/ LogDone \/ RecordsDone \/ RequestFails
  \/ (\E t \in Tasks \cup {NoTask} : Select(t)) \/ Reload \/ tick \/ PageHide \/ PageShow

BoardNext == HubSide \/ PageSide

(* The pollers and the panel's timers go on, and a request that is retried *)
(* again and again gets through in the end.                                *)
BoardFairness ==
  /\ \A k \in Kinds : WF_boardVars(PollServed(k)) /\ SF_boardVars(PollDone(k))
  /\ WF_boardVars(LogTimer \/ tick)
  /\ SF_boardVars(handleKibitzRead) /\ SF_boardVars(LogDone \/ RecordsDone)

BoardSpec == BoardInit /\ [][BoardNext]_boardVars /\ BoardFairness

-----------------------------------------------------------------------------
(* The screen never mixes: both lists come from the root of the page, and  *)
(* the panel shows the bytes of its run's log from the first to the cursor,*)
(* each exactly once, however requests were answered, failed, repeated,    *)
(* stopped by a hidden page or overtaken by a new run.                     *)
ScreenTruthful ==
  /\ \A k \in Kinds : snap[k] # NoSnapshot => snap[k].root = page.root
  /\ detail.shown = [i \in 1 .. detail.cursor |-> i - 1]

(* A panel left open catches up: once the task rests and the page stays    *)
(* open on it, the panel shows the records of the task's last version, or  *)
(* the whole log of its newest run unless a truncation halted it.          *)
PanelCatchesUp ==
  \A t \in Tasks :
    <>[](Active /\ page.sel = t /\ served = "home" /\ page.root = "home")
      => <>[](/\ detail.id = t /\ ~detail.stopped
              /\ ~Live(t) => detail.data = task[t].version
              /\ Live(t) /\ task[t].run # 0 =>
                   detail.pc = "halted" \/ detail.cursor = log[t][task[t].run])
=============================================================================
