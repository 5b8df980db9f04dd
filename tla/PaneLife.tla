------------------------------- MODULE PaneLife -------------------------------
(***************************************************************************)
(* The life of the Herdr panes that agents work in: what one `tut launch`   *)
(* does to them.  Every launch of a (task, role) first looks for a live     *)
(* pane carrying its addressing key and continues there; otherwise it reaps *)
(* the task's finished panes and gives birth to a new one, in the root of a *)
(* tab of its own or, when that fails, by splitting the anchor pane.        *)
(* `tut launch --cleanup` closes all the panes of a task.                   *)
(*                                                                          *)
(* Launches of one (task, role) are queued behind each other by the         *)
(* Notifier (TuiLane); launches of different roles or tasks, and cleanups,  *)
(* run side by side.  Every step is one `herdr` child process, and any of   *)
(* them may fail, with or without having taken effect; the launcher itself  *)
(* may be killed by its parent's time limit.                                *)
(***************************************************************************)
EXTENDS Naturals, FiniteSets

CONSTANTS
  Tasks,            \* task ids
  Roles,            \* roles launched for a task
  continuityRoles,  \* the roles whose live panes are kept and continued
  TabLabels,        \* the values naming.tab_label renders to
  tab_label,        \* tab_label[t, r]: the label of the tab a launch creates
  MaxLaunches,      \* bound: launches and cleanups
  MaxFaults,        \* bound: failed herdr commands and killed launchers
  SweepRetries      \* TUT_ROOT_SWEEP_RETRIES

ASSUME ContinuityAssumption == continuityRoles \subseteq Roles
ASSUME TabLabelAssumption == tab_label \in [Tasks \X Roles -> TabLabels]

Keys == Tasks \X Roles           \* addressing keys "<task_id>.<role>"
Cleanups == Tasks \X {"cleanup"}
Lanes == Keys \union Cleanups
NoLabel == <<>>                  \* a pane nobody has named
SysTabLabel == <<"tut-sys">>     \* the label of the tab of the system panes
None == 0                        \* no pane, no tab

VARIABLES
  panes,     \* the panes Herdr has, by id
  anchors,   \* the system panes a launch may be anchored to
  lane,      \* lane[l]: the launch of key l in progress
  born,      \* the last pane id given out
  launches,  \* launches begun so far
  faults     \* faults so far

paneVars == <<panes, anchors, lane, born, launches, faults>>

-----------------------------------------------------------------------------
(* Herdr: a pane has a label, the tab it is in (named after the tab's first   *)
(* pane), that tab's label, and the status Herdr detects: "unknown" when it   *)
(* sees no agent, "working", or "idle" for any other live status (idle,       *)
(* blocked, done).  "agent" tells whether an agent process runs in it and     *)
(* "by" which launch created it.                                              *)

Statuses == {"idle", "working", "unknown"}

Shell(l, tab, tabLabel, s) ==
  [label |-> NoLabel, tab |-> tab, tabLabel |-> tabLabel, status |-> s, agent |-> FALSE, by |-> l]

InTab(ps, t) == {p \in DOMAIN ps : ps[p].tab = t}

(* paneIsAlive *)
paneIsAlive(pane) == pane.status # "unknown"

(* livePanesForLabel *)
livePanesForLabel(ps, l) == {p \in DOMAIN ps : ps[p].label = l /\ paneIsAlive(ps[p])}

isTaskPane_AnyTask(t, label) == label # NoLabel

(* isTaskPane: the label starts with the task's id *)
isTaskPane(t, label) == label # NoLabel /\ label[1] = t

(* planReap, mode "reap": what is neither working nor a live continuity seat. *)
(* A --fresh launch skips its own label, which it has closed by force.        *)
planReap(ps, l, fresh, continuity) ==
  {p \in DOMAIN ps :
     /\ isTaskPane(l[1], ps[p].label)
     /\ fresh => ps[p].label # l
     /\ ps[p].status # "working"
     /\ ~(paneIsAlive(ps[p]) /\ ps[p].label[2] \in continuity)}

(* planReap, mode "force": one role of the task, or all of them *)
planForce(ps, l) ==
  {p \in DOMAIN ps : IF l \in Cleanups THEN isTaskPane(l[1], ps[p].label) ELSE ps[p].label = l}

(* recoverableTab: a single root that nobody has named and where nothing runs *)
recoverableTab(ps, t) ==
  \E p \in DOMAIN ps : InTab(ps, t) = {p} /\ ps[p].label = NoLabel /\ ps[p].status = "idle"

NoList == [x \in {} |-> x]

Idle ==
  [pc |-> "idle", fresh |-> FALSE, continuity |-> {}, anchor |-> None, listed |-> FALSE, snap |-> NoList,
   close |-> {}, tabs |-> {}, tab |-> None, root |-> None, new |-> None, tries |-> 0, made |-> 0]

PaneInit ==
  /\ panes = NoList
  /\ anchors = {"tut-hub", "tut-notify"}
  /\ lane = [l \in Lanes |-> Idle]
  /\ born = 0
  /\ launches = 0
  /\ faults = 0

-----------------------------------------------------------------------------
(* Commands *)

At(l, pc) == lane[l].pc = pc
With(r, s) == [f \in DOMAIN r \union DOMAIN s |-> IF f \in DOMAIN s THEN s[f] ELSE r[f]]
MovesTo(l, pc) == lane' = [lane EXCEPT ![l].pc = pc]
Becomes(l, r) == lane' = [lane EXCEPT ![l] = With(lane[l], r)]
Ends(l) == lane' = [lane EXCEPT ![l] = Idle]

Works == faults' = faults
Fails == faults < MaxFaults /\ faults' = faults + 1

(* A command that changes a pane: it takes effect and says so, or fails with  *)
(* or without effect.  On a pane that is gone it can only fail.               *)
Commanded(p, effect, ok) ==
  \/ p \in DOMAIN panes /\ ok /\ Works /\ panes' = [panes EXCEPT ![p] = effect]
  \/ p \in DOMAIN panes /\ ~ok /\ Fails /\ panes' \in {panes, [panes EXCEPT ![p] = effect]}
  \/ p \notin DOMAIN panes /\ ~ok /\ Works /\ panes' = panes

(* pane close: nobody looks at what it answers *)
Closed(p) ==
  \/ Works /\ panes' = [q \in DOMAIN panes \ {p} |-> panes[q]]
  \/ Fails /\ panes' = panes

Renamed(p, l, ok) ==
  Commanded(p, IF p \in DOMAIN panes THEN [panes[p] EXCEPT !.label = l] ELSE NoLabel, ok)
Ran(p, ok) ==
  Commanded(p, IF p \in DOMAIN panes THEN [panes[p] EXCEPT !.agent = TRUE, !.status = "unknown"] ELSE NoLabel, ok)

(* A pane appears, with a shell that Herdr takes for idle or does not see. *)
Appears(l, tab, tabLabel) ==
  /\ born' = born + 1
  /\ \E s \in {"idle", "unknown"} :
       panes' = [p \in DOMAIN panes \union {born + 1} |->
                   IF p = born + 1 THEN Shell(l, tab, tabLabel, s) ELSE panes[p]]

(* tab create: a new tab with one empty root *)
CreatesTab(l) == Appears(l, born + 1, tab_label[l])

-----------------------------------------------------------------------------
(* The launch begins.  The anchor is picked once, from the hub's pane or else  *)
(* the notifier's; without one the launch is refused before it touches a pane. *)
(* An isolated worktree continues no pane: an old process cannot take on the   *)
(* environment that isolates it.                                               *)
(* Assumption (Settled): an agent that was started under this key has been     *)
(* detected, or is gone, before the next launch of the key.                    *)

selectAnchor == IF "tut-hub" \in anchors THEN "tut-hub" ELSE "tut-notify"

requireBirthAnchor == anchors # {}

Settled(l) == \A p \in DOMAIN panes : panes[p].label = l /\ panes[p].agent => paneIsAlive(panes[p])

Begin(l) ==
  /\ At(l, "idle") /\ requireBirthAnchor /\ Settled(l)
  /\ launches < MaxLaunches /\ launches' = launches + 1
  /\ \E fresh \in BOOLEAN, continuity \in {continuityRoles, {}} :
       Becomes(l, [fresh |-> fresh, continuity |-> continuity, anchor |-> selectAnchor,
                   pc |-> CASE fresh -> "fresh" [] ~fresh /\ l[2] \in continuity -> "continue" [] OTHER -> "reap"])
  /\ UNCHANGED <<panes, anchors, born, faults>>

BeginCleanup(l) ==
  /\ At(l, "idle")
  /\ launches < MaxLaunches /\ launches' = launches + 1
  /\ MovesTo(l, "fresh")
  /\ UNCHANGED <<panes, anchors, born, faults>>

(* Same-role continuation: exactly one live pane carries the key.  A list that *)
(* fails is simply tried again before the reap.                                *)
ContinueLive(l) ==
  /\ At(l, "continue")
  /\ \/ /\ Fails
        /\ MovesTo(l, "reap")
     \/ /\ Works
        /\ LET candidates == livePanesForLabel(panes, l)
           IN CASE Cardinality(candidates) > 1 -> Ends(l)
                [] Cardinality(candidates) = 1 ->
                     Becomes(l, [pc |-> "deliver", new |-> CHOOSE p \in candidates : TRUE])
                [] OTHER -> Becomes(l, [pc |-> "reap", listed |-> TRUE, snap |-> panes])
  /\ UNCHANGED <<panes, anchors, born, launches>>

(* --fresh, and cleanup: close by force what carries the key (the task's id). *)
ForceReap(l) ==
  /\ At(l, "fresh")
  /\ \/ Fails /\ Ends(l)
     \/ Works /\ Becomes(l, [pc |-> "forceClose", listed |-> TRUE, snap |-> panes, close |-> planForce(panes, l)])
  /\ UNCHANGED <<panes, anchors, born, launches>>

(* The next pane of a close plan; an attempted close makes the list stale *)
CloseNext(l) ==
  /\ lane[l].pc \in {"forceClose", "reapClose", "sweepClose", "sweepLast"}
  /\ \E p \in lane[l].close : Closed(p) /\ Becomes(l, [close |-> lane[l].close \ {p}, listed |-> FALSE])
  /\ UNCHANGED <<anchors, born, launches>>

(* listCurrent: the list at hand is good until a close was attempted; only a  *)
(* new one may fail, which ends the launch.                                   *)
listCurrent(l) == IF lane[l].listed THEN lane[l].snap ELSE panes

Unlisted(l) == ~lane[l].listed /\ Fails /\ Ends(l)

Forced(l) ==
  /\ At(l, "forceClose") /\ lane[l].close = {}
  /\ IF l \in Cleanups THEN Ends(l) ELSE MovesTo(l, "reap")
  /\ UNCHANGED <<panes, anchors, born, launches, faults>>

Reap(l) ==
  /\ At(l, "reap")
  /\ \/ LET ps == listCurrent(l)
        IN  Works /\ Becomes(l, [pc |-> "reapClose", listed |-> TRUE, snap |-> ps,
                                 close |-> planReap(ps, l, lane[l].fresh, lane[l].continuity)])
     \/ Unlisted(l)
  /\ UNCHANGED <<panes, anchors, born, launches>>

Survives_Fresh(ps, l) == ~lane[l].fresh /\ livePanesForLabel(ps, l) # {}

(* The survivor check: no second pane under a live key *)
Survives(ps, l) == livePanesForLabel(ps, l) # {}

Verify(l) ==
  /\ At(l, "reapClose") /\ lane[l].close = {}
  /\ \/ /\ Works
        /\ IF Survives(listCurrent(l), l) THEN Ends(l)
           ELSE Becomes(l, [pc |-> "create", fresh |-> FALSE, continuity |-> {}, listed |-> FALSE, snap |-> NoList])
     \/ Unlisted(l)
  /\ UNCHANGED <<panes, anchors, born, launches>>

-----------------------------------------------------------------------------
(* birthPane *)

(* tabCreateOutcome: only an exit code proves that no tab was made *)
MayHaveCreatedTab(outcome) == outcome \in {"unparsed", "signal"}

(* The answer names the tab and its root, or the tab alone, or cannot be       *)
(* parsed; or the command exits with an error, is killed by the time limit     *)
(* with or without effect, or could not be started.                            *)
TabCreate(l) ==
  /\ At(l, "create")
  /\ \/ /\ Works /\ CreatesTab(l)
        /\ Becomes(l, [pc |-> "rename", tab |-> born + 1, root |-> born + 1, made |-> 1])
     \/ /\ Works /\ CreatesTab(l)
        /\ Becomes(l, [pc |-> "findRoot", tab |-> born + 1, made |-> 1])
     \/ \E outcome \in {"unparsed", "signal", "exit"} :
          /\ Fails
          /\ \/ outcome # "exit" /\ CreatesTab(l)
             \/ outcome # "unparsed" /\ UNCHANGED <<panes, born>>
          /\ Becomes(l, [pc |-> IF MayHaveCreatedTab(outcome) THEN "tabs" ELSE "split", made |-> born' - born])
     \/ /\ Fails /\ UNCHANGED <<panes, born>>
        /\ Ends(l)
  /\ UNCHANGED <<anchors, launches>>

(* the pane a list shows in a tab *)
RootOf(t) == CHOOSE p \in InTab(panes, t) : TRUE

FindRoot(l) ==
  /\ At(l, "findRoot")
  /\ \/ Works /\ InTab(panes, lane[l].tab) # {} /\ Becomes(l, [pc |-> "rename", root |-> RootOf(lane[l].tab)])
     \/ Works /\ InTab(panes, lane[l].tab) = {} /\ MovesTo(l, "split")
     \/ Fails /\ MovesTo(l, "split")
  /\ UNCHANGED <<panes, anchors, born, launches>>

(* recoverTabId, first the tab list and then the pane list: the one tab with  *)
(* the label that is still pristine.  None, or more than one: the birth is    *)
(* refused.  "tabs" is the recovery of a first create, "tabs2" of a second.   *)
TabsLabelled(l) == {panes[p].tab : p \in {q \in DOMAIN panes : panes[q].tabLabel = tab_label[l]}}

RecoverTabs(l) ==
  /\ lane[l].pc \in {"tabs", "tabs2"}
  /\ \/ Fails /\ Ends(l)
     \/ Works /\ IF TabsLabelled(l) = {} THEN Ends(l)
                 ELSE Becomes(l, [pc |-> IF At(l, "tabs") THEN "recover" ELSE "recover2", tabs |-> TabsLabelled(l)])
  /\ UNCHANGED <<panes, anchors, born, launches>>

RecoverTab(l) ==
  /\ lane[l].pc \in {"recover", "recover2"}
  /\ LET qualified == {t \in lane[l].tabs : recoverableTab(panes, t)}
     IN \/ Fails /\ Ends(l)
        \/ Works /\ Cardinality(qualified) # 1 /\ Ends(l)
        \/ /\ Works /\ Cardinality(qualified) = 1
           /\ LET t == CHOOSE x \in qualified : TRUE
              IN Becomes(l, IF At(l, "recover") THEN [pc |-> "rename", tab |-> t, root |-> RootOf(t), tabs |-> {}]
                            ELSE [pc |-> "move", tab |-> t, tabs |-> {}])
  /\ UNCHANGED <<panes, anchors, born, launches>>

(* The root is adopted: named, then the agent started in it.  When either     *)
(* fails it is closed and the anchor split instead.                           *)
RenameRoot(l) ==
  /\ At(l, "rename")
  /\ \E ok \in BOOLEAN : Renamed(lane[l].root, l, ok) /\ MovesTo(l, IF ok THEN "run" ELSE "closeRoot")
  /\ UNCHANGED <<anchors, born, launches>>

RunRoot(l) ==
  /\ At(l, "run")
  /\ \E ok \in BOOLEAN :
       /\ Ran(lane[l].root, ok)
       /\ Becomes(l, IF ok THEN [pc |-> "born", new |-> lane[l].root] ELSE [pc |-> "closeRoot"])
  /\ UNCHANGED <<anchors, born, launches>>

CloseRoot(l) ==
  /\ At(l, "closeRoot")
  /\ Closed(lane[l].root)
  /\ MovesTo(l, "split")
  /\ UNCHANGED <<anchors, born, launches>>

(* pane split: the new pane opens in the anchor's own tab, which no launch     *)
(* ever looks into; the tab id None stands for it.                             *)
Split(l) ==
  /\ At(l, "split")
  /\ \/ /\ lane[l].anchor \in anchors /\ Works
        /\ Appears(l, None, SysTabLabel)
        /\ Becomes(l, [new |-> born + 1, pc |-> IF lane[l].tab = None THEN "create2" ELSE "move"])
     \/ /\ IF lane[l].anchor \in anchors THEN Fails ELSE Works
        /\ Ends(l)
        /\ UNCHANGED <<panes, born>>
  /\ UNCHANGED <<anchors, launches>>

(* The second create, only after the first certainly made no tab *)
SecondCreate(l) ==
  /\ At(l, "create2")
  /\ \/ Works /\ CreatesTab(l) /\ Becomes(l, [pc |-> "move", tab |-> born + 1, made |-> lane[l].made + 1])
     \/ Fails /\ CreatesTab(l) /\ Becomes(l, [pc |-> "tabs2", made |-> lane[l].made + 1])
     \/ Fails /\ UNCHANGED <<panes, born>> /\ MovesTo(l, "tabs2")
  /\ UNCHANGED <<anchors, launches>>

(* pane move, into a tab that still exists *)
Move(l) ==
  /\ At(l, "move")
  /\ LET t == lane[l].tab
         p == lane[l].new
         there == InTab(panes, t)
     IN \E ok \in BOOLEAN :
          /\ IF p \in DOMAIN panes /\ there # {}
             THEN Commanded(p, [panes[p] EXCEPT !.tab = t, !.tabLabel = panes[CHOOSE q \in there : TRUE].tabLabel], ok)
             ELSE ~ok /\ Works /\ UNCHANGED panes
          /\ IF ok THEN Becomes(l, [pc |-> "sweep", tries |-> 0]) ELSE Ends(l)
  /\ UNCHANGED <<anchors, born, launches>>

(* sweepTabRoots: everything in the tab but the new pane; a list that fails    *)
(* is tried again, a bounded number of times.                                  *)
Sweep(l) ==
  /\ At(l, "sweep")
  /\ \/ Works /\ Becomes(l, [pc |-> "sweepClose", close |-> InTab(panes, lane[l].tab) \ {lane[l].new}])
     \/ Fails /\ Becomes(l, IF lane[l].tries + 1 < SweepRetries THEN [tries |-> lane[l].tries + 1]
                            ELSE [pc |-> "sweepClose"])
  /\ UNCHANGED <<panes, anchors, born, launches>>

RenameNew(l) ==
  /\ At(l, "sweepClose") /\ lane[l].close = {}
  /\ \E ok \in BOOLEAN :
       Renamed(lane[l].new, l, ok) /\ IF ok THEN MovesTo(l, "runNew") ELSE Ends(l)
  /\ UNCHANGED <<anchors, born, launches>>

RunNew(l) ==
  /\ At(l, "runNew")
  /\ \E ok \in BOOLEAN :
       Ran(lane[l].new, ok) /\ IF ok THEN MovesTo(l, "sweepAgain") ELSE Ends(l)
  /\ UNCHANGED <<anchors, born, launches>>

SweepAgain(l) ==
  /\ At(l, "sweepAgain")
  /\ \/ Works /\ Becomes(l, [pc |-> "sweepLast", close |-> InTab(panes, lane[l].tab) \ {lane[l].new}])
     \/ Fails /\ MovesTo(l, "sweepLast")
  /\ UNCHANGED <<panes, anchors, born, launches>>

Birthed(l) ==
  /\ At(l, "sweepLast") /\ lane[l].close = {}
  /\ MovesTo(l, "born")
  /\ UNCHANGED <<panes, anchors, born, launches, faults>>

(* The prompt is delivered to the pane (PromptDelivery); a born pane must     *)
(* still be in the list.                                                      *)
DeliverPrompt(l) ==
  /\ lane[l].pc \in {"born", "deliver"}
  /\ Ends(l)
  /\ UNCHANGED <<panes, anchors, born, launches, faults>>

(* The parent's time limit kills the launcher wherever it is. *)
ChildKilled(l) ==
  /\ ~At(l, "idle")
  /\ Fails
  /\ Ends(l)
  /\ UNCHANGED <<panes, anchors, born, launches>>

-----------------------------------------------------------------------------
(* Agents and people *)

AgentMoves(p) ==
  /\ panes[p].agent
  /\ \E s \in {"idle", "working"} : panes' = [panes EXCEPT ![p].status = s]
  /\ UNCHANGED <<anchors, lane, born, launches, faults>>

AgentExits(p) ==
  /\ panes[p].agent
  /\ panes' = [panes EXCEPT ![p].agent = FALSE, ![p].status = "unknown"]
  /\ UNCHANGED <<anchors, lane, born, launches, faults>>

AnchorCloses ==
  /\ Fails
  /\ \E a \in anchors : anchors' = anchors \ {a}
  /\ UNCHANGED <<panes, lane, born, launches>>

Launch(l) ==
  \/ Begin(l) \/ ContinueLive(l) \/ Reap(l) \/ Verify(l)
  \/ TabCreate(l) \/ FindRoot(l) \/ RecoverTabs(l) \/ RecoverTab(l)
  \/ RenameRoot(l) \/ RunRoot(l) \/ CloseRoot(l)
  \/ Split(l) \/ SecondCreate(l) \/ Move(l)
  \/ Sweep(l) \/ RenameNew(l) \/ RunNew(l) \/ SweepAgain(l) \/ Birthed(l) \/ DeliverPrompt(l)

PaneNext ==
  \/ \E l \in Keys : Launch(l)
  \/ \E l \in Cleanups : BeginCleanup(l)
  \/ \E l \in Lanes : ForceReap(l) \/ CloseNext(l) \/ Forced(l) \/ ChildKilled(l)
  \/ \E p \in DOMAIN panes : AgentMoves(p) \/ AgentExits(p)
  \/ AnchorCloses

PaneSpec == PaneInit /\ [][PaneNext]_paneVars

-----------------------------------------------------------------------------
(* Properties *)

(* An addressing key stays unambiguous: however commands fail, launchers are   *)
(* killed, and reaps, sweeps and births of other roles interleave, no two live *)
(* panes carry the same label.  (More than one makes every later launch of the *)
(* role refuse: "multiple live panes carry addressing key".)                   *)
OneSeat == \A l \in Keys : Cardinality(livePanesForLabel(panes, l)) <= 1

(* A launch never makes a second tab: it creates one again only when the first *)
(* attempt certainly made none.                                                *)
OneTabPerLaunch == \A l \in Lanes : lane[l].made <= 1

(* Both halves of what rediscovery by label and by tab depends on.            *)
SeatsUnambiguous == OneSeat /\ OneTabPerLaunch

(* A launch or cleanup of one task never closes, renames or starts anything in *)
(* a pane that a launch of another task created, whatever snapshot it acts on. *)
ForeignPanesKept ==
  [][\A l \in Lanes : lane'[l] # lane[l] =>
       \A p \in DOMAIN panes : panes[p].by[1] # l[1] => p \in DOMAIN panes' /\ panes'[p] = panes[p]]_paneVars

=============================================================================
