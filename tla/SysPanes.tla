------------------------------ MODULE SysPanes ------------------------------
(***************************************************************************)
(* `tut up` on the Herdr host (src/herdr/power/up.ts): the two system      *)
(* panes, tut-hub and tut-notify, and the services that run in them.       *)
(* Every up resolves the endpoints once, works on one snapshot of the      *)
(* panes and one probe of the event port, and only an up without --url     *)
(* holds the rig's start lock.                                             *)
(*                                                                         *)
(* A pane without its label is nobody else's business, so splitting it     *)
(* off, creating the tab, moving the pane and closing the tab's empty root *)
(* are one step.  Every other step is one herdr command or one probe.      *)
(* Pair i is the i-th Hub port of the discovery range and the event port   *)
(* next to it; both ports are called i, and 1 is the default.              *)
(***************************************************************************)
EXTENDS Naturals, FiniteSets, FiniteSetsExt

CONSTANTS Ups,        \* up commands
          MaxPair,    \* bound: port pairs
          MaxPanes,   \* bound: panes created
          MaxMishaps  \* bound: failed commands, killed ups, exits and closed panes

ASSUME UpAssumption == {MaxPair, MaxPanes, MaxMishaps} \subseteq Nat /\ "none" \notin Ups

VARIABLES
    sys,      \* the panes up created, by id: label, running service, its ports
    bound,    \* the panes whose service holds its port
    up,       \* each up command
    rigLock,  \* the up that holds the start lock, or none
    mishaps

sysVars == <<sys, bound, up, rigLock, mishaps>>

Services == {"hub", "notify"}
Pairs == 1..MaxPair
Default == 1
NotGiven == 0
NoPane == 0
Unlocked == "none"

Exits == {"ok", "manual", "failed", "killed"}

Fresh == [step |-> "idle", url |-> NotGiven, ask |-> NotGiven, hub |-> NotGiven, port |-> NotGiven, herdr |-> TRUE,
          snap |-> [k \in Services |-> NoPane], listening |-> FALSE, for |-> "hub", pane |-> NoPane]

\* The command line of an up: --url and --event-port, each given or not.
SysInit ==
    /\ sys = <<>> /\ bound = {} /\ rigLock = Unlocked /\ mishaps = 0
    /\ \E url, ask \in [Ups -> Pairs \cup {NotGiven}] :
          up = [u \in Ups |-> [Fresh EXCEPT !.url = url[u], !.ask = ask[u]]]

-----------------------------------------------------------------------------
Panes == DOMAIN sys

Labelled(k) == {p \in Panes : sys[p].label = k}

Running(k) == {p \in Panes : sys[p].service = k}

Hubs == {sys[p].hub : p \in bound \cap Running("hub")}

hubHealthy(hub) == hub \in Hubs

\* The notifiers that answer, each with the Hub it says it serves.
Notifiers == {[hub |-> sys[p].hub, port |-> sys[p].port] : p \in bound \cap Running("notify")}

notifyHealthy(hub, port) == [hub |-> hub, port |-> port] \in Notifiers

Stage(u, step) == up[u].step = step

Proceed(u, step) == up' = [up EXCEPT ![u].step = step]

\* finally: the lock is released, and a dead owner's is retired.
Exit(u, how) ==
    /\ Proceed(u, how)
    /\ rigLock' = IF rigLock = u THEN Unlocked ELSE rigLock

Mishap == mishaps < MaxMishaps /\ mishaps' = mishaps + 1

-----------------------------------------------------------------------------
UpLocks(u) ==
    /\ Stage(u, "idle")
    /\ IF up[u].url # NotGiven THEN Proceed(u, "resolve") /\ UNCHANGED rigLock
       ELSE IF rigLock = Unlocked THEN Proceed(u, "resolve") /\ rigLock' = u
       ELSE Exit(u, "failed")
    /\ UNCHANGED <<sys, bound, mishaps>>

Pair(hub, port) == {[hub |-> hub, port |-> port]}

Given(ask, fallback) == IF ask = NotGiven THEN fallback ELSE ask

\* The Hub's own notifier, if it is the one asked for and the only one; a
\* notifier of the workspace that serves another Hub is a refusal.
NotifierOf(hub, ask, fallback) ==
    LET owned == {n \in Notifiers : n.hub = hub}
    IN  IF owned # {} THEN IF Cardinality(owned) = 1 /\ \A n \in owned : ask \in {NotGiven, n.port} THEN owned ELSE {}
        ELSE IF Notifiers # {} THEN {}
        ELSE Pair(hub, Given(ask, fallback))

\* The first pair nobody listens on.
FreePair(ask) ==
    LET free == {i \in Pairs : ~hubHealthy(i) /\ \A n \in Notifiers : n.port # Given(ask, i)}
    IN  IF free = {} THEN {} ELSE Pair(Min(free), Given(ask, Min(free)))

\* resolveUpHub and the ownership check after it: at most one pair of endpoints.
Endpoints(u) ==
    IF up[u].url # NotGiven THEN NotifierOf(up[u].url, up[u].ask, Default)
    ELSE IF hubHealthy(Default) THEN NotifierOf(Default, up[u].ask, Default)
    ELSE IF Hubs # {} THEN NotifierOf(Min(Hubs), up[u].ask, Min(Hubs))
    ELSE FreePair(up[u].ask)

UpResolves(u) ==
    /\ Stage(u, "resolve")
    /\ IF Endpoints(u) = {} THEN Exit(u, "failed")
       ELSE /\ \E e \in Endpoints(u) : up' = [up EXCEPT ![u].step = "list", ![u].hub = e.hub, ![u].port = e.port]
            /\ UNCHANGED rigLock
    /\ UNCHANGED <<sys, bound, mishaps>>

\* The snapshot takes the first pane with the label; without a usable herdr
\* the commands are printed for the user to run.
UpLists(u) ==
    /\ Stage(u, "list")
    /\ \/ /\ \E snap \in [Services -> Panes \cup {NoPane}] :
                /\ \A k \in Services : snap[k] \in (IF Labelled(k) = {} THEN {NoPane} ELSE Labelled(k))
                /\ up' = [up EXCEPT ![u].step = "probe", ![u].snap = snap]
          /\ UNCHANGED mishaps
       \/ Mishap /\ up' = [up EXCEPT ![u].step = "probe", ![u].herdr = FALSE]
    /\ UNCHANGED <<sys, bound, rigLock>>

\* The pre-flight: the probe of the event port is kept for later, and a pane
\* that hosts a notifier on the default port is not taken for a dead one.
Occupied(u) ==
    /\ up[u].port # Default /\ notifyHealthy(up[u].hub, Default) /\ ~notifyHealthy(up[u].hub, up[u].port)
    /\ up[u].herdr /\ up[u].snap["notify"] # NoPane

UpProbes(u) ==
    /\ Stage(u, "probe")
    /\ IF Occupied(u) THEN Exit(u, "failed")
       ELSE /\ up' = [up EXCEPT ![u].step = "hub", ![u].listening = notifyHealthy(up[u].hub, up[u].port)]
            /\ UNCHANGED rigLock
    /\ UNCHANGED <<sys, bound, mishaps>>

-----------------------------------------------------------------------------
(***************************************************************************)
(* provisionSysPane: the labelled pane of the snapshot is run in again; a  *)
(* new pane is labelled before the service starts in it.                   *)
(***************************************************************************)
Reusable(u, k) == up[u].snap[k]

Provision(u, k) ==
    up' = [up EXCEPT ![u].for = k, ![u].pane = Reusable(u, k),
                     ![u].step = IF Reusable(u, k) = NoPane THEN "place" ELSE "run"]

UpStepHub(u) ==
    /\ Stage(u, "hub")
    /\ IF hubHealthy(up[u].hub) \/ ~up[u].herdr THEN Proceed(u, "notify") ELSE Provision(u, "hub")
    /\ UNCHANGED <<sys, bound, rigLock, mishaps>>

UpStepNotify(u) ==
    /\ Stage(u, "notify")
    /\ IF up[u].listening \/ ~up[u].herdr THEN Proceed(u, "final") ELSE Provision(u, "notify")
    /\ UNCHANGED <<sys, bound, rigLock, mishaps>>

UpPlaces(u) ==
    /\ Stage(u, "place") /\ Cardinality(Panes) < MaxPanes
    /\ LET new == Cardinality(Panes) + 1
       IN  /\ sys' = [p \in 1..new |-> IF p = new THEN [label |-> "none", service |-> "none", hub |-> NotGiven, port |-> NotGiven]
                                      ELSE sys[p]]
           /\ up' = [up EXCEPT ![u].step = "rename", ![u].pane = new]
    /\ UNCHANGED <<bound, rigLock, mishaps>>

UpRenames(u) ==
    /\ Stage(u, "rename")
    /\ sys' = [sys EXCEPT ![up[u].pane].label = up[u].for]
    /\ Proceed(u, "run")
    /\ UNCHANGED <<bound, rigLock, mishaps>>

\* pane run into a pane whose service still runs is swallowed, and herdr
\* reports ok; a closed pane is an error.
UpRuns(u) ==
    /\ Stage(u, "run")
    /\ LET p == up[u].pane
       IN  IF sys[p].label = "closed" THEN Exit(u, "failed") /\ UNCHANGED sys
           ELSE /\ Proceed(u, "wait") /\ UNCHANGED rigLock
                /\ sys' = IF sys[p].service # "none" THEN sys
                          ELSE [sys EXCEPT ![p] = [@ EXCEPT !.service = up[u].for, !.hub = up[u].hub, !.port = up[u].port]]
    /\ UNCHANGED <<bound, mishaps>>

\* Spawned is not serving: the report waits for the port, whoever answers there.
Answers(u) == IF up[u].for = "hub" THEN hubHealthy(up[u].hub) ELSE notifyHealthy(up[u].hub, up[u].port)

UpWaits(u) ==
    /\ Stage(u, "wait")
    /\ \/ Answers(u) /\ Proceed(u, IF up[u].for = "hub" THEN "notify" ELSE "final") /\ UNCHANGED rigLock
       \/ ~Answers(u) /\ Exit(u, "failed")
    /\ UNCHANGED <<sys, bound, mishaps>>

-----------------------------------------------------------------------------
\* Mutant: success is reported without a second look.
Duplicated_Never == FALSE

Duplicated == \E k \in Services : Cardinality(Labelled(k)) > 1

\* Before it reports success up lists the panes again.
UpReports(u) ==
    /\ Stage(u, "final")
    /\ Exit(u, IF ~up[u].herdr THEN "manual" ELSE IF Duplicated THEN "failed" ELSE "ok")
    /\ UNCHANGED <<sys, bound, mishaps>>

\* A herdr command fails, with or without its effect, or up is killed.
UpStops(u) ==
    /\ up[u].step \notin Exits \cup {"idle"} /\ Mishap
    /\ \/ Exit(u, "killed") /\ UNCHANGED sys
       \/ /\ Stage(u, "rename") /\ Exit(u, "failed")
          /\ sys' \in {sys, [sys EXCEPT ![up[u].pane].label = up[u].for]}
       \/ up[u].step \in {"place", "run", "final"} /\ Exit(u, "failed") /\ UNCHANGED sys
    /\ UNCHANGED bound

-----------------------------------------------------------------------------
(***************************************************************************)
(* The services and the user.  A service that finds its port taken exits.  *)
(***************************************************************************)
Taken(p) ==
    IF sys[p].service = "hub" THEN sys[p].hub \in Hubs ELSE \E n \in Notifiers : n.port = sys[p].port

ServiceBinds(p) ==
    /\ sys[p].service # "none" /\ p \notin bound
    /\ IF Taken(p) THEN sys' = [sys EXCEPT ![p].service = "none"] /\ UNCHANGED bound
       ELSE bound' = bound \cup {p} /\ UNCHANGED sys
    /\ UNCHANGED <<up, rigLock, mishaps>>

ServiceExits(p) ==
    /\ sys[p].service # "none" /\ Mishap
    /\ sys' \in {[sys EXCEPT ![p].service = "none"],
                 [sys EXCEPT ![p] = [@ EXCEPT !.service = "none", !.label = "closed"]]}
    /\ bound' = bound \ {p}
    /\ UNCHANGED <<up, rigLock>>

-----------------------------------------------------------------------------
UpStep(u) ==
    \/ UpLocks(u) \/ UpResolves(u) \/ UpLists(u) \/ UpProbes(u) \/ UpStepHub(u) \/ UpStepNotify(u)
    \/ UpPlaces(u) \/ UpRenames(u) \/ UpRuns(u) \/ UpWaits(u) \/ UpReports(u) \/ UpStops(u)

SysNext == (\E u \in Ups : UpStep(u)) \/ (\E p \in Panes : ServiceBinds(p) \/ ServiceExits(p))

SysSpec == SysInit /\ [][SysNext]_sysVars

\* Two panes with one label never pass in silence: whatever two ups did to each
\* other, one of them has failed or is still at work.  And as long as every up
\* takes the start lock, whichever of them dies, there is one pane per label
\* and one service of each kind.
SysPanesSingle ==
    /\ (\A u \in Ups : up[u].step \in {"idle", "ok", "manual"}) => \A k \in Services : Cardinality(Labelled(k)) <= 1
    /\ (\A u \in Ups : up[u].url # NotGiven => Stage(u, "idle")) =>
          \A k \in Services : Cardinality(Labelled(k)) <= 1 /\ Cardinality(Running(k)) <= 1
=============================================================================
