------------------------------ MODULE MCHerdr ------------------------------
(* The parts of the Herdr host: a behaviour is one of the prompt delivery,  *)
(* of the panes of two tasks, or of the system panes.  They share herdr and *)
(* no state of their own.                                                   *)
EXTENDS PromptDelivery, PaneLife, SysPanes, TLC

CONSTANTS t1, t2

(* naming.tab_label names the task.                                         *)
MCTabLabel == [k \in Tasks \X Roles |-> k]
MCTabLabels == Tasks \X Roles

(* Tasks are interchangeable in every action and property.                 *)
Interchangeable == Permutations(Tasks)

VARIABLE part

mcVars == <<vars, paneVars, sysVars, part>>

MCInit ==
  /\ Init /\ PaneInit /\ SysInit /\ part \in {"delivery", "panes", "system"}
  /\ part # "delivery" => ~pane.codex
  /\ part # "system" => \A u \in Ups : up[u] = Fresh

DeliveryPart == part = "delivery" /\ Next /\ UNCHANGED <<paneVars, sysVars, part>>

PanesPart == part = "panes" /\ PaneNext /\ UNCHANGED <<vars, sysVars, part>>

SystemPart == part = "system" /\ SysNext /\ UNCHANGED <<vars, paneVars, part>>

MCSpec == MCInit /\ [][DeliveryPart \/ PanesPart \/ SystemPart]_mcVars
=============================================================================
