----------------------------- MODULE MCHubDoors -----------------------------
(* The doors of the Hub and the board page share the Hub's HTTP server but *)
(* no state: a behaviour is one of the doors or one of the board.          *)
EXTENDS HubDoors, BoardPage, TLC

VARIABLE side

mcVars == <<vars, boardVars, side>>

MCInit ==
  \/ side = "doors" /\ Init /\ BoardStart(TRUE) /\ served = "home"
     /\ \A t \in Tasks : Live(t)
  \/ side = "board" /\ Init /\ door = "cli" /\ BoardInit

MCNext ==
  \/ side = "doors" /\ Next /\ UNCHANGED <<boardVars, side>>
  \/ side = "board" /\ BoardNext /\ UNCHANGED <<vars, side>>

(* On either side every fair action of the other is disabled.              *)
MCSpec == MCInit /\ [][MCNext]_mcVars /\ Fairness /\ BoardFairness
=============================================================================
