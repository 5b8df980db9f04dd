---------------------------- MODULE SessionLease ----------------------------
(***************************************************************************)
(* What `tut resume` promises of a native agent session: at any time at    *)
(* most one run works on it, and it passes from one run to the next only   *)
(* through a moment in which nobody does.  RunArchive implements this with *)
(* files: metas, startup intents and the rig-wide admission lock.          *)
(***************************************************************************)
CONSTANT Runs

VARIABLE holders      \* the runs whose agent processes work on the session

Init == \E h \in SUBSET Runs : (\A r, s \in h : r = s) /\ holders = h

Take(r) == holders = {} /\ holders' = {r}

Leave(r) == r \in holders /\ holders' = holders \ {r}

Next == \E r \in Runs : Take(r) \/ Leave(r)

Spec == Init /\ [][Next]_holders
=============================================================================
