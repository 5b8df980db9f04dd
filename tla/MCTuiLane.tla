----------------------------- MODULE MCTuiLane -----------------------------
(* The herdr lane with two interchangeable roles. *)
EXTENDS TuiLane, TLC

Symmetry == Permutations(Roles)

\* The turn comes back to a role only where no note, done event or shutdown disturbs it.
Bound == hub.contents > 1 => hub.notes = 0 /\ sweeps.last = 0 /\ ~lane.closed

MCSpec == Init /\ [][Next /\ Bound']_vars
=============================================================================
