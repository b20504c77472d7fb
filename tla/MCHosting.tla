----------------------------- MODULE MCHosting -----------------------------
(* An instance of Hosting for TLC *)
EXTENDS Hosting, TLC

CONSTANTS c1, c2, w

OneSession == Agents \X SessionIds
OneAtATime == [l \in Lanes |-> 1]
Symmetry == Permutations(Clients)
=============================================================================
