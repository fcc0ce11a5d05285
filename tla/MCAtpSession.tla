---------------------------- MODULE MCAtpSession ----------------------------
(* AtpSession on a small instance: the numbers of deliveries and requests *)
(* and the largest session iteration are bounded.                         *)
EXTENDS AtpSession, TLC

Symmetry == Permutations(Callback) \cup Permutations(Request)
=============================================================================
