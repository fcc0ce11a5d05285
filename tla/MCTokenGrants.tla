--------------------------- MODULE MCTokenGrants ---------------------------
(* TokenGrants on a small instance: the bounds are the numbers of requests *)
(* and of codes; nothing else is cut off.                                  *)
EXTENDS TokenGrants, TLC

Symmetry == Permutations(Request) \cup Permutations(Code)
=============================================================================
