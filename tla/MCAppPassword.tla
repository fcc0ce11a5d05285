---------------------------- MODULE MCAppPassword ----------------------------
(* AppPassword on a small instance: the handlers, the passwords and the *)
(* generations of a session's tokens are bounded.                       *)
EXTENDS AppPassword, TLC

Symmetry == Permutations(Setter) \cup Permutations(Login) \cup Permutations(Request)
                \cup Permutations(Password)
=============================================================================
