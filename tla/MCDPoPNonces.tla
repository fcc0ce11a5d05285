---------------------------- MODULE MCDPoPNonces ----------------------------
(***************************************************************************)
(* A bounded instance of DPoPNonces: processes and requests are alike.     *)
(***************************************************************************)
EXTENDS DPoPNonces, TLC

Symmetric == Permutations(Server) \cup Permutations(Request)
=============================================================================
