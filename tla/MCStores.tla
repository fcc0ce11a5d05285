------------------------------ MODULE MCStores -------------------------------
(***************************************************************************)
(* A bounded instance of Stores: one pair of a client and a user, and the  *)
(* values that may be exchanged without a difference.                      *)
(***************************************************************************)
EXTENDS Stores, TLC

CONSTANTS c1, c2, u1

MCPair == {<<c1, u1>>}

Symmetric ==
    Permutations(AccessToken) \cup Permutations(RefreshToken) \cup Permutations(Content)
        \cup Permutations(Token) \cup Permutations(User) \cup Permutations(Server)
=============================================================================
