----------------------------- MODULE TokenChain -----------------------------
(***************************************************************************)
(* What the token endpoint promises about one authorization code, as its  *)
(* storage trait states it (storage/traits.rs, TransactionalStorage):     *)
(* redeeming the code starts a chain of token pairs, and each refresh     *)
(* replaces the newest pair of the chain by one new pair.  No code starts *)
(* two chains and no chain forks, however requests interleave, fail or    *)
(* are repeated.  A token pair is named by the request that minted it.    *)
(***************************************************************************)
CONSTANTS
    Request,   \* token requests
    Code       \* authorization codes

VARIABLES
    tip,       \* the pairs at the end of the chain of each code
    minted     \* the pairs ever handed out

vars == <<tip, minted>>

Init ==
    /\ tip = [c \in Code |-> {}]
    /\ minted = {}

(* Request r exchanges code c for the first pair of its chain. *)
Redeem(c, r) ==
    /\ tip[c] = {}
    /\ r \notin minted
    /\ tip' = [tip EXCEPT ![c] = {r}]
    /\ minted' = minted \cup {r}

(* Request r presents the refresh token of pair t, the newest of its chain. *)
Rotate(c, t, r) ==
    /\ tip[c] = {t}
    /\ r \notin minted
    /\ tip' = [tip EXCEPT ![c] = {r}]
    /\ minted' = minted \cup {r}

Next ==
    \E c \in Code, r \in Request :
        \/ Redeem(c, r)
        \/ \E t \in Request : Rotate(c, t, r)

Spec == Init /\ [][Next]_vars
=============================================================================
