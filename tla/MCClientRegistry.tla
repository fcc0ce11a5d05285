-------------------------- MODULE MCClientRegistry --------------------------
(* ClientRegistry on a small instance: the requests are bounded, and their *)
(* bodies give one field or all.                                           *)
EXTENDS ClientRegistry, TLC

CONSTANTS a, x

\* A client that does not require an exact match; a is a prefix of b.
MCCovers == [uri \in Uri |-> {uri, a}]

Only(field, value) == [NoField EXCEPT ![field] = value]

MCForm ==
    {Only("uris", Uri \ {a})}
    \cup {Only(field, {"device"}) : field \in {"grants", "responses"}}
    \cup {[uris |-> {a}, grants |-> {"code"}, responses |-> {"code"},
           software |-> x, metadata |-> x, jwks |-> x]}

Symmetry == Permutations(Updater) \cup Permutations(Login)
=============================================================================
