---------------------------- MODULE DPoPNonces ------------------------------
(***************************************************************************)
(* The nonces of DPoP proofs at protected endpoints: the generator of each *)
(* server process (oauth/dpop_nonce.rs), the check of a proof against it   *)
(* and the DPoP-Nonce header of every response (http/middleware_auth.rs).  *)
(*                                                                         *)
(* A nonce is a hash of the configured seed and the start of a window of   *)
(* time, so processes with one seed name a window alike and the window     *)
(* stands for the nonce.  The requests of one client share the nonce that  *)
(* it received last and are answered in any order, by any process.         *)
(***************************************************************************)
EXTENDS Naturals, Sequences

CONSTANTS
    Server,     \* processes behind one address, with one seed
    Request,    \* concurrent requests of one client
    Window,     \* the length of a window
    Count,      \* how many windows a process keeps
    MaxTime,    \* bound on the clock
    None        \* no nonce, no process

ASSUME NonceAssumption ==
    /\ Window \in Nat \ {0}
    /\ Count \in Nat \ {0}
    /\ MaxTime \in Nat

VARIABLES
    now,       \* the clock
    values,    \* the windows each process keeps, the newest first
    started,   \* when each process was started last
    latest,    \* the nonce the client received last, or None
    pc,        \* where each request stands
    handler,   \* the process that handles the request, or None
    nonce      \* the nonce in the request's proof, then in its response

vars == <<now, values, started, latest, pc, handler, nonce>>

Time == 0..MaxTime

\* (now / 30) * 30
WindowAt(t) == (t \div Window) * Window

\* at, by: when and by which process the nonce was handed out.
Nonce == [window : {WindowAt(t) : t \in Time}, at : Time, by : Server]

Holds(s, window) == \E i \in 1..Len(s) : s[i] = window

\* The windows a process keeps are distinct and in order, at most Count of
\* them and none in the future; a request under way has a process
\* (generate_nonces, dpop_nonce.rs).
TypeOK ==
    /\ now \in Time
    /\ values \in [Server -> Seq({WindowAt(t) : t \in 0..now})]
    /\ \A s \in Server :
         /\ Len(values[s]) \in 1..Count
         /\ \A i, j \in 1..Len(values[s]) : i < j => values[s][j] < values[s][i]
    /\ started \in [Server -> 0..now]
    /\ latest \in Nonce \cup {None}
    /\ pc \in [Request -> {"idle", "sent", "accepted", "refused", "declined", "answered"}]
    /\ handler \in [Request -> Server \cup {None}]
    /\ nonce \in [Request -> Nonce \cup {None}]

Init ==
    /\ now = 0
    /\ values = [s \in Server |-> <<WindowAt(0)>>]
    /\ started = [s \in Server |-> 0]
    /\ latest = None
    /\ pc = [r \in Request |-> "idle"]
    /\ handler = [r \in Request |-> None]
    /\ nonce = [r \in Request |-> None]

-----------------------------------------------------------------------------
(* The generator. *)

\* Mutant: the list is cut one entry short.
MutGeneratedShort(s) ==
    IF now < values[s][1] + Window THEN values[s]
    ELSE LET all == <<WindowAt(now)>> \o values[s]
         IN  SubSeq(all, 1, IF Len(all) > Count - 1 THEN Count - 1 ELSE Len(all))

\* Mutant: the current window is inserted by every call.
MutGeneratedAgain(s) ==
    LET all == <<WindowAt(now)>> \o values[s]
    IN  SubSeq(all, 1, IF Len(all) > Count THEN Count ELSE Len(all))

\* generate_nonces: what process s keeps after a call.
Generated(s) ==
    IF now < values[s][1] + Window THEN values[s]
    ELSE LET all == <<WindowAt(now)>> \o values[s]
         IN  SubSeq(all, 1, IF Len(all) > Count THEN Count ELSE Len(all))

Generate(s) == values' = [values EXCEPT ![s] = Generated(s)]

-----------------------------------------------------------------------------
(* Requests of the client. *)

\* The client makes a proof with the nonce it knows and sends its request.
Send(r) ==
    /\ pc[r] = "idle"
    /\ pc' = [pc EXCEPT ![r] = "sent"]
    /\ nonce' = [nonce EXCEPT ![r] = latest]
    /\ UNCHANGED <<now, values, started, latest, handler>>

\* from_request_parts, step 4c: the proof's nonce must be one of generate_nonces.
Check(r, s) ==
    /\ pc[r] = "sent"
    /\ Generate(s)
    /\ handler' = [handler EXCEPT ![r] = s]
    /\ pc' = [pc EXCEPT ![r] =
                IF nonce[r] # None /\ Holds(Generated(s), nonce[r].window)
                THEN "accepted" ELSE "refused"]
    /\ UNCHANGED <<now, started, latest, nonce>>

\* The other ways through from_request_parts: the token, the scheme, the proof
\* or its key is wrong, before or after the call of generate_nonces.
Decline(r, s) ==
    /\ pc[r] = "sent"
    /\ Generate(s) \/ UNCHANGED values
    /\ handler' = [handler EXCEPT ![r] = s]
    /\ pc' = [pc EXCEPT ![r] = "declined"]
    /\ UNCHANGED <<now, started, latest, nonce>>

\* set_dpop_headers: after the handler, or the refusal, the response carries
\* the first nonce of another call of generate_nonces.
Answer(r) ==
    /\ pc[r] \in {"accepted", "refused", "declined"}
    /\ Generate(handler[r])
    /\ nonce' = [nonce EXCEPT ![r] = [window |-> Generated(handler[r])[1],
                                      at |-> now, by |-> handler[r]]]
    /\ pc' = [pc EXCEPT ![r] = "answered"]
    /\ handler' = [handler EXCEPT ![r] = None]
    /\ UNCHANGED <<now, started, latest>>

End(requests) ==
    /\ pc' = [r \in Request |-> IF r \in requests THEN "idle" ELSE pc[r]]
    /\ handler' = [r \in Request |-> IF r \in requests THEN None ELSE handler[r]]
    /\ nonce' = [r \in Request |-> IF r \in requests THEN None ELSE nonce[r]]

\* The client takes over the nonce of the response.
Receive(r) ==
    /\ pc[r] = "answered"
    /\ latest' = nonce[r]
    /\ End({r})
    /\ UNCHANGED <<now, values, started>>

\* A request or a response is lost, or the connection is closed.
Lose(r) ==
    /\ pc[r] # "idle"
    /\ End({r})
    /\ UNCHANGED <<now, values, started, latest>>

-----------------------------------------------------------------------------
(* The processes and the clock. *)

\* A response to anybody else: set_dpop_headers.
Visit(s) ==
    /\ Generate(s)
    /\ UNCHANGED <<now, started, latest, pc, handler, nonce>>

\* A process starts anew, with the current window alone; the requests it
\* was handling are lost.
Restart(s) ==
    /\ values' = [values EXCEPT ![s] = <<WindowAt(now)>>]
    /\ started' = [started EXCEPT ![s] = now]
    /\ End({r \in Request : handler[r] = s})
    /\ UNCHANGED <<now, latest>>

Tick ==
    /\ now < MaxTime
    /\ now' = now + 1
    /\ UNCHANGED <<values, started, latest, pc, handler, nonce>>

Next ==
    \/ \E r \in Request :
         \/ Send(r) \/ Answer(r) \/ Receive(r) \/ Lose(r)
         \/ \E s \in Server : Check(r, s) \/ Decline(r, s)
    \/ \E s \in Server : Visit(s) \/ Restart(s)
    \/ Tick

Spec == Init /\ [][Next]_vars

-----------------------------------------------------------------------------

\* A request is refused over its nonce only if the client had none yet, or the
\* nonce was handed out more than a window ago, or in an earlier window by
\* another process or by this one before it was restarted: a client that takes
\* over the nonce of each response, in whatever order responses arrive, is
\* otherwise never turned away (generate_nonces, from_request_parts).
RefusedNonceExplained ==
    [][\A r \in Request :
         pc[r] = "sent" /\ pc'[r] = "refused" =>
            \/ nonce[r] = None
            \/ now > nonce[r].at + Window
            \/ /\ nonce[r].window < WindowAt(now)
               /\ \/ handler'[r] # nonce[r].by
                  \/ started[handler'[r]] >= nonce[r].at]_vars
=============================================================================
