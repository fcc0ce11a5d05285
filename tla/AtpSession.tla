----------------------------- MODULE AtpSession -----------------------------
(***************************************************************************)
(* One ATProtocol session, from the login at the user's PDS to the token   *)
(* refreshes made on behalf of API requests (oauth/atprotocol_bridge.rs,   *)
(* oauth/utils_atprotocol_oauth.rs, storage/*/atp_oauth_sessions.rs).      *)
(*                                                                         *)
(* Each login has a random state and session id, so sessions meet only in  *)
(* tables keyed by them and one session is enough.  The browser may        *)
(* deliver the PDS's redirect more than once, and requests that use the    *)
(* session run in parallel.  Tokens are named by their generation: the     *)
(* code exchange yields generation 1 and each refresh at the PDS the next. *)
(***************************************************************************)
EXTENDS Naturals, FiniteSets

CONSTANTS
    Callback,      \* deliveries of the redirect to /oauth/atp/callback
    Request,       \* requests that read the session
    Backends,      \* the storage backends the server may be configured with
    MaxIteration   \* bound on the session iteration

ASSUME SessionAssumption ==
    /\ Backends \subseteq {"memory", "sqlite", "postgres"}
    /\ MaxIteration \in Nat \ {0}
    /\ IsFiniteSet(Callback)
    /\ Callback \cap Request = {}

Handler == Callback \cup Request

VARIABLES
    backend,      \* the configured storage backend, fixed at startup
    rows,         \* atp_oauth_sessions: the rows of this session
    indexed,      \* memory: iterations listed under the session's DID
    atState,      \* memory: the iteration the state index points to
    oauthRequest, \* is the PKCE verifier of the login in store?
    authRequest,  \* is the client's authorization request in store?
    document,     \* is the user's DID document in store?
    pds,          \* external: is the PDS's code unspent, and the generation
                  \* whose refresh token the PDS accepts
    stale,        \* generations whose access token is about to expire
    pc,           \* where each handler stands
    held,         \* the row each handler has read or built
    got,          \* the generation each request was answered with, or 0
    issued,       \* authorization codes given to the client for this login
    mishaps       \* history: what has gone wrong so far

vars == <<backend, rows, indexed, atState, oauthRequest, authRequest, document,
          pds, stale, pc, held, got, issued, mishaps>>

Iteration == 1..MaxIteration
Generation == 0..(2 * MaxIteration)

\* known: did is Some.  generation 0: no tokens.  error: exchange_error is Some.
Row == [iteration : Iteration, known : BOOLEAN, generation : Generation, error : BOOLEAN]

NewRow(known) == [iteration |-> 1, known |-> known, generation |-> 0, error |-> FALSE]

CallbackStates == {"read", "stamped", "exchanging", "exchanged", "documented", "linked",
                   "authorizing", "issued", "cleaning", "done",
                   "erring", "recording", "errored"}
RequestStates == {"refreshing", "storing", "answered", "refused"}

Mishap == {"overlap", "pds", "document", "stopped"}

TypeOK ==
    /\ backend \in Backends
    /\ rows \subseteq Row
    /\ \A x, y \in rows : x.iteration = y.iteration => x = y
    /\ indexed \subseteq Iteration
    /\ atState \in Iteration
    /\ {oauthRequest, authRequest, document} \subseteq BOOLEAN
    /\ pds \in [unspent : BOOLEAN, generation : Generation]
    /\ stale \subseteq Generation
    /\ pc \in [Handler -> {"idle", "stopped"} \cup CallbackStates \cup RequestStates]
    /\ held \in [Handler -> Row]
    /\ got \in [Request -> Generation]
    /\ issued \in Nat
    /\ mishaps \subseteq Mishap

Init ==
    /\ backend \in Backends
    /\ rows = {} /\ indexed = {} /\ atState = 1
    /\ oauthRequest = FALSE /\ authRequest = FALSE
    /\ document \in BOOLEAN
    /\ pds = [unspent |-> TRUE, generation |-> 0]
    /\ stale = {}
    /\ pc = [h \in Handler |-> "idle"]
    /\ held = [h \in Handler |-> NewRow(FALSE)]
    /\ got = [r \in Request |-> 0]
    /\ issued = 0
    /\ mishaps = {}

table == <<rows, indexed, atState>>
stores == <<oauthRequest, authRequest, document>>

-----------------------------------------------------------------------------
(* Storage. *)

\* Mutant: store_session inserts without replacing the iteration's row.
MutStoreSessionInserts(row) ==
    /\ rows' = rows \cup {row}
    /\ indexed' = IF row.known THEN indexed \cup {row.iteration} ELSE indexed
    /\ atState' = row.iteration

\* store_session: an upsert by session and iteration.  The SQLite table has one
\* row per session, which INSERT OR REPLACE replaces whatever its iteration.
StoreSession(row) ==
    /\ rows' = {row} \cup
         IF backend = "sqlite" THEN {} ELSE {x \in rows : x.iteration # row.iteration}
    /\ indexed' = IF row.known THEN indexed \cup {row.iteration} ELSE indexed
    /\ atState' = row.iteration

\* get_session_by_atp_state: the row of the index in memory, any row of that
\* state in a database.
ByState == IF backend = "memory" THEN {x \in rows : x.iteration = atState} ELSE rows

\* get_sessions for the DID and the session id; the caller takes the first row.
Visible ==
    IF backend = "memory" THEN {x \in rows : x.iteration \in indexed}
    ELSE {x \in rows : x.known}

Newest(x) == x \in Visible /\ \A y \in Visible : y.iteration <= x.iteration

Go(h, from, to) == pc[h] = from /\ pc' = [pc EXCEPT ![h] = to]

-----------------------------------------------------------------------------
(* authorize_with_atprotocol stores the request, iteration 1 of the session, *)
(* and the PKCE verifier.  Nobody else knows the state before the redirect   *)
(* is sent, so its steps meet no other handler.                              *)
BeginLogin(known) ==
    /\ rows = {}
    /\ StoreSession(NewRow(known))
    /\ oauthRequest' = TRUE /\ authRequest' = TRUE
    /\ UNCHANGED <<backend, document, pds, stale, pc, held, got, issued, mishaps>>

(* handle_atp_callback_impl: get_session_by_atp_state, and the test that it *)
(* is the first iteration.                                                  *)
ReadSession(k) ==
    /\ \E x \in ByState :
         /\ Go(k, "idle", IF x.iteration = 1 THEN "read" ELSE "erring")
         /\ held' = [held EXCEPT ![k] = x]
    /\ UNCHANGED <<backend, table, stores, pds, stale, got, issued, mishaps>>

(* store_session of the row just read, with session_exchanged_at set. *)
StampExchange(k) ==
    /\ Go(k, "read", "stamped")
    /\ StoreSession(held[k])
    /\ UNCHANGED <<backend, stores, pds, stale, held, got, issued, mishaps>>

ReadOAuthRequest(k) ==
    /\ Go(k, "stamped", IF oauthRequest THEN "exchanging" ELSE "erring")
    /\ UNCHANGED <<backend, table, stores, pds, stale, held, got, issued, mishaps>>

(* Mutant: a refusal by the PDS does not end the callback. *)
MutCompleteExchangeUnchecked(k) ==
    /\ Go(k, "exchanging", "exchanged")
    /\ pds' = [unspent |-> FALSE, generation |-> 1]
    /\ UNCHANGED <<backend, table, stores, stale, held, got, issued, mishaps>>

(* oauth_complete: the PDS accepts its code once. *)
CompleteExchange(k) ==
    /\ Go(k, "exchanging", "exchanged")
    /\ pds.unspent
    /\ pds' = [unspent |-> FALSE, generation |-> 1]
    /\ UNCHANGED <<backend, table, stores, stale, held, got, issued, mishaps>>

(* The PDS refuses, or its answer is lost after it has spent the code. *)
ExchangeFails(k) ==
    /\ Go(k, "exchanging", "erring")
    /\ pds' \in {pds, [pds EXCEPT !.unspent = FALSE]}
    /\ UNCHANGED <<backend, table, stores, stale, held, got, issued, mishaps>>

(* The subject's DID is resolved and its document stored. *)
StoreDocument(k) ==
    /\ Go(k, "exchanged", "documented")
    /\ document' = TRUE
    /\ UNCHANGED <<backend, table, oauthRequest, authRequest, pds, stale, held, got,
                   issued, mishaps>>

(* Mutant: the DID is not recorded with the tokens. *)
MutStoreTokensWithoutDid(k) ==
    /\ Go(k, "documented", "linked")
    /\ StoreSession([held[k] EXCEPT !.generation = 1])
    /\ UNCHANGED <<backend, stores, pds, stale, held, got, issued, mishaps>>

(* updated_session: the row read at the start with DID and tokens filled in. *)
StoreTokens(k) ==
    /\ Go(k, "documented", "linked")
    /\ StoreSession([held[k] EXCEPT !.known = TRUE, !.generation = 1])
    /\ UNCHANGED <<backend, stores, pds, stale, held, got, issued, mishaps>>

ReadAuthRequest(k) ==
    /\ Go(k, "linked", IF authRequest THEN "authorizing" ELSE "erring")
    /\ UNCHANGED <<backend, table, stores, pds, stale, held, got, issued, mishaps>>

(* authorize stores an authorization code for the session. *)
IssueCode(k) ==
    /\ Go(k, "authorizing", "issued")
    /\ issued' = issued + 1
    /\ UNCHANGED <<backend, table, stores, pds, stale, held, got, mishaps>>

DeleteOAuthRequest(k) ==
    /\ Go(k, "issued", "cleaning")
    /\ oauthRequest' = FALSE
    /\ UNCHANGED <<backend, table, authRequest, document, pds, stale, held, got,
                   issued, mishaps>>

RemoveAuthRequest(k) ==
    /\ Go(k, "cleaning", "done")
    /\ authRequest' = FALSE
    /\ UNCHANGED <<backend, table, oauthRequest, document, pds, stale, held, got,
                   issued, mishaps>>

(* Any other step of the callback returns an error: storage, the PDS's       *)
(* metadata, the DID's resolution, or the client's checks in authorize.      *)
CallbackError(k) ==
    /\ pc[k] \in {"read", "stamped", "exchanged", "documented", "linked", "authorizing",
                  "issued", "cleaning"}
    /\ pc' = [pc EXCEPT ![k] = "erring"]
    /\ UNCHANGED <<backend, table, stores, pds, stale, held, got, issued, mishaps>>

(* handle_atp_callback on an error: the session is read again by its state *)
(* and stored with exchange_error set.                                     *)
ReadForError(k) ==
    /\ Go(k, "erring", "recording")
    /\ \E x \in ByState : held' = [held EXCEPT ![k] = x]
    /\ UNCHANGED <<backend, table, stores, pds, stale, got, issued, mishaps>>

StoreError(k) ==
    /\ Go(k, "recording", "errored")
    /\ StoreSession([held[k] EXCEPT !.error = TRUE])
    /\ UNCHANGED <<backend, stores, pds, stale, held, got, issued, mishaps>>

-----------------------------------------------------------------------------
(* get_atprotocol_session_with_refresh, called by the session and userinfo *)
(* endpoints once they hold the DID document.                              *)

Refreshing == {r \in Request : pc[r] \in {"refreshing", "storing"}}

NeedsRefresh(x) == x.generation \in stale /\ ~x.error

(* The newest row answers the request, or its recorded error refuses it. *)
UseSession(r) ==
    /\ document
    /\ \E x \in Visible :
         /\ Newest(x)
         /\ ~NeedsRefresh(x)
         /\ Go(r, "idle", IF x.error THEN "refused" ELSE "answered")
         /\ got' = [got EXCEPT ![r] = IF x.error THEN 0 ELSE x.generation]
    /\ UNCHANGED <<backend, table, stores, pds, stale, held, issued, mishaps>>

(* The newest row's access token is about to expire: refresh_session. *)
BeginRefresh(r) ==
    /\ document
    /\ \E x \in Visible :
         /\ Newest(x)
         /\ NeedsRefresh(x)
         /\ x.iteration < MaxIteration
         /\ Go(r, "idle", "refreshing")
         /\ held' = [held EXCEPT ![r] = x]
    /\ mishaps' = IF Refreshing = {} THEN mishaps ELSE mishaps \cup {"overlap"}
    /\ UNCHANGED <<backend, table, stores, pds, stale, got, issued>>

(* Mutant: the rotated refresh token is not kept. *)
MutRefreshedOldToken(r, generation) ==
    [iteration |-> held[r].iteration + 1, known |-> TRUE,
     generation |-> IF generation = 0 THEN 0 ELSE held[r].generation,
     error |-> generation = 0]

Refreshed(r, generation) ==
    [iteration |-> held[r].iteration + 1, known |-> TRUE,
     generation |-> generation, error |-> generation = 0]

(* get_document_by_did finds nothing any more. *)
DocumentMissing(r) ==
    /\ ~document
    /\ Go(r, "refreshing", "storing")
    /\ held' = [held EXCEPT ![r] = Refreshed(r, 0)]
    /\ UNCHANGED <<backend, table, stores, pds, stale, got, issued, mishaps>>

(* oauth_refresh: the PDS accepts the newest refresh token and rotates it. *)
PdsRefreshes(r) ==
    /\ document
    /\ Go(r, "refreshing", "storing")
    /\ held[r].generation = pds.generation
    /\ pds' = [pds EXCEPT !.generation = @ + 1]
    /\ held' = [held EXCEPT ![r] = Refreshed(r, pds.generation + 1)]
    /\ UNCHANGED <<backend, table, stores, stale, got, issued, mishaps>>

(* The PDS refuses a refresh token that it has rotated. *)
PdsRefuses(r) ==
    /\ document
    /\ Go(r, "refreshing", "storing")
    /\ held[r].generation # pds.generation
    /\ held' = [held EXCEPT ![r] = Refreshed(r, 0)]
    /\ UNCHANGED <<backend, table, stores, pds, stale, got, issued, mishaps>>

(* The PDS cannot be reached, or its answer is lost after it has rotated. *)
PdsUnreachable(r) ==
    /\ document
    /\ Go(r, "refreshing", "storing")
    /\ \/ pds' = pds
       \/ held[r].generation = pds.generation /\ pds' = [pds EXCEPT !.generation = @ + 1]
    /\ held' = [held EXCEPT ![r] = Refreshed(r, 0)]
    /\ mishaps' = mishaps \cup {"pds"}
    /\ UNCHANGED <<backend, table, stores, stale, got, issued>>

(* Mutant: the refreshed session is answered with but not stored. *)
MutStoreRefreshedForgets(r) ==
    /\ Go(r, "storing", IF held[r].error THEN "refused" ELSE "answered")
    /\ got' = [got EXCEPT ![r] = held[r].generation]
    /\ UNCHANGED <<backend, table, stores, pds, stale, held, issued, mishaps>>

(* store_session of the new iteration, then the answer. *)
StoreRefreshed(r) ==
    /\ Go(r, "storing", IF held[r].error THEN "refused" ELSE "answered")
    /\ StoreSession(held[r])
    /\ got' = [got EXCEPT ![r] = held[r].generation]
    /\ UNCHANGED <<backend, stores, pds, stale, held, issued, mishaps>>

-----------------------------------------------------------------------------
(* A handler stops for good between two of its steps. *)
Stop(h) ==
    /\ pc[h] \notin {"idle", "stopped", "done", "errored", "answered", "refused"}
    /\ pc' = [pc EXCEPT ![h] = "stopped"]
    /\ mishaps' = mishaps \cup {"stopped"}
    /\ UNCHANGED <<backend, table, stores, pds, stale, held, got, issued>>

(* An access token comes within 60 seconds of its expiry. *)
Age(g) ==
    /\ \E x \in rows : x.generation = g /\ g # 0
    /\ stale' = stale \cup {g}
    /\ UNCHANGED <<backend, table, stores, pds, pc, held, got, issued, mishaps>>

(* The PKCE verifier expires, or falls out of its in-memory cache. *)
LoseOAuthRequest ==
    /\ oauthRequest
    /\ oauthRequest' = FALSE
    /\ UNCHANGED <<backend, table, authRequest, document, pds, stale, pc, held, got,
                   issued, mishaps>>

(* The DID document falls out of its cache; only PostgreSQL stores documents. *)
LoseDocument ==
    /\ backend # "postgres"
    /\ document
    /\ document' = FALSE
    /\ mishaps' = mishaps \cup {"document"}
    /\ UNCHANGED <<backend, table, oauthRequest, authRequest, pds, stale, pc, held, got,
                   issued>>

CallbackStep(k) ==
    \/ ReadSession(k) \/ StampExchange(k) \/ ReadOAuthRequest(k)
    \/ CompleteExchange(k) \/ ExchangeFails(k)
    \/ StoreDocument(k) \/ StoreTokens(k)
    \/ ReadAuthRequest(k) \/ IssueCode(k)
    \/ DeleteOAuthRequest(k) \/ RemoveAuthRequest(k)
    \/ CallbackError(k) \/ ReadForError(k) \/ StoreError(k)

RequestStep(r) ==
    \/ UseSession(r) \/ BeginRefresh(r)
    \/ DocumentMissing(r) \/ PdsRefreshes(r) \/ PdsRefuses(r) \/ PdsUnreachable(r)
    \/ StoreRefreshed(r)

Next ==
    \/ \E known \in BOOLEAN : BeginLogin(known)
    \/ \E k \in Callback : CallbackStep(k)
    \/ \E r \in Request : RequestStep(r)
    \/ \E h \in Handler : Stop(h)
    \/ \E g \in Generation : Age(g)
    \/ LoseOAuthRequest \/ LoseDocument

Spec == Init /\ [][Next]_vars

-----------------------------------------------------------------------------
DeliveredOnce == Cardinality({k \in Callback : pc[k] # "idle"}) <= 1

CallbackFailed == \E k \in Callback : pc[k] \in {"erring", "recording", "errored"}

(* A login yields at most one authorization code for the client, however    *)
(* often and however concurrently the PDS's redirect is delivered: the      *)
(* callback cleans up only at its end and relies on the PDS's one-time code. *)
OneCodePerLogin == issued <= 1

(* A client that received its authorization code finds the session it names: *)
(* the callback stores DID and tokens before it issues the code.             *)
IssuedCodeHasSession ==
    issued > 0 /\ DeliveredOnce =>
        \E x \in Visible : Newest(x) /\ (x.generation > 0 \/ x.error)

(* Tokens never go back in time: once a request was answered with some       *)
(* generation, the newest row holds that one or a later one, or an error,    *)
(* whatever slower refreshes store afterwards.                               *)
TokensNeverGoBack ==
    DeliveredOnce => \A r \in Request : got[r] > 0 =>
        \E x \in Visible : Newest(x) /\ (x.error \/ x.generation >= got[r])

(* The session records an error only for a cause: refreshes that overlapped, *)
(* an unreachable PDS, a handler that stopped, a lost document, or a         *)
(* callback that failed or was delivered twice.  Refreshes that follow one   *)
(* another keep the session alive.                                           *)
ErrorsExplained ==
    \A x \in rows : x.error => mishaps # {} \/ CallbackFailed \/ ~DeliveredOnce
=============================================================================
