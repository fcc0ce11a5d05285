----------------------------- MODULE TokenGrants -----------------------------
(***************************************************************************)
(* The token endpoint's authorization-code and refresh-token grants        *)
(* (oauth/auth_server.rs) over the three storage backends.                 *)
(*                                                                         *)
(* Each HTTP request runs its handler in steps, one per storage call, and  *)
(* the steps of different requests interleave.  A request r that succeeds  *)
(* mints one access token and one refresh token; both are named r, as each *)
(* refresh row refers to the access row minted with it.  An authorization  *)
(* code c stands for the client, user, session, scope and nonce it carries *)
(* and that every token descending from it copies.                         *)
(***************************************************************************)
EXTENDS Naturals, FiniteSets

CONSTANTS
    Request,   \* token requests
    Code,      \* authorization codes
    Backends,  \* the storage backends the server may be configured with
    NoRow      \* an absent table row

TokenType == {"Bearer", "DPoP"}
AccessRow == [grant : Code, type : TokenType, iteration : Nat \ {0}]
RefreshRow == [grant : Code, access : Request]

ASSUME GrantAssumption ==
    /\ Backends \subseteq {"memory", "sqlite", "postgres"}
    /\ Request \cap Code = {}
    /\ NoRow \notin Request \cup Code \cup AccessRow \cup RefreshRow

VARIABLES
    backend,    \* the configured storage backend, fixed at startup
    codes,      \* authorization_codes: state of each code's row
    access,     \* access_tokens: row or NoRow
    refresh,    \* refresh_tokens: row or NoRow
    expired,    \* rows whose expires_at lies in the past
    pc,         \* where the handler of each request stands
    presented,  \* the code or refresh token each request carries
    grant,      \* the code fields a handler copied from the row it read
    minted      \* the access token record a handler built

vars == <<backend, codes, access, refresh, expired, pc, presented, grant, minted>>

Expirable == ({"code"} \X Code) \cup ({"access", "refresh"} \X Request)

Reading == {"code_read", "code_selected",
            "refresh_read", "access_read", "refresh_selected"}

Granted == {r \in Request : pc[r] = "granted"}

TypeOK ==
    /\ backend \in Backends
    /\ codes \in [Code -> {"unissued", "live", "used", "removed"}]
    /\ access \in [Request -> AccessRow \cup {NoRow}]
    /\ refresh \in [Request -> RefreshRow \cup {NoRow}]
    /\ expired \subseteq Expirable
    /\ pc \in [Request -> {"idle", "granted", "refused", "failed"} \cup Reading]
    /\ presented \in [Request -> Code \cup Request \cup {NoRow}]
    /\ grant \in [Request -> Code \cup {NoRow}]
    /\ minted \in [Request -> AccessRow \cup {NoRow}]

Init ==
    /\ backend \in Backends
    /\ codes = [c \in Code |-> "unissued"]
    /\ access = [r \in Request |-> NoRow]
    /\ refresh = [r \in Request |-> NoRow]
    /\ expired = {}
    /\ pc = [r \in Request |-> "idle"]
    /\ presented = [r \in Request |-> NoRow]
    /\ grant = [r \in Request |-> NoRow]
    /\ minted = [r \in Request |-> NoRow]

-----------------------------------------------------------------------------
(* Storage helpers. *)

\* The test of get_code and of exchange_code_for_tokens.
CodeRedeemable(c) == codes[c] = "live" /\ <<"code", c>> \notin expired

\* The test of get_refresh_token and of refresh_tokens.
RefreshUsable(t) == refresh[t] # NoRow /\ <<"refresh", t>> \notin expired

\* The row that exchange_code_for_tokens leaves when it refuses a code: the
\* in-memory store drops it whatever the reason, the databases delete it only
\* when they find it unused and expired.
CodeAfterRefusal(c) ==
    IF backend = "memory" \/ codes[c] = "live" THEN "removed" ELSE codes[c]

RefreshOf(r) == [grant |-> grant[r], access |-> r]

(* Mutant: the tokens are stored and the code is left redeemable. *)
MutCommitExchangeUnmarked(r) ==
    /\ access' = [access EXCEPT ![r] = minted[r]]
    /\ refresh' = [refresh EXCEPT ![r] = RefreshOf(r)]
    /\ pc' = [pc EXCEPT ![r] = "granted"]
    /\ UNCHANGED <<backend, codes, expired, presented, grant, minted>>

\* Mark the code used and store both tokens, in one transaction.  The UPDATE
\* touches no row if another transaction has deleted the code.
CommitExchange(r) ==
    LET c == presented[r] IN
    /\ codes' = [codes EXCEPT ![c] = IF @ = "removed" THEN @ ELSE "used"]
    /\ access' = [access EXCEPT ![r] = minted[r]]
    /\ refresh' = [refresh EXCEPT ![r] = RefreshOf(r)]
    /\ pc' = [pc EXCEPT ![r] = "granted"]
    /\ UNCHANGED <<backend, expired, presented, grant, minted>>

\* Delete the presented refresh token and store both new tokens, in one
\* transaction.  The DELETE succeeds even when it matches no row.
CommitRotation(r) ==
    /\ access' = [access EXCEPT ![r] = minted[r]]
    /\ refresh' = [refresh EXCEPT ![presented[r]] = NoRow, ![r] = RefreshOf(r)]
    /\ pc' = [pc EXCEPT ![r] = "granted"]
    /\ UNCHANGED <<backend, codes, expired, presented, grant, minted>>

Refuse(r) == pc' = [pc EXCEPT ![r] = "refused"]

-----------------------------------------------------------------------------
(* The authorization endpoint stores a code. *)
Authorize(c) ==
    /\ codes[c] = "unissued"
    /\ codes' = [codes EXCEPT ![c] = "live"]
    /\ UNCHANGED <<backend, access, refresh, expired, pc, presented, grant, minted>>

(* Mutant: the first session iteration is 0. *)
MutReceiveCodeFromZero(r, c, type) ==
    /\ pc[r] = "idle"
    /\ CodeRedeemable(c)
    /\ pc' = [pc EXCEPT ![r] = "code_read"]
    /\ presented' = [presented EXCEPT ![r] = c]
    /\ grant' = [grant EXCEPT ![r] = c]
    /\ minted' = [minted EXCEPT ![r] = [grant |-> c, type |-> type, iteration |-> 0]]
    /\ UNCHANGED <<backend, codes, access, refresh, expired>>

(* handle_authorization_code_grant: get_code, and the records it builds once *)
(* redirect URI, client, PKCE and DPoP have been validated.  Whether the     *)
(* request carries a DPoP proof decides the token type.                      *)
ReceiveCode(r, c, type) ==
    /\ pc[r] = "idle"
    /\ CodeRedeemable(c)
    /\ pc' = [pc EXCEPT ![r] = "code_read"]
    /\ presented' = [presented EXCEPT ![r] = c]
    /\ grant' = [grant EXCEPT ![r] = c]
    /\ minted' = [minted EXCEPT ![r] = [grant |-> c, type |-> type, iteration |-> 1]]
    /\ UNCHANGED <<backend, codes, access, refresh, expired>>

(* get_code returns None for a code that is used, expired or gone. *)
RefuseCode(r, c) ==
    /\ pc[r] = "idle"
    /\ codes[c] # "unissued"
    /\ ~CodeRedeemable(c)
    /\ presented' = [presented EXCEPT ![r] = c]
    /\ Refuse(r)
    /\ UNCHANGED <<backend, codes, access, refresh, expired, grant, minted>>

(* Mutant: the exchange trusts the earlier get_code and tests nothing. *)
MutExchangeCodeUnchecked(r) ==
    /\ backend # "postgres"
    /\ pc[r] = "code_read"
    /\ CommitExchange(r)

(* exchange_code_for_tokens where test and update are one atomic step: under *)
(* the mutexes of the in-memory store, or in a serializable transaction.     *)
ExchangeCode(r) ==
    /\ backend # "postgres"
    /\ pc[r] = "code_read"
    /\ CodeRedeemable(presented[r])
    /\ CommitExchange(r)

(* exchange_code_for_tokens returns None. *)
ExchangeRefused(r) ==
    /\ pc[r] = "code_read"
    /\ ~CodeRedeemable(presented[r])
    /\ codes' = [codes EXCEPT ![presented[r]] = CodeAfterRefusal(presented[r])]
    /\ Refuse(r)
    /\ UNCHANGED <<backend, access, refresh, expired, presented, grant, minted>>

(* PostgreSQL at READ COMMITTED: the SELECT takes no lock, so another *)
(* transaction may commit before this one reaches its UPDATE.         *)
PgSelectCode(r) ==
    /\ backend = "postgres"
    /\ pc[r] = "code_read"
    /\ CodeRedeemable(presented[r])
    /\ pc' = [pc EXCEPT ![r] = "code_selected"]
    /\ UNCHANGED <<backend, codes, access, refresh, expired, presented, grant, minted>>

PgCommitCode(r) == pc[r] = "code_selected" /\ CommitExchange(r)

-----------------------------------------------------------------------------
(* handle_refresh_token_grant: get_refresh_token, then the client checks. *)
ReceiveRefresh(r, t) ==
    /\ pc[r] = "idle"
    /\ t \in Granted
    /\ RefreshUsable(t)
    /\ pc' = [pc EXCEPT ![r] = "refresh_read"]
    /\ presented' = [presented EXCEPT ![r] = t]
    /\ grant' = [grant EXCEPT ![r] = refresh[t].grant]
    /\ UNCHANGED <<backend, codes, access, refresh, expired, minted>>

RefuseRefresh(r, t) ==
    /\ pc[r] = "idle"
    /\ t \in Granted
    /\ ~RefreshUsable(t)
    /\ presented' = [presented EXCEPT ![r] = t]
    /\ Refuse(r)
    /\ UNCHANGED <<backend, codes, access, refresh, expired, grant, minted>>

(* Mutant: the old access token is not consulted for its type. *)
MutReadOldAccessBearer(r) ==
    /\ pc[r] = "refresh_read"
    /\ access[presented[r]] # NoRow
    /\ minted' = [minted EXCEPT ![r] = [grant |-> grant[r], type |-> "Bearer",
                                        iteration |-> access[presented[r]].iteration + 1]]
    /\ pc' = [pc EXCEPT ![r] = "access_read"]
    /\ UNCHANGED <<backend, codes, access, refresh, expired, presented, grant>>

(* Mutant: the iteration is copied without being incremented. *)
MutReadOldAccessSameIteration(r) ==
    /\ pc[r] = "refresh_read"
    /\ access[presented[r]] # NoRow
    /\ minted' = [minted EXCEPT ![r] = access[presented[r]]]
    /\ pc' = [pc EXCEPT ![r] = "access_read"]
    /\ UNCHANGED <<backend, codes, access, refresh, expired, presented, grant>>

(* get_token_including_expired of the old access token gives the type and *)
(* the session iteration; the rest comes from the refresh token.          *)
ReadOldAccess(r) ==
    /\ pc[r] = "refresh_read"
    /\ access[presented[r]] # NoRow
    /\ LET old == access[presented[r]] IN
         minted' = [minted EXCEPT ![r] =
            [grant |-> grant[r], type |-> old.type, iteration |-> old.iteration + 1]]
    /\ pc' = [pc EXCEPT ![r] = "access_read"]
    /\ UNCHANGED <<backend, codes, access, refresh, expired, presented, grant>>

OldAccessGone(r) ==
    /\ pc[r] = "refresh_read"
    /\ access[presented[r]] = NoRow
    /\ Refuse(r)
    /\ UNCHANGED <<backend, codes, access, refresh, expired, presented, grant, minted>>

(* Mutant: the rotation trusts the earlier get_refresh_token. *)
MutRotateUnchecked(r) ==
    /\ backend # "postgres"
    /\ pc[r] = "access_read"
    /\ CommitRotation(r)

(* refresh_tokens, atomic as in ExchangeCode. *)
Rotate(r) ==
    /\ backend # "postgres"
    /\ pc[r] = "access_read"
    /\ RefreshUsable(presented[r])
    /\ CommitRotation(r)

(* refresh_tokens returns None; an expired row is deleted. *)
RotateRefused(r) ==
    /\ pc[r] = "access_read"
    /\ ~RefreshUsable(presented[r])
    /\ refresh' = [refresh EXCEPT ![presented[r]] = NoRow]
    /\ Refuse(r)
    /\ UNCHANGED <<backend, codes, access, expired, presented, grant, minted>>

PgSelectRefresh(r) ==
    /\ backend = "postgres"
    /\ pc[r] = "access_read"
    /\ RefreshUsable(presented[r])
    /\ pc' = [pc EXCEPT ![r] = "refresh_selected"]
    /\ UNCHANGED <<backend, codes, access, refresh, expired, presented, grant, minted>>

PgCommitRefresh(r) == pc[r] = "refresh_selected" /\ CommitRotation(r)

-----------------------------------------------------------------------------
(* Mutant: the code is consumed before the request has been validated. *)
MutFailBurnsCode(r) ==
    /\ pc[r] \in Reading
    /\ pc' = [pc EXCEPT ![r] = "failed"]
    /\ codes' = [c \in Code |-> IF presented[r] = c THEN "used" ELSE codes[c]]
    /\ UNCHANGED <<backend, access, refresh, expired, presented, grant, minted>>

(* A handler that stops before its transaction commits: a validation fails  *)
(* after the row was read, storage reports an error (SQLite refuses the     *)
(* later of two overlapping writers), the client disconnects and the future *)
(* is dropped, or the process dies.  The transaction rolls back.            *)
Fail(r) ==
    /\ pc[r] \in Reading
    /\ pc' = [pc EXCEPT ![r] = "failed"]
    /\ UNCHANGED <<backend, codes, access, refresh, expired, presented, grant, minted>>

(* Time passes the expires_at of a stored row. *)
Stored(x) ==
    CASE x[1] = "code" -> codes[x[2]] # "unissued"
      [] x[1] = "access" -> access[x[2]] # NoRow
      [] x[1] = "refresh" -> refresh[x[2]] # NoRow

Expire(x) ==
    /\ Stored(x)
    /\ x \notin expired
    /\ expired' = expired \cup {x}
    /\ UNCHANGED <<backend, codes, access, refresh, pc, presented, grant, minted>>

(* Mutant: every store deletes the refresh token with its access token. *)
MutPresentExpiredAccessCascade(t) ==
    /\ access[t] # NoRow
    /\ <<"access", t>> \in expired
    /\ access' = [access EXCEPT ![t] = NoRow]
    /\ refresh' = [refresh EXCEPT ![t] = NoRow]
    /\ UNCHANGED <<backend, codes, expired, pc, presented, grant, minted>>

(* A protected endpoint looks up an expired access token.  The SQLite store *)
(* deletes the row, and the foreign key deletes the refresh token with it.  *)
PresentExpiredAccess(t) ==
    /\ backend = "sqlite"
    /\ access[t] # NoRow
    /\ <<"access", t>> \in expired
    /\ access' = [access EXCEPT ![t] = NoRow]
    /\ refresh' = [refresh EXCEPT ![t] = NoRow]
    /\ UNCHANGED <<backend, codes, expired, pc, presented, grant, minted>>

-----------------------------------------------------------------------------
CodeStep(r) ==
    \/ \E c \in Code : RefuseCode(r, c) \/ \E type \in TokenType : ReceiveCode(r, c, type)
    \/ ExchangeCode(r) \/ ExchangeRefused(r)
    \/ PgSelectCode(r) \/ PgCommitCode(r)

RefreshStep(r) ==
    \/ \E t \in Request : ReceiveRefresh(r, t) \/ RefuseRefresh(r, t)
    \/ ReadOldAccess(r) \/ OldAccessGone(r)
    \/ Rotate(r) \/ RotateRefused(r)
    \/ PgSelectRefresh(r) \/ PgCommitRefresh(r)

Next ==
    \/ \E c \in Code : Authorize(c)
    \/ \E r \in Request : CodeStep(r) \/ RefreshStep(r) \/ Fail(r) \/ PresentExpiredAccess(r)
    \/ \E x \in Expirable : Expire(x)

Spec == Init /\ [][Next]_vars

-----------------------------------------------------------------------------
(* One authorization code yields at most one token response, however many   *)
(* requests present it at once (exchange_code_for_tokens).                  *)
CodeRedeemedOnce ==
    \A r, s \in Granted :
        presented[r] \in Code /\ presented[r] = presented[s] => r = s

(* One refresh token yields at most one token response (refresh_tokens). *)
RefreshRotatedOnce ==
    \A r, s \in Granted :
        presented[r] \in Request /\ presented[r] = presented[s] => r = s

(* At any time at most one refresh token of a grant is in the store, and it *)
(* belongs to the token pair with the largest session iteration: an older   *)
(* response, delivered late, cannot be refreshed into a second chain.       *)
NewestPairHoldsRefresh ==
    \A t \in Request : refresh[t] # NoRow =>
        \A r \in Granted : minted[r].grant = refresh[t].grant =>
            r = t \/ (refresh[r] = NoRow /\ minted[r].iteration < minted[t].iteration)

(* Every token pair of a grant keeps the type the first exchange fixed: a   *)
(* DPoP binding is neither dropped nor acquired by refreshing, even when the *)
(* old access token has expired (get_token_including_expired).              *)
BindingPreserved ==
    \A r, s \in Granted : minted[r].grant = minted[s].grant => minted[r].type = minted[s].type

(* Validation and transport failures never burn a code: it is spent only if *)
(* it expired or if some request did receive tokens for it.                 *)
CodeNeverBurned ==
    \A c \in Code : codes[c] \in {"used", "removed"} =>
        <<"code", c>> \in expired \/ \E r \in Granted : presented[r] = c

(* All or nothing: a stored token belongs to a request that was granted, and *)
(* the code or refresh token that request presented is spent.                *)
NoTokenWithoutSpending ==
    \A r \in Request : access[r] # NoRow \/ refresh[r] # NoRow =>
        /\ r \in Granted
        /\ presented[r] \in Code => codes[presented[r]] \in {"used", "removed"}
        /\ presented[r] \in Request => refresh[presented[r]] = NoRow

(* A refused refresh is always explained: the token was rotated by another  *)
(* request, or its own lifetime ended.  A client that loses a race can tell *)
(* that the pair it wants exists.                                           *)
RefusedRefreshExplained ==
    \A r \in Request : pc[r] = "refused" /\ presented[r] \in Request =>
        \/ <<"refresh", presented[r]>> \in expired
        \/ \E s \in Granted \ {r} : presented[s] = presented[r]

(* A refresh token leaves the store only by being rotated, or after its own *)
(* expiry: the lifetime of the access token next to it plays no part, which *)
(* is what get_token_including_expired is for.                              *)
RefreshLeavesByRotationOrExpiry ==
    [][\A t \in Request : refresh[t] # NoRow /\ refresh'[t] = NoRow =>
          \/ <<"refresh", t>> \in expired
          \/ \E r \in Request : pc[r] # "granted" /\ pc'[r] = "granted" /\ presented[r] = t]_vars

-----------------------------------------------------------------------------
(* The chain of token pairs (module TokenChain) that the tables implement. *)
Tip(c) ==
    {r \in Granted : minted[r].grant = c /\ \A s \in Granted : presented[s] # r}

Chain == INSTANCE TokenChain WITH
    tip <- [c \in Code |-> Tip(c)], minted <- Granted

(* Every behaviour of the endpoint is one of TokenChain: codes start at most *)
(* one chain and chains never fork.                                          *)
ImplementsChain == Chain!Spec
=============================================================================
