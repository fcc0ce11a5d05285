----------------------------- MODULE DeviceFlow -----------------------------
(***************************************************************************)
(* The device authorization grant (RFC 8628): the code a device obtains,   *)
(* the approval a user gives it in a browser, the polls the device sends   *)
(* to the token endpoint, and the ATProtocol session that the endpoint     *)
(* links to the new tokens afterwards (http/handler_device_*.rs,           *)
(* oauth/auth_server.rs, http/handler_oauth.rs).                           *)
(*                                                                         *)
(* A poll is named by its device code and by the attempt: a device whose   *)
(* request timed out sends another while the first is still being served.  *)
(* A poll of a code nobody approved yet changes nothing, so it is a        *)
(* stuttering step here, and the attempt may be made again.                *)
(***************************************************************************)
EXTENDS Naturals, Sequences, FiniteSets

CONSTANTS
    Device,     \* device codes, each with its user code
    Attempt,    \* concurrent polls of one device
    User,       \* DIDs
    Backends,   \* the storage backends the server may be configured with
    MaxLogins,  \* bound on the number of ATProtocol sessions
    None        \* Option::None

Session == 1..MaxLogins

\* numbered: session_iteration is Some.
AccessRow == [user : User, session : Session \cup {None}, numbered : BOOLEAN]
RefreshRow == [user : User, session : Session \cup {None}]

ASSUME DeviceAssumption ==
    /\ Backends \subseteq {"memory", "sqlite", "postgres"}
    /\ MaxLogins \in Nat
    /\ None \notin User \cup Nat \cup AccessRow \cup RefreshRow
    /\ {"unissued", "pending", "gone"} \cap User = {}

Poll == Device \X Attempt

VARIABLES
    backend,   \* the configured storage backend, fixed at startup
    entry,     \* device_codes: state of the row, a user once approved
    approver,  \* history: the last user whose approval was confirmed
    expired,   \* device codes past their 30 minutes
    sessions,  \* atp_oauth_sessions: the DID of each, in creation order
    pc,        \* where the handler of each poll stands
    consumed,  \* the user that consume_device_code returned to each poll
    found,     \* the session that the linking step of each poll picked
    access,    \* access_tokens: newest row descending from each poll
    refresh    \* refresh_tokens: newest row descending from each poll

vars == <<backend, entry, approver, expired, sessions, pc, consumed, found, access, refresh>>

TypeOK ==
    /\ backend \in Backends
    /\ entry \in [Device -> {"unissued", "pending", "gone"} \cup User]
    /\ approver \in [Device -> User \cup {None}]
    /\ expired \subseteq Device
    /\ sessions \in Seq(User) /\ Len(sessions) <= MaxLogins
    /\ pc \in [Poll -> {"idle", "approved", "selected", "consumed", "access_stored",
                        "stored", "linking", "granted", "refused", "failed"}]
    /\ consumed \in [Poll -> User \cup {None}]
    /\ found \in [Poll -> Session \cup {None}]
    /\ access \in [Poll -> AccessRow \cup {None}]
    /\ refresh \in [Poll -> RefreshRow \cup {None}]

Init ==
    /\ backend \in Backends
    /\ entry = [d \in Device |-> "unissued"]
    /\ approver = [d \in Device |-> None]
    /\ expired = {}
    /\ sessions = <<>>
    /\ pc = [r \in Poll |-> "idle"]
    /\ consumed = [r \in Poll |-> None]
    /\ found = [r \in Poll |-> None]
    /\ access = [r \in Poll |-> None]
    /\ refresh = [r \in Poll |-> None]

Stored(d) == entry[d] \in {"pending"} \cup User

Approved(d) == entry[d] \in User

Move(r, from, to) == pc[r] = from /\ pc' = [pc EXCEPT ![r] = to]

-----------------------------------------------------------------------------
(* device_authorization_handler stores a code for the device. *)
IssueCode(d) ==
    /\ entry[d] = "unissued"
    /\ entry' = [entry EXCEPT ![d] = "pending"]
    /\ UNCHANGED <<backend, approver, expired, sessions, pc, consumed, found, access, refresh>>

(* A user logs in: an ATProtocol session with that DID appears. *)
LogIn(u) ==
    /\ Len(sessions) < MaxLogins
    /\ sessions' = Append(sessions, u)
    /\ UNCHANGED <<backend, entry, approver, expired, pc, consumed, found, access, refresh>>

(* authorize_device_code: the confirmation form was posted.  It may be posted *)
(* again, by another user too, until the code is consumed or expires.         *)
Approve(d, u) ==
    /\ Stored(d)
    /\ d \notin expired
    /\ entry' = [entry EXCEPT ![d] = u]
    /\ approver' = [approver EXCEPT ![d] = u]
    /\ UNCHANGED <<backend, expired, sessions, pc, consumed, found, access, refresh>>

Expire(d) ==
    /\ Stored(d)
    /\ expired' = expired \cup {d}
    /\ UNCHANGED <<backend, entry, approver, sessions, pc, consumed, found, access, refresh>>

-----------------------------------------------------------------------------
(* handle_device_code_grant *)

(* get_device_code finds an approved code; client authentication succeeds. *)
ReadCode(r) ==
    /\ Approved(r[1])
    /\ r[1] \notin expired
    /\ Move(r, "idle", "approved")
    /\ UNCHANGED <<backend, entry, approver, expired, sessions, consumed, found, access, refresh>>

(* Mutant: a pending code is answered with an error that ends the polling. *)
MutRefusePending(r) ==
    /\ entry[r[1]] \in {"pending", "gone"} \/ r[1] \in expired
    /\ Move(r, "idle", "refused")
    /\ UNCHANGED <<backend, entry, approver, expired, sessions, consumed, found, access, refresh>>

(* get_device_code finds no row, or an expired one: invalid_grant. *)
RefuseCode(r) ==
    /\ entry[r[1]] = "gone" \/ r[1] \in expired
    /\ Move(r, "idle", "refused")
    /\ UNCHANGED <<backend, entry, approver, expired, sessions, consumed, found, access, refresh>>

(* Mutant: the row is read and not deleted. *)
MutTakeKeepsRow(r, user) ==
    /\ consumed' = [consumed EXCEPT ![r] = user]
    /\ UNCHANGED <<backend, entry, approver, expired, sessions, found, access, refresh>>

\* Delete the row and take the user out of it.
Take(r, user) ==
    /\ entry' = [entry EXCEPT ![r[1]] = "gone"]
    /\ consumed' = [consumed EXCEPT ![r] = user]
    /\ UNCHANGED <<backend, approver, expired, sessions, found, access, refresh>>

(* consume_device_code under the mutex or in a serializable transaction. *)
ConsumeCode(r) ==
    /\ backend # "postgres"
    /\ Approved(r[1])
    /\ r[1] \notin expired
    /\ Move(r, "approved", "consumed")
    /\ Take(r, entry[r[1]])

(* consume_device_code returns None: no row, or an expired one it deletes. *)
ConsumeRefused(r) ==
    /\ entry[r[1]] = "gone" \/ r[1] \in expired
    /\ Move(r, "approved", "refused")
    /\ Take(r, consumed[r])

(* PostgreSQL at READ COMMITTED: the user comes from an unlocked SELECT, and *)
(* the DELETE that follows succeeds even if it finds no row.                 *)
PgSelectCode(r) ==
    /\ backend = "postgres"
    /\ Approved(r[1])
    /\ r[1] \notin expired
    /\ Move(r, "approved", "selected")
    /\ consumed' = [consumed EXCEPT ![r] = entry[r[1]]]
    /\ UNCHANGED <<backend, entry, approver, expired, sessions, found, access, refresh>>

PgDeleteCode(r) == Move(r, "selected", "consumed") /\ Take(r, consumed[r])

(* Mutant: the refresh token is stored before the access token. *)
MutStoreRefreshFirst(r) ==
    /\ Move(r, "consumed", "access_stored")
    /\ refresh' = [refresh EXCEPT ![r] = [user |-> consumed[r], session |-> None]]
    /\ UNCHANGED <<backend, entry, approver, expired, sessions, consumed, found, access>>

(* store_token: no session yet. *)
StoreAccess(r) ==
    /\ Move(r, "consumed", "access_stored")
    /\ access' = [access EXCEPT ![r] =
          [user |-> consumed[r], session |-> None, numbered |-> FALSE]]
    /\ UNCHANGED <<backend, entry, approver, expired, sessions, consumed, found, refresh>>

(* store_refresh_token, unless the client is not allowed that grant. *)
StoreRefresh(r) ==
    /\ Move(r, "access_stored", "stored")
    /\ \/ refresh' = [refresh EXCEPT ![r] = [user |-> consumed[r], session |-> None]]
       \/ refresh' = refresh
    /\ UNCHANGED <<backend, entry, approver, expired, sessions, consumed, found, access>>

-----------------------------------------------------------------------------
(* handle_oauth_token: linking the new token to the latest session. *)

SessionsOf(u) == {i \in DOMAIN sessions : sessions[i] = u}

(* Mutant: the latest session, whoever owns it. *)
MutLatestOfAnyone(u) == Len(sessions)

LatestSession(u) == CHOOSE i \in SessionsOf(u) : \A j \in SessionsOf(u) : j <= i

(* Mutant: a user without sessions is linked to a default session. *)
MutFindSessionDefault(r) ==
    /\ Move(r, "stored", "linking")
    /\ LET u == access[r].user IN
         found' = [found EXCEPT ![r] = IF SessionsOf(u) = {} THEN 0 ELSE LatestSession(u)]
    /\ UNCHANGED <<backend, entry, approver, expired, sessions, consumed, access, refresh>>

(* get_token, get_sessions_by_did and max_by_key(session_created_at). *)
FindSession(r) ==
    LET u == access[r].user IN
    /\ Move(r, "stored", "linking")
    /\ SessionsOf(u) # {}
    /\ found' = [found EXCEPT ![r] = LatestSession(u)]
    /\ UNCHANGED <<backend, entry, approver, expired, sessions, consumed, access, refresh>>

(* The user has no session, or storage reports an error, which is logged: *)
(* the response goes out with the token as it stands.                     *)
AnswerUnlinked(r) ==
    /\ pc[r] \in {"stored", "linking"}
    /\ pc' = [pc EXCEPT ![r] = "granted"]
    /\ UNCHANGED <<backend, entry, approver, expired, sessions, consumed, found, access, refresh>>

(* store_token of the linked record: an overwrite in memory, INSERT OR REPLACE *)
(* in SQLite, which deletes the old row and by the foreign key the refresh     *)
(* token, and in PostgreSQL a plain INSERT, which fails on the primary key.    *)
StoreLink(r) ==
    /\ Move(r, "linking", "granted")
    /\ access' = [access EXCEPT ![r] =
          IF backend = "postgres" THEN @
          ELSE [user |-> @.user, session |-> found[r], numbered |-> TRUE]]
    /\ refresh' = [refresh EXCEPT ![r] = IF backend = "sqlite" THEN None ELSE @]
    /\ UNCHANGED <<backend, entry, approver, expired, sessions, consumed, found>>

(* handle_refresh_token_grant on a device's pair (TokenGrants has its steps): *)
(* the session comes from the refresh token, and an access token without a    *)
(* session iteration is refused.  The new pair takes the place of the old.    *)
RefreshPair(r) ==
    /\ pc[r] = "granted"
    /\ refresh[r] # None
    /\ access[r].numbered
    /\ access' = [access EXCEPT ![r].session = refresh[r].session]
    /\ UNCHANGED <<backend, entry, approver, expired, sessions, pc, consumed, found, refresh>>

-----------------------------------------------------------------------------
(* Mutant: the code is consumed before the handler knows it will succeed. *)
MutFailDropsCode(r) ==
    /\ pc[r] \notin {"idle", "granted", "refused", "failed"}
    /\ pc' = [pc EXCEPT ![r] = "failed"]
    /\ entry' = [entry EXCEPT ![r[1]] = "gone"]
    /\ UNCHANGED <<backend, approver, expired, sessions, consumed, found, access, refresh>>

(* A handler that ends early before its response: a storage error, a dropped *)
(* connection, a stopped process.  What it has stored stays stored.          *)
Fail(r) ==
    /\ pc[r] \notin {"idle", "granted", "refused", "failed"}
    /\ pc' = [pc EXCEPT ![r] = "failed"]
    /\ UNCHANGED <<backend, entry, approver, expired, sessions, consumed, found, access, refresh>>

Serve(r) ==
    \/ ReadCode(r) \/ RefuseCode(r)
    \/ ConsumeCode(r) \/ ConsumeRefused(r) \/ PgSelectCode(r) \/ PgDeleteCode(r)
    \/ StoreAccess(r) \/ StoreRefresh(r)
    \/ FindSession(r) \/ AnswerUnlinked(r) \/ StoreLink(r)

Next ==
    \/ \E d \in Device : IssueCode(d) \/ Expire(d) \/ \E u \in User : Approve(d, u)
    \/ \E u \in User : LogIn(u)
    \/ \E r \in Poll : Serve(r) \/ RefreshPair(r) \/ Fail(r)

(* The device keeps polling while its code is pending, and the runtime runs *)
(* every handler that can proceed.                                          *)
Fairness == \A r \in Poll : WF_vars(Serve(r))

Spec == Init /\ [][Next]_vars /\ Fairness

-----------------------------------------------------------------------------
Holders(d) == {r \in Poll : r[1] = d /\ access[r] # None}

(* One device code yields tokens to one poll, however many polls overlap     *)
(* (consume_device_code), wherever the store reads and deletes in one step. *)
DeviceCodeOnce ==
    backend # "postgres" => \A d \in Device : Cardinality(Holders(d)) <= 1

(* The tokens a device receives, and the session they are linked to, belong *)
(* to the last user whose approval of this code was confirmed; approving     *)
(* while a poll is being served never leaves tokens of an earlier approver.  *)
TokensOfLastApprover ==
    backend # "postgres" =>
        \A r \in Poll : access[r] # None =>
            /\ access[r].user = approver[r[1]]
            /\ access[r].session # None => sessions[access[r].session] = approver[r[1]]

(* A refresh token in the store always has its access token beside it, also *)
(* when the handler stops half-way: the foreign key of the SQL schemas.      *)
RefreshRowBacked ==
    \A r \in Poll : refresh[r] # None =>
        access[r] # None /\ access[r].user = refresh[r].user

(* A poll is refused only if the code expired or another poll took it. *)
RefusedPollExplained ==
    \A r \in Poll : pc[r] = "refused" =>
        \/ r[1] \in expired
        \/ \E s \in Poll \ {r} : s[1] = r[1] /\ consumed[s] # None

(* A device that keeps polling an approved code gets its answer: tokens,     *)
(* unless the code expires first or a handler that serves it breaks off.     *)
ApprovedDeviceServed ==
    \A d \in Device :
        Approved(d) ~> \/ d \in expired
                       \/ \E r \in Poll : r[1] = d /\ pc[r] \in {"granted", "failed"}

(* Refreshing preserves the session fields of the access token. *)
SessionSurvivesRefresh ==
    [][\A r \in Poll : access[r] # None /\ access[r].session # None =>
          access'[r].session = access[r].session]_vars
=============================================================================
