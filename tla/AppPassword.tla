----------------------------- MODULE AppPassword -----------------------------
(***************************************************************************)
(* The app password and the app-password session of one client and DID     *)
(* (http/handler_app_password.rs, http/handler_app_password_login.rs,      *)
(* oauth/utils_app_password.rs, storage/*/app_passwords.rs).               *)
(*                                                                         *)
(* Both tables are keyed by client and DID, so one pair is enough.  Three  *)
(* handlers meet on it: the API sets a password, the login form submits    *)
(* one, and the session endpoint uses or refreshes the session.  A session *)
(* is named by the handler that created it at the PDS, its tokens by their *)
(* generation: 1 from createSession, the next from each refreshSession.    *)
(***************************************************************************)
EXTENDS Naturals

CONSTANTS
    Setter,         \* requests to POST /api/atprotocol/app-password
    Login,          \* submissions of the app-password login form
    Request,        \* clients of the session endpoint, one request at a time
    Password, None, \* submitted passwords; the absence of a row
    Backends,       \* the storage backends the server may be configured with
    MaxGeneration   \* bound on the generations of a session's tokens

Creator == Setter \cup Login
Handler == Creator \cup Request

ASSUME AppPasswordAssumption ==
    /\ Backends \subseteq {"memory", "sqlite", "postgres"}
    /\ MaxGeneration \in Nat \ {0}
    /\ None \notin Password /\ None \notin Creator
    /\ Setter \cap Login = {} /\ Creator \cap Request = {}

VARIABLES
    backend,   \* the configured storage backend, fixed at startup
    form,      \* the password each setter or login submits
    password,  \* app_passwords: the stored password, or None
    session,   \* app_password_sessions: the stored session; creator None: no row
    accepted,  \* external: the passwords the PDS accepts
    newest,    \* external: the generation whose refresh token the PDS accepts
    stale,     \* tokens that expire within 60 seconds
    pc,        \* where each handler stands
    held,      \* the session each request is refreshing
    got,       \* the session each request was last answered with
    mishaps    \* history: what has gone wrong so far

vars == <<backend, form, password, session, accepted, newest, stale, pc, held, got,
          mishaps>>

Generation == 0..MaxGeneration
Token == [creator : Creator, generation : Generation \ {0}]

\* error: exchange_error is Some.
Row == [creator : Creator, generation : Generation \ {0}, error : BOOLEAN]

NoSession == [creator |-> None, generation |-> 0, error |-> FALSE]

Session == Row \cup {NoSession}

TokenOf(s) == [creator |-> s.creator, generation |-> s.generation]

CreatorStates == {"deleting", "setting", "creating", "storing", "cleaning",
                  "authorizing", "done", "refused"}
RequestStates == {"refreshing", "storing", "answered", "refused"}

\* A changed password overlapped another handler; two refreshes overlapped; the
\* PDS was out of reach or revoked a password, or rotated tokens were not saved;
\* a failed login left its password behind.
Mishap == {"changes", "refreshes", "trouble", "leftover"}

TypeOK ==
    /\ backend \in Backends
    /\ form \in [Creator -> Password]
    /\ password \in Password \cup {None}
    /\ session \in Session
    /\ accepted \subseteq Password
    /\ newest \in [Creator -> Generation]
    /\ stale \subseteq Token
    /\ pc \in [Handler -> {"idle"} \cup CreatorStates \cup RequestStates]
    /\ held \in [Request -> Session]
    /\ got \in [Request -> Session]
    /\ mishaps \subseteq Mishap

Init ==
    /\ backend \in Backends
    /\ form \in [Creator -> Password]
    /\ password = None /\ session = NoSession
    /\ accepted \in SUBSET Password
    /\ newest = [h \in Creator |-> 0]
    /\ stale = {}
    /\ pc = [h \in Handler |-> "idle"]
    /\ held = [r \in Request |-> NoSession]
    /\ got = [r \in Request |-> NoSession]
    /\ mishaps = {}

tables == <<password, session>>
world == <<accepted, newest, stale>>

-----------------------------------------------------------------------------
(* Storage. *)

(* Mutant: the session table has no foreign key. *)
MutMayStoreSession == TRUE

\* The databases' session table references its password; memory has no such check.
MayStoreSession == backend = "memory" \/ password # None

\* delete_app_password: the session goes with it, by cascade or by hand.
DeletePassword == password' = None /\ session' = NoSession

Go(h, from, to) == pc[h] = from /\ pc' = [pc EXCEPT ![h] = to]

Changing == {h \in Creator : pc[h] \notin {"idle", "done", "refused"}}
Refreshing == {r \in Request : pc[r] \in {"refreshing", "storing"}}

\* A setter or login begins while the pair is in use.
NoteChange ==
    mishaps' = IF Changing \cup Refreshing = {} THEN mishaps ELSE mishaps \cup {"changes"}

-----------------------------------------------------------------------------
(* create_app_password_handler. *)

(* Mutant: an update does not delete the old password's sessions. *)
MutCheckExisting(s) ==
    /\ Go(s, "idle", "setting")
    /\ NoteChange
    /\ UNCHANGED <<backend, form, tables, world, held, got>>

CheckExisting(s) ==
    /\ Go(s, "idle", IF password = None THEN "setting" ELSE "deleting")
    /\ NoteChange
    /\ UNCHANGED <<backend, form, tables, world, held, got>>

DeleteSessions(s) ==
    /\ Go(s, "deleting", "setting")
    /\ session' = NoSession
    /\ UNCHANGED <<backend, form, password, world, held, got, mishaps>>

StorePassword(s) ==
    /\ Go(s, "setting", "creating")
    /\ password' = form[s]
    /\ UNCHANGED <<backend, form, session, world, held, got, mishaps>>

(* Storage fails, the DID's document or its PDS is unknown, or the handler stops. *)
SetterError(s) ==
    /\ pc[s] \in {"deleting", "setting", "creating", "storing"}
    /\ pc' = [pc EXCEPT ![s] = "refused"]
    /\ UNCHANGED <<backend, form, tables, world, held, got, mishaps>>

(* handle_app_password_login up to its first await on the PDS. *)
StoreLoginPassword(l) ==
    /\ Go(l, "idle", "creating")
    /\ password' = form[l]
    /\ NoteChange
    /\ UNCHANGED <<backend, form, session, world, held, got>>

-----------------------------------------------------------------------------
(* create_app_password_session, on behalf of a setter or a login. *)

CreateFailed(h) == IF h \in Setter THEN "refused" ELSE "cleaning"

CreateSession(h) ==
    /\ form[h] \in accepted
    /\ Go(h, "creating", "storing")
    /\ newest' = [newest EXCEPT ![h] = 1]
    /\ UNCHANGED <<backend, form, tables, accepted, stale, held, got, mishaps>>

(* Mutant: a refusal by the PDS does not end the login. *)
MutCreateRefused(h) ==
    /\ form[h] \notin accepted
    /\ Go(h, "creating", IF h \in Setter THEN "refused" ELSE "authorizing")
    /\ UNCHANGED <<backend, form, tables, world, held, got, mishaps>>

CreateRefused(h) ==
    /\ form[h] \notin accepted
    /\ Go(h, "creating", CreateFailed(h))
    /\ UNCHANGED <<backend, form, tables, world, held, got, mishaps>>

(* The PDS cannot be reached, or its answer is lost. *)
CreateUnreachable(h) ==
    /\ Go(h, "creating", CreateFailed(h))
    /\ UNCHANGED <<backend, form, tables, world, held, got, mishaps>>

StoreSession(h) ==
    /\ MayStoreSession
    /\ Go(h, "storing", IF h \in Setter THEN "done" ELSE "authorizing")
    /\ session' = [creator |-> h, generation |-> 1, error |-> FALSE]
    /\ UNCHANGED <<backend, form, password, world, held, got, mishaps>>

(* The foreign key fails, or storage does. *)
StoreSessionFails(h) ==
    /\ Go(h, "storing", CreateFailed(h))
    /\ UNCHANGED <<backend, form, tables, world, held, got, mishaps>>

(* The login deletes the pair's password, whoever stored it. *)
CleanUp(l) ==
    /\ Go(l, "cleaning", "refused")
    /\ DeletePassword
    /\ UNCHANGED <<backend, form, world, held, got, mishaps>>

(* The handler stops before the cleanup, or ignores that the cleanup fails. *)
LeaveBehind(l) ==
    /\ pc[l] \in {"creating", "storing", "cleaning"}
    /\ pc' = [pc EXCEPT ![l] = "refused"]
    /\ mishaps' = mishaps \cup {"leftover"}
    /\ UNCHANGED <<backend, form, tables, world, held, got>>

(* authorize issues a code without a session id, or refuses the client. *)
Authorize(l) ==
    /\ \E outcome \in {"done", "refused"} : Go(l, "authorizing", outcome)
    /\ UNCHANGED <<backend, form, tables, world, held, got, mishaps>>

-----------------------------------------------------------------------------
(* get_app_password_session_with_refresh, for the session endpoint. *)

Ready(r) == pc[r] \in {"idle", "answered", "refused"}

NeedsRefresh == ~session.error /\ TokenOf(session) \in stale

(* The stored session answers, or its recorded error refuses; without a     *)
(* session there is none to use.                                            *)
UseSession(r) ==
    /\ Ready(r) /\ session # NoSession /\ ~NeedsRefresh
    /\ pc' = [pc EXCEPT ![r] = IF session.error THEN "refused" ELSE "answered"]
    /\ got' = IF session.error THEN got ELSE [got EXCEPT ![r] = session]
    /\ UNCHANGED <<backend, form, tables, world, held, mishaps>>

BeginRefresh(r) ==
    /\ Ready(r) /\ session # NoSession /\ NeedsRefresh
    /\ session.generation < MaxGeneration
    /\ pc' = [pc EXCEPT ![r] = "refreshing"]
    /\ held' = [held EXCEPT ![r] = session]
    /\ mishaps' = mishaps
         \cup (IF Changing = {} THEN {} ELSE {"changes"})
         \cup (IF Refreshing = {} THEN {} ELSE {"refreshes"})
    /\ UNCHANGED <<backend, form, tables, world, got>>

Rotated(t) == [newest EXCEPT ![t.creator] = t.generation + 1]

PdsKnows(t) == newest[t.creator] = t.generation /\ form[t.creator] \in accepted

(* Mutant: the rotated refresh token is not kept. *)
MutRefreshed(s) == s

Refreshed(s) == [s EXCEPT !.generation = @ + 1]

(* Mutant: a failed refresh drops the tokens it had. *)
MutFailed(s) == [s EXCEPT !.generation = 0, !.error = TRUE]

(* A failed refresh is stored with the old tokens. *)
Failed(s) == [s EXCEPT !.error = TRUE]

(* refreshSession rotates the tokens. *)
PdsRefreshes(r) ==
    /\ Go(r, "refreshing", "storing")
    /\ PdsKnows(held[r])
    /\ newest' = Rotated(held[r])
    /\ held' = [held EXCEPT ![r] = Refreshed(@)]
    /\ UNCHANGED <<backend, form, tables, accepted, stale, got, mishaps>>

(* The PDS refuses a rotated token, or one of a revoked password. *)
PdsRefuses(r) ==
    /\ Go(r, "refreshing", "storing")
    /\ ~PdsKnows(held[r])
    /\ held' = [held EXCEPT ![r] = Failed(@)]
    /\ UNCHANGED <<backend, form, tables, world, got, mishaps>>

(* The PDS cannot be reached, or its answer is lost after it has rotated. *)
PdsUnreachable(r) ==
    /\ Go(r, "refreshing", "storing")
    /\ \/ newest' = newest
       \/ PdsKnows(held[r]) /\ newest' = Rotated(held[r])
    /\ held' = [held EXCEPT ![r] = Failed(@)]
    /\ mishaps' = mishaps \cup {"trouble"}
    /\ UNCHANGED <<backend, form, tables, accepted, stale, got>>

(* Mutant: the refreshed session is answered with but not stored. *)
MutStoreRefreshed(r) ==
    /\ MayStoreSession
    /\ Go(r, "storing", IF held[r].error THEN "refused" ELSE "answered")
    /\ got' = IF held[r].error THEN got ELSE [got EXCEPT ![r] = held[r]]
    /\ held' = [held EXCEPT ![r] = NoSession]
    /\ UNCHANGED <<backend, form, tables, world, mishaps>>

(* The new iteration replaces the stored session, whatever that is by now. *)
StoreRefreshed(r) ==
    /\ MayStoreSession
    /\ Go(r, "storing", IF held[r].error THEN "refused" ELSE "answered")
    /\ session' = held[r]
    /\ got' = IF held[r].error THEN got ELSE [got EXCEPT ![r] = held[r]]
    /\ held' = [held EXCEPT ![r] = NoSession]
    /\ UNCHANGED <<backend, form, password, world, mishaps>>

(* The foreign key fails, storage does, or the handler stops. *)
StoreRefreshedFails(r) ==
    /\ Go(r, "storing", "refused")
    /\ held' = [held EXCEPT ![r] = NoSession]
    /\ mishaps' = mishaps \cup {"trouble"}
    /\ UNCHANGED <<backend, form, tables, world, got>>

-----------------------------------------------------------------------------
(* The stored session's access token comes within 60 seconds of its expiry. *)
Age ==
    /\ session # NoSession
    /\ stale' = stale \cup {TokenOf(session)}
    /\ UNCHANGED <<backend, form, tables, accepted, newest, pc, held, got, mishaps>>

(* The user revokes an app password at the PDS, and its sessions with it. *)
Revoke(p) ==
    /\ p \in accepted
    /\ accepted' = accepted \ {p}
    /\ mishaps' = mishaps \cup {"trouble"}
    /\ UNCHANGED <<backend, form, tables, newest, stale, pc, held, got>>

SetterStep(s) ==
    \/ CheckExisting(s) \/ DeleteSessions(s) \/ StorePassword(s) \/ SetterError(s)

LoginStep(l) ==
    \/ StoreLoginPassword(l) \/ CleanUp(l) \/ LeaveBehind(l) \/ Authorize(l)

CreateStep(h) ==
    \/ CreateSession(h) \/ CreateRefused(h) \/ CreateUnreachable(h)
    \/ StoreSession(h) \/ StoreSessionFails(h)

RequestStep(r) ==
    \/ UseSession(r) \/ BeginRefresh(r)
    \/ PdsRefreshes(r) \/ PdsRefuses(r) \/ PdsUnreachable(r)
    \/ StoreRefreshed(r) \/ StoreRefreshedFails(r)

Next ==
    \/ \E s \in Setter : SetterStep(s)
    \/ \E l \in Login : LoginStep(l)
    \/ \E h \in Creator : CreateStep(h)
    \/ \E r \in Request : RequestStep(r)
    \/ Age
    \/ \E p \in Password : Revoke(p)

Spec == Init /\ [][Next]_vars

-----------------------------------------------------------------------------
LoggingIn == \E l \in Login : l \in Changing

(* The session was created with the stored password, unless a change of the  *)
(* password overlapped another handler or a failed login left its password   *)
(* behind: a setter deletes the old session before it stores the new     *)
(* password, and a failed login deletes both.                                *)
SessionUsesStoredPassword ==
    mishaps \cap {"changes", "leftover"} = {} /\ ~LoggingIn
        /\ session # NoSession => password = form[session.creator]

(* A session never outlives its password.  The databases promise it whatever *)
(* overlaps, by foreign key and cascade; memory only while no change of the  *)
(* password overlaps a refresh, which could store the deleted session again. *)
SessionHasPassword ==
    session # NoSession /\ password = None =>
        backend = "memory" /\ "changes" \in mishaps

(* A login receives its authorization code only when the session it created  *)
(* is in store, since the code carries no session id and the client will     *)
(* find that session by client and DID.                                      *)
CodeFindsSession ==
    \A l \in Login : pc[l] = "authorizing" =>
        session.creator = l \/ "changes" \in mishaps

(* A session records an error only for a cause; refreshes that follow one    *)
(* another keep it alive.                                                    *)
ErrorsExplained == session.error => mishaps # {}

(* Once a request was answered with some generation of a session's tokens,   *)
(* that session is never usable with older ones.                             *)
TokensNeverGoBack ==
    \A r \in Request : session.creator = got[r].creator =>
        session.error \/ session.generation >= got[r].generation
=============================================================================
