---------------------------- MODULE RequestStores ----------------------------
(***************************************************************************)
(* The requests that wait for their user, in the three storage backends:   *)
(* DeviceCodeStore, PARStorage, OAuthRequestStorage and                    *)
(* AuthorizationRequestStorage, and what OAuthClientStore::delete_client   *)
(* does to their rows.  A device code and its user code are one key: both  *)
(* are random, and the databases keep both unique.                         *)
(*                                                                         *)
(* The device codes and pushed requests are those of one client.  In the   *)
(* databases both refer to it, pushed requests ON DELETE CASCADE.          *)
(*                                                                         *)
(* The in-memory and the SQLite server keep the OAuth requests in a cache  *)
(* of the atproto library instead (bin/aip.rs:158, 226), so only the two   *)
(* database implementations of that trait are compared.                    *)
(***************************************************************************)
EXTENDS StoreCalls

CONSTANTS DeviceCode, PushedRequest, OAuthState, Login, User, Server,
          DeviceLife, PushedLife, RequestLife

\* The lives end within the times counted; the keys of the tables are told apart.
ASSUME RequestStoresAssumption ==
    /\ {DeviceLife, PushedLife, RequestLife} \subseteq 0..MaxTime
    /\ DeviceCode \cap PushedRequest = {} /\ None \notin User

RequestKey == DeviceCode \cup PushedRequest \cup OAuthState \cup Login

DeviceRow == [key : DeviceCode, value : User \cup {None}, expires : Time]
PushedRow == [key : PushedRequest, value : {None}, expires : Time]
\* The authorization server's issuer and the address it was found at.
OAuthRow == [key : OAuthState, value : [issuer : Server, server : Server], expires : Time]
LoginRow == [key : Login, value : User, expires : {Never}]

RequestTables == [devices : SUBSET DeviceRow, pushed : SUBSET PushedRow,
                  states : SUBSET OAuthRow, logins : SUBSET LoginRow, client : BOOLEAN]

\* The client has been registered.
NoRequests ==
    [devices |-> {}, pushed |-> {}, states |-> {}, logins |-> {}, client |-> TRUE]

NewDevice(d, expires) == [key |-> d, value |-> None, expires |-> expires]
NewPushed(p) == [key |-> p, value |-> None, expires |-> now + PushedLife]
NewState(s, issuer, server) ==
    [key |-> s, value |-> [issuer |-> issuer, server |-> server], expires |-> now + RequestLife]
NewLogin(l, u) == [key |-> l, value |-> u, expires |-> Never]

-----------------------------------------------------------------------------
(* Device codes. *)

\* The device codes in the second in which they expire.
LastSecond ==
    UNION {Keys({r \in db[b].devices : r.expires >= now /\ Whole(r.expires) <= now}) :
                b \in Backend}

MemoryStoreDevice(d, c) ==
    Reply([d EXCEPT !.devices = Upsert(@, NewDevice(c, now + DeviceLife))], {})
\* The column holds seconds.
SqliteStoreDevice(d, c) ==
    IfClient(d, c, Reply([d EXCEPT !.devices =
                             @ \cup {NewDevice(c, Whole(now + DeviceLife))}], {}))
PostgresStoreDevice(d, c) ==
    IfClient(d, c, Reply([d EXCEPT !.devices = @ \cup {NewDevice(c, now + DeviceLife)}], {}))

\* By device code or by user code, expired or not.
MemoryGetDevice(d, c) == Reply(d, Where(d.devices, c))
SqliteGetDevice(d, c) == Reply(d, Where(d.devices, c))
PostgresGetDevice(d, c) == Reply(d, Where(d.devices, c))
MemoryGetUserCode(d, c) == Reply(d, Where(d.devices, c))
SqliteGetUserCode(d, c) == Reply(d, Where(d.devices, c))
PostgresGetUserCode(d, c) == Reply(d, Where(d.devices, c))

\* The rows still open at a time are given their user; no such row is an error.
Approve(d, c, u, time) ==
    LET open == {r \in Where(d.devices, c) : r.expires > time}
    IN  IF open = {} THEN Reply(d, Refused(c))
        ELSE Reply([d EXCEPT !.devices =
                       (@ \ open) \cup {[r EXCEPT !.value = u] : r \in open}], {})

MemoryAuthorizeDevice(d, c, u) == Approve(d, c, u, now)

\* Mutant: the WHERE clause does not test the expiry.
SqliteAuthorizeAnyTime(d, c, u) == Approve(d, c, u, 0)

SqliteAuthorizeDevice(d, c, u) == Approve(d, c, u, Whole(now))
PostgresAuthorizeDevice(d, c, u) == Approve(d, c, u, now)

\* The row goes in every case; only an approved one in time is answered.
TakeDevice(d, c) ==
    Reply([d EXCEPT !.devices = Without(@, c)],
          {r \in Where(d.devices, c) : r.expires > now /\ r.value # None})

MemoryConsumeDevice(d, c) == TakeDevice(d, c)
SqliteConsumeDevice(d, c) == TakeDevice(d, c)
PostgresConsumeDevice(d, c) == TakeDevice(d, c)

MemoryCleanupDevices(d) == Reply([d EXCEPT !.devices = @ \ Expired(@)], {})
SqliteCleanupDevices(d) ==
    Reply([d EXCEPT !.devices = {r \in @ : r.expires > Whole(now)}], {})
PostgresCleanupDevices(d) == Reply([d EXCEPT !.devices = @ \ Expired(@)], {})

-----------------------------------------------------------------------------
(* Pushed authorization requests. *)

MemoryStorePushed(d, p) == Reply([d EXCEPT !.pushed = Upsert(@, NewPushed(p))], {})
SqliteStorePushed(d, p) ==
    IfClient(d, p, Reply([d EXCEPT !.pushed = @ \cup {NewPushed(p)}], {}))
PostgresStorePushed(d, p) ==
    IfClient(d, p, Reply([d EXCEPT !.pushed = @ \cup {NewPushed(p)}], {}))

MemoryGetPushed(d, p) == Reply(d, Where(d.pushed, p))

\* Reading an expired request deletes it.
ReadPushed(d, p) ==
    LET rows == Where(d.pushed, p)
    IN  Reply([d EXCEPT !.pushed = @ \ Expired(rows)], rows \ Expired(rows))

SqliteGetPushed(d, p) == ReadPushed(d, p)
PostgresGetPushed(d, p) == ReadPushed(d, p)

MemoryConsumePushed(d, p) == Reply([d EXCEPT !.pushed = Without(@, p)], Where(d.pushed, p))

TakePushed(d, p) ==
    LET rows == Where(d.pushed, p)
    IN  Reply([d EXCEPT !.pushed = @ \ rows], rows \ Expired(rows))

SqliteConsumePushed(d, p) == TakePushed(d, p)
PostgresConsumePushed(d, p) == TakePushed(d, p)

MemoryCleanupPushed(d) == Reply([d EXCEPT !.pushed = @ \ Expired(@)], {})
SqliteCleanupPushed(d) == Reply([d EXCEPT !.pushed = @ \ Expired(@)], {})
PostgresCleanupPushed(d) == Reply([d EXCEPT !.pushed = @ \ Expired(@)], {})

\* The authorization endpoint's own test of what it read.
InTime(reply) == Reply(reply.db, {r \in reply.answer : r.expires >= now})

-----------------------------------------------------------------------------
(* OAuth requests and authorization requests. *)

\* The issuer is written in the place of the server.
ByIssuer(row) == [row EXCEPT !.value.server = row.value.issuer]

SqliteInsertState(d, row) == Reply([d EXCEPT !.states = Upsert(@, ByIssuer(row))], {})
PostgresInsertState(d, row) == Reply([d EXCEPT !.states = Upsert(@, row)], {})
SqliteGetState(d, s) == Reply(d, {r \in Where(d.states, s) : r.expires > now})
PostgresGetState(d, s) == Reply(d, {r \in Where(d.states, s) : r.expires > now})
SqliteDeleteState(d, s) == Reply([d EXCEPT !.states = Without(@, s)], {})
PostgresDeleteState(d, s) == Reply([d EXCEPT !.states = Without(@, s)], {})
SqliteClearStates(d) == Reply([d EXCEPT !.states = @ \ Expired(@)], {})
PostgresClearStates(d) == Reply([d EXCEPT !.states = @ \ Expired(@)], {})

MemoryStoreLogin(d, row) == Reply([d EXCEPT !.logins = Upsert(@, row)], {})
SqliteStoreLogin(d, row) == Reply([d EXCEPT !.logins = Upsert(@, row)], {})
PostgresStoreLogin(d, row) == Reply([d EXCEPT !.logins = Upsert(@, row)], {})
MemoryGetLogin(d, l) == Reply(d, Where(d.logins, l))
SqliteGetLogin(d, l) == Reply(d, Where(d.logins, l))
PostgresGetLogin(d, l) == Reply(d, Where(d.logins, l))

MemoryRemoveLogin(d, l) == Reply([d EXCEPT !.logins = Without(@, l)], {})

\* No row to remove is an error of the databases only.
RemoveLoginRow(d, l) ==
    Reply([d EXCEPT !.logins = Without(@, l)],
          IF Where(d.logins, l) = {} THEN Refused(l) ELSE {})

SqliteRemoveLogin(d, l) == RemoveLoginRow(d, l)
PostgresRemoveLogin(d, l) == RemoveLoginRow(d, l)

-----------------------------------------------------------------------------
(* The deletion of the client. *)

MemoryDropRequests(d) == Reply([d EXCEPT !.client = FALSE], {})

\* A device code in the way has it refused; pushed requests go with the client.
DropRequests(d) ==
    IF d.client /\ d.devices = {} THEN Reply([d EXCEPT !.client = FALSE, !.pushed = {}], {})
    ELSE Reply(d, Refused(None))

SqliteDropRequests(d) == DropRequests(d)
PostgresDropRequests(d) == DropRequests(d)

-----------------------------------------------------------------------------
(* The calls that write. *)

requestHistory == <<issued, spent, apart>>

StoreDeviceCode(c) ==
    /\ Issue({c})
    /\ Call(MemoryStoreDevice(db.memory, c), SqliteStoreDevice(db.sqlite, c),
            PostgresStoreDevice(db.postgres, c))
    /\ MayDiffer(Unowned(c))
    /\ UNCHANGED spent

AuthorizeDeviceCode(c, u) ==
    /\ Call(MemoryAuthorizeDevice(db.memory, c, u), SqliteAuthorizeDevice(db.sqlite, c, u),
            PostgresAuthorizeDevice(db.postgres, c, u))
    /\ MayDiffer({c} \cap LastSecond)
    /\ UNCHANGED <<issued, spent>>

ConsumeDeviceCode(c) ==
    LET memory == MemoryConsumeDevice(db.memory, c)
        sqlite == SqliteConsumeDevice(db.sqlite, c)
        postgres == PostgresConsumeDevice(db.postgres, c)
    IN  /\ Call(memory, sqlite, postgres) /\ Spend(memory, sqlite, postgres)
        /\ UNCHANGED <<issued, apart>>

CleanupDeviceCodes ==
    /\ Call(MemoryCleanupDevices(db.memory), SqliteCleanupDevices(db.sqlite),
            PostgresCleanupDevices(db.postgres))
    /\ MayDiffer(LastSecond)
    /\ UNCHANGED <<issued, spent>>

StorePushedRequest(p) ==
    /\ Issue({p})
    /\ Call(MemoryStorePushed(db.memory, p), SqliteStorePushed(db.sqlite, p),
            PostgresStorePushed(db.postgres, p))
    /\ MayDiffer(Unowned(p))
    /\ UNCHANGED spent

GetPushedRequest(p) ==
    /\ Call(MemoryGetPushed(db.memory, p), SqliteGetPushed(db.sqlite, p),
            PostgresGetPushed(db.postgres, p))
    /\ UNCHANGED requestHistory

ConsumePushedRequest(p) ==
    LET memory == MemoryConsumePushed(db.memory, p)
        sqlite == SqliteConsumePushed(db.sqlite, p)
        postgres == PostgresConsumePushed(db.postgres, p)
    IN  /\ Call(memory, sqlite, postgres) /\ Spend(memory, sqlite, postgres)
        /\ UNCHANGED <<issued, apart>>

CleanupPushedRequests ==
    /\ Call(MemoryCleanupPushed(db.memory), SqliteCleanupPushed(db.sqlite),
            PostgresCleanupPushed(db.postgres))
    /\ UNCHANGED requestHistory

\* Only the databases implement the trait.
DatabaseCall(sqlite, postgres) ==
    /\ Call(Reply(db.memory, {}), sqlite, postgres)
    /\ UNCHANGED requestHistory

InsertOAuthRequest(s, issuer, server) ==
    DatabaseCall(SqliteInsertState(db.sqlite, NewState(s, issuer, server)),
                 PostgresInsertState(db.postgres, NewState(s, issuer, server)))

DeleteOAuthRequest(s) ==
    DatabaseCall(SqliteDeleteState(db.sqlite, s), PostgresDeleteState(db.postgres, s))

ClearExpiredOAuthRequests ==
    DatabaseCall(SqliteClearStates(db.sqlite), PostgresClearStates(db.postgres))

StoreAuthorizationRequest(l, u) ==
    /\ Call(MemoryStoreLogin(db.memory, NewLogin(l, u)), SqliteStoreLogin(db.sqlite, NewLogin(l, u)),
            PostgresStoreLogin(db.postgres, NewLogin(l, u)))
    /\ UNCHANGED requestHistory

RemoveAuthorizationRequest(l) ==
    /\ Call(MemoryRemoveLogin(db.memory, l), SqliteRemoveLogin(db.sqlite, l),
            PostgresRemoveLogin(db.postgres, l))
    /\ UNCHANGED requestHistory

\* Memory keeps the pushed requests of a client that is gone.
DeleteClientRequests ==
    /\ Call(MemoryDropRequests(db.memory), SqliteDropRequests(db.sqlite),
            PostgresDropRequests(db.postgres))
    /\ MayDiffer(IF db.sqlite.devices # {} /\ db.postgres.devices # {} THEN {}
                 ELSE UNION {Keys(db[b].pushed) : b \in Backend})
    /\ UNCHANGED <<issued, spent>>

CleanupRequests == CleanupDeviceCodes \/ CleanupPushedRequests \/ ClearExpiredOAuthRequests

RequestCall ==
    \/ \E c \in DeviceCode : \/ StoreDeviceCode(c) \/ ConsumeDeviceCode(c)
                             \/ \E u \in User : AuthorizeDeviceCode(c, u)
    \/ \E p \in PushedRequest :
            StorePushedRequest(p) \/ GetPushedRequest(p) \/ ConsumePushedRequest(p)
    \/ \E s \in OAuthState : \/ DeleteOAuthRequest(s)
                             \/ \E issuer, server \in Server :
                                    InsertOAuthRequest(s, issuer, server)
    \/ \E l \in Login : \/ RemoveAuthorizationRequest(l)
                        \/ \E u \in User : StoreAuthorizationRequest(l, u)
    \/ CleanupRequests
    \/ DeleteClientRequests

-----------------------------------------------------------------------------
(* What the properties say of these tables. *)

\* Outside the second in which a device code expires.
DevicesAgree ==
    \A c \in DeviceCode \ (apart \cup LastSecond) :
        /\ Same(MemoryGetDevice(db.memory, c), SqliteGetDevice(db.sqlite, c),
                PostgresGetDevice(db.postgres, c))
        /\ Same(MemoryGetUserCode(db.memory, c), SqliteGetUserCode(db.sqlite, c),
                PostgresGetUserCode(db.postgres, c))
        /\ \A u \in User :
                Same(MemoryAuthorizeDevice(db.memory, c, u),
                     SqliteAuthorizeDevice(db.sqlite, c, u),
                     PostgresAuthorizeDevice(db.postgres, c, u))
        /\ Same(MemoryConsumeDevice(db.memory, c), SqliteConsumeDevice(db.sqlite, c),
                PostgresConsumeDevice(db.postgres, c))

\* As the caller sees it, which tests the expiry itself.
PushedAgree ==
    \A p \in PushedRequest \ AtEdge("pushed") :
        /\ Same(InTime(MemoryGetPushed(db.memory, p)), InTime(SqliteGetPushed(db.sqlite, p)),
                InTime(PostgresGetPushed(db.postgres, p)))
        /\ Same(InTime(MemoryConsumePushed(db.memory, p)),
                InTime(SqliteConsumePushed(db.sqlite, p)),
                InTime(PostgresConsumePushed(db.postgres, p)))

\* But for the server, in whose place SQLite answers the issuer.
LoginsAgree ==
    /\ \A s \in OAuthState :
        LET postgres == PostgresGetState(db.postgres, s)
        IN  Shown(SqliteGetState(db.sqlite, s)) =
                Shown(Reply(postgres.db, {ByIssuer(r) : r \in postgres.answer}))
    /\ \A l \in Login :
        /\ Same(MemoryGetLogin(db.memory, l), SqliteGetLogin(db.sqlite, l),
                PostgresGetLogin(db.postgres, l))
        /\ Shown(SqliteRemoveLogin(db.sqlite, l)) = Shown(PostgresRemoveLogin(db.postgres, l))

RequestsAgree == DevicesAgree /\ PushedAgree /\ LoginsAgree

RequestsHandedOnce ==
    \A b \in Backend :
        /\ spent[b] \cap Keys(db[b].devices) = {}
        /\ spent[b] \cap Keys(db[b].pushed) = {}
=============================================================================
