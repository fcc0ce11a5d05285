---------------------------- MODULE RecordStores -----------------------------
(***************************************************************************)
(* The records without an expiry, in the three storage backends:           *)
(* OAuthClientStore, KeyStore, AppPasswordStore, AppPasswordSessionStore   *)
(* and the password transaction of TransactionalStorage.  A password and   *)
(* its session belong to a pair of a client and a user.  In both databases *)
(* the session refers to its password ON DELETE CASCADE; only PostgreSQL   *)
(* has the password refer to its client (migrations/postgres/004,          *)
(* sqlite/011).  What else refers to a client is in GrantStores and        *)
(* RequestStores; here a deletion is told which databases hold a device    *)
(* code of the client.                                                     *)
(***************************************************************************)
EXTENDS StoreCalls

CONSTANTS Client, KeyId, SigningId, Pair, Holder, Content

\* The client and the user of a pair.
ClientOf(pair) == pair[1]
UserOf(pair) == pair[2]

ASSUME RecordStoresAssumption ==
    /\ Pair \subseteq Client \X Holder
    /\ KeyId \cap SigningId = {}

RecordKey == Client \cup KeyId \cup SigningId \cup Pair

Row(key, value) == [key |-> key, value |-> value]

\* application_type, software_id and software_version, and all other columns.
Registration == [software : Content, settings : Content]

ClientRow == [key : Client, value : Registration]
KeyRow == [key : KeyId \cup SigningId, value : Content]
PasswordRow == [key : Pair, value : Content]
AppSessionRow == [key : Pair, value : Content]

\* The default signing key is a slot in memory, a flagged row in a database.
RecordTables == [clients : SUBSET ClientRow, keys : SUBSET KeyRow, default : SUBSET KeyRow,
                 passwords : SUBSET PasswordRow, appSessions : SUBSET AppSessionRow]

NoRecords == [clients |-> {}, keys |-> {}, default |-> {}, passwords |-> {}, appSessions |-> {}]

\* What a database answers to a write that found no row.
IfRow(d, table, k) == Reply(d, IF Where(table, k) = {} THEN Refused(k) ELSE {})

-----------------------------------------------------------------------------
(* Clients. *)

MemoryStoreClient(d, row) == Reply([d EXCEPT !.clients = Upsert(@, row)], {})
SqliteStoreClient(d, row) == Reply([d EXCEPT !.clients = @ \cup {row}], {})
PostgresStoreClient(d, row) == Reply([d EXCEPT !.clients = @ \cup {row}], {})

MemoryGetClient(d, c) == Reply(d, Where(d.clients, c))
SqliteGetClient(d, c) == Reply(d, Where(d.clients, c))
PostgresGetClient(d, c) == Reply(d, Where(d.clients, c))

\* Replaces the row if there is one.
Replace(d, row) ==
    IfRow([d EXCEPT !.clients = {IF r.key = row.key THEN row ELSE r : r \in @}],
          d.clients, row.key)

MemoryUpdateClient(d, row) == Replace(d, row)
SqliteUpdateClient(d, row) == Replace(d, row)

\* The statement sets no column of the software.
KeepSoftware(old, new) == [new EXCEPT !.value.software = old.value.software]

PostgresUpdateClient(d, row) ==
    IfRow([d EXCEPT !.clients = {IF r.key = row.key THEN KeepSoftware(r, row) ELSE r : r \in @}],
          d.clients, row.key)

MemoryDeleteClient(d, c) == Reply([d EXCEPT !.clients = Without(@, c)], {})

\* referred: a device code refers to the client, and the statement fails.
SqliteDeleteClient(d, c, referred) ==
    IF referred THEN Reply(d, Refused(c))
    ELSE IfRow([d EXCEPT !.clients = Without(@, c)], d.clients, c)

OfOthers(table, c) == {r \in table : ClientOf(r.key) # c}

PostgresDeleteClient(d, c, referred) ==
    IF referred THEN Reply(d, Refused(c))
    ELSE IfRow([d EXCEPT !.clients = Without(@, c), !.passwords = OfOthers(@, c),
                         !.appSessions = OfOthers(@, c)], d.clients, c)

\* Without a limit.
MemoryListClients(d) == Reply(d, d.clients)
SqliteListClients(d) == Reply(d, d.clients)
PostgresListClients(d) == Reply(d, d.clients)

-----------------------------------------------------------------------------
(* Keys. *)

MemoryStoreSigningKey(d, row) == Reply([d EXCEPT !.default = {row}], {})

\* The old default loses its flag and stays as a row.
FlagOnly(d, row) == Reply([d EXCEPT !.keys = @ \cup {row}, !.default = {row}], {})

SqliteStoreSigningKey(d, row) == FlagOnly(d, row)
PostgresStoreSigningKey(d, row) == FlagOnly(d, row)

MemoryGetSigningKey(d) == Reply(d, d.default)
SqliteGetSigningKey(d) == Reply(d, d.default)
PostgresGetSigningKey(d) == Reply(d, d.default)

MemoryStoreKey(d, row) == Reply([d EXCEPT !.keys = Upsert(@, row)], {})
SqliteStoreKey(d, row) ==
    IF row.key \in Keys(d.keys) THEN Reply(d, Refused(row.key))
    ELSE Reply([d EXCEPT !.keys = @ \cup {row}], {})
PostgresStoreKey(d, row) == Reply([d EXCEPT !.keys = Upsert(@, row)], {})

MemoryGetKey(d, k) == Reply(d, Where(d.keys, k))
SqliteGetKey(d, k) == Reply(d, Where(d.keys, k))
PostgresGetKey(d, k) == Reply(d, Where(d.keys, k))

\* The databases list the signing keys too.
MemoryListKeyIds(d) == Keys(d.keys)
SqliteListKeyIds(d) == Keys(d.keys)
PostgresListKeyIds(d) == Keys(d.keys)

-----------------------------------------------------------------------------
(* App passwords and their sessions at the PDS. *)

PutPassword(d, row) == [d EXCEPT !.passwords = Upsert(@, row)]
PutAppSession(d, row) == [d EXCEPT !.appSessions = Upsert(@, row)]
DropPair(d, p) == [d EXCEPT !.passwords = Without(@, p), !.appSessions = Without(@, p)]

\* The foreign keys of a row to insert.
Referring(d, row, ok, left) == IF ok THEN Reply(left, {}) ELSE Reply(d, Refused(row.key))

MemoryStorePassword(d, row) == Reply(PutPassword(d, row), {})
SqliteStorePassword(d, row) == Reply(PutPassword(d, row), {})
PostgresStorePassword(d, row) ==
    Referring(d, row, ClientOf(row.key) \in Keys(d.clients), PutPassword(d, row))

MemoryGetPassword(d, p) == Reply(d, Where(d.passwords, p))
SqliteGetPassword(d, p) == Reply(d, Where(d.passwords, p))
PostgresGetPassword(d, p) == Reply(d, Where(d.passwords, p))

\* Mutant: the session is left, as no cascade removes it.
MemoryDeletePasswordOnly(d, p) == Reply([d EXCEPT !.passwords = Without(@, p)], {})

\* In a database the cascade removes the session.
MemoryDeletePassword(d, p) == Reply(DropPair(d, p), {})
SqliteDeletePassword(d, p) == Reply(DropPair(d, p), {})
PostgresDeletePassword(d, p) == Reply(DropPair(d, p), {})

OfUser(table, u) == {r \in table : UserOf(r.key) = u}
OfClient(table, c) == {r \in table : ClientOf(r.key) = c}

MemoryPasswordsOfUser(d, u) == Reply(d, OfUser(d.passwords, u))
SqlitePasswordsOfUser(d, u) == Reply(d, OfUser(d.passwords, u))
PostgresPasswordsOfUser(d, u) == Reply(d, OfUser(d.passwords, u))
MemoryPasswordsOfClient(d, c) == Reply(d, OfClient(d.passwords, c))
SqlitePasswordsOfClient(d, c) == Reply(d, OfClient(d.passwords, c))
PostgresPasswordsOfClient(d, c) == Reply(d, OfClient(d.passwords, c))

MemoryStoreAppSession(d, row) == Reply(PutAppSession(d, row), {})
SqliteStoreAppSession(d, row) ==
    Referring(d, row, row.key \in Keys(d.passwords), PutAppSession(d, row))
PostgresStoreAppSession(d, row) ==
    Referring(d, row, row.key \in Keys(d.passwords), PutAppSession(d, row))

MemoryGetAppSession(d, p) == Reply(d, Where(d.appSessions, p))
SqliteGetAppSession(d, p) == Reply(d, Where(d.appSessions, p))
PostgresGetAppSession(d, p) == Reply(d, Where(d.appSessions, p))

ReplaceAppSession(d, row) ==
    IfRow([d EXCEPT !.appSessions = {IF r.key = row.key THEN row ELSE r : r \in @}],
          d.appSessions, row.key)

MemoryUpdateAppSession(d, row) == ReplaceAppSession(d, row)
SqliteUpdateAppSession(d, row) == ReplaceAppSession(d, row)
PostgresUpdateAppSession(d, row) == ReplaceAppSession(d, row)

MemoryDeleteAppSession(d, p) == Reply([d EXCEPT !.appSessions = Without(@, p)], {})
SqliteDeleteAppSession(d, p) == Reply([d EXCEPT !.appSessions = Without(@, p)], {})
PostgresDeleteAppSession(d, p) == Reply([d EXCEPT !.appSessions = Without(@, p)], {})

MemoryAppSessionsOfUser(d, u) == Reply(d, OfUser(d.appSessions, u))
SqliteAppSessionsOfUser(d, u) == Reply(d, OfUser(d.appSessions, u))
PostgresAppSessionsOfUser(d, u) == Reply(d, OfUser(d.appSessions, u))
MemoryAppSessionsOfClient(d, c) == Reply(d, OfClient(d.appSessions, c))
SqliteAppSessionsOfClient(d, c) == Reply(d, OfClient(d.appSessions, c))
PostgresAppSessionsOfClient(d, c) == Reply(d, OfClient(d.appSessions, c))

\* The old session goes and both rows are stored, or nothing changes.
MemoryUpsertPassword(d, password, session) ==
    Reply(PutAppSession(PutPassword(d, password), session), {})
SqliteUpsertPassword(d, password, session) ==
    Reply(PutAppSession(PutPassword(d, password), session), {})
PostgresUpsertPassword(d, password, session) ==
    Referring(d, password, ClientOf(password.key) \in Keys(d.clients),
              PutAppSession(PutPassword(d, password), session))

-----------------------------------------------------------------------------
(* The calls that write. *)

recordHistory == <<issued, spent, apart>>

StoreClient(c, v) ==
    /\ Issue({c})
    /\ Call(MemoryStoreClient(db.memory, Row(c, v)), SqliteStoreClient(db.sqlite, Row(c, v)),
            PostgresStoreClient(db.postgres, Row(c, v)))
    /\ UNCHANGED <<spent, apart>>

UpdateClient(c, v) ==
    /\ Call(MemoryUpdateClient(db.memory, Row(c, v)), SqliteUpdateClient(db.sqlite, Row(c, v)),
            PostgresUpdateClient(db.postgres, Row(c, v)))
    /\ UNCHANGED recordHistory

\* PostgreSQL alone takes the passwords away with their client, and memory
\* alone deletes a client that a device code refers to.
DeleteClient(c, referring) ==
    /\ \A b \in referring : c \in Keys(db[b].clients)
    /\ Call(MemoryDeleteClient(db.memory, c),
            SqliteDeleteClient(db.sqlite, c, "sqlite" \in referring),
            PostgresDeleteClient(db.postgres, c, "postgres" \in referring))
    /\ MayDiffer({p \in Pair : ClientOf(p) = c /\ c \in Keys(db.postgres.clients)}
                    \cup {k \in {c} : referring # {}})
    /\ UNCHANGED <<issued, spent>>

StoreSigningKey(k, v) ==
    /\ Issue({k})
    /\ Call(MemoryStoreSigningKey(db.memory, Row(k, v)),
            SqliteStoreSigningKey(db.sqlite, Row(k, v)),
            PostgresStoreSigningKey(db.postgres, Row(k, v)))
    /\ UNCHANGED <<spent, apart>>

\* A name that is taken is overwritten, refused and overwritten.
StoreKey(k, v) ==
    /\ Call(MemoryStoreKey(db.memory, Row(k, v)), SqliteStoreKey(db.sqlite, Row(k, v)),
            PostgresStoreKey(db.postgres, Row(k, v)))
    /\ MayDiffer({k} \cap Keys(db.sqlite.keys))
    /\ UNCHANGED <<issued, spent>>

\* A password for a client that is gone is refused by PostgreSQL alone.
Orphan(p) == {x \in {p} : ClientOf(x) \notin Keys(db.postgres.clients)}

StoreAppPassword(p, v) ==
    /\ Call(MemoryStorePassword(db.memory, Row(p, v)), SqliteStorePassword(db.sqlite, Row(p, v)),
            PostgresStorePassword(db.postgres, Row(p, v)))
    /\ MayDiffer(Orphan(p))
    /\ UNCHANGED <<issued, spent>>

DeleteAppPassword(p) ==
    /\ Call(MemoryDeletePassword(db.memory, p), SqliteDeletePassword(db.sqlite, p),
            PostgresDeletePassword(db.postgres, p))
    /\ UNCHANGED recordHistory

\* A session without its password is stored in memory and refused elsewhere.
StoreAppPasswordSession(p, v) ==
    /\ Call(MemoryStoreAppSession(db.memory, Row(p, v)),
            SqliteStoreAppSession(db.sqlite, Row(p, v)),
            PostgresStoreAppSession(db.postgres, Row(p, v)))
    /\ MayDiffer({p} \ Keys(db.sqlite.passwords))
    /\ UNCHANGED <<issued, spent>>

UpdateAppPasswordSession(p, v) ==
    /\ Call(MemoryUpdateAppSession(db.memory, Row(p, v)),
            SqliteUpdateAppSession(db.sqlite, Row(p, v)),
            PostgresUpdateAppSession(db.postgres, Row(p, v)))
    /\ UNCHANGED recordHistory

DeleteAppPasswordSessions(p) ==
    /\ Call(MemoryDeleteAppSession(db.memory, p), SqliteDeleteAppSession(db.sqlite, p),
            PostgresDeleteAppSession(db.postgres, p))
    /\ UNCHANGED recordHistory

UpsertAppPasswordWithSession(p, v, w) ==
    /\ Call(MemoryUpsertPassword(db.memory, Row(p, v), Row(p, w)),
            SqliteUpsertPassword(db.sqlite, Row(p, v), Row(p, w)),
            PostgresUpsertPassword(db.postgres, Row(p, v), Row(p, w)))
    /\ MayDiffer(Orphan(p))
    /\ UNCHANGED <<issued, spent>>

KeyCall ==
    \/ \E k \in SigningId, v \in Content : StoreSigningKey(k, v)
    \/ \E k \in KeyId, v \in Content : StoreKey(k, v)

RecordCall ==
    \/ \E c \in Client :
            \/ \E referring \in SUBSET {"sqlite", "postgres"} : DeleteClient(c, referring)
            \/ \E v \in Registration : StoreClient(c, v) \/ UpdateClient(c, v)
    \/ \E p \in Pair : \/ DeleteAppPassword(p) \/ DeleteAppPasswordSessions(p)
                       \/ \E v \in Content : \/ StoreAppPassword(p, v)
                                             \/ StoreAppPasswordSession(p, v)
                                             \/ UpdateAppPasswordSession(p, v)
                       \/ \E v, w \in Content : UpsertAppPasswordWithSession(p, v, w)

-----------------------------------------------------------------------------
(* What the properties say of these tables. *)

\* Without the software, of which PostgreSQL keeps what was registered.
Settings(reply) ==
    Reply(reply.db, {[r EXCEPT !.value = r.value.settings] : r \in reply.answer})

SameClients(memory, sqlite, postgres) ==
    /\ Shown(memory) = Shown(sqlite)
    /\ Shown(Settings(sqlite)) = Shown(Settings(postgres))

ClientsAgree ==
    /\ \A c \in Client :
        /\ SameClients(MemoryGetClient(db.memory, c), SqliteGetClient(db.sqlite, c),
                       PostgresGetClient(db.postgres, c))
        /\ c \notin apart =>
                SqliteDeleteClient(db.sqlite, c, FALSE).answer =
                    PostgresDeleteClient(db.postgres, c, FALSE).answer
    /\ SameClients(MemoryListClients(db.memory), SqliteListClients(db.sqlite),
                   PostgresListClients(db.postgres))

KeysAgree ==
    /\ Same(MemoryGetSigningKey(db.memory), SqliteGetSigningKey(db.sqlite),
            PostgresGetSigningKey(db.postgres))
    /\ \A k \in KeyId :
        Same(MemoryGetKey(db.memory, k), SqliteGetKey(db.sqlite, k),
             PostgresGetKey(db.postgres, k))
    /\ SqliteListKeyIds(db.sqlite) = PostgresListKeyIds(db.postgres)
    /\ MemoryListKeyIds(db.memory) = SqliteListKeyIds(db.sqlite) \cap KeyId

PasswordsAgree ==
    /\ \A p \in Pair :
        /\ Same(MemoryGetPassword(db.memory, p), SqliteGetPassword(db.sqlite, p),
                PostgresGetPassword(db.postgres, p))
        /\ Same(MemoryGetAppSession(db.memory, p), SqliteGetAppSession(db.sqlite, p),
                PostgresGetAppSession(db.postgres, p))
    /\ \A u \in Holder :
        /\ Same(MemoryPasswordsOfUser(db.memory, u), SqlitePasswordsOfUser(db.sqlite, u),
                PostgresPasswordsOfUser(db.postgres, u))
        /\ Same(MemoryAppSessionsOfUser(db.memory, u), SqliteAppSessionsOfUser(db.sqlite, u),
                PostgresAppSessionsOfUser(db.postgres, u))
    /\ \A c \in Client :
        /\ Same(MemoryPasswordsOfClient(db.memory, c), SqlitePasswordsOfClient(db.sqlite, c),
                PostgresPasswordsOfClient(db.postgres, c))
        /\ Same(MemoryAppSessionsOfClient(db.memory, c), SqliteAppSessionsOfClient(db.sqlite, c),
                PostgresAppSessionsOfClient(db.postgres, c))

\* In the databases a session never outlives its password; in memory it does
\* only where it was stored without one.
AppSessionsHavePasswords ==
    /\ Keys(db.sqlite.appSessions) \subseteq Keys(db.sqlite.passwords)
    /\ Keys(db.postgres.appSessions) \subseteq Keys(db.postgres.passwords)
    /\ Keys(db.memory.appSessions) \ apart \subseteq Keys(db.memory.passwords)

RecordsAgree == ClientsAgree /\ KeysAgree /\ PasswordsAgree /\ AppSessionsHavePasswords
=============================================================================
