---------------------------- MODULE SessionStores ----------------------------
(***************************************************************************)
(* ATProtocol sessions in the three storage backends:                      *)
(* AtpOAuthSessionStorage, called through the bridge's adapter.  A session *)
(* has one state and one creation time, and iterations from 1 on.  Memory  *)
(* keeps every iteration and two indexes, SQLite one row per session       *)
(* (migrations/sqlite/019), PostgreSQL one row per iteration.              *)
(***************************************************************************)
EXTENDS StoreCalls, FiniteSets

CONSTANTS Session, Did, Token, MaxIteration

\* Iterations are counted, and the empty column is no DID.
ASSUME SessionStoresAssumption == MaxIteration \in Nat /\ None \notin Did

Iteration == 1..MaxIteration

\* did is None until the callback; error stands for exchange_error.
Held == [iteration : Iteration, did : Did \cup {None}, token : Token, error : BOOLEAN]

SessionRow == [key : Session, value : Held, created : Time]

\* The indexes are tables of the in-memory storage only.
SessionTables == [sessions : SUBSET SessionRow,
                  byState : SUBSET [key : Session, iteration : Iteration],
                  byUser : SUBSET [key : Session, did : Did, iteration : Iteration]]

NoSessions == [sessions |-> {}, byState |-> {}, byUser |-> {}]

Iterations(table, s) == {r.value.iteration : r \in Where(table, s)}

At(table, s, i) == {r \in Where(table, s) : r.value.iteration = i}
Of(table, u, s) == {r \in Where(table, s) : r.value.did = u}

\* ORDER BY iteration DESC, the first row; one for each session.
Newest(reply) ==
    Reply(reply.db, {r \in reply.answer : \A x \in Where(reply.answer, r.key) :
                        x.value.iteration <= r.value.iteration})

-----------------------------------------------------------------------------
(* The methods that write. *)

\* A row stored without a DID leaves what the index has.
MemoryStoreSession(d, row) ==
    Reply([sessions |-> (d.sessions \ At(d.sessions, row.key, row.value.iteration)) \cup {row},
           byState |-> Without(d.byState, row.key)
                           \cup {[key |-> row.key, iteration |-> row.value.iteration]},
           byUser |-> d.byUser \cup
               {[key |-> row.key, did |-> u, iteration |-> row.value.iteration] :
                    u \in {row.value.did} \ {None}}], {})

\* Mutant: the key is that of the table before its primary key changed.
SqliteStoreIteration(d, row) ==
    Reply([d EXCEPT !.sessions = (@ \ At(@, row.key, row.value.iteration)) \cup {row}], {})

\* INSERT OR REPLACE on the key session_id.
SqliteStoreSession(d, row) == Reply([d EXCEPT !.sessions = Without(@, row.key) \cup {row}], {})

PostgresStoreSession(d, row) ==
    Reply([d EXCEPT !.sessions = (@ \ At(@, row.key, row.value.iteration)) \cup {row}], {})

\* The rows found are replaced by rows made from them; no row is an error.
Change(d, s, found, made) ==
    IF found = {} THEN Reply(d, Refused(s))
    ELSE Reply([d EXCEPT !.sessions = (@ \ found) \cup made], {})

Holding(rows, held) == {[r EXCEPT !.value = held] : r \in rows}

MemoryUpdateSession(d, s, held) ==
    LET found == At(d.sessions, s, held.iteration)
    IN  Change(d, s, found, Holding(found, held))

\* did = NULL matches nothing.
SqliteUpdateSession(d, s, held) ==
    LET found == {r \in At(d.sessions, s, held.iteration) :
                     r.value.did = held.did /\ held.did # None}
    IN  Change(d, s, found, Holding(found, held))

\* The metadata column, which holds the error, is not written.
PostgresUpdateSession(d, s, held) ==
    LET found == At(d.sessions, s, held.iteration)
    IN  Change(d, s, found,
               {[r EXCEPT !.value = [held EXCEPT !.error = r.value.error]] : r \in found})

WithToken(rows, t) == {[r EXCEPT !.value.token = t] : r \in rows}

MemoryUpdateTokens(d, u, s, i, t) ==
    LET found == At(d.sessions, s, i) IN Change(d, s, found, WithToken(found, t))
SqliteUpdateTokens(d, u, s, i, t) ==
    LET found == At(d.sessions, s, i) \cap Of(d.sessions, u, s)
    IN  Change(d, s, found, WithToken(found, t))
PostgresUpdateTokens(d, u, s, i, t) ==
    LET found == At(d.sessions, s, i) \cap Of(d.sessions, u, s)
    IN  Change(d, s, found, WithToken(found, t))

\* The state leaves its index with any iteration, the iteration the index of
\* the user the call names.
MemoryRemoveSession(d, u, s, i) ==
    IF At(d.sessions, s, i) = {} THEN Reply(d, {})
    ELSE Reply([sessions |-> d.sessions \ At(d.sessions, s, i),
                byState |-> Without(d.byState, s),
                byUser |-> d.byUser \ {[key |-> s, did |-> u, iteration |-> i]}], {})

SqliteRemoveSession(d, u, s, i) ==
    Reply([d EXCEPT !.sessions = @ \ (At(@, s, i) \cap Of(@, u, s))], {})
PostgresRemoveSession(d, u, s, i) ==
    Reply([d EXCEPT !.sessions = @ \ (At(@, s, i) \cap Of(@, u, s))], {})

Older(table, time) == {r \in table : r.created < time}

MemoryCleanupSessions(d, time) ==
    LET old == Older(d.sessions, time)
    IN  Reply([sessions |-> d.sessions \ old,
               byState |-> {e \in d.byState : e.key \notin Keys(old)},
               byUser |-> d.byUser \ {[key |-> r.key, did |-> r.value.did,
                                       iteration |-> r.value.iteration] : r \in old}], {})
SqliteCleanupSessions(d, time) == Reply([d EXCEPT !.sessions = @ \ Older(@, time)], {})
PostgresCleanupSessions(d, time) == Reply([d EXCEPT !.sessions = @ \ Older(@, time)], {})

-----------------------------------------------------------------------------
(* The methods that read. *)

\* The iterations the index has, whatever the DID in their rows.
MemoryGetSessions(d, u, s) ==
    Reply(d, {r \in Where(d.sessions, s) :
                 [key |-> s, did |-> u, iteration |-> r.value.iteration] \in d.byUser})
SqliteGetSessions(d, u, s) == Reply(d, Of(d.sessions, u, s))
PostgresGetSessions(d, u, s) == Reply(d, Of(d.sessions, u, s))

\* The DID is not looked at.
MemoryGetSession(d, u, s, i) == Reply(d, At(d.sessions, s, i))
SqliteGetSession(d, u, s, i) == Reply(d, At(d.sessions, s, i) \cap Of(d.sessions, u, s))
PostgresGetSession(d, u, s, i) == Reply(d, At(d.sessions, s, i) \cap Of(d.sessions, u, s))

MemoryGetLatestSession(d, u, s) == Newest(MemoryGetSessions(d, u, s))
SqliteGetLatestSession(d, u, s) == Newest(SqliteGetSessions(d, u, s))
PostgresGetLatestSession(d, u, s) == Newest(PostgresGetSessions(d, u, s))

\* The row stored last; in PostgreSQL any of the rows.
MemoryGetByState(d, s) ==
    Reply(d, {r \in Where(d.sessions, s) :
                 [key |-> s, iteration |-> r.value.iteration] \in d.byState})
SqliteGetByState(d, s) == Reply(d, Where(d.sessions, s))
PostgresGetByState(d, s) == Reply(d, Where(d.sessions, s))

MemoryGetByDid(d, u) == Reply(d, {r \in d.sessions : r.value.did = u})
SqliteGetByDid(d, u) == Reply(d, {r \in d.sessions : r.value.did = u})
PostgresGetByDid(d, u) == Reply(d, {r \in d.sessions : r.value.did = u})

-----------------------------------------------------------------------------
(* The calls that write.  All rows are in PostgreSQL. *)

All(s) == Where(db.postgres.sessions, s)
Top(s) == {r \in All(s) : \A i \in Iterations(All(s), s) : i <= r.value.iteration}

\* A login stores iteration 1, a callback stores it again with the DID, a
\* refresh stores the next.  They part if a slower writer stores an older
\* iteration after a newer, or takes the DID off a row that had it.
StoreSession(s, held) ==
    LET i == held.iteration
        since == IF All(s) = {} THEN {now} ELSE {r.created : r \in All(s)}
        unlinks == held.did = None /\ \E r \in All(s) : r.value.did # None
        moves == \E r \in All(s) : r.value.did \notin {None, held.did}
    IN  /\ i > 1 => i - 1 \in Iterations(All(s), s)
        /\ \E created \in since :
              LET row == [key |-> s, value |-> held, created |-> created]
              IN  Call(MemoryStoreSession(db.memory, row), SqliteStoreSession(db.sqlite, row),
                       PostgresStoreSession(db.postgres, row))
        /\ MayDiffer({x \in {s} : unlinks \/ moves \/ \E j \in Iterations(All(s), s) : j > i})
        /\ issued' = issued \cup {s} /\ (All(s) = {} => s \notin issued)
        /\ UNCHANGED spent

\* Not called: each implementation finds and keeps something else.
UpdateSession(s, held) ==
    /\ Call(MemoryUpdateSession(db.memory, s, held), SqliteUpdateSession(db.sqlite, s, held),
            PostgresUpdateSession(db.postgres, s, held))
    /\ MayDiffer({r.key : r \in {x \in All(s) : \/ x \notin Top(s) \/ held.did = None
                                                \/ held.did # x.value.did
                                                \/ held.error # x.value.error}})
    /\ UNCHANGED <<issued, spent>>

\* The calls by DID and iteration agree on the newest row of its own user.
Known(u, s, i) == \A r \in Top(s) : r.value.did = u /\ r.value.iteration = i

UpdateSessionTokens(u, s, i, t) ==
    /\ Call(MemoryUpdateTokens(db.memory, u, s, i, t), SqliteUpdateTokens(db.sqlite, u, s, i, t),
            PostgresUpdateTokens(db.postgres, u, s, i, t))
    /\ MayDiffer({x \in {s} : At(All(s), s, i) # {} /\ ~Known(u, s, i)})
    /\ UNCHANGED <<issued, spent>>

RemoveSession(u, s, i) ==
    /\ Call(MemoryRemoveSession(db.memory, u, s, i), SqliteRemoveSession(db.sqlite, u, s, i),
            PostgresRemoveSession(db.postgres, u, s, i))
    /\ MayDiffer({x \in {s} : /\ At(All(s), s, i) # {}
                              /\ ~Known(u, s, i) \/ Cardinality(All(s)) > 1})
    /\ UNCHANGED <<issued, spent>>

CleanupOldSessions(time) ==
    /\ Call(MemoryCleanupSessions(db.memory, time), SqliteCleanupSessions(db.sqlite, time),
            PostgresCleanupSessions(db.postgres, time))
    /\ UNCHANGED <<issued, spent, apart>>

SessionCall ==
    \/ \E s \in Session, held \in Held : StoreSession(s, held) \/ UpdateSession(s, held)
    \/ \E u \in Did, s \in Session, i \in Iteration :
            RemoveSession(u, s, i) \/ \E t \in Token : UpdateSessionTokens(u, s, i, t)
    \/ \E time \in 1..now : CleanupOldSessions(time)

-----------------------------------------------------------------------------
(* What the properties say of these tables. *)

\* The rows the callers use: the newest of a session, for its user, by state
\* while the login has one row, and the newest of each session of a user.
SessionsAgree ==
    /\ \A u \in Did, s \in Session \ apart :
        /\ Same(MemoryGetLatestSession(db.memory, u, s), SqliteGetLatestSession(db.sqlite, u, s),
                PostgresGetLatestSession(db.postgres, u, s))
        /\ \A i \in Iteration : Known(u, s, i) =>
                Same(MemoryGetSession(db.memory, u, s, i), SqliteGetSession(db.sqlite, u, s, i),
                     PostgresGetSession(db.postgres, u, s, i))
    /\ \A s \in Session \ apart :
        /\ Shown(MemoryGetByState(db.memory, s)) = Shown(SqliteGetByState(db.sqlite, s))
        /\ Shown(MemoryGetByState(db.memory, s)) \subseteq Shown(PostgresGetByState(db.postgres, s))
    /\ \A u \in Did :
        Same(Newest(MemoryGetByDid(db.memory, u)), Newest(SqliteGetByDid(db.sqlite, u)),
             Newest(PostgresGetByDid(db.postgres, u)))
=============================================================================
