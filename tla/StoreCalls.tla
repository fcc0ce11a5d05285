----------------------------- MODULE StoreCalls -----------------------------
(***************************************************************************)
(* The frame the storage modules share: the same calls of the traits in    *)
(* storage/traits.rs are made to the in-memory, the SQLite and the         *)
(* PostgreSQL implementation, and their answers are compared.              *)
(*                                                                         *)
(* A table is a set of rows with a key and an expiry.  A method is an      *)
(* operator from a backend's tables to its reply: the new tables and the   *)
(* rows it answers.  The methods that write are actions; what a reading    *)
(* method would answer is judged in every state.  A key is minted at       *)
(* random by the server and never stored twice.  Time advances in ticks up *)
(* to MaxTime; some columns keep whole seconds only.                       *)
(***************************************************************************)
EXTENDS Naturals

CONSTANTS
    MaxTime,         \* bound on the clock
    TicksPerSecond,
    None, Refusal    \* the empty column value; the answer of a failed call

ASSUME StoreCallsAssumption ==
    /\ MaxTime \in Nat /\ TicksPerSecond \in Nat \ {0}
    /\ None # Refusal

VARIABLES
    now,      \* the clock
    db,       \* the tables of each backend
    issued,   \* the keys stored so far
    spent,    \* history: the one-time credentials each backend has handed out
    apart     \* history: the keys whose rows the backends may disagree on

storeVars == <<now, db, issued, spent, apart>>

Backend == {"memory", "sqlite", "postgres"}

\* Later than any time of a run: a row that does not expire.
Never == 2 * MaxTime + 1

Time == 0..Never

Whole(t) == t - (t % TicksPerSecond)

Where(table, k) == {r \in table : r.key = k}
Without(table, k) == {r \in table : r.key # k}
Keys(table) == {r.key : r \in table}

\* A row that takes the place of the row with its key.
Upsert(table, row) == Without(table, row.key) \cup {row}

Expired(table) == {r \in table : r.expires <= now}

Reply(tables, rows) == [db |-> tables, answer |-> rows]

\* StorageError::NotFound and the like.
Refused(k) == {[key |-> k, value |-> Refusal]}

\* One call of a method, made to all three implementations.
Call(memory, sqlite, postgres) ==
    /\ db' = [memory |-> memory.db, sqlite |-> sqlite.db, postgres |-> postgres.db]
    /\ UNCHANGED now

\* The answer is a credential that must not be handed out again.
Spend(memory, sqlite, postgres) ==
    spent' = [memory |-> spent.memory \cup Keys(memory.answer),
              sqlite |-> spent.sqlite \cup Keys(sqlite.answer),
              postgres |-> spent.postgres \cup Keys(postgres.answer)]

Issue(keys) == keys \cap issued = {} /\ issued' = issued \cup keys

MayDiffer(keys) == apart' = apart \cup keys

\* Tables with rows that refer to one client, client saying whether its row is
\* there: a database refuses a row for a client that is gone.
IfClient(d, k, reply) == IF d.client THEN reply ELSE Reply(d, Refused(k))

\* A key that a database may have refused while memory stored it.
Unowned(k) == {x \in {k} : ~(db.sqlite.client /\ db.postgres.client)}

\* The keys at the moment they expire, where the implementations' tests
\* differ: expires_at < now, expires_at <= now.
AtEdge(table) == UNION {Keys({r \in db[b][table] : r.expires = now}) : b \in Backend}

StoreInit(tables) ==
    /\ now = 0
    /\ db = [b \in Backend |-> tables]
    /\ issued = {} /\ apart = {}
    /\ spent = [b \in Backend |-> {}]

Tick ==
    /\ now < MaxTime
    /\ now' = now + 1
    /\ UNCHANGED <<db, issued, spent, apart>>

-----------------------------------------------------------------------------

\* What is compared of a reply.
Shown(reply) == {<<r.key, r.value>> : r \in {x \in reply.answer : x.key \notin apart}}

Same(memory, sqlite, postgres) ==
    Shown(memory) = Shown(sqlite) /\ Shown(sqlite) = Shown(postgres)

StoreTypeOK(Tables, Key) ==
    /\ now \in 0..MaxTime
    /\ db \in [Backend -> Tables]
    /\ issued \subseteq Key /\ apart \subseteq Key
    /\ spent \in [Backend -> SUBSET Key]
=============================================================================
