------------------------------- MODULE Stores --------------------------------
(***************************************************************************)
(* The three storage backends side by side: every call is made to all of   *)
(* them.  A behaviour calls the methods of one group of tables, chosen at  *)
(* the start.  One method crosses the groups, delete_client: its cascade   *)
(* is in every group it reaches, and what it looks at in another group is  *)
(* its input.                                                              *)
(***************************************************************************)
EXTENDS GrantStores, RequestStores, RecordStores, SessionStores

CONSTANT MaxAge    \* bound on the clock where only the age of a row matters

VARIABLE group

vars == <<storeVars, group>>

Group == {"grants", "requests", "records", "keys", "sessions"}

Tables ==
    [grants |-> GrantTables, requests |-> RequestTables,
     records |-> RecordTables, keys |-> RecordTables, sessions |-> SessionTables]

Empty ==
    [grants |-> NoGrants, requests |-> NoRequests,
     records |-> NoRecords, keys |-> NoRecords, sessions |-> NoSessions]

Key ==
    [grants |-> GrantKey, requests |-> RequestKey,
     records |-> RecordKey, keys |-> RecordKey, sessions |-> Session]

Init == group \in Group /\ StoreInit(Empty[group])

\* Time matters where rows expire or are removed by age.
Next ==
    /\ \/ Tick /\ group \in {"grants", "requests"}
       \/ Tick /\ group = "sessions" /\ now < MaxAge
       \/ group = "grants" /\ GrantCall
       \/ group = "requests" /\ RequestCall
       \/ group = "records" /\ RecordCall
       \/ group = "keys" /\ KeyCall
       \/ group = "sessions" /\ SessionCall
    /\ UNCHANGED group

Spec == Init /\ [][Next]_vars

-----------------------------------------------------------------------------

\* The tables of each backend hold rows of their types, whichever calls are
\* made, and a key is in use, spent or apart only if it is one of the group's
\* keys: storage/traits.rs.
TypeOK == StoreTypeOK(Tables[group], Key[group])

\* Codes, access tokens and refresh tokens: the methods of storage/inmemory,
\* storage/sqlite and storage/postgres answer the same for every key, after
\* any sequence of these calls, clean-ups and the deletion of their client.
\* Excepted are a key at the moment of its expiry, refresh tokens that SQLite
\* dropped with their access token, and the rows of a deleted client, which the
\* databases delete or refuse and memory keeps.
GrantsInterchangeable == group = "grants" => GrantsAgree

\* Device codes, pushed requests, OAuth requests and authorization requests:
\* a caller sees the same on each backend, although SQLite keeps whole seconds
\* of a device code's expiry and memory hands out expired pushed requests.
\* Excepted are the rows of a deleted client, as above, and an OAuth request's
\* authorization server, in whose place SQLite keeps its issuer.
RequestsInterchangeable == group = "requests" => RequestsAgree

\* Clients, keys, app passwords and their sessions: a caller sees the same on
\* each backend unless it relied on a foreign key that one of them lacks, and
\* no session outlives its password.  Excepted are a client's application type
\* and software, of which an update in PostgreSQL keeps the old ones.
RecordsInterchangeable == group \in {"records", "keys"} => RecordsAgree

\* ATProtocol sessions: the newest iteration, for its user and by state, is
\* the same row whether a backend keeps every iteration (memory, PostgreSQL)
\* or only the last one stored (SQLite).
SessionsInterchangeable == group = "sessions" => SessionsAgree

\* What exchange_code_for_tokens, refresh_tokens or a consume_ method has
\* handed out on a backend is not handed out again by it, whatever is called
\* in between (PostgreSQL's consume_code is excepted: it ignores used).
HandedOutOnce ==
    /\ group = "grants" => GrantsHandedOnce
    /\ group = "requests" => RequestsHandedOnce
=============================================================================
