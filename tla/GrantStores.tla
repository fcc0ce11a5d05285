----------------------------- MODULE GrantStores -----------------------------
(***************************************************************************)
(* Authorization codes, access tokens and refresh tokens in the three      *)
(* storage backends: AuthorizationCodeStore, AccessTokenStore,             *)
(* RefreshTokenStore and the two token transactions of                     *)
(* TransactionalStorage, and what OAuthClientStore::delete_client does to  *)
(* their rows.  The rows are those of one client and one user; in the      *)
(* databases they refer to the client ON DELETE CASCADE.                   *)
(***************************************************************************)
EXTENDS StoreCalls

CONSTANTS Code, AccessToken, RefreshToken, CodeLife, AccessLife, RefreshLife

\* The lives end within the times counted; the three kinds of random strings
\* are told apart.
ASSUME GrantStoresAssumption ==
    /\ {CodeLife, AccessLife, RefreshLife} \subseteq 0..MaxTime
    /\ Code \cap (AccessToken \cup RefreshToken) = {} /\ AccessToken \cap RefreshToken = {}

GrantKey == Code \cup AccessToken \cup RefreshToken

CodeRow == [key : Code, value : {None}, expires : Time, used : BOOLEAN]
AccessRow == [key : AccessToken, value : {None}, expires : Time]
RefreshRow == [key : RefreshToken, value : AccessToken, expires : Time]

GrantTables == [codes : SUBSET CodeRow, access : SUBSET AccessRow,
                refresh : SUBSET RefreshRow, client : BOOLEAN]

\* The client has been registered.
NoGrants == [codes |-> {}, access |-> {}, refresh |-> {}, client |-> TRUE]

NewCode(c) == [key |-> c, value |-> None, expires |-> now + CodeLife, used |-> FALSE]
NewAccess(a) == [key |-> a, value |-> None, expires |-> now + AccessLife]

\* Mutant: the row does not say which access token it goes with.
NewRefreshUnlinked(r, a) == [key |-> r, value |-> None, expires |-> now + RefreshLife]

NewRefresh(r, a) == [key |-> r, value |-> a, expires |-> now + RefreshLife]

Used(rows) == {[r EXCEPT !.used = TRUE] : r \in rows}

-----------------------------------------------------------------------------
(* Authorization codes. *)

MemoryStoreCode(d, row) == Reply([d EXCEPT !.codes = Upsert(@, row)], {})
SqliteStoreCode(d, row) ==
    IfClient(d, row.key, Reply([d EXCEPT !.codes = @ \cup {row}], {}))
PostgresStoreCode(d, row) ==
    IfClient(d, row.key, Reply([d EXCEPT !.codes = @ \cup {row}], {}))

MemoryGetCode(d, c) ==
    Reply(d, {r \in Where(d.codes, c) : r.expires >= now /\ ~r.used})
SqliteGetCode(d, c) ==
    Reply(d, {r \in Where(d.codes, c) : r.expires > now /\ ~r.used})
PostgresGetCode(d, c) ==
    Reply(d, {r \in Where(d.codes, c) : r.expires > now /\ ~r.used})

\* A used row is removed when it is presented again.
MemoryConsumeCode(d, c) ==
    LET live == MemoryGetCode(d, c).answer
    IN  Reply([d EXCEPT !.codes = Without(@, c) \cup Used(live)], live)

\* Mutant: the row handed out is not marked.
TakeUnmarked(d, c) ==
    LET unused == {r \in Where(d.codes, c) : ~r.used}
        live == unused \ Expired(unused)
    IN  Reply([d EXCEPT !.codes = (@ \ unused) \cup live], live)

\* WHERE used = 0: an expired unused row is removed, a used one stays.
TakeUnused(d, c) ==
    LET unused == {r \in Where(d.codes, c) : ~r.used}
        live == unused \ Expired(unused)
    IN  Reply([d EXCEPT !.codes = (@ \ unused) \cup Used(live)], live)

SqliteConsumeCode(d, c) == TakeUnused(d, c)

\* The row is deleted and answered whatever its used column says.
PostgresConsumeCode(d, c) ==
    LET rows == Where(d.codes, c)
    IN  Reply([d EXCEPT !.codes = @ \ rows], rows \ Expired(rows))

MemoryCleanupCodes(d) == Reply([d EXCEPT !.codes = @ \ Expired(@)], {})
SqliteCleanupCodes(d) == Reply([d EXCEPT !.codes = @ \ Expired(@)], {})
PostgresCleanupCodes(d) == Reply([d EXCEPT !.codes = @ \ Expired(@)], {})

-----------------------------------------------------------------------------
(* Access tokens.  In SQLite a refresh token references its access token   *)
(* ON DELETE CASCADE (migrations/sqlite/004).                              *)

Cascade(d, gone) ==
    [d EXCEPT !.access = @ \ gone, !.refresh = {r \in @ : r.value \notin Keys(gone)}]

MemoryStoreToken(d, row) == Reply([d EXCEPT !.access = Upsert(@, row)], {})

\* INSERT OR REPLACE: a replaced row is deleted first.
SqliteStoreToken(d, row) ==
    LET left == Cascade(d, Where(d.access, row.key))
    IN  IfClient(d, row.key, Reply([left EXCEPT !.access = @ \cup {row}], {}))

PostgresStoreToken(d, row) ==
    IfClient(d, row.key, Reply([d EXCEPT !.access = @ \cup {row}], {}))

MemoryGetToken(d, t) == Reply(d, {r \in Where(d.access, t) : r.expires >= now})

\* Reading an expired token deletes it.
SqliteGetToken(d, t) ==
    LET rows == Where(d.access, t)
    IN  Reply(Cascade(d, Expired(rows)), rows \ Expired(rows))

PostgresGetToken(d, t) ==
    LET rows == Where(d.access, t) IN Reply(d, rows \ Expired(rows))

MemoryGetTokenIncludingExpired(d, t) == Reply(d, Where(d.access, t))
SqliteGetTokenIncludingExpired(d, t) == Reply(d, Where(d.access, t))
PostgresGetTokenIncludingExpired(d, t) == Reply(d, Where(d.access, t))

MemoryRevokeToken(d, t) == Reply([d EXCEPT !.access = Without(@, t)], {})

\* rows_affected() == 0 is an error of the databases only.
IfDeleted(d, rows, t) == Reply(d, IF rows = {} THEN Refused(t) ELSE {})

SqliteRevokeToken(d, t) ==
    LET rows == Where(d.access, t) IN IfDeleted(Cascade(d, rows), rows, t)

PostgresRevokeToken(d, t) ==
    LET rows == Where(d.access, t) IN IfDeleted([d EXCEPT !.access = @ \ rows], rows, t)

MemoryCleanupTokens(d) == Reply([d EXCEPT !.access = @ \ Expired(@)], {})
SqliteCleanupTokens(d) == Reply(Cascade(d, Expired(d.access)), {})

\* Mutant: the comparison is turned round.
PostgresCleanupLive(d) == Reply([d EXCEPT !.access = Expired(@)], {})

PostgresCleanupTokens(d) == Reply([d EXCEPT !.access = @ \ Expired(@)], {})

MemoryUserTokens(d) == Reply(d, {r \in d.access : r.expires > now})
SqliteUserTokens(d) == Reply(d, {r \in d.access : r.expires > now})
PostgresUserTokens(d) == Reply(d, {r \in d.access : r.expires > now})
MemoryClientTokens(d) == Reply(d, {r \in d.access : r.expires > now})
SqliteClientTokens(d) == Reply(d, {r \in d.access : r.expires > now})
PostgresClientTokens(d) == Reply(d, {r \in d.access : r.expires > now})

-----------------------------------------------------------------------------
(* Refresh tokens. *)

MemoryStoreRefreshToken(d, row) ==
    Reply([d EXCEPT !.refresh = Upsert(@, row)], {})

\* A second foreign key refuses a row whose access token is gone.
SqliteStoreRefreshToken(d, row) ==
    IF d.client /\ row.value \in Keys(d.access)
    THEN Reply([d EXCEPT !.refresh = @ \cup {row}], {})
    ELSE Reply(d, Refused(row.key))

PostgresStoreRefreshToken(d, row) ==
    IfClient(d, row.key, Reply([d EXCEPT !.refresh = @ \cup {row}], {}))

MemoryGetRefreshToken(d, t) == Reply(d, {r \in Where(d.refresh, t) : r.expires >= now})
SqliteGetRefreshToken(d, t) == Reply(d, {r \in Where(d.refresh, t) : r.expires > now})
PostgresGetRefreshToken(d, t) == Reply(d, {r \in Where(d.refresh, t) : r.expires > now})

\* The row goes in every case.
MemoryConsumeRefreshToken(d, t) ==
    Reply([d EXCEPT !.refresh = Without(@, t)], MemoryGetRefreshToken(d, t).answer)
SqliteConsumeRefreshToken(d, t) ==
    Reply([d EXCEPT !.refresh = Without(@, t)], {r \in Where(d.refresh, t) : r.expires > now})
PostgresConsumeRefreshToken(d, t) ==
    Reply([d EXCEPT !.refresh = Without(@, t)], {r \in Where(d.refresh, t) : r.expires > now})

MemoryCleanupRefreshTokens(d) == Reply([d EXCEPT !.refresh = @ \ Expired(@)], {})
SqliteCleanupRefreshTokens(d) == Reply([d EXCEPT !.refresh = @ \ Expired(@)], {})
PostgresCleanupRefreshTokens(d) == Reply([d EXCEPT !.refresh = @ \ Expired(@)], {})

-----------------------------------------------------------------------------
(* The transactions.  A failed statement rolls everything back. *)

\* The pair is stored if the first statement handed out its row.
WithPair(taken, a, r) ==
    IF taken.answer = {} THEN taken
    ELSE Reply([taken.db EXCEPT !.access = @ \cup {a}, !.refresh = @ \cup {r}],
               taken.answer)

MemoryExchangeCode(d, c, a, r) == WithPair(MemoryConsumeCode(d, c), a, r)
SqliteExchangeCode(d, c, a, r) == WithPair(TakeUnused(d, c), a, r)
PostgresExchangeCode(d, c, a, r) == WithPair(TakeUnused(d, c), a, r)

MemoryRefreshTokens(d, old, a, r) == WithPair(MemoryConsumeRefreshToken(d, old), a, r)
SqliteRefreshTokens(d, old, a, r) == WithPair(SqliteConsumeRefreshToken(d, old), a, r)
PostgresRefreshTokens(d, old, a, r) == WithPair(PostgresConsumeRefreshToken(d, old), a, r)

-----------------------------------------------------------------------------
(* The deletion of the client, when no device code refers to it.           *)

MemoryDropGrants(d) == Reply([d EXCEPT !.client = FALSE], {})

\* Its codes and tokens go with it.
DropGrants(d) ==
    IF d.client THEN Reply([NoGrants EXCEPT !.client = FALSE], {})
    ELSE Reply(d, Refused(None))

SqliteDropGrants(d) == DropGrants(d)
PostgresDropGrants(d) == DropGrants(d)

-----------------------------------------------------------------------------
(* The calls that write. *)

grantHistory == <<spent, issued, apart>>

\* Memory keeps and answers the codes and tokens of a client that is gone.
DeleteClientGrants ==
    /\ Call(MemoryDropGrants(db.memory), SqliteDropGrants(db.sqlite),
            PostgresDropGrants(db.postgres))
    /\ MayDiffer(Keys(db.memory.codes) \cup Keys(db.memory.access)
                    \cup Keys(db.memory.refresh))
    /\ UNCHANGED <<spent, issued>>

StoreCode(c) ==
    /\ Issue({c})
    /\ Call(MemoryStoreCode(db.memory, NewCode(c)), SqliteStoreCode(db.sqlite, NewCode(c)),
            PostgresStoreCode(db.postgres, NewCode(c)))
    /\ MayDiffer(Unowned(c))
    /\ UNCHANGED spent

\* Hand out what a one-time credential k of a table names.
HandOut(table, k, memory, sqlite, postgres) ==
    /\ Call(memory, sqlite, postgres)
    /\ Spend(memory, sqlite, postgres)
    /\ MayDiffer({k} \cap AtEdge(table))

ConsumeCode(c) ==
    /\ HandOut("codes", c, MemoryConsumeCode(db.memory, c), SqliteConsumeCode(db.sqlite, c),
               PostgresConsumeCode(db.postgres, c))
    /\ UNCHANGED issued

CleanupCodes ==
    /\ Call(MemoryCleanupCodes(db.memory), SqliteCleanupCodes(db.sqlite),
            PostgresCleanupCodes(db.postgres))
    /\ UNCHANGED grantHistory

StoreToken(a) ==
    /\ Issue({a})
    /\ Call(MemoryStoreToken(db.memory, NewAccess(a)), SqliteStoreToken(db.sqlite, NewAccess(a)),
            PostgresStoreToken(db.postgres, NewAccess(a)))
    /\ MayDiffer(Unowned(a))
    /\ UNCHANGED spent

\* The refresh tokens that leave SQLite with these access tokens.
Followers(tokens) == Keys({r \in db.sqlite.refresh : r.value \in tokens})

\* Only SQLite forgets an expired token, and its refresh token, on a read.
GetToken(a) ==
    LET read == Keys(Expired(Where(db.sqlite.access, a)))
    IN  /\ Call(MemoryGetToken(db.memory, a), SqliteGetToken(db.sqlite, a),
                PostgresGetToken(db.postgres, a))
        /\ MayDiffer(read \cup Followers(read))
        /\ UNCHANGED <<spent, issued>>

RevokeToken(a) ==
    /\ Call(MemoryRevokeToken(db.memory, a), SqliteRevokeToken(db.sqlite, a),
            PostgresRevokeToken(db.postgres, a))
    /\ MayDiffer(Followers({a}))
    /\ UNCHANGED <<spent, issued>>

CleanupTokens ==
    /\ Call(MemoryCleanupTokens(db.memory), SqliteCleanupTokens(db.sqlite),
            PostgresCleanupTokens(db.postgres))
    /\ MayDiffer(Followers(Keys(Expired(db.sqlite.access))))
    /\ UNCHANGED <<spent, issued>>

StoreRefreshToken(r, a) ==
    /\ a \in issued /\ Issue({r})
    /\ Call(MemoryStoreRefreshToken(db.memory, NewRefresh(r, a)),
            SqliteStoreRefreshToken(db.sqlite, NewRefresh(r, a)),
            PostgresStoreRefreshToken(db.postgres, NewRefresh(r, a)))
    /\ MayDiffer(Unowned(r) \cup IF a \in Keys(db.sqlite.access) THEN {} ELSE {r})
    /\ UNCHANGED spent

ConsumeRefreshToken(r) ==
    /\ HandOut("refresh", r, MemoryConsumeRefreshToken(db.memory, r),
               SqliteConsumeRefreshToken(db.sqlite, r),
               PostgresConsumeRefreshToken(db.postgres, r))
    /\ UNCHANGED issued

CleanupRefreshTokens ==
    /\ Call(MemoryCleanupRefreshTokens(db.memory), SqliteCleanupRefreshTokens(db.sqlite),
            PostgresCleanupRefreshTokens(db.postgres))
    /\ UNCHANGED grantHistory

\* A pair bought with a credential the backends disagree on is theirs apart.
BuyPair(table, k, a, r, memory, sqlite, postgres) ==
    /\ Issue({a, r})
    /\ Call(memory, sqlite, postgres)
    /\ Spend(memory, sqlite, postgres)
    /\ MayDiffer(IF k \in apart \cup AtEdge(table) THEN {k, a, r} ELSE {})

ExchangeCodeForTokens(c, a, r) ==
    BuyPair("codes", c, a, r,
            MemoryExchangeCode(db.memory, c, NewAccess(a), NewRefresh(r, a)),
            SqliteExchangeCode(db.sqlite, c, NewAccess(a), NewRefresh(r, a)),
            PostgresExchangeCode(db.postgres, c, NewAccess(a), NewRefresh(r, a)))

RefreshTokens(old, a, r) ==
    BuyPair("refresh", old, a, r,
            MemoryRefreshTokens(db.memory, old, NewAccess(a), NewRefresh(r, a)),
            SqliteRefreshTokens(db.sqlite, old, NewAccess(a), NewRefresh(r, a)),
            PostgresRefreshTokens(db.postgres, old, NewAccess(a), NewRefresh(r, a)))

CleanupGrants == CleanupCodes \/ CleanupTokens \/ CleanupRefreshTokens

GrantCall ==
    \/ \E c \in Code : StoreCode(c) \/ ConsumeCode(c)
    \/ \E a \in AccessToken : StoreToken(a) \/ GetToken(a) \/ RevokeToken(a)
    \/ \E r \in RefreshToken : ConsumeRefreshToken(r)
    \/ \E r \in RefreshToken, a \in AccessToken : StoreRefreshToken(r, a)
    \/ \E c \in Code, a \in AccessToken, r \in RefreshToken : ExchangeCodeForTokens(c, a, r)
    \/ \E old, r \in RefreshToken, a \in AccessToken : RefreshTokens(old, a, r)
    \/ CleanupGrants
    \/ DeleteClientGrants

-----------------------------------------------------------------------------
(* What the properties say of these tables. *)

\* A code handed out before is left out of the comparison of consume_code:
\* PostgreSQL alone answers it again.
CodesAgree ==
    \A c \in Code \ (apart \cup AtEdge("codes")) :
        /\ Same(MemoryGetCode(db.memory, c), SqliteGetCode(db.sqlite, c),
                PostgresGetCode(db.postgres, c))
        /\ (\A b \in Backend : c \notin spent[b]) =>
                Same(MemoryConsumeCode(db.memory, c), SqliteConsumeCode(db.sqlite, c),
                     PostgresConsumeCode(db.postgres, c))

AccessTokensAgree ==
    /\ \A a \in AccessToken \ (apart \cup AtEdge("access")) :
        /\ Same(MemoryGetToken(db.memory, a), SqliteGetToken(db.sqlite, a),
                PostgresGetToken(db.postgres, a))
        /\ Same(MemoryGetTokenIncludingExpired(db.memory, a),
                SqliteGetTokenIncludingExpired(db.sqlite, a),
                PostgresGetTokenIncludingExpired(db.postgres, a))
        /\ SqliteRevokeToken(db.sqlite, a).answer = PostgresRevokeToken(db.postgres, a).answer
    /\ Same(MemoryUserTokens(db.memory), SqliteUserTokens(db.sqlite),
            PostgresUserTokens(db.postgres))
    /\ Same(MemoryClientTokens(db.memory), SqliteClientTokens(db.sqlite),
            PostgresClientTokens(db.postgres))

RefreshTokensAgree ==
    \A r \in RefreshToken \ (apart \cup AtEdge("refresh")) :
        /\ Same(MemoryGetRefreshToken(db.memory, r), SqliteGetRefreshToken(db.sqlite, r),
                PostgresGetRefreshToken(db.postgres, r))
        /\ Same(MemoryConsumeRefreshToken(db.memory, r),
                SqliteConsumeRefreshToken(db.sqlite, r),
                PostgresConsumeRefreshToken(db.postgres, r))

GrantsAgree == CodesAgree /\ AccessTokensAgree /\ RefreshTokensAgree

\* No method hands out a credential that was handed out before.  In PostgreSQL
\* this is so of exchange_code_for_tokens: its consume_code, which no code
\* calls, does not look at the used column.
GrantsHandedOnce ==
    /\ \A c \in spent.memory \cap Code : MemoryConsumeCode(db.memory, c).answer = {}
    /\ \A c \in spent.sqlite \cap Code : SqliteConsumeCode(db.sqlite, c).answer = {}
    /\ \A c \in spent.postgres \cap Code : TakeUnused(db.postgres, c).answer = {}
    /\ \A b \in Backend : spent[b] \cap Keys(db[b].refresh) = {}
=============================================================================
