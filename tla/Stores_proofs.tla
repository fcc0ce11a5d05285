---------------------------- MODULE Stores_proofs ----------------------------
(***************************************************************************)
(* That a caller cannot tell the storage backends apart, for any keys,     *)
(* values, lives of rows and length of the run.  For each group of tables  *)
(* an invariant says how the tables of the three backends correspond, row  *)
(* by row, for the keys that are not apart: GrantsAlike, RequestsAlike,    *)
(* RecordsAlike and SessionsSame.  Each method keeps its correspondence,   *)
(* and a method that reads answers alike where it holds.  What was handed  *)
(* out is unusable by GrantsCareful and RequestsWaiting.  Sound collects   *)
(* them, as a behaviour calls one group.                                   *)
(***************************************************************************)
EXTENDS Stores, FiniteSetTheorems, TLAPS

(* The frame. *)

\* The tables of a reply are well typed, and it answers rows of the group.
Fits(reply, T, K) == reply.db \in T /\ Keys(reply.answer) \subseteq K

LEMMA CallTyped ==
    ASSUME NEW T, NEW K, NEW m, NEW s, NEW p, Call(m, s, p), StoreTypeOK(T, K),
           Fits(m, T, K), Fits(s, T, K), Fits(p, T, K)
    PROVE  /\ now' \in 0..MaxTime /\ db' \in [Backend -> T]
           /\ Spend(m, s, p) => spent' \in [Backend -> SUBSET K]
BY DEF Call, Spend, Backend, StoreTypeOK, Fits

LEMMA TickTyped ==
    ASSUME NEW T, NEW K, StoreTypeOK(T, K), Tick
    PROVE  StoreTypeOK(T, K)'
BY StoreCallsAssumption DEF StoreTypeOK, Tick

LEMMA WholeBounds ==
    ASSUME NEW t \in Nat
    PROVE  Whole(t) \in 0..t
BY StoreCallsAssumption DEF Whole

LEMMA WholeMonotone ==
    ASSUME NEW t \in Nat, NEW u \in Nat, t <= u
    PROVE  Whole(t) <= Whole(u)
BY StoreCallsAssumption DEF Whole

\* A call that looks for the client first is made, or refused.
LEMMA IfClientEither ==
    ASSUME NEW d, NEW k, NEW reply
    PROVE  /\ d.client => IfClient(d, k, reply) = reply
           /\ ~d.client => IfClient(d, k, reply).db = d
           /\ IfClient(d, k, reply).db \in {d, reply.db}
BY DEF IfClient, Reply

LEMMA IfClientFits ==
    ASSUME NEW T, NEW K, NEW d \in T, NEW k \in K, NEW reply, Fits(reply, T, K)
    PROVE  Fits(IfClient(d, k, reply), T, K)
BY DEF IfClient, Fits, Refused, Reply, Keys

LEMMA UnownedKeys ==
    ASSUME NEW k
    PROVE  /\ Unowned(k) \subseteq {k}
           /\ db.sqlite.client /\ db.postgres.client => Unowned(k) = {}
           /\ ~(db.sqlite.client /\ db.postgres.client) => Unowned(k) = {k}
BY DEF Unowned

-----------------------------------------------------------------------------
(* Codes and tokens. *)

GrantsTyped == StoreTypeOK(GrantTables, GrantKey)

FitsGrants(reply) == Fits(reply, GrantTables, GrantKey)

LEMMA GrantTable ==
    ASSUME NEW d \in GrantTables
    PROVE  /\ d.codes \in SUBSET CodeRow /\ d.access \in SUBSET AccessRow
           /\ d.refresh \in SUBSET RefreshRow
           /\ \A rows \in SUBSET CodeRow : [d EXCEPT !.codes = rows] \in GrantTables
           /\ \A rows \in SUBSET AccessRow : [d EXCEPT !.access = rows] \in GrantTables
           /\ \A rows \in SUBSET RefreshRow : [d EXCEPT !.refresh = rows] \in GrantTables
BY DEF GrantTables

LEMMA GrantKeys ==
    /\ \A rows \in SUBSET CodeRow : Keys(rows) \in SUBSET Code
    /\ \A rows \in SUBSET AccessRow : Keys(rows) \in SUBSET AccessToken
    /\ \A rows \in SUBSET RefreshRow : Keys(rows) \in SUBSET RefreshToken
BY DEF Keys, CodeRow, AccessRow, RefreshRow

LEMMA UsedTyped ==
    ASSUME NEW rows \in SUBSET CodeRow
    PROVE  Used(rows) \in SUBSET CodeRow
BY DEF CodeRow, Used

LEMMA NewGrantRows ==
    ASSUME now \in 0..MaxTime
    PROVE  /\ \A c \in Code : NewCode(c) \in CodeRow
           /\ \A a \in AccessToken :
                /\ NewAccess(a) \in AccessRow
                /\ \A r \in RefreshToken : NewRefresh(r, a) \in RefreshRow
BY StoreCallsAssumption, GrantStoresAssumption
   DEF NewCode, NewAccess, NewRefresh, CodeRow, AccessRow, RefreshRow, Time, Never

LEMMA ConsumeCodeFits ==
    ASSUME NEW d \in GrantTables, NEW c \in Code
    PROVE  /\ FitsGrants(MemoryConsumeCode(d, c)) /\ FitsGrants(TakeUnused(d, c))
           /\ FitsGrants(PostgresConsumeCode(d, c))
<1>1. FitsGrants(MemoryConsumeCode(d, c))
  <2>. DEFINE live == MemoryGetCode(d, c).answer
  <2>1. live \in SUBSET d.codes
    BY DEF MemoryGetCode, Where, Reply
  <2>2. Without(d.codes, c) \cup Used(live) \in SUBSET CodeRow
    BY <2>1, GrantTable, UsedTyped DEF Without
  <2>. QED BY <2>1, <2>2, GrantTable, GrantKeys
    DEF MemoryConsumeCode, Reply, FitsGrants, Fits, GrantKey
<1>2. FitsGrants(TakeUnused(d, c))
  <2>. DEFINE unused == {r \in Where(d.codes, c) : ~r.used}
              live == unused \ Expired(unused)
  <2>1. live \in SUBSET d.codes
    BY DEF Where
  <2>2. (d.codes \ unused) \cup Used(live) \in SUBSET CodeRow
    BY <2>1, GrantTable, UsedTyped
  <2>. QED BY <2>1, <2>2, GrantTable, GrantKeys DEF TakeUnused, Reply, FitsGrants, Fits, GrantKey
<1>3. FitsGrants(PostgresConsumeCode(d, c))
  <2>1. Where(d.codes, c) \ Expired(Where(d.codes, c)) \in SUBSET d.codes
    BY DEF Where
  <2>. QED BY <2>1, GrantTable, GrantKeys DEF PostgresConsumeCode, Reply, FitsGrants, Fits, GrantKey
<1>. QED BY <1>1, <1>2, <1>3

LEMMA ConsumeRefreshFits ==
    ASSUME NEW d \in GrantTables, NEW r \in RefreshToken
    PROVE  /\ FitsGrants(MemoryConsumeRefreshToken(d, r))
           /\ FitsGrants(SqliteConsumeRefreshToken(d, r))
           /\ FitsGrants(PostgresConsumeRefreshToken(d, r))
<1>1. \A rows \in SUBSET d.refresh : Keys(rows) \subseteq GrantKey
  BY GrantTable, GrantKeys DEF GrantKey
<1>2. [d EXCEPT !.refresh = Without(@, r)] \in GrantTables
  BY GrantTable DEF Without
<1>. QED BY <1>1, <1>2 DEF MemoryConsumeRefreshToken, SqliteConsumeRefreshToken,
  PostgresConsumeRefreshToken, MemoryGetRefreshToken, Where, Reply, FitsGrants, Fits

LEMMA WithPairFits ==
    ASSUME NEW taken, FitsGrants(taken), taken = Reply(taken.db, taken.answer),
           NEW a \in AccessRow, NEW r \in RefreshRow
    PROVE  FitsGrants(WithPair(taken, a, r))
BY DEF WithPair, FitsGrants, Fits, GrantTables, Reply

LEMMA CascadeTyped ==
    ASSUME NEW d \in GrantTables, NEW gone
    PROVE  /\ Cascade(d, gone) \in GrantTables
           /\ Cascade(d, gone).codes = d.codes
           /\ Cascade(d, gone).access = d.access \ gone
           /\ Cascade(d, gone).refresh = {r \in d.refresh : r.value \notin Keys(gone)}
<1>1. /\ d.access \ gone \in SUBSET AccessRow
      /\ {r \in d.refresh : r.value \notin Keys(gone)} \in SUBSET RefreshRow
  BY GrantTable
<1>. QED BY <1>1 DEF GrantTables, Cascade

\* A reply that answers nothing new fits if its tables do.
LEMMA QuietFits ==
    ASSUME NEW T, NEW K, NEW tables \in T
    PROVE  Fits(Reply(tables, {}), T, K)
BY DEF Fits, Reply, Keys

LEMMA NextGrantsTyped ==
    ASSUME GrantsTyped, GrantCall
    PROVE  GrantsTyped'
<1>. USE DEF GrantsTyped
<1>a. /\ now \in 0..MaxTime /\ issued \subseteq GrantKey /\ apart \subseteq GrantKey
      /\ spent \in [Backend -> SUBSET GrantKey]
      /\ db.memory \in GrantTables /\ db.sqlite \in GrantTables /\ db.postgres \in GrantTables
  BY DEF StoreTypeOK, Backend
<1>b. \A table \in {"codes", "refresh"} : AtEdge(table) \subseteq GrantKey
  <2>. SUFFICES ASSUME NEW table \in {"codes", "refresh"}, NEW b \in Backend, NEW x \in db[b][table]
                PROVE  x.key \in GrantKey
    BY DEF AtEdge, Keys
  <2>. QED BY <1>a DEF GrantKey, Backend, GrantTables, CodeRow, RefreshRow
<1>c. \A tokens : Followers(tokens) \subseteq GrantKey
  BY <1>a DEF Followers, Keys, GrantKey, GrantTables, RefreshRow
<1>1. ASSUME NEW c \in Code, StoreCode(c) PROVE GrantsTyped'
  <2>1. NewCode(c) \in CodeRow /\ c \in GrantKey
    BY <1>a, NewGrantRows DEF GrantKey
  <2>2. /\ FitsGrants(MemoryStoreCode(db.memory, NewCode(c)))
        /\ FitsGrants(SqliteStoreCode(db.sqlite, NewCode(c)))
        /\ FitsGrants(PostgresStoreCode(db.postgres, NewCode(c)))
    <3>1. NewCode(c).key = c
      BY DEF NewCode
    <3>. QED BY <1>a, <2>1, <3>1, QuietFits, IfClientFits, GrantTable
      DEF FitsGrants, MemoryStoreCode, SqliteStoreCode, PostgresStoreCode, Upsert, Without
  <2>. QED BY <1>1, <1>a, <2>1, <2>2, CallTyped, UnownedKeys
    DEF StoreCode, Issue, MayDiffer, StoreTypeOK, FitsGrants
<1>2. ASSUME NEW c \in Code, ConsumeCode(c) PROVE GrantsTyped'
  <2>1. /\ FitsGrants(MemoryConsumeCode(db.memory, c)) /\ FitsGrants(SqliteConsumeCode(db.sqlite, c))
        /\ FitsGrants(PostgresConsumeCode(db.postgres, c))
    BY <1>a, ConsumeCodeFits DEF SqliteConsumeCode
  <2>. QED BY <1>2, <1>a, <1>b, <2>1, CallTyped
    DEF ConsumeCode, HandOut, MayDiffer, StoreTypeOK, FitsGrants
<1>3. ASSUME CleanupCodes PROVE GrantsTyped'
  <2>1. /\ FitsGrants(MemoryCleanupCodes(db.memory)) /\ FitsGrants(SqliteCleanupCodes(db.sqlite))
        /\ FitsGrants(PostgresCleanupCodes(db.postgres))
    BY <1>a, QuietFits, GrantTable
       DEF FitsGrants, MemoryCleanupCodes, SqliteCleanupCodes, PostgresCleanupCodes
  <2>. QED BY <1>3, <1>a, <2>1, CallTyped DEF CleanupCodes, grantHistory, StoreTypeOK, FitsGrants
<1>4. ASSUME NEW a \in AccessToken, StoreToken(a) PROVE GrantsTyped'
  <2>1. NewAccess(a) \in AccessRow /\ a \in GrantKey
    BY <1>a, NewGrantRows DEF GrantKey
  <2>2. /\ FitsGrants(MemoryStoreToken(db.memory, NewAccess(a)))
        /\ FitsGrants(SqliteStoreToken(db.sqlite, NewAccess(a)))
        /\ FitsGrants(PostgresStoreToken(db.postgres, NewAccess(a)))
    <3>1. NewAccess(a).key = a
      BY DEF NewAccess
    <3>2. FitsGrants(MemoryStoreToken(db.memory, NewAccess(a)))
      BY <1>a, <2>1, QuietFits, GrantTable DEF FitsGrants, MemoryStoreToken, Upsert, Without
    <3>3. FitsGrants(PostgresStoreToken(db.postgres, NewAccess(a)))
      BY <1>a, <2>1, <3>1, QuietFits, IfClientFits, GrantTable DEF FitsGrants, PostgresStoreToken
    <3>4. FitsGrants(SqliteStoreToken(db.sqlite, NewAccess(a)))
      <4>. DEFINE left == Cascade(db.sqlite, Where(db.sqlite.access, NewAccess(a).key))
                  stored == [left EXCEPT !.access = @ \cup {NewAccess(a)}]
      <4>1. stored \in GrantTables
        BY <1>a, <2>1, GrantTable, CascadeTyped
      <4>2. Fits(Reply(stored, {}), GrantTables, GrantKey)
        BY <4>1, QuietFits
      <4>. QED BY <1>a, <2>1, <3>1, <4>2, IfClientFits DEF FitsGrants, SqliteStoreToken
    <3>. QED BY <3>2, <3>3, <3>4
  <2>. QED BY <1>4, <1>a, <2>1, <2>2, CallTyped, UnownedKeys
    DEF StoreToken, Issue, MayDiffer, StoreTypeOK, FitsGrants
<1>5. ASSUME NEW a \in AccessToken, GetToken(a) PROVE GrantsTyped'
  <2>1. Keys(Expired(Where(db.sqlite.access, a))) \subseteq GrantKey
    BY <1>a DEF Keys, Expired, Where, GrantTables, AccessRow, GrantKey
  <2>2. /\ MemoryGetToken(db.memory, a).db = db.memory
        /\ SqliteGetToken(db.sqlite, a).db \in GrantTables
        /\ PostgresGetToken(db.postgres, a).db = db.postgres
    BY <1>a, CascadeTyped DEF MemoryGetToken, SqliteGetToken, PostgresGetToken, Reply
  <2>. QED BY <1>5, <1>a, <1>c, <2>1, <2>2 DEF GetToken, Call, MayDiffer, StoreTypeOK, Backend
<1>6. ASSUME NEW a \in AccessToken, RevokeToken(a) PROVE GrantsTyped'
  <2>1. /\ MemoryRevokeToken(db.memory, a).db \in GrantTables
        /\ SqliteRevokeToken(db.sqlite, a).db \in GrantTables
        /\ PostgresRevokeToken(db.postgres, a).db \in GrantTables
    BY <1>a, CascadeTyped, GrantTable
       DEF MemoryRevokeToken, SqliteRevokeToken, PostgresRevokeToken, IfDeleted, Reply, Without
  <2>. QED BY <1>6, <1>a, <1>c, <2>1 DEF RevokeToken, Call, MayDiffer, StoreTypeOK, Backend
<1>7. ASSUME CleanupTokens PROVE GrantsTyped'
  <2>1. /\ MemoryCleanupTokens(db.memory).db \in GrantTables
        /\ SqliteCleanupTokens(db.sqlite).db \in GrantTables
        /\ PostgresCleanupTokens(db.postgres).db \in GrantTables
    BY <1>a, CascadeTyped, GrantTable
       DEF MemoryCleanupTokens, SqliteCleanupTokens, PostgresCleanupTokens, Reply
  <2>. QED BY <1>7, <1>a, <1>c, <2>1 DEF CleanupTokens, Call, MayDiffer, StoreTypeOK, Backend
<1>8. ASSUME NEW r \in RefreshToken, NEW a \in AccessToken, StoreRefreshToken(r, a)
      PROVE  GrantsTyped'
  <2>1. NewRefresh(r, a) \in RefreshRow /\ r \in GrantKey
    BY <1>a, NewGrantRows DEF GrantKey
  <2>2. /\ MemoryStoreRefreshToken(db.memory, NewRefresh(r, a)).db \in GrantTables
        /\ SqliteStoreRefreshToken(db.sqlite, NewRefresh(r, a)).db \in GrantTables
        /\ PostgresStoreRefreshToken(db.postgres, NewRefresh(r, a)).db \in GrantTables
    BY <1>a, <2>1, GrantTable
       DEF MemoryStoreRefreshToken, SqliteStoreRefreshToken, PostgresStoreRefreshToken, Reply,
           IfClient, Upsert, Without
  <2>. QED BY <1>8, <1>a, <2>1, <2>2, UnownedKeys
    DEF StoreRefreshToken, Call, Issue, MayDiffer, StoreTypeOK, Backend
<1>9. ASSUME NEW r \in RefreshToken, ConsumeRefreshToken(r) PROVE GrantsTyped'
  BY <1>9, <1>a, <1>b, ConsumeRefreshFits, CallTyped
     DEF ConsumeRefreshToken, HandOut, MayDiffer, StoreTypeOK, FitsGrants
<1>10. ASSUME CleanupRefreshTokens PROVE GrantsTyped'
  <2>1. /\ MemoryCleanupRefreshTokens(db.memory).db \in GrantTables
        /\ SqliteCleanupRefreshTokens(db.sqlite).db \in GrantTables
        /\ PostgresCleanupRefreshTokens(db.postgres).db \in GrantTables
    BY <1>a, GrantTable
       DEF MemoryCleanupRefreshTokens, SqliteCleanupRefreshTokens, PostgresCleanupRefreshTokens, Reply
  <2>. QED BY <1>10, <1>a, <2>1 DEF CleanupRefreshTokens, Call, grantHistory, StoreTypeOK, Backend
<1>11. ASSUME NEW table \in {"codes", "refresh"}, NEW k \in GrantKey,
              NEW a \in AccessToken, NEW r \in RefreshToken, NEW m, NEW s, NEW p,
              FitsGrants(m), FitsGrants(s), FitsGrants(p), BuyPair(table, k, a, r, m, s, p)
       PROVE  GrantsTyped'
  <2>1. {k, a, r} \subseteq GrantKey
    BY DEF GrantKey
  <2>. QED BY <1>11, <1>a, <2>1, CallTyped DEF BuyPair, Issue, MayDiffer, StoreTypeOK, FitsGrants
<1>12. ASSUME NEW c \in Code, NEW a \in AccessToken, NEW r \in RefreshToken,
              ExchangeCodeForTokens(c, a, r)
       PROVE  GrantsTyped'
  <2>1. NewAccess(a) \in AccessRow /\ NewRefresh(r, a) \in RefreshRow /\ c \in GrantKey
    BY <1>a, NewGrantRows DEF GrantKey
  <2>2. /\ FitsGrants(MemoryExchangeCode(db.memory, c, NewAccess(a), NewRefresh(r, a)))
        /\ FitsGrants(SqliteExchangeCode(db.sqlite, c, NewAccess(a), NewRefresh(r, a)))
        /\ FitsGrants(PostgresExchangeCode(db.postgres, c, NewAccess(a), NewRefresh(r, a)))
    <3>1. \A d \in GrantTables :
             /\ MemoryConsumeCode(d, c) = Reply(MemoryConsumeCode(d, c).db, MemoryConsumeCode(d, c).answer)
             /\ TakeUnused(d, c) = Reply(TakeUnused(d, c).db, TakeUnused(d, c).answer)
      BY DEF MemoryConsumeCode, TakeUnused, Reply
    <3>. QED BY <1>a, <2>1, <3>1, ConsumeCodeFits, WithPairFits
      DEF MemoryExchangeCode, SqliteExchangeCode, PostgresExchangeCode
  <2>. QED BY <1>12, <1>11, <2>1, <2>2 DEF ExchangeCodeForTokens
<1>13. ASSUME NEW old \in RefreshToken, NEW a \in AccessToken, NEW r \in RefreshToken,
              RefreshTokens(old, a, r)
       PROVE  GrantsTyped'
  <2>1. NewAccess(a) \in AccessRow /\ NewRefresh(r, a) \in RefreshRow /\ old \in GrantKey
    BY <1>a, NewGrantRows DEF GrantKey
  <2>2. /\ FitsGrants(MemoryRefreshTokens(db.memory, old, NewAccess(a), NewRefresh(r, a)))
        /\ FitsGrants(SqliteRefreshTokens(db.sqlite, old, NewAccess(a), NewRefresh(r, a)))
        /\ FitsGrants(PostgresRefreshTokens(db.postgres, old, NewAccess(a), NewRefresh(r, a)))
    <3>1. ASSUME NEW d \in GrantTables
          PROVE  \A t \in {MemoryConsumeRefreshToken(d, old), SqliteConsumeRefreshToken(d, old),
                           PostgresConsumeRefreshToken(d, old)} : t = Reply(t.db, t.answer)
      BY
         DEF MemoryConsumeRefreshToken, SqliteConsumeRefreshToken, PostgresConsumeRefreshToken, Reply
    <3>. QED BY <1>a, <2>1, <3>1, ConsumeRefreshFits, WithPairFits
      DEF MemoryRefreshTokens, SqliteRefreshTokens, PostgresRefreshTokens
  <2>. QED BY <1>13, <1>11, <2>1, <2>2 DEF RefreshTokens
<1>14. ASSUME DeleteClientGrants PROVE GrantsTyped'
  <2>1. /\ MemoryDropGrants(db.memory).db \in GrantTables
        /\ SqliteDropGrants(db.sqlite).db \in GrantTables
        /\ PostgresDropGrants(db.postgres).db \in GrantTables
    BY <1>a DEF MemoryDropGrants, SqliteDropGrants, PostgresDropGrants, DropGrants, NoGrants, Reply,
       GrantTables
  <2>2. /\ Keys(db.memory.codes) \subseteq GrantKey /\ Keys(db.memory.access) \subseteq GrantKey
        /\ Keys(db.memory.refresh) \subseteq GrantKey
    BY <1>a, GrantTable, GrantKeys DEF GrantKey
  <2>. QED BY <1>14, <1>a, <2>1, <2>2 DEF DeleteClientGrants, Call, MayDiffer, StoreTypeOK, Backend
<1>. QED BY <1>1, <1>2, <1>3, <1>4, <1>5, <1>6, <1>7, <1>8, <1>9, <1>10, <1>12, <1>13, <1>14
  DEF GrantCall, CleanupGrants

(* What one backend has handed out. *)

\* A backend's rows bear keys that were issued, a code is marked as used when
\* it was handed out and not before, and a spent refresh token is gone.
Careful(d, out, known) ==
    /\ out \subseteq known
    /\ \A r \in d.codes : r.key \in known /\ (r.used <=> r.key \in out)
    /\ \A r \in d.access : r.key \in known
    /\ \A r \in d.refresh : r.key \in known /\ r.key \notin out

\* The rows of a code that may still be exchanged.
Live(d, c) == {r \in d.codes : r.key = c /\ r.expires > now /\ ~r.used}

LEMMA ConsumeCodeEffect ==
    ASSUME NEW d \in GrantTables, NEW c \in Code, now \in 0..MaxTime,
           NEW m \in {MemoryConsumeCode(d, c), TakeUnused(d, c), PostgresConsumeCode(d, c)}
    PROVE  /\ m.db.access = d.access /\ m.db.refresh = d.refresh
           /\ m.answer \subseteq {r \in d.codes : r.key = c}
           /\ \A r \in CodeRow : r.expires > now /\ ~r.used =>
                (r \in m.db.codes <=> r \in d.codes /\ r.key # c)
           /\ \A out, known : Careful(d, out, known) =>
                Careful(m.db, out \cup Keys(m.answer), known)
<1>. USE GrantTable DEF CodeRow, Used, Keys, Reply, Careful, Where, Without, Expired, GrantTables
<1>a. d.codes \subseteq CodeRow /\ RefreshToken \cap Code = {}
  BY GrantStoresAssumption
<1>1. CASE m = MemoryConsumeCode(d, c)
  BY <1>a, <1>1 DEF MemoryConsumeCode, MemoryGetCode, RefreshRow
<1>2. CASE m = TakeUnused(d, c)
  BY <1>a, <1>2 DEF TakeUnused, RefreshRow
<1>3. CASE m = PostgresConsumeCode(d, c)
  BY <1>a, <1>3 DEF PostgresConsumeCode, RefreshRow
<1>. QED BY <1>1, <1>2, <1>3

LEMMA ConsumeCodeAnswer ==
    ASSUME NEW d \in GrantTables, NEW c \in Code, now \in 0..MaxTime
    PROVE  /\ TakeUnused(d, c).answer = Live(d, c)
           /\ (\A r \in d.codes : r.key = c => r.expires # now) =>
                 MemoryConsumeCode(d, c).answer = Live(d, c)
BY DEF GrantTables, CodeRow, TakeUnused, MemoryConsumeCode, MemoryGetCode, Live, Where, Expired,
   Reply, Time

LEMMA ConsumeRefreshEffect ==
    ASSUME NEW d \in GrantTables, NEW t \in RefreshToken, now \in 0..MaxTime,
           NEW m \in {MemoryConsumeRefreshToken(d, t), SqliteConsumeRefreshToken(d, t),
                      PostgresConsumeRefreshToken(d, t)}
    PROVE  /\ m.db.codes = d.codes /\ m.db.access = d.access
           /\ m.answer \subseteq {r \in d.refresh : r.key = t}
           /\ \A r \in d.refresh : r.key = t /\ r.expires > now => r \in m.answer
           /\ \A r \in m.answer : r.expires >= now
           /\ m.db.refresh = {r \in d.refresh : r.key # t}
           /\ \A out, known : Careful(d, out, known) =>
                Careful(m.db, out \cup Keys(m.answer), known)
<1>. USE GrantStoresAssumption, GrantTable
     DEF CodeRow, RefreshRow, Keys, Reply, Careful, Where, Without, GrantTables, Time
<1>1. CASE m = MemoryConsumeRefreshToken(d, t)
  BY <1>1 DEF MemoryConsumeRefreshToken, MemoryGetRefreshToken
<1>2. CASE m = SqliteConsumeRefreshToken(d, t)
  BY <1>2 DEF SqliteConsumeRefreshToken
<1>3. CASE m = PostgresConsumeRefreshToken(d, t)
  BY <1>3 DEF PostgresConsumeRefreshToken
<1>. QED BY <1>1, <1>2, <1>3

\* Rows that leave do no harm.
Fewer(e, d) ==
    e.codes \subseteq d.codes /\ e.access \subseteq d.access /\ e.refresh \subseteq d.refresh

LEMMA FewerCareful ==
    ASSUME NEW d, NEW e, NEW out, NEW known, Careful(d, out, known), Fewer(e, d)
    PROVE  Careful(e, out, known)
BY DEF Careful, Fewer

LEMMA CascadeFewer ==
    ASSUME NEW d \in GrantTables, NEW gone
    PROVE  Fewer(Cascade(d, gone), d)
BY CascadeTyped DEF Fewer

\* A pair that was bought consists of fresh tokens.
Bought(taken, a, r) == WithPair(taken, NewAccess(a), NewRefresh(r, a))

LEMMA BoughtEffect ==
    ASSUME NEW taken, FitsGrants(taken), now \in 0..MaxTime,
           NEW a \in AccessToken, NEW r \in RefreshToken
    PROVE  /\ Bought(taken, a, r).answer = taken.answer
           /\ Bought(taken, a, r).db.codes = taken.db.codes
           /\ Bought(taken, a, r).db.access =
                taken.db.access \cup {x \in {NewAccess(a)} : taken.answer # {}}
           /\ Bought(taken, a, r).db.refresh =
                taken.db.refresh \cup {x \in {NewRefresh(r, a)} : taken.answer # {}}
           /\ taken = Reply(taken.db, taken.answer) => FitsGrants(Bought(taken, a, r))
<1>1. NewAccess(a) \in AccessRow /\ NewRefresh(r, a) \in RefreshRow
  BY NewGrantRows
<1>2. taken = Reply(taken.db, taken.answer) => FitsGrants(Bought(taken, a, r))
  BY <1>1, WithPairFits DEF Bought
<1>. QED BY <1>2 DEF Bought, WithPair, FitsGrants, Fits, GrantTables, Reply

LEMMA BoughtCareful ==
    ASSUME NEW taken, FitsGrants(taken), now \in 0..MaxTime,
           NEW a \in AccessToken, NEW r \in RefreshToken, NEW out, NEW known,
           a \notin known, r \notin known, Careful(taken.db, out, known)
    PROVE  Careful(Bought(taken, a, r).db, out, known \cup {a, r})
BY BoughtEffect DEF Careful, NewAccess, NewRefresh

-----------------------------------------------------------------------------
(* What the backends agree on. *)

\* The rows of key k that count: unused codes and refresh tokens in time, and
\* every access token.
SameGrants(d, e, k) ==
    /\ \A r \in CodeRow : r.key = k /\ r.expires > now /\ ~r.used =>
          (r \in d.codes <=> r \in e.codes)
    /\ \A r \in AccessRow : r.key = k => (r \in d.access <=> r \in e.access)
    /\ \A r \in RefreshRow : r.key = k /\ r.expires > now =>
          (r \in d.refresh <=> r \in e.refresh)

GrantsCareful == \A b \in Backend : Careful(db[b], spent[b], issued)

GrantsAlike ==
    \A k \in GrantKey \ apart :
        SameGrants(db.memory, db.sqlite, k) /\ SameGrants(db.memory, db.postgres, k)

GrantsSound == GrantsTyped /\ GrantsCareful /\ GrantsAlike

LEMMA GrantsNow ==
    ASSUME GrantsTyped
    PROVE  /\ now \in 0..MaxTime /\ issued \subseteq GrantKey /\ apart \subseteq GrantKey
           /\ spent \in [Backend -> SUBSET GrantKey]
           /\ db.memory \in GrantTables /\ db.sqlite \in GrantTables /\ db.postgres \in GrantTables
BY DEF GrantsTyped, StoreTypeOK, Backend

LEMMA TickGrants ==
    ASSUME GrantsSound, Tick
    PROVE  GrantsSound'
<1>1. GrantsTyped'
  BY TickTyped DEF GrantsSound, GrantsTyped
<1>2. GrantsCareful'
  BY DEF GrantsSound, GrantsCareful, Tick
<1>3. GrantsAlike'
  BY GrantsNow DEF GrantsSound, GrantsAlike, SameGrants, Tick, CodeRow, RefreshRow, Time
<1>. QED BY <1>1, <1>2, <1>3 DEF GrantsSound

\* One call in three replies: each backend's tables and what it handed out.
LEMMA CallCareful ==
    ASSUME NEW m, NEW s, NEW p, Call(m, s, p), spent \in [Backend -> SUBSET GrantKey],
           \/ /\ Spend(m, s, p)
              /\ Careful(m.db, spent.memory \cup Keys(m.answer), issued')
              /\ Careful(s.db, spent.sqlite \cup Keys(s.answer), issued')
              /\ Careful(p.db, spent.postgres \cup Keys(p.answer), issued')
           \/ /\ UNCHANGED spent
              /\ Careful(m.db, spent.memory, issued')
              /\ Careful(s.db, spent.sqlite, issued')
              /\ Careful(p.db, spent.postgres, issued')
    PROVE  GrantsCareful'
<1>. SUFFICES ASSUME NEW b \in Backend PROVE Careful(db'[b], spent'[b], issued')
  BY DEF GrantsCareful, Careful
<1>1. /\ db'["memory"] = m.db /\ db'["sqlite"] = s.db /\ db'["postgres"] = p.db
      /\ Spend(m, s, p) =>
           /\ spent'["memory"] = spent.memory \cup Keys(m.answer)
           /\ spent'["sqlite"] = spent.sqlite \cup Keys(s.answer)
           /\ spent'["postgres"] = spent.postgres \cup Keys(p.answer)
  BY DEF Call, Spend
<1>. QED BY <1>1 DEF Backend

LEMMA NextGrantsCareful ==
    ASSUME GrantsTyped, GrantsCareful, GrantCall
    PROVE  GrantsCareful'
<1>. USE GrantsNow
<1>a. /\ Careful(db.memory, spent.memory, issued) /\ Careful(db.sqlite, spent.sqlite, issued)
      /\ Careful(db.postgres, spent.postgres, issued)
  BY DEF GrantsCareful, Backend
<1>b. ASSUME NEW d, NEW out, NEW known, Careful(d, out, issued), issued \subseteq known
      PROVE  Careful(d, out, known)
  BY <1>b DEF Careful
<1>1. ASSUME NEW c \in Code, StoreCode(c) PROVE GrantsCareful'
  <2>. DEFINE m == MemoryStoreCode(db.memory, NewCode(c))
              s == SqliteStoreCode(db.sqlite, NewCode(c))
              p == PostgresStoreCode(db.postgres, NewCode(c))
  <2>1. c \notin issued /\ issued' = issued \cup {c}
    BY <1>1 DEF StoreCode, Issue
  <2>2. ASSUME NEW d, NEW out, NEW e, Careful(d, out, issued), d \in GrantTables,
               \/ e = [d EXCEPT !.codes = @ \cup {NewCode(c)}]
               \/ e = [d EXCEPT !.codes = Upsert(@, NewCode(c))]
        PROVE  Careful(e, out, issued')
    BY <2>1, <2>2 DEF Careful, GrantTables, NewCode, Upsert, Without
  <2>3. /\ Careful(m.db, spent.memory, issued') /\ Careful(s.db, spent.sqlite, issued')
        /\ Careful(p.db, spent.postgres, issued')
    <3>1. Careful(m.db, spent.memory, issued')
      BY <1>a, <2>2 DEF MemoryStoreCode, Reply
    <3>2. Careful(s.db, spent.sqlite, issued')
      BY <1>a, <1>b, <2>1, <2>2 DEF SqliteStoreCode, IfClient, Reply
    <3>3. Careful(p.db, spent.postgres, issued')
      BY <1>a, <1>b, <2>1, <2>2 DEF PostgresStoreCode, IfClient, Reply
    <3>. QED BY <3>1, <3>2, <3>3
  <2>4. Call(m, s, p) /\ UNCHANGED spent
    BY <1>1 DEF StoreCode
  <2>. HIDE DEF m, s, p
  <2>. QED BY <2>3, <2>4, CallCareful
<1>2. ASSUME NEW c \in Code, ConsumeCode(c) PROVE GrantsCareful'
  <2>. DEFINE m == MemoryConsumeCode(db.memory, c)
              s == TakeUnused(db.sqlite, c)
              p == PostgresConsumeCode(db.postgres, c)
  <2>1. /\ Careful(m.db, spent.memory \cup Keys(m.answer), issued)
        /\ Careful(s.db, spent.sqlite \cup Keys(s.answer), issued)
        /\ Careful(p.db, spent.postgres \cup Keys(p.answer), issued)
    BY <1>a, ConsumeCodeEffect
  <2>2. Call(m, s, p) /\ Spend(m, s, p) /\ issued' = issued
    BY <1>2 DEF ConsumeCode, HandOut, SqliteConsumeCode
  <2>. HIDE DEF m, s, p
  <2>. QED BY <2>1, <2>2, CallCareful
<1>3. ASSUME NEW r \in RefreshToken, ConsumeRefreshToken(r) PROVE GrantsCareful'
  <2>. DEFINE m == MemoryConsumeRefreshToken(db.memory, r)
              s == SqliteConsumeRefreshToken(db.sqlite, r)
              p == PostgresConsumeRefreshToken(db.postgres, r)
  <2>1. /\ Careful(m.db, spent.memory \cup Keys(m.answer), issued)
        /\ Careful(s.db, spent.sqlite \cup Keys(s.answer), issued)
        /\ Careful(p.db, spent.postgres \cup Keys(p.answer), issued)
    BY <1>a, ConsumeRefreshEffect
  <2>2. Call(m, s, p) /\ Spend(m, s, p) /\ issued' = issued
    BY <1>3 DEF ConsumeRefreshToken, HandOut
  <2>. HIDE DEF m, s, p
  <2>. QED BY <2>1, <2>2, CallCareful
<1>4. ASSUME NEW a \in AccessToken, StoreToken(a) PROVE GrantsCareful'
  <2>. DEFINE m == MemoryStoreToken(db.memory, NewAccess(a))
              s == SqliteStoreToken(db.sqlite, NewAccess(a))
              p == PostgresStoreToken(db.postgres, NewAccess(a))
  <2>1. issued' = issued \cup {a}
    BY <1>4 DEF StoreToken, Issue
  <2>2. ASSUME NEW d, NEW out, NEW e, Careful(d, out, issued), e.codes = d.codes,
               e.access \subseteq d.access \cup {NewAccess(a)}, e.refresh \subseteq d.refresh
        PROVE  Careful(e, out, issued')
    BY <2>1, <2>2 DEF Careful, NewAccess
  <2>3. /\ Careful(m.db, spent.memory, issued') /\ Careful(s.db, spent.sqlite, issued')
        /\ Careful(p.db, spent.postgres, issued')
    BY <1>a, <2>2 DEF MemoryStoreToken, SqliteStoreToken, PostgresStoreToken, Cascade, Reply,
       IfClient, Upsert, Without, GrantTables
  <2>4. Call(m, s, p) /\ UNCHANGED spent
    BY <1>4 DEF StoreToken
  <2>. HIDE DEF m, s, p
  <2>. QED BY <2>3, <2>4, CallCareful
<1>5. ASSUME NEW r \in RefreshToken, NEW a \in AccessToken, StoreRefreshToken(r, a)
      PROVE  GrantsCareful'
  <2>. DEFINE row == NewRefresh(r, a)
              m == MemoryStoreRefreshToken(db.memory, row)
              s == SqliteStoreRefreshToken(db.sqlite, row)
              p == PostgresStoreRefreshToken(db.postgres, row)
  <2>1. r \notin issued /\ issued' = issued \cup {r}
    BY <1>5 DEF StoreRefreshToken, Issue
  <2>2. ASSUME NEW d, NEW out, NEW e, Careful(d, out, issued), e.codes = d.codes,
               e.access = d.access, e.refresh \subseteq d.refresh \cup {row}
        PROVE  Careful(e, out, issued')
    BY <2>1, <2>2 DEF Careful, NewRefresh
  <2>3. /\ Careful(m.db, spent.memory, issued') /\ Careful(s.db, spent.sqlite, issued')
        /\ Careful(p.db, spent.postgres, issued')
    BY <1>a, <2>2 DEF MemoryStoreRefreshToken, SqliteStoreRefreshToken, PostgresStoreRefreshToken,
       Reply, IfClient, Upsert, Without, GrantTables
  <2>4. Call(m, s, p) /\ UNCHANGED spent
    BY <1>5 DEF StoreRefreshToken
  <2>. HIDE DEF m, s, p
  <2>. QED BY <2>3, <2>4, CallCareful
\* The calls that only remove rows.
<1>6. ASSUME NEW m, NEW s, NEW p, Call(m, s, p), UNCHANGED <<spent, issued>>,
             Fewer(m.db, db.memory), Fewer(s.db, db.sqlite), Fewer(p.db, db.postgres)
      PROVE  GrantsCareful'
  <2>1. /\ Careful(m.db, spent.memory, issued) /\ Careful(s.db, spent.sqlite, issued)
        /\ Careful(p.db, spent.postgres, issued)
    BY <1>a, <1>6, FewerCareful
  <2>. QED BY <1>6, <2>1, CallCareful
<1>7. ASSUME CleanupCodes PROVE GrantsCareful'
  <2>1. /\ Fewer(MemoryCleanupCodes(db.memory).db, db.memory)
        /\ Fewer(SqliteCleanupCodes(db.sqlite).db, db.sqlite)
        /\ Fewer(PostgresCleanupCodes(db.postgres).db, db.postgres)
    BY DEF MemoryCleanupCodes, SqliteCleanupCodes, PostgresCleanupCodes, Reply, GrantTables, Fewer
  <2>. QED BY <1>6, <1>7, <2>1 DEF CleanupCodes, grantHistory
<1>8. ASSUME CleanupTokens PROVE GrantsCareful'
  <2>1. /\ Fewer(MemoryCleanupTokens(db.memory).db, db.memory)
        /\ Fewer(SqliteCleanupTokens(db.sqlite).db, db.sqlite)
        /\ Fewer(PostgresCleanupTokens(db.postgres).db, db.postgres)
    BY CascadeFewer DEF MemoryCleanupTokens, SqliteCleanupTokens, PostgresCleanupTokens, Reply,
       GrantTables, Fewer
  <2>. QED BY <1>6, <1>8, <2>1 DEF CleanupTokens
<1>9. ASSUME CleanupRefreshTokens PROVE GrantsCareful'
  <2>1. /\ Fewer(MemoryCleanupRefreshTokens(db.memory).db, db.memory)
        /\ Fewer(SqliteCleanupRefreshTokens(db.sqlite).db, db.sqlite)
        /\ Fewer(PostgresCleanupRefreshTokens(db.postgres).db, db.postgres)
    BY DEF MemoryCleanupRefreshTokens, SqliteCleanupRefreshTokens, PostgresCleanupRefreshTokens,
       Reply, GrantTables, Fewer
  <2>. QED BY <1>6, <1>9, <2>1 DEF CleanupRefreshTokens, grantHistory
<1>10. ASSUME NEW a \in AccessToken, GetToken(a) PROVE GrantsCareful'
  <2>1. /\ Fewer(MemoryGetToken(db.memory, a).db, db.memory)
        /\ Fewer(SqliteGetToken(db.sqlite, a).db, db.sqlite)
        /\ Fewer(PostgresGetToken(db.postgres, a).db, db.postgres)
    BY CascadeFewer DEF MemoryGetToken, SqliteGetToken, PostgresGetToken, Reply, Fewer
  <2>. QED BY <1>6, <1>10, <2>1 DEF GetToken
<1>11. ASSUME NEW a \in AccessToken, RevokeToken(a) PROVE GrantsCareful'
  <2>1. /\ Fewer(MemoryRevokeToken(db.memory, a).db, db.memory)
        /\ Fewer(SqliteRevokeToken(db.sqlite, a).db, db.sqlite)
        /\ Fewer(PostgresRevokeToken(db.postgres, a).db, db.postgres)
    BY CascadeFewer DEF MemoryRevokeToken, SqliteRevokeToken, PostgresRevokeToken, IfDeleted,
       Reply, Without, GrantTables, Fewer
  <2>. QED BY <1>6, <1>11, <2>1 DEF RevokeToken
<1>12. ASSUME NEW c \in Code, NEW a \in AccessToken, NEW r \in RefreshToken,
              ExchangeCodeForTokens(c, a, r)
       PROVE  GrantsCareful'
  <2>. DEFINE m == MemoryExchangeCode(db.memory, c, NewAccess(a), NewRefresh(r, a))
              s == SqliteExchangeCode(db.sqlite, c, NewAccess(a), NewRefresh(r, a))
              p == PostgresExchangeCode(db.postgres, c, NewAccess(a), NewRefresh(r, a))
  <2>1. /\ Call(m, s, p) /\ Spend(m, s, p)
        /\ {a, r} \cap issued = {} /\ issued' = issued \cup {a, r}
    BY <1>12 DEF ExchangeCodeForTokens, BuyPair, Issue
  <2>2. ASSUME NEW d \in GrantTables, NEW out, Careful(d, out, issued),
               NEW taken \in {MemoryConsumeCode(d, c), TakeUnused(d, c)}
        PROVE  Careful(Bought(taken, a, r).db, out \cup Keys(Bought(taken, a, r).answer), issued')
    <3>1. FitsGrants(taken)
      BY <2>2, ConsumeCodeFits
    <3>2. Careful(taken.db, out \cup Keys(taken.answer), issued)
      <4>1. /\ Careful(MemoryConsumeCode(d, c).db, out \cup Keys(MemoryConsumeCode(d, c).answer), issued)
            /\ Careful(TakeUnused(d, c).db, out \cup Keys(TakeUnused(d, c).answer), issued)
        BY <2>2, ConsumeCodeEffect
      <4>. QED BY <4>1
    <3>3. a \notin issued /\ r \notin issued /\ issued' = issued \cup {a, r}
      BY <2>1
    <3>4. Bought(taken, a, r).answer = taken.answer
      BY <3>1, BoughtEffect
    <3>. QED BY <3>1, <3>2, <3>3, <3>4, BoughtCareful
  <2>3. /\ Careful(m.db, spent.memory \cup Keys(m.answer), issued')
        /\ Careful(s.db, spent.sqlite \cup Keys(s.answer), issued')
        /\ Careful(p.db, spent.postgres \cup Keys(p.answer), issued')
    BY <1>a, <2>2 DEF Bought, MemoryExchangeCode, SqliteExchangeCode, PostgresExchangeCode
  <2>. HIDE DEF m, s, p
  <2>. QED BY <2>1, <2>3, CallCareful
<1>13. ASSUME NEW old \in RefreshToken, NEW a \in AccessToken, NEW r \in RefreshToken,
              RefreshTokens(old, a, r)
       PROVE  GrantsCareful'
  <2>. DEFINE m == MemoryRefreshTokens(db.memory, old, NewAccess(a), NewRefresh(r, a))
              s == SqliteRefreshTokens(db.sqlite, old, NewAccess(a), NewRefresh(r, a))
              p == PostgresRefreshTokens(db.postgres, old, NewAccess(a), NewRefresh(r, a))
  <2>1. /\ Call(m, s, p) /\ Spend(m, s, p)
        /\ {a, r} \cap issued = {} /\ issued' = issued \cup {a, r}
    BY <1>13 DEF RefreshTokens, BuyPair, Issue
  <2>2. ASSUME NEW d \in GrantTables, NEW out, Careful(d, out, issued),
               NEW taken \in {MemoryConsumeRefreshToken(d, old), SqliteConsumeRefreshToken(d, old),
                              PostgresConsumeRefreshToken(d, old)}
        PROVE  Careful(Bought(taken, a, r).db, out \cup Keys(Bought(taken, a, r).answer), issued')
    <3>1. FitsGrants(taken)
      BY <2>2, ConsumeRefreshFits
    <3>2. Careful(taken.db, out \cup Keys(taken.answer), issued)
      <4>1. CASE taken = MemoryConsumeRefreshToken(d, old)
        BY <2>2, <4>1, ConsumeRefreshEffect
      <4>2. CASE taken = SqliteConsumeRefreshToken(d, old)
        BY <2>2, <4>2, ConsumeRefreshEffect
      <4>3. CASE taken = PostgresConsumeRefreshToken(d, old)
        BY <2>2, <4>3, ConsumeRefreshEffect
      <4>. QED BY <4>1, <4>2, <4>3
    <3>3. a \notin issued /\ r \notin issued /\ issued' = issued \cup {a, r}
      BY <2>1
    <3>4. Bought(taken, a, r).answer = taken.answer
      BY <3>1, BoughtEffect
    <3>. QED BY <3>1, <3>2, <3>3, <3>4, BoughtCareful
  <2>3. /\ Careful(m.db, spent.memory \cup Keys(m.answer), issued')
        /\ Careful(s.db, spent.sqlite \cup Keys(s.answer), issued')
        /\ Careful(p.db, spent.postgres \cup Keys(p.answer), issued')
    BY <1>a, <2>2 DEF Bought, MemoryRefreshTokens, SqliteRefreshTokens, PostgresRefreshTokens
  <2>. HIDE DEF m, s, p
  <2>. QED BY <2>1, <2>3, CallCareful
<1>14. ASSUME DeleteClientGrants PROVE GrantsCareful'
  <2>1. /\ Fewer(MemoryDropGrants(db.memory).db, db.memory)
        /\ Fewer(SqliteDropGrants(db.sqlite).db, db.sqlite)
        /\ Fewer(PostgresDropGrants(db.postgres).db, db.postgres)
    BY DEF MemoryDropGrants, SqliteDropGrants, PostgresDropGrants, DropGrants, NoGrants, Reply,
       GrantTables, Fewer
  <2>. QED BY <1>6, <1>14, <2>1 DEF DeleteClientGrants
<1>. QED BY <1>1, <1>2, <1>3, <1>4, <1>5, <1>7, <1>8, <1>9, <1>10, <1>11, <1>12, <1>13, <1>14
  DEF GrantCall, CleanupGrants

\* After a call the backends agree on a key if the replies do.
LEMMA CallAlike ==
    ASSUME NEW m, NEW s, NEW p, Call(m, s, p),
           \A k \in GrantKey \ apart' :
               SameGrants(m.db, s.db, k) /\ SameGrants(m.db, p.db, k)
    PROVE  GrantsAlike'
<1>1. /\ db'.memory = m.db /\ db'.sqlite = s.db /\ db'.postgres = p.db /\ now' = now
  BY DEF Call
<1>. QED BY <1>1 DEF GrantsAlike, SameGrants

LEMMA NextGrantsAlike ==
    ASSUME GrantsTyped, GrantsCareful, GrantsAlike, GrantCall
    PROVE  GrantsAlike'
<1>. USE GrantsNow
<1>a. \A k \in GrantKey \ apart :
         SameGrants(db.memory, db.sqlite, k) /\ SameGrants(db.memory, db.postgres, k)
  BY DEF GrantsAlike
<1>b. /\ Careful(db.memory, spent.memory, issued) /\ Careful(db.sqlite, spent.sqlite, issued)
      /\ Careful(db.postgres, spent.postgres, issued)
  BY DEF GrantsCareful, Backend
<1>1. ASSUME NEW c \in Code, StoreCode(c) PROVE GrantsAlike'
  <2>. DEFINE m == MemoryStoreCode(db.memory, NewCode(c))
              s == SqliteStoreCode(db.sqlite, NewCode(c))
              p == PostgresStoreCode(db.postgres, NewCode(c))
  <2>1. c \notin issued /\ apart' = apart \cup Unowned(c) /\ Call(m, s, p)
    BY <1>1 DEF StoreCode, Issue, MayDiffer
  <2>2. /\ m.db = [db.memory EXCEPT !.codes = @ \cup {NewCode(c)}]
        /\ s.db = IF db.sqlite.client THEN [db.sqlite EXCEPT !.codes = @ \cup {NewCode(c)}]
                  ELSE db.sqlite
        /\ p.db = IF db.postgres.client THEN [db.postgres EXCEPT !.codes = @ \cup {NewCode(c)}]
                  ELSE db.postgres
    BY <1>b, <2>1 DEF Careful, MemoryStoreCode, SqliteStoreCode, PostgresStoreCode, Reply, IfClient,
       Upsert, Without, GrantTables, NewCode
  <2>3. \A k \in GrantKey \ apart' : SameGrants(m.db, s.db, k) /\ SameGrants(m.db, p.db, k)
    <3>1. NewCode(c).key = c
      BY DEF NewCode
    <3>2. CASE db.sqlite.client /\ db.postgres.client
      BY <1>a, <2>1, <2>2, <3>2 DEF SameGrants, GrantTables
    <3>3. CASE ~(db.sqlite.client /\ db.postgres.client)
      BY <1>a, <2>1, <2>2, <3>1, <3>3, UnownedKeys DEF SameGrants, GrantTables
    <3>. QED BY <3>2, <3>3
  <2>. HIDE DEF m, s, p
  <2>. QED BY <2>1, <2>3, CallAlike
<1>2. ASSUME NEW c \in Code, ConsumeCode(c) PROVE GrantsAlike'
  <2>. DEFINE m == MemoryConsumeCode(db.memory, c)
              s == TakeUnused(db.sqlite, c)
              p == PostgresConsumeCode(db.postgres, c)
  <2>1. apart \subseteq apart' /\ Call(m, s, p)
    BY <1>2 DEF ConsumeCode, HandOut, MayDiffer, SqliteConsumeCode
  <2>2. \A d \in {<<m.db, db.memory>>, <<s.db, db.sqlite>>, <<p.db, db.postgres>>} :
           /\ d[1].access = d[2].access /\ d[1].refresh = d[2].refresh
           /\ \A r \in CodeRow : r.expires > now /\ ~r.used =>
                (r \in d[1].codes <=> r \in d[2].codes /\ r.key # c)
    <3>1. /\ m.db.access = db.memory.access /\ m.db.refresh = db.memory.refresh
          /\ \A r \in CodeRow : r.expires > now /\ ~r.used =>
               (r \in m.db.codes <=> r \in db.memory.codes /\ r.key # c)
      BY ConsumeCodeEffect
    <3>2. /\ s.db.access = db.sqlite.access /\ s.db.refresh = db.sqlite.refresh
          /\ \A r \in CodeRow : r.expires > now /\ ~r.used =>
               (r \in s.db.codes <=> r \in db.sqlite.codes /\ r.key # c)
      BY ConsumeCodeEffect
    <3>3. /\ p.db.access = db.postgres.access /\ p.db.refresh = db.postgres.refresh
          /\ \A r \in CodeRow : r.expires > now /\ ~r.used =>
               (r \in p.db.codes <=> r \in db.postgres.codes /\ r.key # c)
      BY ConsumeCodeEffect
    <3>. HIDE DEF m, s, p
    <3>. QED BY <3>1, <3>2, <3>3
  <2>. HIDE DEF m, s, p
  <2>3. \A k \in GrantKey \ apart' : SameGrants(m.db, s.db, k) /\ SameGrants(m.db, p.db, k)
    BY <1>a, <2>1, <2>2 DEF SameGrants
  <2>. QED BY <2>1, <2>3, CallAlike
<1>3. ASSUME CleanupCodes PROVE GrantsAlike'
  <2>. DEFINE m == MemoryCleanupCodes(db.memory)
              s == SqliteCleanupCodes(db.sqlite)
              p == PostgresCleanupCodes(db.postgres)
  <2>1. apart' = apart /\ Call(m, s, p)
    BY <1>3 DEF CleanupCodes, grantHistory
  <2>2. \A k \in GrantKey \ apart : SameGrants(m.db, s.db, k) /\ SameGrants(m.db, p.db, k)
    BY <1>a DEF SameGrants, GrantTables, MemoryCleanupCodes, SqliteCleanupCodes,
       PostgresCleanupCodes, Reply, Expired, CodeRow, Time
  <2>. HIDE DEF m, s, p
  <2>. QED BY <2>1, <2>2, CallAlike
<1>4. ASSUME NEW a \in AccessToken, StoreToken(a) PROVE GrantsAlike'
  <2>. DEFINE m == MemoryStoreToken(db.memory, NewAccess(a))
              s == SqliteStoreToken(db.sqlite, NewAccess(a))
              p == PostgresStoreToken(db.postgres, NewAccess(a))
  <2>1. a \notin issued /\ apart' = apart \cup Unowned(a) /\ Call(m, s, p)
    BY <1>4 DEF StoreToken, Issue, MayDiffer
  <2>2. m.db = [db.memory EXCEPT !.access = @ \cup {NewAccess(a)}]
    BY <1>b, <2>1 DEF Careful, MemoryStoreToken, Reply, Upsert, Without, GrantTables, NewAccess
  <2>3. s.db = IF db.sqlite.client THEN [db.sqlite EXCEPT !.access = @ \cup {NewAccess(a)}]
               ELSE db.sqlite
    <3>1. Where(db.sqlite.access, a) = {}
      BY <1>b, <2>1 DEF Careful, Where
    <3>2. Cascade(db.sqlite, {}) = db.sqlite
      BY DEF Cascade, Keys, GrantTables
    <3>. QED BY <3>1, <3>2 DEF SqliteStoreToken, Reply, IfClient, NewAccess
  <2>4. p.db = IF db.postgres.client THEN [db.postgres EXCEPT !.access = @ \cup {NewAccess(a)}]
               ELSE db.postgres
    BY DEF PostgresStoreToken, Reply, IfClient
  <2>5. \A k \in GrantKey \ apart' : SameGrants(m.db, s.db, k) /\ SameGrants(m.db, p.db, k)
    <3>1. NewAccess(a).key = a
      BY DEF NewAccess
    <3>2. CASE db.sqlite.client /\ db.postgres.client
      BY <1>a, <2>1, <2>2, <2>3, <2>4, <3>2 DEF SameGrants, GrantTables
    <3>3. CASE ~(db.sqlite.client /\ db.postgres.client)
      BY <1>a, <2>1, <2>2, <2>3, <2>4, <3>1, <3>3, UnownedKeys DEF SameGrants, GrantTables
    <3>. QED BY <3>2, <3>3
  <2>. HIDE DEF m, s, p
  <2>. QED BY <2>1, <2>5, CallAlike
\* A cascade in SQLite: what leaves with an access token may differ.
<1>5. ASSUME NEW gone, NEW k \in GrantKey, k \notin Followers(Keys(gone))
      PROVE  \A r \in RefreshRow : r.key = k =>
                (r \in Cascade(db.sqlite, gone).refresh <=> r \in db.sqlite.refresh)
  BY <1>5, CascadeTyped DEF Followers, Keys
<1>6. ASSUME NEW a \in AccessToken, GetToken(a) PROVE GrantsAlike'
  <2>. DEFINE gone == Expired(Where(db.sqlite.access, a))
              m == MemoryGetToken(db.memory, a)
              s == SqliteGetToken(db.sqlite, a)
              p == PostgresGetToken(db.postgres, a)
  <2>1. apart' = apart \cup Keys(gone) \cup Followers(Keys(gone)) /\ Call(m, s, p)
    BY <1>6 DEF GetToken, MayDiffer
  <2>2. m.db = db.memory /\ s.db = Cascade(db.sqlite, gone) /\ p.db = db.postgres
    BY DEF MemoryGetToken, SqliteGetToken, PostgresGetToken, Reply
  <2>. HIDE DEF gone, m, s, p
  <2>3. ASSUME NEW k \in GrantKey \ apart'
        PROVE  SameGrants(m.db, s.db, k) /\ SameGrants(m.db, p.db, k)
    <3>1. k \notin apart /\ k \notin Keys(gone) /\ k \notin Followers(Keys(gone))
      BY <2>1
    <3>2. \A r \in AccessRow : r.key = k => r \notin gone
      BY <3>1 DEF Keys
    <3>. QED BY <1>a, <1>5, <2>2, <3>1, <3>2, CascadeTyped DEF SameGrants
  <2>. QED BY <2>1, <2>3, CallAlike
<1>7. ASSUME NEW a \in AccessToken, RevokeToken(a) PROVE GrantsAlike'
  <2>. DEFINE gone == Where(db.sqlite.access, a)
              m == MemoryRevokeToken(db.memory, a)
              s == SqliteRevokeToken(db.sqlite, a)
              p == PostgresRevokeToken(db.postgres, a)
  <2>1. apart' = apart \cup Followers({a}) /\ Call(m, s, p)
    BY <1>7 DEF RevokeToken, MayDiffer
  <2>2. /\ m.db = [db.memory EXCEPT !.access = Without(@, a)] /\ s.db = Cascade(db.sqlite, gone)
        /\ p.db = [db.postgres EXCEPT !.access = @ \ Where(@, a)]
    BY DEF MemoryRevokeToken, SqliteRevokeToken, PostgresRevokeToken, IfDeleted, Reply, GrantTables
  <2>3. Followers(Keys(gone)) \subseteq Followers({a})
    BY DEF Followers, Keys, Where
  <2>4. gone = {r \in db.sqlite.access : r.key = a}
    BY DEF Where
  <2>. HIDE DEF gone, m, s, p
  <2>5. ASSUME NEW k \in GrantKey \ apart'
        PROVE  SameGrants(m.db, s.db, k) /\ SameGrants(m.db, p.db, k)
    <3>1. k \notin apart /\ k \notin Followers(Keys(gone))
      BY <2>1, <2>3
    <3>2. \A r \in RefreshRow : r.key = k => (r \in s.db.refresh <=> r \in db.sqlite.refresh)
      BY <1>5, <2>2, <3>1
    <3>3. /\ m.db.codes = db.memory.codes /\ m.db.refresh = db.memory.refresh
          /\ p.db.codes = db.postgres.codes /\ p.db.refresh = db.postgres.refresh
          /\ s.db.codes = db.sqlite.codes
      BY <2>2, CascadeTyped DEF GrantTables
    <3>4. /\ m.db.access = {r \in db.memory.access : r.key # a}
          /\ s.db.access = {r \in db.sqlite.access : r.key # a}
          /\ p.db.access = {r \in db.postgres.access : r.key # a}
      BY <2>2, <2>4, CascadeTyped DEF GrantTables, Where, Without
    <3>. QED BY <1>a, <3>1, <3>2, <3>3, <3>4 DEF SameGrants
  <2>. QED BY <2>1, <2>5, CallAlike
<1>8. ASSUME CleanupTokens PROVE GrantsAlike'
  <2>. DEFINE gone == Expired(db.sqlite.access)
              m == MemoryCleanupTokens(db.memory)
              s == SqliteCleanupTokens(db.sqlite)
              p == PostgresCleanupTokens(db.postgres)
  <2>1. apart' = apart \cup Followers(Keys(gone)) /\ Call(m, s, p)
    BY <1>8 DEF CleanupTokens, MayDiffer
  <2>2. /\ m.db = [db.memory EXCEPT !.access = @ \ Expired(@)] /\ s.db = Cascade(db.sqlite, gone)
        /\ p.db = [db.postgres EXCEPT !.access = @ \ Expired(@)]
    BY DEF MemoryCleanupTokens, SqliteCleanupTokens, PostgresCleanupTokens, Reply, GrantTables
  <2>3. gone = {r \in db.sqlite.access : r.expires <= now}
    BY DEF Expired
  <2>. HIDE DEF gone, m, s, p
  <2>4. ASSUME NEW k \in GrantKey \ apart'
        PROVE  SameGrants(m.db, s.db, k) /\ SameGrants(m.db, p.db, k)
    <3>1. k \notin apart /\ k \notin Followers(Keys(gone))
      BY <2>1
    <3>2. \A r \in RefreshRow : r.key = k => (r \in s.db.refresh <=> r \in db.sqlite.refresh)
      BY <1>5, <2>2, <3>1
    <3>3. /\ m.db.codes = db.memory.codes /\ m.db.refresh = db.memory.refresh
          /\ p.db.codes = db.postgres.codes /\ p.db.refresh = db.postgres.refresh
          /\ s.db.codes = db.sqlite.codes
      BY <2>2, CascadeTyped DEF GrantTables
    <3>4. /\ m.db.access = {r \in db.memory.access : ~(r.expires <= now)}
          /\ s.db.access = {r \in db.sqlite.access : ~(r.expires <= now)}
          /\ p.db.access = {r \in db.postgres.access : ~(r.expires <= now)}
      BY <2>2, <2>3, CascadeTyped DEF GrantTables, Expired
    <3>. QED BY <1>a, <3>1, <3>2, <3>3, <3>4 DEF SameGrants
  <2>. QED BY <2>1, <2>4, CallAlike
<1>9. ASSUME NEW r \in RefreshToken, NEW a \in AccessToken, StoreRefreshToken(r, a)
      PROVE  GrantsAlike'
  <2>. DEFINE row == NewRefresh(r, a)
              m == MemoryStoreRefreshToken(db.memory, row)
              s == SqliteStoreRefreshToken(db.sqlite, row)
              p == PostgresStoreRefreshToken(db.postgres, row)
  <2>1. /\ r \notin issued /\ Call(m, s, p)
        /\ apart' = apart \cup Unowned(r) \cup (IF a \in Keys(db.sqlite.access) THEN {} ELSE {r})
    BY <1>9 DEF StoreRefreshToken, Issue, MayDiffer
  <2>2. row.key = r /\ row.value = a /\ row \in RefreshRow
    BY NewGrantRows DEF NewRefresh
  <2>. HIDE DEF row
  <2>3. m.db = [db.memory EXCEPT !.refresh = @ \cup {row}]
    BY <1>b, <2>1, <2>2 DEF Careful, MemoryStoreRefreshToken, Reply, Upsert, Without, GrantTables
  <2>. DEFINE kept == db.sqlite.client /\ db.postgres.client /\ a \in Keys(db.sqlite.access)
  <2>4. /\ s.db \in {[db.sqlite EXCEPT !.refresh = @ \cup {row}], db.sqlite}
        /\ kept => s.db = [db.sqlite EXCEPT !.refresh = @ \cup {row}]
    BY <2>2 DEF SqliteStoreRefreshToken, Reply
  <2>5. /\ p.db \in {[db.postgres EXCEPT !.refresh = @ \cup {row}], db.postgres}
        /\ kept => p.db = [db.postgres EXCEPT !.refresh = @ \cup {row}]
    BY DEF PostgresStoreRefreshToken, Reply, IfClient
  <2>. HIDE DEF m, s, p
  <2>6. \A k \in GrantKey \ apart' : SameGrants(m.db, s.db, k) /\ SameGrants(m.db, p.db, k)
    <3>1. CASE kept
      BY <1>a, <2>1, <2>3, <2>4, <2>5, <3>1, UnownedKeys DEF SameGrants, GrantTables
    <3>2. CASE ~kept
      <4>1. r \in apart'
        BY <2>1, <3>2, UnownedKeys
      <4>2. SUFFICES ASSUME NEW k \in GrantKey \ apart', k # r
                     PROVE  SameGrants(m.db, s.db, k) /\ SameGrants(m.db, p.db, k)
        BY <4>1
      <4>3. SameGrants(db.memory, db.sqlite, k) /\ SameGrants(db.memory, db.postgres, k)
        BY <1>a, <2>1
      <4>. QED BY <2>2, <2>3, <2>4, <2>5, <4>2, <4>3 DEF SameGrants, GrantTables
    <3>. QED BY <3>1, <3>2
  <2>. QED BY <2>1, <2>6, CallAlike
<1>10. ASSUME NEW r \in RefreshToken, ConsumeRefreshToken(r) PROVE GrantsAlike'
  <2>. DEFINE m == MemoryConsumeRefreshToken(db.memory, r)
              s == SqliteConsumeRefreshToken(db.sqlite, r)
              p == PostgresConsumeRefreshToken(db.postgres, r)
  <2>1. apart \subseteq apart' /\ Call(m, s, p)
    BY <1>10 DEF ConsumeRefreshToken, HandOut, MayDiffer
  <2>2. /\ m.db.codes = db.memory.codes /\ m.db.access = db.memory.access
        /\ m.db.refresh = {x \in db.memory.refresh : x.key # r}
    BY ConsumeRefreshEffect
  <2>3. /\ s.db.codes = db.sqlite.codes /\ s.db.access = db.sqlite.access
        /\ s.db.refresh = {x \in db.sqlite.refresh : x.key # r}
    BY ConsumeRefreshEffect
  <2>4. /\ p.db.codes = db.postgres.codes /\ p.db.access = db.postgres.access
        /\ p.db.refresh = {x \in db.postgres.refresh : x.key # r}
    BY ConsumeRefreshEffect
  <2>. HIDE DEF m, s, p
  <2>5. \A k \in GrantKey \ apart' : SameGrants(m.db, s.db, k) /\ SameGrants(m.db, p.db, k)
    BY <1>a, <2>1, <2>2, <2>3, <2>4 DEF SameGrants
  <2>. QED BY <2>1, <2>5, CallAlike
<1>11. ASSUME CleanupRefreshTokens PROVE GrantsAlike'
  <2>. DEFINE m == MemoryCleanupRefreshTokens(db.memory)
              s == SqliteCleanupRefreshTokens(db.sqlite)
              p == PostgresCleanupRefreshTokens(db.postgres)
  <2>1. apart' = apart /\ Call(m, s, p)
    BY <1>11 DEF CleanupRefreshTokens, grantHistory
  <2>2. \A k \in GrantKey \ apart : SameGrants(m.db, s.db, k) /\ SameGrants(m.db, p.db, k)
    BY <1>a DEF SameGrants, GrantTables, MemoryCleanupRefreshTokens, SqliteCleanupRefreshTokens,
       PostgresCleanupRefreshTokens, Reply, Expired, RefreshRow, Time
  <2>. HIDE DEF m, s, p
  <2>. QED BY <2>1, <2>2, CallAlike
\* The pair goes to every backend or to none, or its keys are told apart.
<1>12. ASSUME NEW table \in {"codes", "refresh"}, NEW k \in GrantKey,
              NEW a \in AccessToken, NEW r \in RefreshToken, NEW tm, NEW ts, NEW tp,
              FitsGrants(tm), FitsGrants(ts), FitsGrants(tp),
              BuyPair(table, k, a, r, Bought(tm, a, r), Bought(ts, a, r), Bought(tp, a, r)),
              \A x \in GrantKey \ apart :
                 SameGrants(tm.db, ts.db, x) /\ SameGrants(tm.db, tp.db, x),
              k \notin apart \cup AtEdge(table) =>
                 (tm.answer = {} <=> ts.answer = {}) /\ (tm.answer = {} <=> tp.answer = {})
       PROVE  GrantsAlike'
  <2>. DEFINE m == Bought(tm, a, r)
              s == Bought(ts, a, r)
              p == Bought(tp, a, r)
              na == NewAccess(a)
              nr == NewRefresh(r, a)
  <2>1. /\ Call(m, s, p) /\ apart \subseteq apart'
        /\ k \in apart \cup AtEdge(table) => {a, r} \subseteq apart'
    BY <1>12 DEF BuyPair, MayDiffer
  <2>2. na.key = a /\ nr.key = r
    BY DEF NewAccess, NewRefresh
  <2>3. /\ m.db.codes = tm.db.codes
        /\ m.db.access = tm.db.access \cup {x \in {na} : tm.answer # {}}
        /\ m.db.refresh = tm.db.refresh \cup {x \in {nr} : tm.answer # {}}
    BY <1>12, BoughtEffect
  <2>4. /\ s.db.codes = ts.db.codes
        /\ s.db.access = ts.db.access \cup {x \in {na} : ts.answer # {}}
        /\ s.db.refresh = ts.db.refresh \cup {x \in {nr} : ts.answer # {}}
    BY <1>12, BoughtEffect
  <2>5. /\ p.db.codes = tp.db.codes
        /\ p.db.access = tp.db.access \cup {x \in {na} : tp.answer # {}}
        /\ p.db.refresh = tp.db.refresh \cup {x \in {nr} : tp.answer # {}}
    BY <1>12, BoughtEffect
  <2>. HIDE DEF m, s, p, na, nr
  <2>6. ASSUME NEW x \in GrantKey \ apart'
        PROVE  SameGrants(m.db, s.db, x) /\ SameGrants(m.db, p.db, x)
    <3>1. SameGrants(tm.db, ts.db, x) /\ SameGrants(tm.db, tp.db, x)
      BY <1>12, <2>1
    <3>2. CASE x \in {a, r}
      BY <1>12, <2>1, <2>3, <2>4, <2>5, <3>1, <3>2 DEF SameGrants
    <3>3. CASE x \notin {a, r}
      BY <2>2, <2>3, <2>4, <2>5, <3>1, <3>3 DEF SameGrants
    <3>. QED BY <3>2, <3>3
  <2>. QED BY <2>1, <2>6, CallAlike
<1>13. ASSUME NEW c \in Code, NEW a \in AccessToken, NEW r \in RefreshToken,
              ExchangeCodeForTokens(c, a, r)
       PROVE  GrantsAlike'
  <2>. DEFINE m == MemoryConsumeCode(db.memory, c)
              s == TakeUnused(db.sqlite, c)
              p == TakeUnused(db.postgres, c)
  <2>1. BuyPair("codes", c, a, r, Bought(m, a, r), Bought(s, a, r), Bought(p, a, r))
    BY <1>13 DEF ExchangeCodeForTokens, Bought, MemoryExchangeCode, SqliteExchangeCode,
       PostgresExchangeCode
  <2>2. FitsGrants(m) /\ FitsGrants(s) /\ FitsGrants(p) /\ c \in GrantKey
    BY ConsumeCodeFits DEF GrantKey
  <2>3. /\ m.db.access = db.memory.access /\ m.db.refresh = db.memory.refresh
        /\ \A x \in CodeRow : x.expires > now /\ ~x.used =>
             (x \in m.db.codes <=> x \in db.memory.codes /\ x.key # c)
    BY ConsumeCodeEffect
  <2>4. /\ s.db.access = db.sqlite.access /\ s.db.refresh = db.sqlite.refresh
        /\ \A x \in CodeRow : x.expires > now /\ ~x.used =>
             (x \in s.db.codes <=> x \in db.sqlite.codes /\ x.key # c)
    BY ConsumeCodeEffect
  <2>5. /\ p.db.access = db.postgres.access /\ p.db.refresh = db.postgres.refresh
        /\ \A x \in CodeRow : x.expires > now /\ ~x.used =>
             (x \in p.db.codes <=> x \in db.postgres.codes /\ x.key # c)
    BY ConsumeCodeEffect
  <2>6. c \notin apart \cup AtEdge("codes") => m.answer = s.answer /\ m.answer = p.answer
    <3>. SUFFICES ASSUME c \notin apart, c \notin AtEdge("codes")
                  PROVE  m.answer = s.answer /\ m.answer = p.answer
      OBVIOUS
    <3>1. \A x \in db.memory.codes : x.key = c => x.expires # now
      BY DEF AtEdge, Backend, Keys
    <3>2. /\ m.answer = Live(db.memory, c) /\ s.answer = Live(db.sqlite, c)
          /\ p.answer = Live(db.postgres, c)
      BY <3>1, ConsumeCodeAnswer
    <3>3. Live(db.memory, c) = Live(db.sqlite, c) /\ Live(db.memory, c) = Live(db.postgres, c)
      BY <1>a, <2>2 DEF SameGrants, Live, GrantTables
    <3>. QED BY <3>2, <3>3
  <2>. HIDE DEF m, s, p
  <2>7. \A x \in GrantKey \ apart : SameGrants(m.db, s.db, x) /\ SameGrants(m.db, p.db, x)
    BY <1>a, <2>3, <2>4, <2>5 DEF SameGrants
  <2>. QED BY <1>12, <2>1, <2>2, <2>6, <2>7
<1>14. ASSUME NEW old \in RefreshToken, NEW a \in AccessToken, NEW r \in RefreshToken,
              RefreshTokens(old, a, r)
       PROVE  GrantsAlike'
  <2>. DEFINE m == MemoryConsumeRefreshToken(db.memory, old)
              s == SqliteConsumeRefreshToken(db.sqlite, old)
              p == PostgresConsumeRefreshToken(db.postgres, old)
  <2>1. BuyPair("refresh", old, a, r, Bought(m, a, r), Bought(s, a, r), Bought(p, a, r))
    BY <1>14 DEF RefreshTokens, Bought, MemoryRefreshTokens, SqliteRefreshTokens,
       PostgresRefreshTokens
  <2>2. FitsGrants(m) /\ FitsGrants(s) /\ FitsGrants(p) /\ old \in GrantKey
    BY ConsumeRefreshFits DEF GrantKey
  <2>3. /\ m.db.codes = db.memory.codes /\ m.db.access = db.memory.access
        /\ m.db.refresh = {x \in db.memory.refresh : x.key # old}
        /\ m.answer \subseteq {x \in db.memory.refresh : x.key = old}
        /\ \A x \in db.memory.refresh : x.key = old /\ x.expires > now => x \in m.answer
        /\ \A x \in m.answer : x.expires >= now
    BY ConsumeRefreshEffect
  <2>4. /\ s.db.codes = db.sqlite.codes /\ s.db.access = db.sqlite.access
        /\ s.db.refresh = {x \in db.sqlite.refresh : x.key # old}
        /\ s.answer \subseteq {x \in db.sqlite.refresh : x.key = old}
        /\ \A x \in db.sqlite.refresh : x.key = old /\ x.expires > now => x \in s.answer
        /\ \A x \in s.answer : x.expires >= now
    BY ConsumeRefreshEffect
  <2>5. /\ p.db.codes = db.postgres.codes /\ p.db.access = db.postgres.access
        /\ p.db.refresh = {x \in db.postgres.refresh : x.key # old}
        /\ p.answer \subseteq {x \in db.postgres.refresh : x.key = old}
        /\ \A x \in db.postgres.refresh : x.key = old /\ x.expires > now => x \in p.answer
        /\ \A x \in p.answer : x.expires >= now
    BY ConsumeRefreshEffect
  <2>. HIDE DEF m, s, p
  <2>6. old \notin apart \cup AtEdge("refresh") => m.answer = s.answer /\ m.answer = p.answer
    <3>. SUFFICES ASSUME old \notin apart, old \notin AtEdge("refresh")
                  PROVE  m.answer = s.answer /\ m.answer = p.answer
      OBVIOUS
    <3>1. \A b \in Backend : \A x \in db[b].refresh : x.key = old => x.expires # now
      BY DEF AtEdge, Keys
    <3>2. /\ db.memory.refresh \subseteq RefreshRow /\ db.sqlite.refresh \subseteq RefreshRow
          /\ db.postgres.refresh \subseteq RefreshRow
      BY GrantTable
    <3>3. \A x \in RefreshRow : x.expires \in Nat
      BY StoreCallsAssumption DEF RefreshRow, Time, Never
    <3>. DEFINE Ready(t) == {x \in t : x.key = old /\ x.expires > now}
    <3>4. m.answer = Ready(db.memory.refresh)
      BY <2>3, <3>1, <3>2, <3>3 DEF Backend
    <3>5. s.answer = Ready(db.sqlite.refresh)
      BY <2>4, <3>1, <3>2, <3>3 DEF Backend
    <3>6. p.answer = Ready(db.postgres.refresh)
      BY <2>5, <3>1, <3>2, <3>3 DEF Backend
    <3>7. SameGrants(db.memory, db.sqlite, old) /\ SameGrants(db.memory, db.postgres, old)
      BY <1>a, <2>2
    <3>8. /\ Ready(db.memory.refresh) = Ready(db.sqlite.refresh)
          /\ Ready(db.memory.refresh) = Ready(db.postgres.refresh)
      BY <3>2, <3>7 DEF SameGrants
    <3>. QED BY <3>4, <3>5, <3>6, <3>8
  <2>7. \A x \in GrantKey \ apart : SameGrants(m.db, s.db, x) /\ SameGrants(m.db, p.db, x)
    BY <1>a, <2>3, <2>4, <2>5 DEF SameGrants
  <2>. QED BY <1>12, <2>1, <2>2, <2>6, <2>7
\* A key whose rows memory has lost is lost in the databases with the client.
<1>15. ASSUME DeleteClientGrants PROVE GrantsAlike'
  <2>. DEFINE m == MemoryDropGrants(db.memory)
              s == SqliteDropGrants(db.sqlite)
              p == PostgresDropGrants(db.postgres)
  <2>1. /\ Call(m, s, p)
        /\ apart' = apart \cup (Keys(db.memory.codes) \cup Keys(db.memory.access)
                                \cup Keys(db.memory.refresh))
    BY <1>15 DEF DeleteClientGrants, MayDiffer
  <2>2. /\ m.db.codes = db.memory.codes /\ m.db.access = db.memory.access
        /\ m.db.refresh = db.memory.refresh
    BY DEF MemoryDropGrants, Reply, GrantTables
  <2>3. \A d \in {<<s.db, db.sqlite>>, <<p.db, db.postgres>>} :
           \/ d[1] = d[2]
           \/ d[1].codes = {} /\ d[1].access = {} /\ d[1].refresh = {}
    BY DEF SqliteDropGrants, PostgresDropGrants, DropGrants, NoGrants, Reply
  <2>. HIDE DEF m, s, p
  <2>4. ASSUME NEW k \in GrantKey \ apart'
        PROVE  SameGrants(m.db, s.db, k) /\ SameGrants(m.db, p.db, k)
    <3>1. SameGrants(db.memory, db.sqlite, k) /\ SameGrants(db.memory, db.postgres, k)
      BY <1>a, <2>1
    <3>2. /\ \A r \in db.memory.codes \cup db.memory.access \cup db.memory.refresh : r.key # k
      BY <2>1 DEF Keys
    <3>. QED BY <2>2, <2>3, <3>1, <3>2 DEF SameGrants
  <2>. QED BY <2>1, <2>4, CallAlike
<1>. QED BY <1>1, <1>2, <1>3, <1>4, <1>6, <1>7, <1>8, <1>9, <1>10, <1>11, <1>13, <1>14, <1>15
  DEF GrantCall, CleanupGrants

LEMMA NextGrantsSound ==
    ASSUME GrantsSound, GrantCall
    PROVE  GrantsSound'
BY NextGrantsTyped, NextGrantsCareful, NextGrantsAlike DEF GrantsSound

\* Equal answers look the same.
LEMMA EqualSame ==
    ASSUME NEW m, NEW s, NEW p, m.answer = s.answer, m.answer = p.answer
    PROVE  Same(m, s, p)
BY DEF Same, Shown

\* So do answers that are equal outside the keys that were told apart.
LEMMA ShownSame ==
    ASSUME NEW m, NEW s, NEW p,
           {x \in m.answer : x.key \notin apart} = {x \in s.answer : x.key \notin apart},
           {x \in m.answer : x.key \notin apart} = {x \in p.answer : x.key \notin apart}
    PROVE  Same(m, s, p)
BY DEF Same, Shown

LEMMA SoundGrantsAgree ==
    ASSUME GrantsSound
    PROVE  GrantsAgree
<1>. USE GrantsNow DEF GrantsSound
<1>a. \A k \in GrantKey \ apart :
         SameGrants(db.memory, db.sqlite, k) /\ SameGrants(db.memory, db.postgres, k)
  BY DEF GrantsAlike
<1>b. /\ Careful(db.memory, spent.memory, issued) /\ Careful(db.sqlite, spent.sqlite, issued)
      /\ Careful(db.postgres, spent.postgres, issued)
  BY DEF GrantsCareful, Backend
<1>c. /\ \A r \in CodeRow : r.key \in GrantKey /\ r.expires \in Nat
      /\ \A r \in AccessRow : r.key \in GrantKey /\ r.expires \in Nat
      /\ \A r \in RefreshRow : r.key \in GrantKey /\ r.expires \in Nat
  BY StoreCallsAssumption DEF CodeRow, AccessRow, RefreshRow, GrantKey, Time, Never
<1>d. /\ db.memory.codes \subseteq CodeRow /\ db.sqlite.codes \subseteq CodeRow
      /\ db.postgres.codes \subseteq CodeRow
      /\ db.memory.access \subseteq AccessRow /\ db.sqlite.access \subseteq AccessRow
      /\ db.postgres.access \subseteq AccessRow
      /\ db.memory.refresh \subseteq RefreshRow /\ db.sqlite.refresh \subseteq RefreshRow
      /\ db.postgres.refresh \subseteq RefreshRow
  BY GrantTable
<1>1. ASSUME NEW c \in Code, c \notin apart, c \notin AtEdge("codes")
      PROVE  /\ Same(MemoryGetCode(db.memory, c), SqliteGetCode(db.sqlite, c),
                     PostgresGetCode(db.postgres, c))
             /\ (\A b \in Backend : c \notin spent[b]) =>
                  Same(MemoryConsumeCode(db.memory, c), SqliteConsumeCode(db.sqlite, c),
                       PostgresConsumeCode(db.postgres, c))
  <2>1. \A b \in Backend : \A x \in db[b].codes : x.key = c => x.expires # now
    BY <1>1 DEF AtEdge, Keys
  <2>2. Live(db.memory, c) = Live(db.sqlite, c) /\ Live(db.memory, c) = Live(db.postgres, c)
    BY <1>1, <1>a, <1>d DEF SameGrants, Live, GrantKey
  <2>3. MemoryGetCode(db.memory, c).answer = Live(db.memory, c)
    BY <1>c, <1>d, <2>1 DEF MemoryGetCode, Live, Where, Reply, Backend
  <2>4. /\ SqliteGetCode(db.sqlite, c).answer = Live(db.sqlite, c)
        /\ PostgresGetCode(db.postgres, c).answer = Live(db.postgres, c)
    BY DEF SqliteGetCode, PostgresGetCode, Live, Where, Reply
  <2>5. ASSUME \A b \in Backend : c \notin spent[b]
        PROVE  Same(MemoryConsumeCode(db.memory, c), SqliteConsumeCode(db.sqlite, c),
                    PostgresConsumeCode(db.postgres, c))
    <3>1. PostgresConsumeCode(db.postgres, c).answer = Live(db.postgres, c)
      <4>1. c \notin spent.postgres
        BY <2>5 DEF Backend
      <4>2. \A x \in db.postgres.codes : x.key = c => ~x.used
        BY <1>b, <4>1 DEF Careful
      <4>. QED BY <1>c, <1>d, <4>2 DEF PostgresConsumeCode, Live, Where, Expired, Reply
    <3>2. /\ SqliteConsumeCode(db.sqlite, c).answer = Live(db.sqlite, c)
          /\ MemoryConsumeCode(db.memory, c).answer = Live(db.memory, c)
      BY <2>1, ConsumeCodeAnswer DEF SqliteConsumeCode, Backend
    <3>. QED BY <2>2, <3>1, <3>2, EqualSame
  <2>. QED BY <2>2, <2>3, <2>4, <2>5, EqualSame
<1>2. ASSUME NEW a \in AccessToken, a \notin apart, a \notin AtEdge("access")
      PROVE  /\ Same(MemoryGetToken(db.memory, a), SqliteGetToken(db.sqlite, a),
                     PostgresGetToken(db.postgres, a))
             /\ Same(MemoryGetTokenIncludingExpired(db.memory, a),
                     SqliteGetTokenIncludingExpired(db.sqlite, a),
                     PostgresGetTokenIncludingExpired(db.postgres, a))
             /\ SqliteRevokeToken(db.sqlite, a).answer = PostgresRevokeToken(db.postgres, a).answer
  <2>1. \A x \in db.memory.access : x.key = a => x.expires # now
    BY <1>2 DEF AtEdge, Keys, Backend
  <2>2. /\ Where(db.memory.access, a) = Where(db.sqlite.access, a)
        /\ Where(db.memory.access, a) = Where(db.postgres.access, a)
    BY <1>2, <1>a, <1>d DEF SameGrants, Where, GrantKey
  <2>3. {r \in Where(db.memory.access, a) : r.expires >= now}
          = Where(db.memory.access, a) \ Expired(Where(db.memory.access, a))
    BY <1>c, <1>d, <2>1 DEF Where, Expired
  <2>4. Same(MemoryGetToken(db.memory, a), SqliteGetToken(db.sqlite, a),
             PostgresGetToken(db.postgres, a))
    BY <2>2, <2>3, EqualSame DEF MemoryGetToken, SqliteGetToken, PostgresGetToken, Reply
  <2>5. Same(MemoryGetTokenIncludingExpired(db.memory, a),
             SqliteGetTokenIncludingExpired(db.sqlite, a),
             PostgresGetTokenIncludingExpired(db.postgres, a))
    BY <2>2, EqualSame DEF MemoryGetTokenIncludingExpired, SqliteGetTokenIncludingExpired,
       PostgresGetTokenIncludingExpired, Reply
  <2>. QED BY <2>2, <2>4, <2>5 DEF SqliteRevokeToken, PostgresRevokeToken, IfDeleted, Reply
<1>3. /\ Same(MemoryUserTokens(db.memory), SqliteUserTokens(db.sqlite),
              PostgresUserTokens(db.postgres))
      /\ Same(MemoryClientTokens(db.memory), SqliteClientTokens(db.sqlite),
              PostgresClientTokens(db.postgres))
  <2>. DEFINE Listed(t) == {x \in {r \in t : r.expires > now} : x.key \notin apart}
  <2>1. /\ Listed(db.memory.access) = Listed(db.sqlite.access)
        /\ Listed(db.memory.access) = Listed(db.postgres.access)
    BY <1>a, <1>c, <1>d DEF SameGrants
  <2>. QED BY <2>1, ShownSame DEF MemoryUserTokens, SqliteUserTokens, PostgresUserTokens,
    MemoryClientTokens, SqliteClientTokens, PostgresClientTokens, Reply
<1>4. ASSUME NEW r \in RefreshToken, r \notin apart, r \notin AtEdge("refresh")
      PROVE  /\ Same(MemoryGetRefreshToken(db.memory, r), SqliteGetRefreshToken(db.sqlite, r),
                     PostgresGetRefreshToken(db.postgres, r))
             /\ Same(MemoryConsumeRefreshToken(db.memory, r),
                     SqliteConsumeRefreshToken(db.sqlite, r),
                     PostgresConsumeRefreshToken(db.postgres, r))
  <2>. DEFINE Ready(t) == {x \in Where(t, r) : x.expires > now}
  <2>1. \A x \in db.memory.refresh : x.key = r => x.expires # now
    BY <1>4 DEF AtEdge, Keys, Backend
  <2>2. {x \in Where(db.memory.refresh, r) : x.expires >= now} = Ready(db.memory.refresh)
    BY <1>c, <1>d, <2>1 DEF Where
  <2>3. /\ Ready(db.memory.refresh) = Ready(db.sqlite.refresh)
        /\ Ready(db.memory.refresh) = Ready(db.postgres.refresh)
    BY <1>4, <1>a, <1>d DEF SameGrants, Where, GrantKey
  <2>. QED BY <2>2, <2>3, EqualSame
    DEF MemoryGetRefreshToken, SqliteGetRefreshToken, PostgresGetRefreshToken,
        MemoryConsumeRefreshToken, SqliteConsumeRefreshToken, PostgresConsumeRefreshToken, Reply
<1>. QED BY <1>1, <1>2, <1>3, <1>4
            DEF GrantsAgree, CodesAgree, AccessTokensAgree, RefreshTokensAgree

LEMMA CarefulHandedOnce ==
    ASSUME GrantsSound
    PROVE  GrantsHandedOnce
<1>. USE GrantsNow DEF GrantsSound
<1>1. /\ Careful(db.memory, spent.memory, issued) /\ Careful(db.sqlite, spent.sqlite, issued)
      /\ Careful(db.postgres, spent.postgres, issued)
  BY DEF GrantsCareful, Backend
<1>2. \A b \in Backend : spent[b] \cap Keys(db[b].refresh) = {}
  BY DEF GrantsCareful, Careful, Keys
<1>3. \A c \in spent.memory \cap Code : MemoryConsumeCode(db.memory, c).answer = {}
  BY <1>1 DEF Careful, MemoryConsumeCode, MemoryGetCode, Where, Reply
<1>4. /\ \A c \in spent.sqlite \cap Code : Live(db.sqlite, c) = {}
      /\ \A c \in spent.postgres \cap Code : Live(db.postgres, c) = {}
  BY <1>1 DEF Careful, Live
<1>. QED BY <1>2, <1>3, <1>4, ConsumeCodeAnswer DEF GrantsHandedOnce, SqliteConsumeCode

-----------------------------------------------------------------------------
(* Requests that wait for their user. *)

RequestsTyped == StoreTypeOK(RequestTables, RequestKey)

LEMMA RequestsNow ==
    ASSUME RequestsTyped
    PROVE  /\ now \in 0..MaxTime /\ now \in Nat
           /\ issued \subseteq RequestKey /\ apart \subseteq RequestKey
           /\ spent \in [Backend -> SUBSET RequestKey]
           /\ db.memory \in RequestTables /\ db.sqlite \in RequestTables
           /\ db.postgres \in RequestTables
BY StoreCallsAssumption DEF RequestsTyped, StoreTypeOK, Backend

LEMMA RequestTable ==
    ASSUME NEW d \in RequestTables
    PROVE  /\ d.devices \in SUBSET DeviceRow /\ d.pushed \in SUBSET PushedRow
           /\ d.states \in SUBSET OAuthRow /\ d.logins \in SUBSET LoginRow
           /\ \A rows \in SUBSET DeviceRow : [d EXCEPT !.devices = rows] \in RequestTables
           /\ \A rows \in SUBSET PushedRow : [d EXCEPT !.pushed = rows] \in RequestTables
           /\ \A rows \in SUBSET OAuthRow : [d EXCEPT !.states = rows] \in RequestTables
           /\ \A rows \in SUBSET LoginRow : [d EXCEPT !.logins = rows] \in RequestTables
BY DEF RequestTables

LEMMA RequestKeys ==
    /\ \A rows \in SUBSET DeviceRow : Keys(rows) \in SUBSET RequestKey
    /\ \A rows \in SUBSET PushedRow : Keys(rows) \in SUBSET RequestKey
BY DEF Keys, DeviceRow, PushedRow, RequestKey

LEMMA NewRequestRows ==
    ASSUME now \in 0..MaxTime
    PROVE  /\ \A c \in DeviceCode : /\ NewDevice(c, now + DeviceLife) \in DeviceRow
                                    /\ NewDevice(c, Whole(now + DeviceLife)) \in DeviceRow
           /\ \A p \in PushedRequest : NewPushed(p) \in PushedRow
           /\ \A s \in OAuthState : \A issuer, server \in Server :
                    NewState(s, issuer, server) \in OAuthRow
           /\ \A l \in Login, u \in User : NewLogin(l, u) \in LoginRow
<1>1. now + DeviceLife \in 0..Never /\ now + PushedLife \in 0..Never
      /\ now + RequestLife \in 0..Never /\ Never \in Nat
  BY StoreCallsAssumption, RequestStoresAssumption DEF Never
<1>2. Whole(now + DeviceLife) \in 0..Never
  BY <1>1, WholeBounds
<1>. QED BY <1>1, <1>2 DEF NewDevice, NewPushed, NewState, NewLogin, DeviceRow, PushedRow,
  OAuthRow, LoginRow, Time

LEMMA ByIssuerRow ==
    ASSUME NEW r \in OAuthRow
    PROVE  /\ ByIssuer(r) \in OAuthRow
           /\ ByIssuer(r).key = r.key /\ ByIssuer(r).expires = r.expires
BY DEF ByIssuer, OAuthRow

LEMMA DropRequestsTyped ==
    ASSUME NEW d \in RequestTables
    PROVE  /\ MemoryDropRequests(d).db \in RequestTables
           /\ DropRequests(d).db \in RequestTables
           /\ MemoryDropRequests(d).db.devices = d.devices /\ DropRequests(d).db.devices = d.devices
           /\ MemoryDropRequests(d).db.pushed = d.pushed
           /\ DropRequests(d).db.pushed \in {{}, d.pushed}
           /\ d.devices # {} => DropRequests(d).db.pushed = d.pushed
           /\ MemoryDropRequests(d).db.states = d.states /\ DropRequests(d).db.states = d.states
           /\ MemoryDropRequests(d).db.logins = d.logins /\ DropRequests(d).db.logins = d.logins
BY DEF MemoryDropRequests, DropRequests, Reply, RequestTables

LEMMA ApproveTyped ==
    ASSUME NEW d \in RequestTables, NEW c, NEW u \in User, NEW t
    PROVE  Approve(d, c, u, t).db \in RequestTables
<1>. DEFINE open == {r \in Where(d.devices, c) : r.expires > t}
<1>1. d.devices \in SUBSET DeviceRow
  BY RequestTable
<1>2. (d.devices \ open) \cup {[r EXCEPT !.value = u] : r \in open} \in SUBSET DeviceRow
  BY <1>1 DEF DeviceRow, Where
<1>. QED BY <1>2, RequestTable DEF Approve, Reply

\* A call that hands nothing out.
LEMMA CallKeepsTypes ==
    ASSUME NEW T, NEW K, StoreTypeOK(T, K), NEW m, NEW s, NEW p, Call(m, s, p), UNCHANGED spent,
           m.db \in T, s.db \in T, p.db \in T, issued' \subseteq K, apart' \subseteq K
    PROVE  StoreTypeOK(T, K)'
BY DEF StoreTypeOK, Call, Backend

LEMMA NextRequestsTyped ==
    ASSUME RequestsTyped, RequestCall
    PROVE  RequestsTyped'
<1>. USE RequestsNow, RequestTable DEF RequestsTyped, Reply
<1>a. LastSecond \subseteq RequestKey
  BY DEF LastSecond, Keys, Backend, DeviceRow, RequestKey
<1>1. ASSUME NEW c \in DeviceCode, StoreDeviceCode(c) PROVE RequestsTyped'
  <2>1. /\ MemoryStoreDevice(db.memory, c).db \in RequestTables
        /\ SqliteStoreDevice(db.sqlite, c).db \in RequestTables
        /\ PostgresStoreDevice(db.postgres, c).db \in RequestTables
    BY NewRequestRows
       DEF MemoryStoreDevice, SqliteStoreDevice, PostgresStoreDevice, IfClient, Upsert, Without
  <2>2. c \in RequestKey
    BY DEF RequestKey
  <2>. QED BY <1>1, <2>1, <2>2, UnownedKeys, CallKeepsTypes DEF StoreDeviceCode, Issue, MayDiffer
<1>2. ASSUME NEW c \in DeviceCode, NEW u \in User, AuthorizeDeviceCode(c, u) PROVE RequestsTyped'
  <2>1. /\ MemoryAuthorizeDevice(db.memory, c, u).db \in RequestTables
        /\ SqliteAuthorizeDevice(db.sqlite, c, u).db \in RequestTables
        /\ PostgresAuthorizeDevice(db.postgres, c, u).db \in RequestTables
    BY ApproveTyped DEF MemoryAuthorizeDevice, SqliteAuthorizeDevice, PostgresAuthorizeDevice
  <2>. QED BY <1>2, <1>a, <2>1, CallKeepsTypes DEF AuthorizeDeviceCode, MayDiffer
<1>3. ASSUME NEW c \in DeviceCode, ConsumeDeviceCode(c) PROVE RequestsTyped'
  <2>1. ASSUME NEW d \in RequestTables PROVE Fits(TakeDevice(d, c), RequestTables, RequestKey)
    <3>1. Without(d.devices, c) \in SUBSET DeviceRow
      BY DEF Without
    <3>2. {r \in Where(d.devices, c) : r.expires > now /\ r.value # None} \in SUBSET DeviceRow
      BY DEF Where
    <3>. QED BY <3>1, <3>2, RequestKeys DEF TakeDevice, Fits
  <2>2. /\ Fits(MemoryConsumeDevice(db.memory, c), RequestTables, RequestKey)
        /\ Fits(SqliteConsumeDevice(db.sqlite, c), RequestTables, RequestKey)
        /\ Fits(PostgresConsumeDevice(db.postgres, c), RequestTables, RequestKey)
    BY <2>1 DEF MemoryConsumeDevice, SqliteConsumeDevice, PostgresConsumeDevice
  <2>. QED BY <1>3, <2>2, CallTyped DEF ConsumeDeviceCode, StoreTypeOK
<1>4. ASSUME CleanupDeviceCodes PROVE RequestsTyped'
  <2>1. /\ MemoryCleanupDevices(db.memory).db \in RequestTables
        /\ SqliteCleanupDevices(db.sqlite).db \in RequestTables
        /\ PostgresCleanupDevices(db.postgres).db \in RequestTables
    BY DEF MemoryCleanupDevices, SqliteCleanupDevices, PostgresCleanupDevices
  <2>. QED BY <1>4, <1>a, <2>1, CallKeepsTypes DEF CleanupDeviceCodes, MayDiffer
<1>5. ASSUME NEW p \in PushedRequest, StorePushedRequest(p) PROVE RequestsTyped'
  <2>1. /\ MemoryStorePushed(db.memory, p).db \in RequestTables
        /\ SqliteStorePushed(db.sqlite, p).db \in RequestTables
        /\ PostgresStorePushed(db.postgres, p).db \in RequestTables
    BY NewRequestRows
       DEF MemoryStorePushed, SqliteStorePushed, PostgresStorePushed, IfClient, Upsert, Without
  <2>2. p \in RequestKey
    BY DEF RequestKey
  <2>. QED BY <1>5, <2>1, <2>2, UnownedKeys, CallKeepsTypes
    DEF StorePushedRequest, Issue, MayDiffer
<1>6. ASSUME NEW p \in PushedRequest, GetPushedRequest(p) PROVE RequestsTyped'
  <2>1. /\ MemoryGetPushed(db.memory, p).db \in RequestTables
        /\ SqliteGetPushed(db.sqlite, p).db \in RequestTables
        /\ PostgresGetPushed(db.postgres, p).db \in RequestTables
    BY DEF MemoryGetPushed, SqliteGetPushed, PostgresGetPushed, ReadPushed
  <2>. QED BY <1>6, <2>1, CallKeepsTypes DEF GetPushedRequest, requestHistory
<1>7. ASSUME NEW p \in PushedRequest, ConsumePushedRequest(p) PROVE RequestsTyped'
  <2>1. ASSUME NEW d \in RequestTables
        PROVE  /\ Fits(MemoryConsumePushed(d, p), RequestTables, RequestKey)
               /\ Fits(TakePushed(d, p), RequestTables, RequestKey)
    <3>1. /\ Without(d.pushed, p) \in SUBSET PushedRow /\ Where(d.pushed, p) \in SUBSET PushedRow
          /\ d.pushed \ Where(d.pushed, p) \in SUBSET PushedRow
      BY DEF Without, Where
    <3>2. Where(d.pushed, p) \ Expired(Where(d.pushed, p)) \in SUBSET PushedRow
      BY <3>1
    <3>. QED BY <3>1, <3>2, RequestKeys DEF MemoryConsumePushed, TakePushed, Fits
  <2>. QED BY <1>7, <2>1, CallTyped
    DEF ConsumePushedRequest, SqliteConsumePushed, PostgresConsumePushed, StoreTypeOK
<1>8. ASSUME CleanupPushedRequests PROVE RequestsTyped'
  <2>1. /\ MemoryCleanupPushed(db.memory).db \in RequestTables
        /\ SqliteCleanupPushed(db.sqlite).db \in RequestTables
        /\ PostgresCleanupPushed(db.postgres).db \in RequestTables
    BY DEF MemoryCleanupPushed, SqliteCleanupPushed, PostgresCleanupPushed
  <2>. QED BY <1>8, <2>1, CallKeepsTypes DEF CleanupPushedRequests, requestHistory
<1>9. ASSUME NEW s, NEW p, DatabaseCall(s, p), s.db \in RequestTables, p.db \in RequestTables
      PROVE  RequestsTyped'
  BY <1>9, CallKeepsTypes DEF DatabaseCall, requestHistory
<1>10. ASSUME NEW s \in OAuthState, NEW issuer \in Server, NEW server \in Server,
              InsertOAuthRequest(s, issuer, server)
       PROVE  RequestsTyped'
  <2>. DEFINE row == NewState(s, issuer, server)
  <2>1. row \in OAuthRow /\ ByIssuer(row) \in OAuthRow
    BY NewRequestRows, ByIssuerRow
  <2>. HIDE DEF row
  <2>2. /\ SqliteInsertState(db.sqlite, row).db \in RequestTables
        /\ PostgresInsertState(db.postgres, row).db \in RequestTables
    BY <2>1 DEF SqliteInsertState, PostgresInsertState, Upsert, Without
  <2>. QED BY <1>9, <1>10, <2>2 DEF InsertOAuthRequest, row
<1>11. ASSUME NEW s \in OAuthState, DeleteOAuthRequest(s) PROVE RequestsTyped'
  BY <1>9, <1>11 DEF DeleteOAuthRequest, SqliteDeleteState, PostgresDeleteState, Without
<1>12. ASSUME ClearExpiredOAuthRequests PROVE RequestsTyped'
  <2>1. /\ SqliteClearStates(db.sqlite).db \in RequestTables
        /\ PostgresClearStates(db.postgres).db \in RequestTables
    BY DEF SqliteClearStates, PostgresClearStates
  <2>. QED BY <1>9, <1>12, <2>1 DEF ClearExpiredOAuthRequests
<1>13. ASSUME NEW l \in Login, NEW u \in User, StoreAuthorizationRequest(l, u) PROVE RequestsTyped'
  <2>1. /\ MemoryStoreLogin(db.memory, NewLogin(l, u)).db \in RequestTables
        /\ SqliteStoreLogin(db.sqlite, NewLogin(l, u)).db \in RequestTables
        /\ PostgresStoreLogin(db.postgres, NewLogin(l, u)).db \in RequestTables
    BY NewRequestRows DEF MemoryStoreLogin, SqliteStoreLogin, PostgresStoreLogin, Upsert, Without
  <2>. QED BY <1>13, <2>1, CallKeepsTypes DEF StoreAuthorizationRequest, requestHistory
<1>14. ASSUME NEW l \in Login, RemoveAuthorizationRequest(l) PROVE RequestsTyped'
  <2>1. /\ MemoryRemoveLogin(db.memory, l).db \in RequestTables
        /\ SqliteRemoveLogin(db.sqlite, l).db \in RequestTables
        /\ PostgresRemoveLogin(db.postgres, l).db \in RequestTables
    BY DEF MemoryRemoveLogin, SqliteRemoveLogin, PostgresRemoveLogin, RemoveLoginRow, Without
  <2>. QED BY <1>14, <2>1, CallKeepsTypes DEF RemoveAuthorizationRequest, requestHistory
<1>15. ASSUME DeleteClientRequests PROVE RequestsTyped'
  <2>1. UNION {Keys(db[b].pushed) : b \in Backend} \subseteq RequestKey
    BY RequestKeys DEF Backend
  <2>2. apart' \subseteq RequestKey
    BY <1>15, <2>1 DEF DeleteClientRequests, MayDiffer
  <2>. QED BY <1>15, <2>2, DropRequestsTyped, CallKeepsTypes
    DEF DeleteClientRequests, SqliteDropRequests, PostgresDropRequests
<1>. QED BY <1>1, <1>2, <1>3, <1>4, <1>5, <1>6, <1>7, <1>8, <1>10, <1>11, <1>12, <1>13, <1>14,
  <1>15
  DEF RequestCall, CleanupRequests

\* The keys of a backend's rows were issued and not handed out.
Waiting(d, out, known) ==
    /\ out \subseteq known
    /\ \A r \in d.devices : r.key \in known /\ r.key \notin out
    /\ \A r \in d.pushed : r.key \in known /\ r.key \notin out

RequestsWaiting == \A b \in Backend : Waiting(db[b], spent[b], issued)

\* SQLite keeps whole seconds of a device code's expiry.
Seconds(r) == [r EXCEPT !.expires = Whole(r.expires)]

SameDevice(c) ==
    /\ Where(db.postgres.devices, c) = Where(db.memory.devices, c)
    /\ Where(db.sqlite.devices, c) = {Seconds(r) : r \in Where(db.memory.devices, c)}

\* Memory keeps expired pushed requests.
SamePushed ==
    \A r \in PushedRow : r.key \notin apart /\ r.expires > now =>
        /\ r \in db.memory.pushed <=> r \in db.sqlite.pushed
        /\ r \in db.memory.pushed <=> r \in db.postgres.pushed

SameLogins ==
    /\ db.sqlite.states = {ByIssuer(r) : r \in db.postgres.states}
    /\ db.memory.logins = db.sqlite.logins /\ db.memory.logins = db.postgres.logins

RequestsAlike ==
    /\ \A c \in DeviceCode \ apart : SameDevice(c)
    /\ SamePushed /\ SameLogins

RequestsSound == RequestsTyped /\ RequestsWaiting /\ RequestsAlike

LEMMA CallWaiting ==
    ASSUME NEW m, NEW s, NEW p, Call(m, s, p), spent \in [Backend -> SUBSET RequestKey],
           \/ /\ Spend(m, s, p)
              /\ Waiting(m.db, spent.memory \cup Keys(m.answer), issued')
              /\ Waiting(s.db, spent.sqlite \cup Keys(s.answer), issued')
              /\ Waiting(p.db, spent.postgres \cup Keys(p.answer), issued')
           \/ /\ UNCHANGED spent
              /\ Waiting(m.db, spent.memory, issued')
              /\ Waiting(s.db, spent.sqlite, issued')
              /\ Waiting(p.db, spent.postgres, issued')
    PROVE  RequestsWaiting'
<1>. SUFFICES ASSUME NEW b \in Backend PROVE Waiting(db'[b], spent'[b], issued')
  BY DEF RequestsWaiting, Waiting
<1>1. /\ db'["memory"] = m.db /\ db'["sqlite"] = s.db /\ db'["postgres"] = p.db
      /\ Spend(m, s, p) =>
           /\ spent'["memory"] = spent.memory \cup Keys(m.answer)
           /\ spent'["sqlite"] = spent.sqlite \cup Keys(s.answer)
           /\ spent'["postgres"] = spent.postgres \cup Keys(p.answer)
  BY DEF Call, Spend
<1>. QED BY <1>1 DEF Backend

LEMMA ApproveKeys ==
    ASSUME NEW d \in RequestTables, NEW c, NEW u \in User, NEW t
    PROVE  /\ Approve(d, c, u, t).db.pushed = d.pushed
           /\ \A r \in Approve(d, c, u, t).db.devices : \E x \in d.devices : x.key = r.key
<1>1. d.devices \in SUBSET DeviceRow
  BY RequestTable
<1>. QED BY <1>1 DEF Approve, Reply, RequestTables, Where, DeviceRow

LEMMA NextRequestsWaiting ==
    ASSUME RequestsTyped, RequestsWaiting, RequestCall
    PROVE  RequestsWaiting'
<1>. USE RequestsNow, RequestTable DEF Reply
<1>a. /\ Waiting(db.memory, spent.memory, issued) /\ Waiting(db.sqlite, spent.sqlite, issued)
      /\ Waiting(db.postgres, spent.postgres, issued)
  BY DEF RequestsWaiting, Backend
\* The calls that store nothing and hand nothing out.
<1>b. ASSUME NEW m, NEW s, NEW p, Call(m, s, p), UNCHANGED <<spent, issued>>,
             /\ m.db.devices \subseteq db.memory.devices /\ m.db.pushed \subseteq db.memory.pushed
             /\ s.db.devices \subseteq db.sqlite.devices /\ s.db.pushed \subseteq db.sqlite.pushed
             /\ p.db.devices \subseteq db.postgres.devices
             /\ p.db.pushed \subseteq db.postgres.pushed
      PROVE  RequestsWaiting'
  <2>1. /\ Waiting(m.db, spent.memory, issued) /\ Waiting(s.db, spent.sqlite, issued)
        /\ Waiting(p.db, spent.postgres, issued)
    BY <1>a, <1>b DEF Waiting
  <2>. QED BY <1>b, <2>1, CallWaiting
<1>1. ASSUME NEW c \in DeviceCode, StoreDeviceCode(c) PROVE RequestsWaiting'
  <2>. DEFINE m == MemoryStoreDevice(db.memory, c)
              s == SqliteStoreDevice(db.sqlite, c)
              p == PostgresStoreDevice(db.postgres, c)
  <2>1. c \notin issued /\ issued' = issued \cup {c} /\ Call(m, s, p) /\ UNCHANGED spent
    BY <1>1 DEF StoreDeviceCode, Issue
  <2>2. /\ Waiting(m.db, spent.memory, issued') /\ Waiting(s.db, spent.sqlite, issued')
        /\ Waiting(p.db, spent.postgres, issued')
    BY <1>a, <2>1 DEF Waiting, MemoryStoreDevice, SqliteStoreDevice, PostgresStoreDevice,
       NewDevice, IfClient, Upsert, Without, RequestTables
  <2>. HIDE DEF m, s, p
  <2>. QED BY <2>1, <2>2, CallWaiting
<1>2. ASSUME NEW c \in DeviceCode, NEW u \in User, AuthorizeDeviceCode(c, u) PROVE RequestsWaiting'
  <2>. DEFINE m == MemoryAuthorizeDevice(db.memory, c, u)
              s == SqliteAuthorizeDevice(db.sqlite, c, u)
              p == PostgresAuthorizeDevice(db.postgres, c, u)
  <2>1. issued' = issued /\ Call(m, s, p) /\ UNCHANGED spent
    BY <1>2 DEF AuthorizeDeviceCode
  <2>2. ASSUME NEW d \in RequestTables, NEW out, Waiting(d, out, issued), NEW t
        PROVE  Waiting(Approve(d, c, u, t).db, out, issued)
    BY <2>2, ApproveKeys DEF Waiting
  <2>3. /\ Waiting(m.db, spent.memory, issued) /\ Waiting(s.db, spent.sqlite, issued)
        /\ Waiting(p.db, spent.postgres, issued)
    BY <1>a, <2>2 DEF MemoryAuthorizeDevice, SqliteAuthorizeDevice, PostgresAuthorizeDevice
  <2>. HIDE DEF m, s, p
  <2>. QED BY <2>1, <2>3, CallWaiting
<1>3. ASSUME NEW c \in DeviceCode, ConsumeDeviceCode(c) PROVE RequestsWaiting'
  <2>. DEFINE m == TakeDevice(db.memory, c)
              s == TakeDevice(db.sqlite, c)
              p == TakeDevice(db.postgres, c)
  <2>1. issued' = issued /\ Call(m, s, p) /\ Spend(m, s, p)
    BY <1>3 DEF ConsumeDeviceCode, MemoryConsumeDevice, SqliteConsumeDevice, PostgresConsumeDevice
  <2>2. ASSUME NEW d \in RequestTables, NEW out, Waiting(d, out, issued)
        PROVE  Waiting(TakeDevice(d, c).db, out \cup Keys(TakeDevice(d, c).answer), issued)
    BY <2>2, RequestStoresAssumption
       DEF Waiting, TakeDevice, Keys, Where, Without, RequestTables, DeviceRow, PushedRow
  <2>3. /\ Waiting(m.db, spent.memory \cup Keys(m.answer), issued)
        /\ Waiting(s.db, spent.sqlite \cup Keys(s.answer), issued)
        /\ Waiting(p.db, spent.postgres \cup Keys(p.answer), issued)
    BY <1>a, <2>2
  <2>. HIDE DEF m, s, p
  <2>. QED BY <2>1, <2>3, CallWaiting
<1>4. ASSUME CleanupDeviceCodes PROVE RequestsWaiting'
  BY <1>4, <1>b DEF CleanupDeviceCodes, MemoryCleanupDevices, SqliteCleanupDevices,
     PostgresCleanupDevices, RequestTables
<1>5. ASSUME NEW p \in PushedRequest, StorePushedRequest(p) PROVE RequestsWaiting'
  <2>. DEFINE rm == MemoryStorePushed(db.memory, p)
              rs == SqliteStorePushed(db.sqlite, p)
              rp == PostgresStorePushed(db.postgres, p)
  <2>1. p \notin issued /\ issued' = issued \cup {p} /\ Call(rm, rs, rp) /\ UNCHANGED spent
    BY <1>5 DEF StorePushedRequest, Issue
  <2>2. /\ Waiting(rm.db, spent.memory, issued') /\ Waiting(rs.db, spent.sqlite, issued')
        /\ Waiting(rp.db, spent.postgres, issued')
    BY <1>a, <2>1 DEF Waiting, MemoryStorePushed, SqliteStorePushed, PostgresStorePushed,
       NewPushed, IfClient, Upsert, Without, RequestTables
  <2>. HIDE DEF rm, rs, rp
  <2>. QED BY <2>1, <2>2, CallWaiting
<1>6. ASSUME NEW p \in PushedRequest, GetPushedRequest(p) PROVE RequestsWaiting'
  BY <1>6, <1>b DEF GetPushedRequest, requestHistory, MemoryGetPushed, SqliteGetPushed,
     PostgresGetPushed, ReadPushed, RequestTables
<1>7. ASSUME NEW p \in PushedRequest, ConsumePushedRequest(p) PROVE RequestsWaiting'
  <2>. DEFINE rm == MemoryConsumePushed(db.memory, p)
              rs == TakePushed(db.sqlite, p)
              rp == TakePushed(db.postgres, p)
  <2>1. issued' = issued /\ Call(rm, rs, rp) /\ Spend(rm, rs, rp)
    BY <1>7 DEF ConsumePushedRequest, SqliteConsumePushed, PostgresConsumePushed
  <2>2. ASSUME NEW d \in RequestTables, NEW out, Waiting(d, out, issued)
        PROVE  /\ Waiting(MemoryConsumePushed(d, p).db,
                          out \cup Keys(MemoryConsumePushed(d, p).answer), issued)
               /\ Waiting(TakePushed(d, p).db, out \cup Keys(TakePushed(d, p).answer), issued)
    <3>1. /\ MemoryConsumePushed(d, p).db.devices = d.devices
          /\ TakePushed(d, p).db.devices = d.devices
          /\ MemoryConsumePushed(d, p).db.pushed = {r \in d.pushed : r.key # p}
          /\ TakePushed(d, p).db.pushed = {r \in d.pushed : r.key # p}
      BY DEF MemoryConsumePushed, TakePushed, Where, Without, RequestTables
    <3>2. /\ Keys(MemoryConsumePushed(d, p).answer) \subseteq {p} \cap Keys(d.pushed)
          /\ Keys(TakePushed(d, p).answer) \subseteq {p} \cap Keys(d.pushed)
      BY DEF MemoryConsumePushed, TakePushed, Where, Keys
    <3>3. p \notin Keys(d.devices) /\ (p \in Keys(d.pushed) => p \in issued)
      BY <2>2, RequestStoresAssumption DEF Keys, DeviceRow, Waiting
    <3>. QED BY <2>2, <3>1, <3>2, <3>3 DEF Waiting, Keys
  <2>3. /\ Waiting(rm.db, spent.memory \cup Keys(rm.answer), issued)
        /\ Waiting(rs.db, spent.sqlite \cup Keys(rs.answer), issued)
        /\ Waiting(rp.db, spent.postgres \cup Keys(rp.answer), issued)
    BY <1>a, <2>2
  <2>. HIDE DEF rm, rs, rp
  <2>. QED BY <2>1, <2>3, CallWaiting
<1>8. ASSUME CleanupPushedRequests PROVE RequestsWaiting'
  BY <1>8, <1>b DEF CleanupPushedRequests, requestHistory, MemoryCleanupPushed,
     SqliteCleanupPushed, PostgresCleanupPushed, RequestTables
<1>9. ASSUME NEW s \in OAuthState, NEW issuer, NEW server, InsertOAuthRequest(s, issuer, server)
      PROVE  RequestsWaiting'
  BY <1>9, <1>b DEF InsertOAuthRequest, DatabaseCall, requestHistory, SqliteInsertState,
     PostgresInsertState, RequestTables
<1>10. ASSUME NEW s \in OAuthState, DeleteOAuthRequest(s) PROVE RequestsWaiting'
  BY <1>10, <1>b DEF DeleteOAuthRequest, DatabaseCall, requestHistory, SqliteDeleteState,
     PostgresDeleteState, RequestTables
<1>11. ASSUME ClearExpiredOAuthRequests PROVE RequestsWaiting'
  BY <1>11, <1>b DEF ClearExpiredOAuthRequests, DatabaseCall, requestHistory, SqliteClearStates,
     PostgresClearStates, RequestTables
<1>12. ASSUME NEW l \in Login, NEW u \in User, StoreAuthorizationRequest(l, u)
       PROVE  RequestsWaiting'
  BY <1>12, <1>b DEF StoreAuthorizationRequest, requestHistory, MemoryStoreLogin,
     SqliteStoreLogin, PostgresStoreLogin, RequestTables
<1>13. ASSUME NEW l \in Login, RemoveAuthorizationRequest(l) PROVE RequestsWaiting'
  BY <1>13, <1>b DEF RemoveAuthorizationRequest, requestHistory, MemoryRemoveLogin,
     SqliteRemoveLogin, PostgresRemoveLogin, RemoveLoginRow, RequestTables
<1>14. ASSUME DeleteClientRequests PROVE RequestsWaiting'
  BY <1>14, <1>b, DropRequestsTyped
     DEF DeleteClientRequests, SqliteDropRequests, PostgresDropRequests
<1>. QED BY <1>1, <1>2, <1>3, <1>4, <1>5, <1>6, <1>7, <1>8, <1>9, <1>10, <1>11, <1>12, <1>13,
  <1>14
  DEF RequestCall, CleanupRequests

\* Away from the second in which a device code expires, the tests of its
\* expiry in SQLite and elsewhere come out alike.
LEMMA SecondsApart ==
    ASSUME NEW e \in Nat, NEW t \in Nat, ~(e >= t /\ Whole(e) <= t)
    PROVE  /\ e > t <=> Whole(e) > Whole(t)
           /\ e > t <=> Whole(e) > t
BY WholeBounds, WholeMonotone

LEMMA DeviceAway ==
    ASSUME RequestsTyped, NEW c, c \notin LastSecond, NEW r \in db.memory.devices, r.key = c
    PROVE  /\ r.expires > now <=> Whole(r.expires) > Whole(now)
           /\ r.expires > now <=> Whole(r.expires) > now
<1>1. ~(r.expires >= now /\ Whole(r.expires) <= now)
  BY DEF LastSecond, Keys, Backend
<1>2. r.expires \in Nat /\ now \in Nat
  BY RequestsNow, RequestTable, StoreCallsAssumption DEF DeviceRow, Time, Never
<1>. QED BY <1>1, <1>2, SecondsApart

LEMMA SecondsRow ==
    ASSUME NEW r \in DeviceRow
    PROVE  /\ Seconds(r) \in DeviceRow /\ Seconds(r).key = r.key /\ Seconds(r).value = r.value
           /\ Seconds(r).expires = Whole(r.expires)
           /\ \A u \in User : Seconds([r EXCEPT !.value = u]) = [Seconds(r) EXCEPT !.value = u]
<1>1. Whole(r.expires) \in Time
  BY WholeBounds, StoreCallsAssumption DEF DeviceRow, Time, Never
<1>. QED BY <1>1 DEF Seconds, DeviceRow

\* The rows of one device code, in the three backends.
SameRows(m, s, p, c) ==
    /\ Where(p, c) = Where(m, c)
    /\ Where(s, c) = {Seconds(r) : r \in Where(m, c)}

LEMMA CallDevices ==
    ASSUME NEW m, NEW s, NEW p, Call(m, s, p),
           \A c \in DeviceCode \ apart' : SameRows(m.db.devices, s.db.devices, p.db.devices, c)
    PROVE  (\A c \in DeviceCode \ apart : SameDevice(c))'
<1>1. /\ db'.memory = m.db /\ db'.sqlite = s.db /\ db'.postgres = p.db /\ now' = now
  BY DEF Call
<1>. QED BY <1>1 DEF SameDevice, SameRows, Where, Seconds

LEMMA NextSameDevice ==
    ASSUME RequestsTyped, RequestsWaiting, \A c \in DeviceCode \ apart : SameDevice(c), RequestCall
    PROVE  (\A c \in DeviceCode \ apart : SameDevice(c))'
<1>. USE RequestsNow, RequestTable DEF Reply
<1>a. \A c \in DeviceCode \ apart :
        SameRows(db.memory.devices, db.sqlite.devices, db.postgres.devices, c)
  BY DEF SameDevice, SameRows
<1>b. db.memory.devices \subseteq DeviceRow
  BY RequestTable
<1>1. ASSUME NEW c \in DeviceCode, StoreDeviceCode(c)
      PROVE  (\A x \in DeviceCode \ apart : SameDevice(x))'
  <2>. DEFINE m == MemoryStoreDevice(db.memory, c)
              s == SqliteStoreDevice(db.sqlite, c)
              p == PostgresStoreDevice(db.postgres, c)
              row == NewDevice(c, now + DeviceLife)
  <2>1. c \notin issued /\ apart' = apart \cup Unowned(c) /\ Call(m, s, p)
    BY <1>1 DEF StoreDeviceCode, Issue, MayDiffer
  <2>2. \A r \in db.memory.devices : r.key # c
    BY <2>1 DEF RequestsWaiting, Waiting, Backend
  <2>3. m.db.devices = db.memory.devices \cup {row} /\ row.key = c
    BY <2>2 DEF MemoryStoreDevice, Upsert, Without, RequestTables, NewDevice
  <2>4. /\ s.db.devices = IF db.sqlite.client THEN db.sqlite.devices \cup {Seconds(row)}
                          ELSE db.sqlite.devices
        /\ Seconds(row).key = c
    <3>1. Seconds(row) = NewDevice(c, Whole(now + DeviceLife)) /\ Seconds(row).key = c
      BY DEF Seconds, NewDevice
    <3>. HIDE DEF row
    <3>. QED BY <3>1 DEF SqliteStoreDevice, IfClient, RequestTables
  <2>5. p.db.devices = IF db.postgres.client THEN db.postgres.devices \cup {row}
                       ELSE db.postgres.devices
    BY DEF PostgresStoreDevice, IfClient, RequestTables
  <2>. HIDE DEF m, s, p, row
  <2>6. ASSUME NEW x \in DeviceCode \ apart'
        PROVE  SameRows(m.db.devices, s.db.devices, p.db.devices, x)
    <3>1. SameRows(db.memory.devices, db.sqlite.devices, db.postgres.devices, x)
      BY <1>a, <2>1
    <3>2. x = c => db.sqlite.client /\ db.postgres.client
      BY <2>1, UnownedKeys
    <3>. QED BY <2>3, <2>4, <2>5, <3>1, <3>2 DEF SameRows, Where
  <2>. QED BY <2>1, <2>6, CallDevices
<1>2. ASSUME NEW c \in DeviceCode, NEW u \in User, AuthorizeDeviceCode(c, u)
      PROVE  (\A x \in DeviceCode \ apart : SameDevice(x))'
  <2>. DEFINE m == Approve(db.memory, c, u, now)
              s == Approve(db.sqlite, c, u, Whole(now))
              p == Approve(db.postgres, c, u, now)
  <2>1. apart' = apart \cup ({c} \cap LastSecond) /\ Call(m, s, p)
    BY <1>2 DEF AuthorizeDeviceCode, MayDiffer, MemoryAuthorizeDevice, SqliteAuthorizeDevice,
       PostgresAuthorizeDevice
  <2>2. ASSUME NEW d \in RequestTables, NEW t
        PROVE  /\ \A x : x # c => Where(Approve(d, c, u, t).db.devices, x) = Where(d.devices, x)
               /\ Where(Approve(d, c, u, t).db.devices, c) =
                    {IF r.expires > t THEN [r EXCEPT !.value = u] ELSE r : r \in Where(d.devices, c)}
    BY DEF Approve, Where, RequestTables, DeviceRow
  <2>3. /\ \A x : x # c => Where(m.db.devices, x) = Where(db.memory.devices, x)
        /\ Where(m.db.devices, c) = {IF r.expires > now THEN [r EXCEPT !.value = u] ELSE r :
                                        r \in Where(db.memory.devices, c)}
    BY <2>2
  <2>4. /\ \A x : x # c => Where(s.db.devices, x) = Where(db.sqlite.devices, x)
        /\ Where(s.db.devices, c) = {IF r.expires > Whole(now) THEN [r EXCEPT !.value = u] ELSE r :
                                        r \in Where(db.sqlite.devices, c)}
    BY <2>2
  <2>5. /\ \A x : x # c => Where(p.db.devices, x) = Where(db.postgres.devices, x)
        /\ Where(p.db.devices, c) = {IF r.expires > now THEN [r EXCEPT !.value = u] ELSE r :
                                        r \in Where(db.postgres.devices, c)}
    BY <2>2
  <2>. HIDE DEF m, s, p
  <2>6. ASSUME NEW x \in DeviceCode \ apart'
        PROVE  SameRows(m.db.devices, s.db.devices, p.db.devices, x)
    <3>1. SameRows(db.memory.devices, db.sqlite.devices, db.postgres.devices, x)
      BY <1>a, <2>1
    <3>2. CASE x # c
      BY <2>3, <2>4, <2>5, <3>1, <3>2 DEF SameRows
    <3>3. CASE x = c
      <4>1. \A r \in Where(db.memory.devices, c) :
               /\ r.expires > now <=> Seconds(r).expires > Whole(now)
               /\ Seconds([r EXCEPT !.value = u]) = [Seconds(r) EXCEPT !.value = u]
        BY <1>b, <2>1, <3>3, DeviceAway, SecondsRow DEF Where
      <4>2. Where(p.db.devices, c) = Where(m.db.devices, c)
        BY <2>3, <2>5, <3>1, <3>3 DEF SameRows
      <4>. DEFINE rows == Where(db.memory.devices, c)
                  G(r) == IF r.expires > now THEN [r EXCEPT !.value = u] ELSE r
                  H(r) == IF r.expires > Whole(now) THEN [r EXCEPT !.value = u] ELSE r
      <4>3. \A r \in rows : H(Seconds(r)) = Seconds(G(r))
        BY <4>1
      <4>4. Where(m.db.devices, c) = {G(r) : r \in rows}
        BY <2>3
      <4>5. /\ Where(s.db.devices, c) = {H(r) : r \in Where(db.sqlite.devices, c)}
            /\ Where(db.sqlite.devices, c) = {Seconds(r) : r \in rows}
        BY <2>4, <3>1, <3>3 DEF SameRows
      <4>. HIDE DEF G, H, rows
      <4>6. Where(s.db.devices, c) = {H(Seconds(r)) : r \in rows}
        BY <4>5
      <4>7. {H(Seconds(r)) : r \in rows} = {Seconds(G(r)) : r \in rows}
        BY <4>3
      <4>8. {Seconds(r) : r \in Where(m.db.devices, c)} = {Seconds(G(r)) : r \in rows}
        BY <4>4
      <4>. QED BY <3>3, <4>2, <4>6, <4>7, <4>8 DEF SameRows
    <3>. QED BY <3>2, <3>3
  <2>. QED BY <2>1, <2>6, CallDevices
<1>3. ASSUME NEW c \in DeviceCode, ConsumeDeviceCode(c)
      PROVE  (\A x \in DeviceCode \ apart : SameDevice(x))'
  <2>. DEFINE m == TakeDevice(db.memory, c)
              s == TakeDevice(db.sqlite, c)
              p == TakeDevice(db.postgres, c)
  <2>1. apart' = apart /\ Call(m, s, p)
    BY <1>3 DEF ConsumeDeviceCode, MemoryConsumeDevice, SqliteConsumeDevice, PostgresConsumeDevice
  <2>2. /\ m.db.devices = {r \in db.memory.devices : r.key # c}
        /\ s.db.devices = {r \in db.sqlite.devices : r.key # c}
        /\ p.db.devices = {r \in db.postgres.devices : r.key # c}
    BY DEF TakeDevice, Without, RequestTables
  <2>. HIDE DEF m, s, p
  <2>3. ASSUME NEW x \in DeviceCode \ apart
        PROVE  SameRows(m.db.devices, s.db.devices, p.db.devices, x)
    <3>1. SameRows(db.memory.devices, db.sqlite.devices, db.postgres.devices, x)
      BY <1>a
    <3>. QED BY <2>2, <3>1 DEF SameRows, Where
  <2>. QED BY <2>1, <2>3, CallDevices
<1>4. ASSUME CleanupDeviceCodes PROVE (\A x \in DeviceCode \ apart : SameDevice(x))'
  <2>. DEFINE m == MemoryCleanupDevices(db.memory)
              s == SqliteCleanupDevices(db.sqlite)
              p == PostgresCleanupDevices(db.postgres)
  <2>1. apart' = apart \cup LastSecond /\ Call(m, s, p)
    BY <1>4 DEF CleanupDeviceCodes, MayDiffer
  <2>2. \A r \in DeviceRow : ~(r.expires <= now) <=> r.expires > now
    BY StoreCallsAssumption DEF DeviceRow, Time, Never
  <2>3. /\ m.db.devices = {r \in db.memory.devices : r.expires > now}
        /\ s.db.devices = {r \in db.sqlite.devices : r.expires > Whole(now)}
        /\ p.db.devices = {r \in db.postgres.devices : r.expires > now}
    BY <2>2 DEF MemoryCleanupDevices, SqliteCleanupDevices, PostgresCleanupDevices, Expired,
       RequestTables
  <2>. HIDE DEF m, s, p
  <2>4. ASSUME NEW x \in DeviceCode \ apart'
        PROVE  SameRows(m.db.devices, s.db.devices, p.db.devices, x)
    <3>1. SameRows(db.memory.devices, db.sqlite.devices, db.postgres.devices, x)
      BY <1>a, <2>1
    <3>2. \A r \in Where(db.memory.devices, x) :
             r.expires > now <=> Seconds(r).expires > Whole(now)
      BY <1>b, <2>1, DeviceAway, SecondsRow DEF Where
    <3>. QED BY <2>3, <3>1, <3>2 DEF SameRows, Where
  <2>. QED BY <2>1, <2>4, CallDevices
\* The calls on the other tables.
<1>5. ASSUME NEW m, NEW s, NEW p, Call(m, s, p), apart \subseteq apart',
             m.db.devices = db.memory.devices, s.db.devices = db.sqlite.devices,
             p.db.devices = db.postgres.devices
      PROVE  (\A x \in DeviceCode \ apart : SameDevice(x))'
  BY <1>5, <1>a, CallDevices
<1>6. ASSUME NEW p \in PushedRequest,
             StorePushedRequest(p) \/ GetPushedRequest(p) \/ ConsumePushedRequest(p)
      PROVE  (\A x \in DeviceCode \ apart : SameDevice(x))'
  <2>1. CASE StorePushedRequest(p)
    BY <1>5, <2>1 DEF StorePushedRequest, MayDiffer, MemoryStorePushed, SqliteStorePushed,
       PostgresStorePushed, IfClient, RequestTables
  <2>2. CASE GetPushedRequest(p)
    BY <1>5, <2>2 DEF GetPushedRequest, requestHistory, MemoryGetPushed, SqliteGetPushed,
       PostgresGetPushed, ReadPushed, RequestTables
  <2>3. CASE ConsumePushedRequest(p)
    BY <1>5, <2>3 DEF ConsumePushedRequest, MemoryConsumePushed, SqliteConsumePushed,
       PostgresConsumePushed, TakePushed, RequestTables
  <2>. QED BY <1>6, <2>1, <2>2, <2>3
<1>7. ASSUME CleanupPushedRequests PROVE (\A x \in DeviceCode \ apart : SameDevice(x))'
  BY <1>5, <1>7 DEF CleanupPushedRequests, requestHistory, MemoryCleanupPushed,
     SqliteCleanupPushed, PostgresCleanupPushed, RequestTables
<1>8. ASSUME NEW s \in OAuthState,
             \/ DeleteOAuthRequest(s)
             \/ \E issuer, server \in Server : InsertOAuthRequest(s, issuer, server)
      PROVE  (\A x \in DeviceCode \ apart : SameDevice(x))'
  <2>1. CASE DeleteOAuthRequest(s)
    BY <1>5, <2>1 DEF DeleteOAuthRequest, DatabaseCall, requestHistory, SqliteDeleteState,
       PostgresDeleteState, RequestTables
  <2>2. ASSUME NEW issuer, NEW server, InsertOAuthRequest(s, issuer, server)
        PROVE  (\A x \in DeviceCode \ apart : SameDevice(x))'
    BY <1>5, <2>2 DEF InsertOAuthRequest, DatabaseCall, requestHistory, SqliteInsertState,
       PostgresInsertState, RequestTables
  <2>. QED BY <1>8, <2>1, <2>2
<1>9. ASSUME ClearExpiredOAuthRequests PROVE (\A x \in DeviceCode \ apart : SameDevice(x))'
  BY <1>5, <1>9 DEF ClearExpiredOAuthRequests, DatabaseCall, requestHistory, SqliteClearStates,
     PostgresClearStates, RequestTables
<1>10. ASSUME NEW l \in Login,
              RemoveAuthorizationRequest(l) \/ \E u \in User : StoreAuthorizationRequest(l, u)
       PROVE  (\A x \in DeviceCode \ apart : SameDevice(x))'
  <2>1. CASE RemoveAuthorizationRequest(l)
    BY <1>5, <2>1 DEF RemoveAuthorizationRequest, requestHistory, MemoryRemoveLogin,
       SqliteRemoveLogin, PostgresRemoveLogin, RemoveLoginRow, RequestTables
  <2>2. ASSUME NEW u \in User, StoreAuthorizationRequest(l, u)
        PROVE  (\A x \in DeviceCode \ apart : SameDevice(x))'
    BY <1>5, <2>2 DEF StoreAuthorizationRequest, requestHistory, MemoryStoreLogin,
       SqliteStoreLogin, PostgresStoreLogin, RequestTables
  <2>. QED BY <1>10, <2>1, <2>2
<1>11. ASSUME DeleteClientRequests PROVE (\A x \in DeviceCode \ apart : SameDevice(x))'
  <2>1. apart \subseteq apart'
    BY <1>11 DEF DeleteClientRequests, MayDiffer
  <2>. QED BY <1>5, <1>11, <2>1, DropRequestsTyped
    DEF DeleteClientRequests, SqliteDropRequests, PostgresDropRequests
<1>. QED BY <1>1, <1>2, <1>3, <1>4, <1>6, <1>7, <1>8, <1>9, <1>10, <1>11
  DEF RequestCall, CleanupRequests

LEMMA CallPushed ==
    ASSUME NEW m, NEW s, NEW p, Call(m, s, p),
           \A r \in PushedRow : r.key \notin apart' /\ r.expires > now =>
              /\ r \in m.db.pushed <=> r \in s.db.pushed
              /\ r \in m.db.pushed <=> r \in p.db.pushed
    PROVE  SamePushed'
<1>1. /\ db'.memory = m.db /\ db'.sqlite = s.db /\ db'.postgres = p.db /\ now' = now
  BY DEF Call
<1>. QED BY <1>1 DEF SamePushed

LEMMA NextSamePushed ==
    ASSUME RequestsTyped, RequestsWaiting, SamePushed, RequestCall
    PROVE  SamePushed'
<1>. USE RequestsNow, RequestTable DEF Reply
\* The calls on the other tables.
<1>a. ASSUME NEW m, NEW s, NEW p, Call(m, s, p), apart \subseteq apart',
             m.db.pushed = db.memory.pushed, s.db.pushed = db.sqlite.pushed,
             p.db.pushed = db.postgres.pushed
      PROVE  SamePushed'
  BY <1>a, CallPushed DEF SamePushed
<1>b. \A r \in PushedRow : r.expires > now <=> ~(r.expires <= now)
  BY StoreCallsAssumption DEF PushedRow, Time, Never
<1>1. ASSUME NEW c \in DeviceCode,
             \/ StoreDeviceCode(c) \/ ConsumeDeviceCode(c)
             \/ \E u \in User : AuthorizeDeviceCode(c, u)
      PROVE  SamePushed'
  <2>1. CASE StoreDeviceCode(c)
    BY <1>a, <2>1 DEF StoreDeviceCode, MayDiffer, MemoryStoreDevice, SqliteStoreDevice,
       PostgresStoreDevice, IfClient, RequestTables
  <2>2. CASE ConsumeDeviceCode(c)
    BY <1>a, <2>2 DEF ConsumeDeviceCode, MemoryConsumeDevice, SqliteConsumeDevice,
       PostgresConsumeDevice, TakeDevice, RequestTables
  <2>3. ASSUME NEW u \in User, AuthorizeDeviceCode(c, u) PROVE SamePushed'
    <3>1. \A d \in RequestTables : \A t : Approve(d, c, u, t).db.pushed = d.pushed
      BY ApproveKeys
    <3>. QED BY <1>a, <2>3, <3>1 DEF AuthorizeDeviceCode, MayDiffer, MemoryAuthorizeDevice,
      SqliteAuthorizeDevice, PostgresAuthorizeDevice
  <2>. QED BY <1>1, <2>1, <2>2, <2>3
<1>2. ASSUME CleanupDeviceCodes PROVE SamePushed'
  BY <1>a, <1>2 DEF CleanupDeviceCodes, MayDiffer, MemoryCleanupDevices, SqliteCleanupDevices,
     PostgresCleanupDevices, RequestTables
<1>3. ASSUME NEW p \in PushedRequest, StorePushedRequest(p) PROVE SamePushed'
  <2>. DEFINE rm == MemoryStorePushed(db.memory, p)
              rs == SqliteStorePushed(db.sqlite, p)
              rp == PostgresStorePushed(db.postgres, p)
  <2>1. Call(rm, rs, rp) /\ apart' = apart \cup Unowned(p)
    BY <1>3 DEF StorePushedRequest, MayDiffer
  <2>0. \A r \in db.memory.pushed : r.key # p
    BY <1>3 DEF StorePushedRequest, Issue, RequestsWaiting, Waiting, Backend
  <2>2. rm.db.pushed = db.memory.pushed \cup {NewPushed(p)}
    BY <2>0 DEF MemoryStorePushed, Upsert, Without, NewPushed, RequestTables
  <2>3. /\ rs.db.pushed = IF db.sqlite.client THEN db.sqlite.pushed \cup {NewPushed(p)}
                          ELSE db.sqlite.pushed
        /\ rp.db.pushed = IF db.postgres.client THEN db.postgres.pushed \cup {NewPushed(p)}
                          ELSE db.postgres.pushed
    BY DEF SqliteStorePushed, PostgresStorePushed, IfClient, RequestTables
  <2>4. NewPushed(p).key = p
    BY DEF NewPushed
  <2>5. p \notin apart' => db.sqlite.client /\ db.postgres.client
    BY <2>1, UnownedKeys
  <2>. HIDE DEF rm, rs, rp
  <2>. QED BY <2>1, <2>2, <2>3, <2>4, <2>5, CallPushed DEF SamePushed
<1>4. ASSUME NEW p \in PushedRequest, GetPushedRequest(p) PROVE SamePushed'
  <2>. DEFINE rm == MemoryGetPushed(db.memory, p)
              rs == ReadPushed(db.sqlite, p)
              rp == ReadPushed(db.postgres, p)
  <2>1. Call(rm, rs, rp) /\ apart' = apart
    BY <1>4 DEF GetPushedRequest, requestHistory, SqliteGetPushed, PostgresGetPushed
  <2>2. /\ rm.db.pushed = db.memory.pushed
        /\ rs.db.pushed = db.sqlite.pushed \ Expired(Where(db.sqlite.pushed, p))
        /\ rp.db.pushed = db.postgres.pushed \ Expired(Where(db.postgres.pushed, p))
    BY DEF MemoryGetPushed, ReadPushed, RequestTables
  <2>. HIDE DEF rm, rs, rp
  <2>. QED BY <1>b, <2>1, <2>2, CallPushed DEF SamePushed, Expired
<1>5. ASSUME NEW p \in PushedRequest, ConsumePushedRequest(p) PROVE SamePushed'
  <2>. DEFINE rm == MemoryConsumePushed(db.memory, p)
              rs == TakePushed(db.sqlite, p)
              rp == TakePushed(db.postgres, p)
  <2>1. Call(rm, rs, rp) /\ apart' = apart
    BY <1>5 DEF ConsumePushedRequest, requestHistory, SqliteConsumePushed, PostgresConsumePushed
  <2>2. /\ rm.db.pushed = {r \in db.memory.pushed : r.key # p}
        /\ rs.db.pushed = {r \in db.sqlite.pushed : r.key # p}
        /\ rp.db.pushed = {r \in db.postgres.pushed : r.key # p}
    BY DEF MemoryConsumePushed, TakePushed, Where, Without, RequestTables
  <2>. HIDE DEF rm, rs, rp
  <2>. QED BY <2>1, <2>2, CallPushed DEF SamePushed
<1>6. ASSUME CleanupPushedRequests PROVE SamePushed'
  <2>. DEFINE rm == MemoryCleanupPushed(db.memory)
              rs == SqliteCleanupPushed(db.sqlite)
              rp == PostgresCleanupPushed(db.postgres)
  <2>1. Call(rm, rs, rp) /\ apart' = apart
    BY <1>6 DEF CleanupPushedRequests, requestHistory
  <2>2. /\ rm.db.pushed = db.memory.pushed \ Expired(db.memory.pushed)
        /\ rs.db.pushed = db.sqlite.pushed \ Expired(db.sqlite.pushed)
        /\ rp.db.pushed = db.postgres.pushed \ Expired(db.postgres.pushed)
    BY DEF MemoryCleanupPushed, SqliteCleanupPushed, PostgresCleanupPushed, RequestTables
  <2>. HIDE DEF rm, rs, rp
  <2>. QED BY <1>b, <2>1, <2>2, CallPushed DEF SamePushed, Expired
<1>7. ASSUME NEW s \in OAuthState,
             \/ DeleteOAuthRequest(s)
             \/ \E issuer, server \in Server : InsertOAuthRequest(s, issuer, server)
      PROVE  SamePushed'
  <2>1. CASE DeleteOAuthRequest(s)
    BY <1>a, <2>1 DEF DeleteOAuthRequest, DatabaseCall, requestHistory, SqliteDeleteState,
       PostgresDeleteState, RequestTables
  <2>2. ASSUME NEW issuer, NEW server, InsertOAuthRequest(s, issuer, server) PROVE SamePushed'
    BY <1>a, <2>2 DEF InsertOAuthRequest, DatabaseCall, requestHistory, SqliteInsertState,
       PostgresInsertState, RequestTables
  <2>. QED BY <1>7, <2>1, <2>2
<1>8. ASSUME ClearExpiredOAuthRequests PROVE SamePushed'
  BY <1>a, <1>8 DEF ClearExpiredOAuthRequests, DatabaseCall, requestHistory, SqliteClearStates,
     PostgresClearStates, RequestTables
<1>9. ASSUME NEW l \in Login,
             RemoveAuthorizationRequest(l) \/ \E u \in User : StoreAuthorizationRequest(l, u)
      PROVE  SamePushed'
  <2>1. CASE RemoveAuthorizationRequest(l)
    BY <1>a, <2>1 DEF RemoveAuthorizationRequest, requestHistory, MemoryRemoveLogin,
       SqliteRemoveLogin, PostgresRemoveLogin, RemoveLoginRow, RequestTables
  <2>2. ASSUME NEW u \in User, StoreAuthorizationRequest(l, u) PROVE SamePushed'
    BY <1>a, <2>2 DEF StoreAuthorizationRequest, requestHistory, MemoryStoreLogin,
       SqliteStoreLogin, PostgresStoreLogin, RequestTables
  <2>. QED BY <1>9, <2>1, <2>2
\* The pushed requests of a database that lets the client go.
<1>10. ASSUME DeleteClientRequests PROVE SamePushed'
  <2>. DEFINE rm == MemoryDropRequests(db.memory)
              rs == DropRequests(db.sqlite)
              rp == DropRequests(db.postgres)
  <2>1. /\ Call(rm, rs, rp) /\ apart \subseteq apart'
        /\ \/ db.sqlite.devices # {} /\ db.postgres.devices # {}
           \/ UNION {Keys(db[b].pushed) : b \in Backend} \subseteq apart'
    BY <1>10 DEF DeleteClientRequests, MayDiffer, SqliteDropRequests, PostgresDropRequests
  <2>2. /\ rm.db.pushed = db.memory.pushed
        /\ rs.db.pushed \in {{}, db.sqlite.pushed} /\ rp.db.pushed \in {{}, db.postgres.pushed}
        /\ db.sqlite.devices # {} => rs.db.pushed = db.sqlite.pushed
        /\ db.postgres.devices # {} => rp.db.pushed = db.postgres.pushed
    BY DropRequestsTyped
  <2>. HIDE DEF rm, rs, rp
  <2>3. CASE db.sqlite.devices # {} /\ db.postgres.devices # {}
    BY <1>a, <2>1, <2>2, <2>3
  <2>4. CASE UNION {Keys(db[b].pushed) : b \in Backend} \subseteq apart'
    <3>1. \A b \in Backend : \A r \in db[b].pushed : r.key \in apart'
      BY <2>4 DEF Keys
    <3>. QED BY <2>1, <2>2, <3>1, CallPushed DEF Backend
  <2>. QED BY <2>1, <2>3, <2>4
<1>. QED BY <1>1, <1>2, <1>3, <1>4, <1>5, <1>6, <1>7, <1>8, <1>9, <1>10
  DEF RequestCall, CleanupRequests

LEMMA CallLogins ==
    ASSUME NEW m, NEW s, NEW p, Call(m, s, p),
           s.db.states = {ByIssuer(r) : r \in p.db.states},
           m.db.logins = s.db.logins, m.db.logins = p.db.logins
    PROVE  SameLogins'
<1>1. /\ db'.memory = m.db /\ db'.sqlite = s.db /\ db'.postgres = p.db
  BY DEF Call
<1>. QED BY <1>1 DEF SameLogins

LEMMA NextSameLogins ==
    ASSUME RequestsTyped, SameLogins, RequestCall
    PROVE  SameLogins'
<1>. USE RequestsNow, RequestTable DEF Reply
<1>0. ASSUME NEW m, NEW s, NEW p, Call(m, s, p),
             s.db.states = {ByIssuer(r) : r \in p.db.states},
             m.db.logins = s.db.logins, m.db.logins = p.db.logins
      PROVE  SameLogins'
  BY <1>0, CallLogins
<1>b. /\ db.sqlite.states = {ByIssuer(r) : r \in db.postgres.states}
      /\ db.memory.logins = db.sqlite.logins /\ db.memory.logins = db.postgres.logins
  BY DEF SameLogins
\* The calls on the other tables.
<1>c. ASSUME NEW m, NEW s, NEW p, Call(m, s, p),
             m.db.logins = db.memory.logins, s.db.logins = db.sqlite.logins,
             p.db.logins = db.postgres.logins, s.db.states = db.sqlite.states,
             p.db.states = db.postgres.states
      PROVE  SameLogins'
  BY <1>b, <1>c, CallLogins
<1>a. ASSUME NEW d \in RequestTables, NEW c, NEW u, NEW t
      PROVE  /\ Approve(d, c, u, t).db.states = d.states
             /\ Approve(d, c, u, t).db.logins = d.logins
  BY DEF Approve, RequestTables
<1>1. ASSUME NEW c \in DeviceCode,
             \/ StoreDeviceCode(c) \/ ConsumeDeviceCode(c)
             \/ \E u \in User : AuthorizeDeviceCode(c, u)
      PROVE  SameLogins'
  <2>1. CASE StoreDeviceCode(c)
    BY <1>c, <2>1 DEF StoreDeviceCode, MemoryStoreDevice, SqliteStoreDevice, PostgresStoreDevice,
       IfClient, RequestTables
  <2>2. CASE ConsumeDeviceCode(c)
    BY <1>c, <2>2 DEF ConsumeDeviceCode, MemoryConsumeDevice, SqliteConsumeDevice,
       PostgresConsumeDevice, TakeDevice, RequestTables
  <2>3. ASSUME NEW u \in User, AuthorizeDeviceCode(c, u) PROVE SameLogins'
    BY <1>a, <1>c, <2>3 DEF AuthorizeDeviceCode, MemoryAuthorizeDevice, SqliteAuthorizeDevice,
       PostgresAuthorizeDevice
  <2>. QED BY <1>1, <2>1, <2>2, <2>3
<1>2. ASSUME CleanupDeviceCodes PROVE SameLogins'
  BY <1>c, <1>2 DEF CleanupDeviceCodes, MemoryCleanupDevices, SqliteCleanupDevices,
     PostgresCleanupDevices, RequestTables
<1>3. ASSUME NEW p \in PushedRequest,
             StorePushedRequest(p) \/ GetPushedRequest(p) \/ ConsumePushedRequest(p)
      PROVE  SameLogins'
  <2>1. CASE StorePushedRequest(p)
    BY <1>c, <2>1 DEF StorePushedRequest, MemoryStorePushed, SqliteStorePushed, PostgresStorePushed,
       IfClient, RequestTables
  <2>2. CASE GetPushedRequest(p)
    BY <1>c, <2>2
       DEF GetPushedRequest, MemoryGetPushed, SqliteGetPushed, PostgresGetPushed, ReadPushed,
       RequestTables
  <2>3. CASE ConsumePushedRequest(p)
    BY <1>c, <2>3 DEF ConsumePushedRequest, MemoryConsumePushed, SqliteConsumePushed,
       PostgresConsumePushed, TakePushed, RequestTables
  <2>. QED BY <1>3, <2>1, <2>2, <2>3
<1>4. ASSUME CleanupPushedRequests PROVE SameLogins'
  BY <1>c, <1>4 DEF CleanupPushedRequests, MemoryCleanupPushed, SqliteCleanupPushed,
     PostgresCleanupPushed, RequestTables
<1>d. \A r \in db.postgres.states : ByIssuer(r).key = r.key /\ ByIssuer(r).expires = r.expires
  BY ByIssuerRow
<1>5. ASSUME NEW s \in OAuthState, NEW issuer \in Server, NEW server \in Server,
             InsertOAuthRequest(s, issuer, server)
      PROVE  SameLogins'
  <2>. DEFINE row == NewState(s, issuer, server)
              rs == SqliteInsertState(db.sqlite, row)
              rp == PostgresInsertState(db.postgres, row)
  <2>1. Call(Reply(db.memory, {}), rs, rp)
    BY <1>5 DEF InsertOAuthRequest, DatabaseCall
  <2>2. ByIssuer(row).key = row.key
    BY NewRequestRows, ByIssuerRow
  <2>. HIDE DEF row
  <2>3. /\ rs.db.states = Without(db.sqlite.states, row.key) \cup {ByIssuer(row)}
        /\ rp.db.states = Without(db.postgres.states, row.key) \cup {row}
        /\ rs.db.logins = db.sqlite.logins /\ rp.db.logins = db.postgres.logins
    BY <2>2 DEF SqliteInsertState, PostgresInsertState, Upsert, RequestTables
  <2>. HIDE DEF rs, rp
  <2>4. rs.db.states = {ByIssuer(r) : r \in rp.db.states}
    BY <1>b, <1>d, <2>3 DEF Without
  <2>. QED BY <1>0, <1>b, <2>1, <2>3, <2>4
<1>6. ASSUME NEW s \in OAuthState, DeleteOAuthRequest(s) PROVE SameLogins'
  <2>. DEFINE rs == SqliteDeleteState(db.sqlite, s)
              rp == PostgresDeleteState(db.postgres, s)
  <2>1. Call(Reply(db.memory, {}), rs, rp)
    BY <1>6 DEF DeleteOAuthRequest, DatabaseCall
  <2>2. /\ rs.db.states = Without(db.sqlite.states, s) /\ rp.db.states = Without(db.postgres.states, s)
        /\ rs.db.logins = db.sqlite.logins /\ rp.db.logins = db.postgres.logins
    BY DEF SqliteDeleteState, PostgresDeleteState, RequestTables
  <2>. HIDE DEF rs, rp
  <2>4. rs.db.states = {ByIssuer(r) : r \in rp.db.states}
    BY <1>b, <1>d, <2>2 DEF Without
  <2>. QED BY <1>0, <1>b, <2>1, <2>2, <2>4
<1>7. ASSUME ClearExpiredOAuthRequests PROVE SameLogins'
  <2>. DEFINE rs == SqliteClearStates(db.sqlite)
              rp == PostgresClearStates(db.postgres)
  <2>1. Call(Reply(db.memory, {}), rs, rp)
    BY <1>7 DEF ClearExpiredOAuthRequests, DatabaseCall
  <2>2. /\ rs.db.states = db.sqlite.states \ Expired(db.sqlite.states)
        /\ rp.db.states = db.postgres.states \ Expired(db.postgres.states)
        /\ rs.db.logins = db.sqlite.logins /\ rp.db.logins = db.postgres.logins
    BY DEF SqliteClearStates, PostgresClearStates, RequestTables
  <2>. HIDE DEF rs, rp
  <2>4. rs.db.states = {ByIssuer(r) : r \in rp.db.states}
    BY <1>b, <1>d, <2>2 DEF Expired
  <2>. QED BY <1>0, <1>b, <2>1, <2>2, <2>4
<1>8. ASSUME NEW l \in Login, NEW u \in User, StoreAuthorizationRequest(l, u) PROVE SameLogins'
  BY <1>0, <1>b, <1>8
     DEF StoreAuthorizationRequest, MemoryStoreLogin, SqliteStoreLogin, PostgresStoreLogin,
     RequestTables
<1>9. ASSUME NEW l \in Login, RemoveAuthorizationRequest(l) PROVE SameLogins'
  BY <1>0, <1>b, <1>9 DEF RemoveAuthorizationRequest, MemoryRemoveLogin, SqliteRemoveLogin,
     PostgresRemoveLogin, RemoveLoginRow, RequestTables
<1>10. ASSUME DeleteClientRequests PROVE SameLogins'
  BY <1>c, <1>10, DropRequestsTyped
     DEF DeleteClientRequests, SqliteDropRequests, PostgresDropRequests
<1>. QED BY <1>1, <1>2, <1>3, <1>4, <1>5, <1>6, <1>7, <1>8, <1>9, <1>10
  DEF RequestCall, CleanupRequests

LEMMA NextRequestsSound ==
    ASSUME RequestsSound, RequestCall
    PROVE  RequestsSound'
BY NextRequestsTyped, NextRequestsWaiting, NextSameDevice, NextSamePushed, NextSameLogins
   DEF RequestsSound, RequestsAlike

LEMMA TickRequests ==
    ASSUME RequestsSound, Tick
    PROVE  RequestsSound'
<1>1. RequestsTyped'
  BY TickTyped DEF RequestsSound, RequestsTyped
<1>2. RequestsWaiting'
  BY DEF RequestsSound, RequestsWaiting, Tick
<1>3. SamePushed'
  <2>1. \A r \in PushedRow : r.expires > now + 1 => r.expires > now
    BY RequestsNow DEF RequestsSound, PushedRow, Time
  <2>. QED BY <2>1 DEF RequestsSound, RequestsAlike, SamePushed, Tick
<1>4. (\A c \in DeviceCode \ apart : SameDevice(c))' /\ SameLogins'
  BY DEF RequestsSound, RequestsAlike, SameDevice, SameLogins, Where, Tick
<1>. QED BY <1>1, <1>2, <1>3, <1>4 DEF RequestsSound, RequestsAlike

LEMMA WaitingHandedOnce ==
    ASSUME RequestsSound
    PROVE  RequestsHandedOnce
BY DEF RequestsSound, RequestsWaiting, Waiting, RequestsHandedOnce, Keys

\* Answers with the same keys and values look the same.
LEMMA ValuesSame ==
    ASSUME NEW m, NEW s, NEW p,
           {<<r.key, r.value>> : r \in m.answer} = {<<r.key, r.value>> : r \in s.answer},
           m.answer = p.answer
    PROVE  Same(m, s, p)
<1>. DEFINE all(t) == {<<r.key, r.value>> : r \in t.answer}
<1>1. ASSUME NEW t PROVE Shown(t) = {x \in all(t) : x[1] \notin apart}
  BY DEF Shown
<1>. QED BY <1>1 DEF Same

LEMMA DevicesSoundAgree ==
    ASSUME RequestsSound
    PROVE  DevicesAgree
<1>. SUFFICES ASSUME NEW c \in DeviceCode \ (apart \cup LastSecond)
              PROVE  /\ Same(MemoryGetDevice(db.memory, c), SqliteGetDevice(db.sqlite, c),
                             PostgresGetDevice(db.postgres, c))
                     /\ Same(MemoryGetUserCode(db.memory, c), SqliteGetUserCode(db.sqlite, c),
                             PostgresGetUserCode(db.postgres, c))
                     /\ \A u \in User :
                           Same(MemoryAuthorizeDevice(db.memory, c, u),
                                SqliteAuthorizeDevice(db.sqlite, c, u),
                                PostgresAuthorizeDevice(db.postgres, c, u))
                     /\ Same(MemoryConsumeDevice(db.memory, c), SqliteConsumeDevice(db.sqlite, c),
                             PostgresConsumeDevice(db.postgres, c))
  BY DEF DevicesAgree
<1>. USE DEF Reply
<1>. DEFINE rows == Where(db.memory.devices, c)
<1>1. /\ Where(db.postgres.devices, c) = rows
      /\ Where(db.sqlite.devices, c) = {Seconds(r) : r \in rows}
  BY DEF RequestsSound, RequestsAlike, SameDevice
<1>2. \A r \in rows :
         /\ r \in DeviceRow
         /\ r.expires > now <=> Seconds(r).expires > Whole(now)
         /\ r.expires > now <=> Seconds(r).expires > now
         /\ Seconds(r).key = r.key /\ Seconds(r).value = r.value
  BY RequestsNow, RequestTable, DeviceAway, SecondsRow DEF RequestsSound, Where
<1>. HIDE DEF rows
<1>3. {<<r.key, r.value>> : r \in rows} =
        {<<r.key, r.value>> : r \in {Seconds(x) : x \in rows}}
  BY <1>2
<1>4. /\ Same(MemoryGetDevice(db.memory, c), SqliteGetDevice(db.sqlite, c),
              PostgresGetDevice(db.postgres, c))
      /\ Same(MemoryGetUserCode(db.memory, c), SqliteGetUserCode(db.sqlite, c),
              PostgresGetUserCode(db.postgres, c))
  BY <1>1, <1>3, ValuesSame DEF MemoryGetDevice, SqliteGetDevice, PostgresGetDevice,
     MemoryGetUserCode, SqliteGetUserCode, PostgresGetUserCode, rows
<1>5. ASSUME NEW u \in User
      PROVE  Same(MemoryAuthorizeDevice(db.memory, c, u), SqliteAuthorizeDevice(db.sqlite, c, u),
                  PostgresAuthorizeDevice(db.postgres, c, u))
  <2>1. /\ {r \in Where(db.memory.devices, c) : r.expires > now} = {r \in rows : r.expires > now}
        /\ {r \in Where(db.postgres.devices, c) : r.expires > now} = {r \in rows : r.expires > now}
        /\ {r \in Where(db.sqlite.devices, c) : r.expires > Whole(now)} = {}
             <=> {r \in rows : r.expires > now} = {}
    BY <1>1, <1>2 DEF rows
  <2>2. /\ MemoryAuthorizeDevice(db.memory, c, u).answer =
             SqliteAuthorizeDevice(db.sqlite, c, u).answer
        /\ MemoryAuthorizeDevice(db.memory, c, u).answer =
             PostgresAuthorizeDevice(db.postgres, c, u).answer
    BY <2>1 DEF MemoryAuthorizeDevice, SqliteAuthorizeDevice, PostgresAuthorizeDevice, Approve
  <2>. QED BY <2>2, EqualSame
<1>6. Same(MemoryConsumeDevice(db.memory, c), SqliteConsumeDevice(db.sqlite, c),
           PostgresConsumeDevice(db.postgres, c))
  <2>. DEFINE Ready(r) == r.expires > now /\ r.value # None
  <2>1. /\ MemoryConsumeDevice(db.memory, c).answer = {r \in rows : Ready(r)}
        /\ PostgresConsumeDevice(db.postgres, c).answer = {r \in rows : Ready(r)}
        /\ SqliteConsumeDevice(db.sqlite, c).answer =
             {r \in {Seconds(x) : x \in rows} : Ready(r)}
    BY <1>1 DEF MemoryConsumeDevice, SqliteConsumeDevice, PostgresConsumeDevice, TakeDevice, rows
  <2>2. {<<r.key, r.value>> : r \in {x \in rows : Ready(x)}} =
          {<<r.key, r.value>> : r \in {x \in {Seconds(y) : y \in rows} : Ready(x)}}
    BY <1>2
  <2>. HIDE DEF Ready
  <2>. QED BY <2>1, <2>2, ValuesSame
<1>. QED BY <1>4, <1>5, <1>6

LEMMA SoundRequestsAgree ==
    ASSUME RequestsSound
    PROVE  RequestsAgree
<1>. USE DEF Reply
<1>1. PushedAgree
  <2>. SUFFICES ASSUME NEW p \in PushedRequest \ AtEdge("pushed")
                PROVE  /\ Same(InTime(MemoryGetPushed(db.memory, p)),
                               InTime(SqliteGetPushed(db.sqlite, p)),
                               InTime(PostgresGetPushed(db.postgres, p)))
                       /\ Same(InTime(MemoryConsumePushed(db.memory, p)),
                               InTime(SqliteConsumePushed(db.sqlite, p)),
                               InTime(PostgresConsumePushed(db.postgres, p)))
    BY DEF PushedAgree
  <2>1. /\ db.memory.pushed \subseteq PushedRow /\ db.sqlite.pushed \subseteq PushedRow
        /\ db.postgres.pushed \subseteq PushedRow
    BY RequestsNow, RequestTable DEF RequestsSound
  <2>2. \A b \in Backend : \A r \in db[b].pushed : r.key = p => r.expires # now
    BY DEF AtEdge, Keys
  <2>3. \A r \in PushedRow : r.expires # now =>
           /\ r.expires >= now <=> r.expires > now
           /\ r.expires <= now <=> ~(r.expires > now)
    BY RequestsNow, StoreCallsAssumption DEF RequestsSound, PushedRow, Time, Never
  <2>0. CASE p \in apart
    <3>1. ASSUME NEW d \in RequestTables
          PROVE  /\ \A r \in MemoryGetPushed(d, p).answer : r.key = p
                 /\ \A r \in MemoryConsumePushed(d, p).answer : r.key = p
                 /\ \A r \in ReadPushed(d, p).answer : r.key = p
                 /\ \A r \in TakePushed(d, p).answer : r.key = p
      BY DEF MemoryGetPushed, MemoryConsumePushed, ReadPushed, TakePushed, Where
    <3>2. ASSUME NEW reply, \A r \in reply.answer : r.key = p PROVE Shown(InTime(reply)) = {}
      BY <2>0, <3>2 DEF Shown, InTime
    <3>. QED BY <3>1, <3>2, RequestsNow
      DEF Same, RequestsSound, SqliteGetPushed, PostgresGetPushed, SqliteConsumePushed,
          PostgresConsumePushed
  <2>. DEFINE open(rows) == {r \in rows : r.key = p /\ r.expires > now}
  <2>4. /\ InTime(MemoryGetPushed(db.memory, p)).answer = open(db.memory.pushed)
        /\ InTime(MemoryConsumePushed(db.memory, p)).answer = open(db.memory.pushed)
    BY <2>1, <2>2, <2>3 DEF InTime, MemoryGetPushed, MemoryConsumePushed, Where, Backend
  <2>5. /\ InTime(SqliteGetPushed(db.sqlite, p)).answer = open(db.sqlite.pushed)
        /\ InTime(SqliteConsumePushed(db.sqlite, p)).answer = open(db.sqlite.pushed)
    BY <2>1, <2>2, <2>3 DEF InTime, SqliteGetPushed, SqliteConsumePushed, ReadPushed, TakePushed,
       Where, Expired, Backend
  <2>6. /\ InTime(PostgresGetPushed(db.postgres, p)).answer = open(db.postgres.pushed)
        /\ InTime(PostgresConsumePushed(db.postgres, p)).answer = open(db.postgres.pushed)
    BY <2>1, <2>2, <2>3 DEF InTime, PostgresGetPushed, PostgresConsumePushed, ReadPushed,
       TakePushed, Where, Expired, Backend
  <2>7. ASSUME p \notin apart
        PROVE  /\ open(db.memory.pushed) = open(db.sqlite.pushed)
               /\ open(db.memory.pushed) = open(db.postgres.pushed)
    BY <2>1, <2>7 DEF RequestsSound, RequestsAlike, SamePushed
  <2>. QED BY <2>0, <2>4, <2>5, <2>6, <2>7, EqualSame
<1>2. LoginsAgree
  <2>1. SameLogins
    BY DEF RequestsSound, RequestsAlike
  <2>2. ASSUME NEW s \in OAuthState
        PROVE  SqliteGetState(db.sqlite, s).answer =
                   {ByIssuer(r) : r \in PostgresGetState(db.postgres, s).answer}
    <3>1. \A r \in db.postgres.states :
             ByIssuer(r).key = r.key /\ ByIssuer(r).expires = r.expires
      BY ByIssuerRow, RequestsNow, RequestTable DEF RequestsSound
    <3>. QED BY <2>1, <3>1 DEF SameLogins, SqliteGetState, PostgresGetState, Where
  <2>3. ASSUME NEW l \in Login
        PROVE  /\ Same(MemoryGetLogin(db.memory, l), SqliteGetLogin(db.sqlite, l),
                       PostgresGetLogin(db.postgres, l))
               /\ Shown(SqliteRemoveLogin(db.sqlite, l)) = Shown(PostgresRemoveLogin(db.postgres, l))
    <3>1. Same(MemoryGetLogin(db.memory, l), SqliteGetLogin(db.sqlite, l),
               PostgresGetLogin(db.postgres, l))
      BY <2>1, EqualSame DEF SameLogins, MemoryGetLogin, SqliteGetLogin, PostgresGetLogin
    <3>2. SqliteRemoveLogin(db.sqlite, l).answer = PostgresRemoveLogin(db.postgres, l).answer
      BY <2>1 DEF SameLogins, SqliteRemoveLogin, PostgresRemoveLogin, RemoveLoginRow
    <3>. QED BY <3>1, <3>2 DEF Shown
  <2>. QED BY <2>2, <2>3 DEF LoginsAgree, Shown
<1>. QED BY <1>1, <1>2, DevicesSoundAgree DEF RequestsAgree

-----------------------------------------------------------------------------
(* Clients, keys, app passwords and their sessions. *)

RecordsTyped == StoreTypeOK(RecordTables, RecordKey)

LEMMA RecordsNow ==
    ASSUME RecordsTyped
    PROVE  /\ issued \subseteq RecordKey /\ apart \subseteq RecordKey
           /\ db.memory \in RecordTables /\ db.sqlite \in RecordTables
           /\ db.postgres \in RecordTables
BY DEF RecordsTyped, StoreTypeOK, Backend

LEMMA RecordTable ==
    ASSUME NEW d \in RecordTables
    PROVE  /\ d.clients \in SUBSET ClientRow /\ d.keys \in SUBSET KeyRow
           /\ d.default \in SUBSET KeyRow /\ d.passwords \in SUBSET PasswordRow
           /\ d.appSessions \in SUBSET AppSessionRow
           /\ \A rows \in SUBSET ClientRow : [d EXCEPT !.clients = rows] \in RecordTables
           /\ \A rows \in SUBSET KeyRow : [d EXCEPT !.keys = rows] \in RecordTables
           /\ \A rows \in SUBSET KeyRow : [d EXCEPT !.default = rows] \in RecordTables
           /\ \A rows \in SUBSET PasswordRow : [d EXCEPT !.passwords = rows] \in RecordTables
           /\ \A rows \in SUBSET AppSessionRow : [d EXCEPT !.appSessions = rows] \in RecordTables
BY DEF RecordTables

LEMMA NewClientRow ==
    ASSUME NEW c \in Client, NEW v \in Registration
    PROVE  Row(c, v) \in ClientRow /\ Row(c, v).key = c
BY DEF Row, ClientRow

LEMMA NewRecordRows ==
    ASSUME NEW v \in Content
    PROVE  /\ \A k : Row(k, v).key = k
           /\ \A k \in KeyId \cup SigningId : Row(k, v) \in KeyRow
           /\ \A p \in Pair : Row(p, v) \in PasswordRow /\ Row(p, v) \in AppSessionRow
BY DEF Row, KeyRow, PasswordRow, AppSessionRow

\* What the operators on tables do to the rows of one key.
LEMMA WhereKeys ==
    ASSUME NEW t, NEW k
    PROVE  k \in Keys(t) <=> Where(t, k) # {}
BY DEF Keys, Where

LEMMA WhereUpsert ==
    ASSUME NEW t, NEW row
    PROVE  /\ Where(Upsert(t, row), row.key) = {row}
           /\ \A k : k # row.key => Where(Upsert(t, row), k) = Where(t, k)
           /\ Keys(Upsert(t, row)) = Keys(t) \cup {row.key}
BY DEF Where, Upsert, Without, Keys

LEMMA WhereWithout ==
    ASSUME NEW t, NEW x
    PROVE  /\ Where(Without(t, x), x) = {}
           /\ \A k : k # x => Where(Without(t, x), k) = Where(t, k)
           /\ Keys(Without(t, x)) = Keys(t) \ {x}
BY DEF Where, Without, Keys

Exchanged(t, row) == {IF r.key = row.key THEN row ELSE r : r \in t}

LEMMA WhereExchanged ==
    ASSUME NEW t, NEW row
    PROVE  /\ \A k : Where(Exchanged(t, row), k) =
                      IF k # row.key \/ Where(t, k) = {} THEN Where(t, k) ELSE {row}
           /\ Keys(Exchanged(t, row)) = Keys(t)
<1>1. ASSUME NEW k, k # row.key \/ Where(t, k) = {}
      PROVE  Where(Exchanged(t, row), k) = Where(t, k)
  BY <1>1 DEF Where, Exchanged
<1>2. ASSUME NEW k, k = row.key, Where(t, k) # {}
      PROVE  Where(Exchanged(t, row), k) = {row}
  BY <1>2 DEF Where, Exchanged
<1>3. Keys(Exchanged(t, row)) = Keys(t)
  BY DEF Exchanged, Keys
<1>. QED BY <1>1, <1>2, <1>3

\* What PostgreSQL's update makes of the table of clients.
Resettled(t, row) == {IF r.key = row.key THEN KeepSoftware(r, row) ELSE r : r \in t}

\* A row without its software.
Plain(r) == [r EXCEPT !.value = r.value.settings]

PlainRows(t) == {Plain(r) : r \in t}

LEMMA KeepSoftwareRow ==
    ASSUME NEW r \in ClientRow, NEW row \in ClientRow
    PROVE  /\ KeepSoftware(r, row) \in ClientRow /\ KeepSoftware(r, row).key = row.key
           /\ Plain(KeepSoftware(r, row)) = Plain(row)
<1>1. /\ KeepSoftware(r, row) \in ClientRow /\ KeepSoftware(r, row).key = row.key
      /\ KeepSoftware(r, row).value.settings = row.value.settings
  BY DEF KeepSoftware, ClientRow, Registration
<1>. QED BY <1>1 DEF Plain, ClientRow

LEMMA WhereResettled ==
    ASSUME NEW t \in SUBSET ClientRow, NEW row \in ClientRow
    PROVE  /\ Resettled(t, row) \in SUBSET ClientRow
           /\ \A k : k # row.key => Where(Resettled(t, row), k) = Where(t, k)
           /\ PlainRows(Where(Resettled(t, row), row.key)) =
                 IF Where(t, row.key) = {} THEN {} ELSE {Plain(row)}
           /\ Keys(Resettled(t, row)) = Keys(t)
<1>1. \A r \in t : /\ KeepSoftware(r, row) \in ClientRow /\ KeepSoftware(r, row).key = row.key
                   /\ Plain(KeepSoftware(r, row)) = Plain(row)
  BY KeepSoftwareRow
<1>2. Resettled(t, row) \in SUBSET ClientRow
  BY <1>1 DEF Resettled
<1>3. \A k : k # row.key => Where(Resettled(t, row), k) = Where(t, k)
  BY <1>1 DEF Resettled, Where
<1>4. Where(Resettled(t, row), row.key) = {KeepSoftware(r, row) : r \in Where(t, row.key)}
  BY <1>1 DEF Resettled, Where
<1>5. \A r \in Where(t, row.key) : Plain(KeepSoftware(r, row)) = Plain(row)
  BY <1>1 DEF Where
<1>6. Keys(Resettled(t, row)) = Keys(t)
  BY <1>1 DEF Resettled, Keys
<1>. QED BY <1>2, <1>3, <1>4, <1>5, <1>6 DEF PlainRows

LEMMA WhereOfOthers ==
    ASSUME NEW t, NEW c
    PROVE  /\ \A k : ClientOf(k) = c => Where(OfOthers(t, c), k) = {}
           /\ \A k : ClientOf(k) # c => Where(OfOthers(t, c), k) = Where(t, k)
           /\ Keys(OfOthers(t, c)) = {k \in Keys(t) : ClientOf(k) # c}
BY DEF Where, OfOthers, Keys

\* What a method writes to: it leaves the tables e of the tables d.
OnlyClients(d, e, clients) ==
    /\ e \in RecordTables /\ e.clients = clients /\ e.keys = d.keys /\ e.default = d.default
    /\ e.passwords = d.passwords /\ e.appSessions = d.appSessions

OnlyKeys(d, e, keys, default) ==
    /\ e \in RecordTables /\ e.clients = d.clients /\ e.keys = keys /\ e.default = default
    /\ e.passwords = d.passwords /\ e.appSessions = d.appSessions

OnlyPairs(d, e, passwords, appSessions) ==
    /\ e \in RecordTables /\ e.clients = d.clients /\ e.keys = d.keys /\ e.default = d.default
    /\ e.passwords = passwords /\ e.appSessions = appSessions

LEMMA ClientWrites ==
    ASSUME NEW d \in RecordTables, NEW row \in ClientRow
    PROVE  /\ OnlyClients(d, MemoryStoreClient(d, row).db, Upsert(d.clients, row))
           /\ OnlyClients(d, SqliteStoreClient(d, row).db, d.clients \cup {row})
           /\ OnlyClients(d, PostgresStoreClient(d, row).db, d.clients \cup {row})
           /\ OnlyClients(d, Replace(d, row).db, Exchanged(d.clients, row))
           /\ OnlyClients(d, PostgresUpdateClient(d, row).db, Resettled(d.clients, row))
<1>. USE DEF Reply, IfRow, OnlyClients
<1>1. Upsert(d.clients, row) \in SUBSET ClientRow /\ d.clients \cup {row} \in SUBSET ClientRow
      /\ Exchanged(d.clients, row) \in SUBSET ClientRow
      /\ Resettled(d.clients, row) \in SUBSET ClientRow
  BY RecordTable, WhereResettled DEF Upsert, Without, Exchanged
<1>. QED BY <1>1 DEF MemoryStoreClient, SqliteStoreClient, PostgresStoreClient, Replace, Exchanged,
  PostgresUpdateClient, Resettled, RecordTables

LEMMA ClientRemovals ==
    ASSUME NEW d \in RecordTables, NEW c, NEW referred \in BOOLEAN
    PROVE  /\ OnlyClients(d, MemoryDeleteClient(d, c).db, Without(d.clients, c))
           /\ IF referred THEN SqliteDeleteClient(d, c, referred).db = d
              ELSE OnlyClients(d, SqliteDeleteClient(d, c, referred).db, Without(d.clients, c))
           /\ LET e == PostgresDeleteClient(d, c, referred).db
              IN  IF referred THEN e = d
                  ELSE /\ e \in RecordTables /\ e.clients = Without(d.clients, c)
                       /\ e.keys = d.keys /\ e.default = d.default
                       /\ e.passwords = OfOthers(d.passwords, c)
                       /\ e.appSessions = OfOthers(d.appSessions, c)
<1>. USE DEF Reply, IfRow, OnlyClients
<1>1. Without(d.clients, c) \in SUBSET ClientRow
  BY RecordTable DEF Without
<1>2. OfOthers(d.passwords, c) \in SUBSET PasswordRow
      /\ OfOthers(d.appSessions, c) \in SUBSET AppSessionRow
  BY RecordTable DEF OfOthers
<1>. QED BY <1>1, <1>2 DEF MemoryDeleteClient, SqliteDeleteClient, PostgresDeleteClient,
  RecordTables

LEMMA KeyWrites ==
    ASSUME NEW d \in RecordTables, NEW row \in KeyRow
    PROVE  /\ OnlyKeys(d, MemoryStoreSigningKey(d, row).db, d.keys, {row})
           /\ OnlyKeys(d, FlagOnly(d, row).db, d.keys \cup {row}, {row})
           /\ OnlyKeys(d, MemoryStoreKey(d, row).db, Upsert(d.keys, row), d.default)
           /\ OnlyKeys(d, PostgresStoreKey(d, row).db, Upsert(d.keys, row), d.default)
           /\ OnlyKeys(d, SqliteStoreKey(d, row).db,
                       IF row.key \in Keys(d.keys) THEN d.keys ELSE d.keys \cup {row}, d.default)
<1>. USE DEF Reply, OnlyKeys
<1>1. Upsert(d.keys, row) \in SUBSET KeyRow /\ d.keys \cup {row} \in SUBSET KeyRow
  BY RecordTable DEF Upsert, Without
<1>. QED BY <1>1 DEF MemoryStoreSigningKey, FlagOnly, MemoryStoreKey, PostgresStoreKey,
  SqliteStoreKey, RecordTables

LEMMA PairWrites ==
    ASSUME NEW d \in RecordTables, NEW row \in PasswordRow, NEW session \in AppSessionRow
    PROVE  /\ OnlyPairs(d, PutPassword(d, row), Upsert(d.passwords, row), d.appSessions)
           /\ OnlyPairs(d, PutAppSession(d, session), d.passwords, Upsert(d.appSessions, session))
           /\ OnlyPairs(d, PutAppSession(PutPassword(d, row), session), Upsert(d.passwords, row),
                        Upsert(d.appSessions, session))
           /\ OnlyPairs(d, ReplaceAppSession(d, session).db, d.passwords,
                        Exchanged(d.appSessions, session))
           /\ OnlyPairs(d, d, d.passwords, d.appSessions)
<1>. USE DEF Reply, IfRow, OnlyPairs
<1>1. Upsert(d.passwords, row) \in SUBSET PasswordRow
      /\ Upsert(d.appSessions, session) \in SUBSET AppSessionRow
      /\ Exchanged(d.appSessions, session) \in SUBSET AppSessionRow
  BY RecordTable DEF Upsert, Without, Exchanged
<1>. QED BY <1>1 DEF PutPassword, PutAppSession, ReplaceAppSession, Exchanged, RecordTables

LEMMA PairRemovals ==
    ASSUME NEW d \in RecordTables, NEW q
    PROVE  /\ OnlyPairs(d, DropPair(d, q), Without(d.passwords, q), Without(d.appSessions, q))
           /\ OnlyPairs(d, [d EXCEPT !.appSessions = Without(@, q)], d.passwords,
                        Without(d.appSessions, q))
<1>1. Without(d.passwords, q) \in SUBSET PasswordRow
      /\ Without(d.appSessions, q) \in SUBSET AppSessionRow
  BY RecordTable DEF Without
<1>. QED BY <1>1 DEF DropPair, RecordTables, OnlyPairs

\* The tables of the three backends, the keys stored and those told apart.
ClientsSame(m, s, p, known, away) ==
    /\ \A c \in Client \ away :
        /\ Where(m.clients, c) = Where(s.clients, c)
        /\ PlainRows(Where(s.clients, c)) = PlainRows(Where(p.clients, c))
    /\ Keys(m.clients) \subseteq known /\ Keys(s.clients) \subseteq known
    /\ Keys(p.clients) \subseteq known
    /\ m.default = s.default /\ m.default = p.default

\* The databases keep the signing keys among the others.
KeysSame(m, s, p, away) ==
    /\ \A k \in KeyId \ away :
          Where(m.keys, k) = Where(s.keys, k) /\ Where(m.keys, k) = Where(p.keys, k)
    /\ Keys(s.keys) = Keys(p.keys) /\ Keys(m.keys) = Keys(s.keys) \cap KeyId

PairsSame(m, s, p, away) ==
    \A q \in Pair \ away :
        /\ Where(m.passwords, q) = Where(s.passwords, q)
        /\ Where(m.passwords, q) = Where(p.passwords, q)
        /\ Where(m.appSessions, q) = Where(s.appSessions, q)
        /\ Where(m.appSessions, q) = Where(p.appSessions, q)

\* The foreign keys of the databases, and what memory has of them.
Refer(m, s, p, away) ==
    /\ Keys(s.appSessions) \subseteq Keys(s.passwords)
    /\ Keys(p.appSessions) \subseteq Keys(p.passwords)
    /\ Keys(m.appSessions) \ away \subseteq Keys(m.passwords)
    /\ \A q \in Keys(p.passwords) : ClientOf(q) \in Keys(p.clients)

RecordsAlike(m, s, p, known, away) ==
    /\ ClientsSame(m, s, p, known, away) /\ KeysSame(m, s, p, away)
    /\ PairsSame(m, s, p, away) /\ Refer(m, s, p, away)

RecordsSound ==
    RecordsTyped /\ RecordsAlike(db.memory, db.sqlite, db.postgres, issued, apart)

\* Every call is a write to the tables, and hands nothing out.
LEMMA CallRecords ==
    ASSUME RecordsTyped, NEW m, NEW s, NEW p, Call(m, s, p), UNCHANGED spent,
           issued' \subseteq RecordKey, apart' \subseteq RecordKey,
           m.db \in RecordTables, s.db \in RecordTables, p.db \in RecordTables,
           RecordsAlike(m.db, s.db, p.db, issued', apart')
    PROVE  RecordsSound'
<1>1. RecordsTyped'
  BY CallKeepsTypes DEF RecordsTyped
<1>2. db'.memory = m.db /\ db'.sqlite = s.db /\ db'.postgres = p.db
  BY DEF Call
<1>. QED BY <1>1, <1>2 DEF RecordsSound

LEMMA NextRecordsSound ==
    ASSUME RecordsSound, RecordCall \/ KeyCall
    PROVE  RecordsSound'
<1>. DEFINE memory == db.memory
            sqlite == db.sqlite
            postgres == db.postgres
<1>a. /\ RecordsTyped /\ issued \subseteq RecordKey /\ apart \subseteq RecordKey
      /\ memory \in RecordTables /\ sqlite \in RecordTables /\ postgres \in RecordTables
  BY RecordsNow DEF RecordsSound
<1>b. /\ ClientsSame(memory, sqlite, postgres, issued, apart)
      /\ KeysSame(memory, sqlite, postgres, apart)
      /\ PairsSame(memory, sqlite, postgres, apart) /\ Refer(memory, sqlite, postgres, apart)
  BY DEF RecordsSound, RecordsAlike
<1>1. ASSUME NEW c \in Client, NEW v \in Registration, StoreClient(c, v)
      PROVE  RecordsSound'
  <2>. DEFINE row == Row(c, v)
              m == MemoryStoreClient(memory, row)
              s == SqliteStoreClient(sqlite, row)
              p == PostgresStoreClient(postgres, row)
  <2>1. Call(m, s, p) /\ UNCHANGED <<spent, apart>> /\ c \notin issued /\ issued' = issued \cup {c}
    BY <1>1 DEF StoreClient, Issue
  <2>2. /\ row.key = c
        /\ OnlyClients(memory, m.db, Upsert(memory.clients, row))
        /\ OnlyClients(sqlite, s.db, sqlite.clients \cup {row})
        /\ OnlyClients(postgres, p.db, postgres.clients \cup {row})
    BY <1>a, NewClientRow, ClientWrites
  <2>. HIDE DEF row, m, s, p
  <2>3. Upsert(memory.clients, row) = memory.clients \cup {row}
    BY <1>b, <2>1, <2>2 DEF ClientsSame, Keys, Upsert, Without
  <2>4. ASSUME NEW t, Keys(t) \subseteq issued
        PROVE  /\ Where(t \cup {row}, c) = {row} /\ Keys(t \cup {row}) \subseteq issued'
               /\ \A k : k # c => Where(t \cup {row}, k) = Where(t, k)
    BY <2>1, <2>2, <2>4 DEF Where, Keys
  <2>5. /\ m.db.clients = memory.clients \cup {row} /\ s.db.clients = sqlite.clients \cup {row}
        /\ p.db.clients = postgres.clients \cup {row}
        /\ m.db.default = memory.default /\ s.db.default = sqlite.default
        /\ p.db.default = postgres.default
    BY <2>2, <2>3 DEF OnlyClients
  <2>6. /\ Keys(memory.clients) \subseteq issued /\ Keys(sqlite.clients) \subseteq issued
        /\ Keys(postgres.clients) \subseteq issued
    BY <1>b DEF ClientsSame
  <2>7. ClientsSame(m.db, s.db, p.db, issued', apart')
    <3>1. ASSUME NEW k \in Client \ apart'
          PROVE  /\ Where(m.db.clients, k) = Where(s.db.clients, k)
                 /\ PlainRows(Where(s.db.clients, k)) = PlainRows(Where(p.db.clients, k))
      <4>1. CASE k = c
        BY <2>4, <2>5, <2>6, <4>1
      <4>2. CASE k # c
        <5>1. /\ Where(m.db.clients, k) = Where(memory.clients, k)
              /\ Where(s.db.clients, k) = Where(sqlite.clients, k)
              /\ Where(p.db.clients, k) = Where(postgres.clients, k)
          BY <2>4, <2>5, <2>6, <4>2
        <5>. QED BY <1>b, <2>1, <5>1 DEF ClientsSame
      <4>. QED BY <4>1, <4>2
    <3>. QED BY <1>b, <2>4, <2>5, <2>6, <3>1 DEF ClientsSame
  <2>8. Refer(m.db, s.db, p.db, apart')
    BY <1>b, <2>1, <2>2 DEF Refer, OnlyClients, Keys
  <2>9. KeysSame(m.db, s.db, p.db, apart') /\ PairsSame(m.db, s.db, p.db, apart')
    BY <1>b, <2>1, <2>2 DEF KeysSame, PairsSame, OnlyClients
  <2>. QED BY <1>a, <2>1, <2>2, <2>7, <2>8, <2>9, CallRecords
              DEF RecordsAlike, RecordKey, OnlyClients
<1>2. ASSUME NEW c \in Client, NEW v \in Registration, UpdateClient(c, v)
      PROVE  RecordsSound'
  <2>. DEFINE row == Row(c, v)
              m == Replace(memory, row)
              s == Replace(sqlite, row)
              p == PostgresUpdateClient(postgres, row)
  <2>1. Call(m, s, p) /\ UNCHANGED <<issued, spent, apart>>
    BY <1>2 DEF UpdateClient, recordHistory, MemoryUpdateClient, SqliteUpdateClient
  <2>2. /\ row.key = c
        /\ OnlyClients(memory, m.db, Exchanged(memory.clients, row))
        /\ OnlyClients(sqlite, s.db, Exchanged(sqlite.clients, row))
        /\ OnlyClients(postgres, p.db, Resettled(postgres.clients, row))
        /\ row \in ClientRow /\ postgres.clients \in SUBSET ClientRow
    BY <1>a, NewClientRow, ClientWrites, RecordTable
  <2>. HIDE DEF row, m, s, p
  <2>3. /\ m.db.clients = Exchanged(memory.clients, row)
        /\ s.db.clients = Exchanged(sqlite.clients, row)
        /\ p.db.clients = Resettled(postgres.clients, row)
    BY <2>2 DEF OnlyClients
  <2>4. /\ \A u : Keys(Exchanged(u, row)) = Keys(u)
        /\ Keys(Resettled(postgres.clients, row)) = Keys(postgres.clients)
    BY <2>2, WhereExchanged, WhereResettled
  <2>5. \A u, x : Where(Exchanged(u, row), x) =
                     IF x # c \/ Where(u, x) = {} THEN Where(u, x) ELSE {row}
    BY <2>2, WhereExchanged
  <2>6. /\ Keys(m.db.clients) = Keys(memory.clients) /\ Keys(s.db.clients) = Keys(sqlite.clients)
        /\ Keys(p.db.clients) = Keys(postgres.clients)
    BY <2>3, <2>4
  <2>7. ClientsSame(m.db, s.db, p.db, issued', apart')
    <3>1. ASSUME NEW k \in Client \ apart'
          PROVE  /\ Where(m.db.clients, k) = Where(s.db.clients, k)
                 /\ PlainRows(Where(s.db.clients, k)) = PlainRows(Where(p.db.clients, k))
      <4>1. /\ Where(memory.clients, k) = Where(sqlite.clients, k)
            /\ PlainRows(Where(sqlite.clients, k)) = PlainRows(Where(postgres.clients, k))
        BY <1>b, <2>1 DEF ClientsSame
      <4>2. CASE k # c
        <5>1. /\ Where(m.db.clients, k) = Where(memory.clients, k)
              /\ Where(s.db.clients, k) = Where(sqlite.clients, k)
              /\ Where(p.db.clients, k) = Where(postgres.clients, k)
          <6>1. Where(Resettled(postgres.clients, row), k) = Where(postgres.clients, k)
            BY <2>2, <4>2, WhereResettled
          <6>. QED BY <2>3, <2>5, <4>2, <6>1
        <5>. QED BY <4>1, <5>1
      <4>3. CASE k = c
        <5>1. /\ Where(m.db.clients, c) = IF Where(memory.clients, c) = {} THEN {} ELSE {row}
              /\ Where(s.db.clients, c) = IF Where(sqlite.clients, c) = {} THEN {} ELSE {row}
          BY <2>3, <2>5
        <5>2. PlainRows(Where(p.db.clients, c)) =
                 IF Where(postgres.clients, c) = {} THEN {} ELSE {Plain(row)}
          BY <2>2, <2>3, WhereResettled
        <5>3. Where(sqlite.clients, c) = {} <=> Where(postgres.clients, c) = {}
          BY <4>1, <4>3 DEF PlainRows
        <5>4. PlainRows({}) = {} /\ PlainRows({row}) = {Plain(row)}
          BY DEF PlainRows
        <5>. QED BY <4>1, <4>3, <5>1, <5>2, <5>3, <5>4
      <4>. QED BY <4>2, <4>3
    <3>. QED BY <1>b, <2>1, <2>2, <2>6, <3>1 DEF ClientsSame, OnlyClients
  <2>8. Refer(m.db, s.db, p.db, apart')
    BY <1>b, <2>1, <2>2, <2>6 DEF Refer, OnlyClients
  <2>9. KeysSame(m.db, s.db, p.db, apart') /\ PairsSame(m.db, s.db, p.db, apart')
    BY <1>b, <2>1, <2>2 DEF KeysSame, PairsSame, OnlyClients
  <2>. QED BY <1>a, <2>1, <2>2, <2>7, <2>8, <2>9, CallRecords
              DEF RecordsAlike, RecordKey, OnlyClients
<1>3. ASSUME NEW c \in Client, NEW referring \in SUBSET {"sqlite", "postgres"},
             DeleteClient(c, referring)
      PROVE  RecordsSound'
  <2>. DEFINE m == MemoryDeleteClient(memory, c)
              s == SqliteDeleteClient(sqlite, c, "sqlite" \in referring)
              p == PostgresDeleteClient(postgres, c, "postgres" \in referring)
              gone == {q \in Pair : ClientOf(q) = c /\ c \in Keys(postgres.clients)}
              split == {k \in {c} : referring # {}}
  <2>1. Call(m, s, p) /\ UNCHANGED <<issued, spent>> /\ apart' = apart \cup (gone \cup split)
    BY <1>3 DEF DeleteClient, MayDiffer
  <2>2. /\ OnlyClients(memory, m.db, Without(memory.clients, c))
        /\ IF "sqlite" \in referring THEN s.db = sqlite
           ELSE OnlyClients(sqlite, s.db, Without(sqlite.clients, c))
        /\ IF "postgres" \in referring THEN p.db = postgres
           ELSE /\ p.db \in RecordTables /\ p.db.clients = Without(postgres.clients, c)
                /\ p.db.keys = postgres.keys /\ p.db.default = postgres.default
                /\ p.db.passwords = OfOthers(postgres.passwords, c)
                /\ p.db.appSessions = OfOthers(postgres.appSessions, c)
    <3>1. OnlyClients(memory, m.db, Without(memory.clients, c))
      BY <1>a, ClientRemovals
    <3>2. ASSUME NEW referred \in BOOLEAN
          PROVE  IF referred THEN SqliteDeleteClient(sqlite, c, referred).db = sqlite
                 ELSE OnlyClients(sqlite, SqliteDeleteClient(sqlite, c, referred).db,
                                  Without(sqlite.clients, c))
      BY <1>a, ClientRemovals
    <3>3. ASSUME NEW referred \in BOOLEAN
          PROVE  LET e == PostgresDeleteClient(postgres, c, referred).db
                 IN  IF referred THEN e = postgres
                     ELSE /\ e \in RecordTables /\ e.clients = Without(postgres.clients, c)
                          /\ e.keys = postgres.keys /\ e.default = postgres.default
                          /\ e.passwords = OfOthers(postgres.passwords, c)
                          /\ e.appSessions = OfOthers(postgres.appSessions, c)
      BY <1>a, ClientRemovals
    <3>4. ("sqlite" \in referring) \in BOOLEAN /\ ("postgres" \in referring) \in BOOLEAN
      OBVIOUS
    <3>5. IF "sqlite" \in referring THEN s.db = sqlite
          ELSE OnlyClients(sqlite, s.db, Without(sqlite.clients, c))
      BY <3>2, <3>4
    <3>. QED BY <3>1, <3>3, <3>4, <3>5
  <2>. HIDE DEF m, s, p, gone
  <2>3. gone \cup split \subseteq RecordKey
    BY DEF gone, RecordKey
  <2>4. /\ m.db.default = memory.default /\ m.db.keys = memory.keys
        /\ m.db.passwords = memory.passwords /\ m.db.appSessions = memory.appSessions
        /\ s.db.default = sqlite.default /\ s.db.keys = sqlite.keys
        /\ s.db.passwords = sqlite.passwords /\ s.db.appSessions = sqlite.appSessions
        /\ p.db.default = postgres.default /\ p.db.keys = postgres.keys
        /\ m.db \in RecordTables /\ s.db \in RecordTables /\ p.db \in RecordTables
    BY <1>a, <2>2 DEF OnlyClients
  <2>5. ClientsSame(m.db, s.db, p.db, issued', apart')
    <3>1. /\ m.db.clients = Without(memory.clients, c)
          /\ s.db.clients \in {sqlite.clients, Without(sqlite.clients, c)}
          /\ p.db.clients \in {postgres.clients, Without(postgres.clients, c)}
          /\ referring = {} => /\ s.db.clients = Without(sqlite.clients, c)
                               /\ p.db.clients = Without(postgres.clients, c)
      BY <2>2 DEF OnlyClients
    <3>2. ASSUME NEW k \in Client \ apart'
          PROVE  /\ Where(m.db.clients, k) = Where(s.db.clients, k)
                 /\ PlainRows(Where(s.db.clients, k)) = PlainRows(Where(p.db.clients, k))
      <4>1. CASE k # c
        <5>1. /\ Where(m.db.clients, k) = Where(memory.clients, k)
              /\ Where(s.db.clients, k) = Where(sqlite.clients, k)
              /\ Where(p.db.clients, k) = Where(postgres.clients, k)
          BY <3>1, <4>1, WhereWithout
        <5>. QED BY <1>b, <2>1, <5>1 DEF ClientsSame
      <4>2. CASE k = c
        <5>1. referring = {}
          BY <2>1, <4>2
        <5>. QED BY <3>1, <4>2, <5>1, WhereWithout
      <4>. QED BY <4>1, <4>2
    <3>3. /\ Keys(m.db.clients) \subseteq Keys(memory.clients)
          /\ Keys(s.db.clients) \subseteq Keys(sqlite.clients)
          /\ Keys(p.db.clients) \subseteq Keys(postgres.clients)
      BY <3>1, WhereWithout
    <3>. QED BY <1>b, <2>1, <2>4, <3>2, <3>3 DEF ClientsSame
  <2>. HIDE DEF split
  <2>6. KeysSame(m.db, s.db, p.db, apart')
    BY <1>b, <2>1, <2>4 DEF KeysSame
  <2>7. PairsSame(m.db, s.db, p.db, apart')
    <3>. SUFFICES ASSUME NEW q \in Pair \ (apart \cup gone)
                  PROVE  /\ Where(p.db.passwords, q) = Where(postgres.passwords, q)
                         /\ Where(p.db.appSessions, q) = Where(postgres.appSessions, q)
      BY <1>b, <2>1, <2>4 DEF PairsSame
    <3>1. CASE ClientOf(q) # c
      BY <2>2, <3>1, WhereOfOthers
    <3>2. CASE ClientOf(q) = c
      <4>1. c \notin Keys(postgres.clients)
        BY <3>2 DEF gone
      <4>2. q \notin Keys(postgres.passwords) /\ q \notin Keys(postgres.appSessions)
        BY <1>b, <3>2, <4>1 DEF Refer
      <4>. QED BY <2>2, <3>2, <4>2, WhereOfOthers, WhereKeys
    <3>. QED BY <3>1, <3>2
  <2>8. Refer(m.db, s.db, p.db, apart')
    <3>1. CASE "postgres" \in referring
      BY <1>b, <2>1, <2>2, <2>4, <3>1 DEF Refer
    <3>2. CASE "postgres" \notin referring
      <4>1. /\ Keys(p.db.passwords) = {k \in Keys(postgres.passwords) : ClientOf(k) # c}
            /\ Keys(p.db.appSessions) = {k \in Keys(postgres.appSessions) : ClientOf(k) # c}
            /\ Keys(p.db.clients) = Keys(postgres.clients) \ {c}
        BY <2>2, <3>2, WhereOfOthers, WhereWithout
      <4>. QED BY <1>b, <2>1, <2>4, <4>1 DEF Refer
    <3>. QED BY <3>1, <3>2
  <2>. QED BY <1>a, <2>1, <2>3, <2>4, <2>5, <2>6, <2>7, <2>8, CallRecords DEF RecordsAlike
<1>4. ASSUME NEW k \in SigningId, NEW v \in Content, StoreSigningKey(k, v)
      PROVE  RecordsSound'
  <2>. DEFINE row == Row(k, v)
              m == MemoryStoreSigningKey(memory, row)
              s == FlagOnly(sqlite, row)
              p == FlagOnly(postgres, row)
  <2>1. Call(m, s, p) /\ UNCHANGED <<spent, apart>> /\ issued' = issued \cup {k}
    BY <1>4 DEF StoreSigningKey, Issue, SqliteStoreSigningKey,
       PostgresStoreSigningKey
  <2>2. /\ row.key = k
        /\ OnlyKeys(memory, m.db, memory.keys, {row})
        /\ OnlyKeys(sqlite, s.db, sqlite.keys \cup {row}, {row})
        /\ OnlyKeys(postgres, p.db, postgres.keys \cup {row}, {row})
    BY <1>a, NewRecordRows, KeyWrites
  <2>. HIDE DEF row, m, s, p
  <2>7. ClientsSame(m.db, s.db, p.db, issued', apart')
    BY <1>b, <2>1, <2>2 DEF ClientsSame, OnlyKeys
  <2>8. KeysSame(m.db, s.db, p.db, apart')
    <3>1. \A t, x : x # k => Where(t \cup {row}, x) = Where(t, x)
      BY <2>2 DEF Where
    <3>2. \A t : Keys(t \cup {row}) = Keys(t) \cup {k}
      BY <2>2 DEF Keys
    <3>3. ASSUME NEW x \in KeyId \ apart
          PROVE  /\ Where(m.db.keys, x) = Where(s.db.keys, x)
                 /\ Where(m.db.keys, x) = Where(p.db.keys, x)
      <4>1. x # k
        BY RecordStoresAssumption
      <4>2. /\ Where(sqlite.keys \cup {row}, x) = Where(sqlite.keys, x)
            /\ Where(postgres.keys \cup {row}, x) = Where(postgres.keys, x)
        BY <3>1, <4>1
      <4>. QED BY <1>b, <2>2, <4>2 DEF KeysSame, OnlyKeys
    <3>4. /\ Keys(s.db.keys) = Keys(sqlite.keys) \cup {k}
          /\ Keys(p.db.keys) = Keys(postgres.keys) \cup {k}
          /\ Keys(m.db.keys) = Keys(memory.keys) /\ k \notin KeyId
      BY <2>2, <3>2, RecordStoresAssumption DEF OnlyKeys
    <3>. QED BY <1>b, <2>1, <3>3, <3>4 DEF KeysSame
  <2>9. PairsSame(m.db, s.db, p.db, apart') /\ Refer(m.db, s.db, p.db, apart')
    BY <1>b, <2>1, <2>2 DEF PairsSame, Refer, OnlyKeys
  <2>. QED BY <1>a, <2>1, <2>2, <2>7, <2>8, <2>9, CallRecords DEF RecordsAlike, RecordKey, OnlyKeys
<1>5. ASSUME NEW k \in KeyId, NEW v \in Content, StoreKey(k, v)
      PROVE  RecordsSound'
  <2>. DEFINE row == Row(k, v)
              m == MemoryStoreKey(memory, row)
              s == SqliteStoreKey(sqlite, row)
              p == PostgresStoreKey(postgres, row)
  <2>1. Call(m, s, p) /\ UNCHANGED <<issued, spent>> /\ apart' = apart \cup ({k} \cap Keys(sqlite.keys))
    BY <1>5 DEF StoreKey, MayDiffer
  <2>2. /\ row.key = k
        /\ OnlyKeys(memory, m.db, Upsert(memory.keys, row), memory.default)
        /\ OnlyKeys(sqlite, s.db,
                    IF k \in Keys(sqlite.keys) THEN sqlite.keys ELSE sqlite.keys \cup {row},
                    sqlite.default)
        /\ OnlyKeys(postgres, p.db, Upsert(postgres.keys, row), postgres.default)
    BY <1>a, NewRecordRows, KeyWrites
  <2>. HIDE DEF row, m, s, p
  <2>7. ClientsSame(m.db, s.db, p.db, issued', apart')
    BY <1>b, <2>1, <2>2 DEF ClientsSame, OnlyKeys
  <2>8. KeysSame(m.db, s.db, p.db, apart')
    <3>1. /\ Keys(m.db.keys) = Keys(memory.keys) \cup {k}
          /\ Keys(s.db.keys) = Keys(sqlite.keys) \cup {k}
          /\ Keys(p.db.keys) = Keys(postgres.keys) \cup {k}
      <4>1. /\ Keys(Upsert(memory.keys, row)) = Keys(memory.keys) \cup {k}
            /\ Keys(Upsert(postgres.keys, row)) = Keys(postgres.keys) \cup {k}
        BY <2>2, WhereUpsert
      <4>2. Keys(sqlite.keys \cup {row}) = Keys(sqlite.keys) \cup {k}
        BY <2>2 DEF Keys
      <4>. QED BY <2>2, <4>1, <4>2 DEF OnlyKeys
    <3>2. ASSUME NEW x \in KeyId \ apart'
          PROVE  /\ Where(m.db.keys, x) = Where(s.db.keys, x)
                 /\ Where(m.db.keys, x) = Where(p.db.keys, x)
      <4>1. CASE x # k
        <5>1. /\ Where(m.db.keys, x) = Where(memory.keys, x)
              /\ Where(p.db.keys, x) = Where(postgres.keys, x)
          BY <2>2, <4>1, WhereUpsert DEF OnlyKeys
        <5>2. Where(s.db.keys, x) = Where(sqlite.keys, x)
          BY <2>2, <4>1 DEF OnlyKeys, Where
        <5>. QED BY <1>b, <2>1, <5>1, <5>2 DEF KeysSame
      <4>2. CASE x = k
        <5>1. k \notin Keys(sqlite.keys)
          BY <2>1, <4>2
        <5>2. Where(m.db.keys, k) = {row} /\ Where(p.db.keys, k) = {row}
          BY <2>2, WhereUpsert DEF OnlyKeys
        <5>3. Where(s.db.keys, k) = {row}
          BY <2>2, <5>1 DEF OnlyKeys, Where, Keys
        <5>. QED BY <4>2, <5>2, <5>3
      <4>. QED BY <4>1, <4>2
    <3>. QED BY <1>b, <3>1, <3>2 DEF KeysSame
  <2>9. PairsSame(m.db, s.db, p.db, apart') /\ Refer(m.db, s.db, p.db, apart')
    BY <1>b, <2>1, <2>2 DEF PairsSame, Refer, OnlyKeys
  <2>. QED BY <1>a, <2>1, <2>2, <2>7, <2>8, <2>9, CallRecords DEF RecordsAlike, RecordKey, OnlyKeys
<1>6. ASSUME NEW q \in Pair, DeleteAppPassword(q)
      PROVE  RecordsSound'
  <2>. DEFINE m == Reply(DropPair(memory, q), {})
              s == Reply(DropPair(sqlite, q), {})
              p == Reply(DropPair(postgres, q), {})
  <2>1. Call(m, s, p) /\ UNCHANGED <<issued, spent, apart>>
    BY <1>6 DEF DeleteAppPassword, recordHistory, MemoryDeletePassword,
       SqliteDeletePassword, PostgresDeletePassword
  <2>2. /\ OnlyPairs(memory, m.db, Without(memory.passwords, q), Without(memory.appSessions, q))
        /\ OnlyPairs(sqlite, s.db, Without(sqlite.passwords, q), Without(sqlite.appSessions, q))
        /\ OnlyPairs(postgres, p.db, Without(postgres.passwords, q), Without(postgres.appSessions, q))
    BY <1>a, PairRemovals DEF Reply
  <2>. HIDE DEF m, s, p
  <2>5. \A t, x : Where(Without(t, q), x) = IF x = q THEN {} ELSE Where(t, x)
    BY WhereWithout
  <2>6. \A t : Keys(Without(t, q)) = Keys(t) \ {q}
    BY WhereWithout
  <2>7. PairsSame(m.db, s.db, p.db, apart')
    <3>. SUFFICES ASSUME NEW x \in Pair \ apart'
                  PROVE  /\ Where(m.db.passwords, x) = Where(s.db.passwords, x)
                         /\ Where(m.db.passwords, x) = Where(p.db.passwords, x)
                         /\ Where(m.db.appSessions, x) = Where(s.db.appSessions, x)
                         /\ Where(m.db.appSessions, x) = Where(p.db.appSessions, x)
      BY DEF PairsSame
    <3>1. /\ Where(memory.passwords, x) = Where(sqlite.passwords, x)
          /\ Where(memory.passwords, x) = Where(postgres.passwords, x)
          /\ Where(memory.appSessions, x) = Where(sqlite.appSessions, x)
          /\ Where(memory.appSessions, x) = Where(postgres.appSessions, x)
      BY <1>b, <2>1 DEF PairsSame
    <3>2. /\ Where(m.db.passwords, x) = IF x = q THEN {} ELSE Where(memory.passwords, x)
          /\ Where(s.db.passwords, x) = IF x = q THEN {} ELSE Where(sqlite.passwords, x)
          /\ Where(p.db.passwords, x) = IF x = q THEN {} ELSE Where(postgres.passwords, x)
          /\ Where(m.db.appSessions, x) = IF x = q THEN {} ELSE Where(memory.appSessions, x)
          /\ Where(s.db.appSessions, x) = IF x = q THEN {} ELSE Where(sqlite.appSessions, x)
          /\ Where(p.db.appSessions, x) = IF x = q THEN {} ELSE Where(postgres.appSessions, x)
      BY <2>2, <2>5 DEF OnlyPairs
    <3>. QED BY <3>1, <3>2
  <2>8. Refer(m.db, s.db, p.db, apart')
    BY <1>b, <2>1, <2>2, <2>6 DEF Refer, OnlyPairs
  <2>9. ClientsSame(m.db, s.db, p.db, issued', apart')
        /\ KeysSame(m.db, s.db, p.db, apart')
    BY <1>b, <2>1, <2>2 DEF ClientsSame, KeysSame, OnlyPairs
  <2>. QED BY <1>a, <2>1, <2>2, <2>7, <2>8, <2>9, CallRecords DEF RecordsAlike, RecordKey, OnlyPairs
<1>7. ASSUME NEW q \in Pair, DeleteAppPasswordSessions(q)
      PROVE  RecordsSound'
  <2>. DEFINE m == MemoryDeleteAppSession(memory, q)
              s == SqliteDeleteAppSession(sqlite, q)
              p == PostgresDeleteAppSession(postgres, q)
  <2>1. Call(m, s, p) /\ UNCHANGED <<issued, spent, apart>>
    BY <1>7 DEF DeleteAppPasswordSessions, recordHistory
  <2>2. /\ OnlyPairs(memory, m.db, memory.passwords, Without(memory.appSessions, q))
        /\ OnlyPairs(sqlite, s.db, sqlite.passwords, Without(sqlite.appSessions, q))
        /\ OnlyPairs(postgres, p.db, postgres.passwords, Without(postgres.appSessions, q))
    BY <1>a, PairRemovals DEF Reply, MemoryDeleteAppSession, SqliteDeleteAppSession,
       PostgresDeleteAppSession
  <2>. HIDE DEF m, s, p
  <2>5. \A t, x : Where(Without(t, q), x) = IF x = q THEN {} ELSE Where(t, x)
    BY WhereWithout
  <2>6. \A t : Keys(Without(t, q)) = Keys(t) \ {q}
    BY WhereWithout
  <2>7. PairsSame(m.db, s.db, p.db, apart')
    <3>. SUFFICES ASSUME NEW x \in Pair \ apart'
                  PROVE  /\ Where(m.db.passwords, x) = Where(s.db.passwords, x)
                         /\ Where(m.db.passwords, x) = Where(p.db.passwords, x)
                         /\ Where(m.db.appSessions, x) = Where(s.db.appSessions, x)
                         /\ Where(m.db.appSessions, x) = Where(p.db.appSessions, x)
      BY DEF PairsSame
    <3>1. /\ Where(memory.passwords, x) = Where(sqlite.passwords, x)
          /\ Where(memory.passwords, x) = Where(postgres.passwords, x)
          /\ Where(memory.appSessions, x) = Where(sqlite.appSessions, x)
          /\ Where(memory.appSessions, x) = Where(postgres.appSessions, x)
      BY <1>b, <2>1 DEF PairsSame
    <3>2. /\ Where(m.db.passwords, x) = Where(memory.passwords, x)
          /\ Where(s.db.passwords, x) = Where(sqlite.passwords, x)
          /\ Where(p.db.passwords, x) = Where(postgres.passwords, x)
          /\ Where(m.db.appSessions, x) = IF x = q THEN {} ELSE Where(memory.appSessions, x)
          /\ Where(s.db.appSessions, x) = IF x = q THEN {} ELSE Where(sqlite.appSessions, x)
          /\ Where(p.db.appSessions, x) = IF x = q THEN {} ELSE Where(postgres.appSessions, x)
      BY <2>2, <2>5 DEF OnlyPairs
    <3>. QED BY <3>1, <3>2
  <2>8. Refer(m.db, s.db, p.db, apart')
    BY <1>b, <2>1, <2>2, <2>6 DEF Refer, OnlyPairs
  <2>9. ClientsSame(m.db, s.db, p.db, issued', apart')
        /\ KeysSame(m.db, s.db, p.db, apart')
    BY <1>b, <2>1, <2>2 DEF ClientsSame, KeysSame, OnlyPairs
  <2>. QED BY <1>a, <2>1, <2>2, <2>7, <2>8, <2>9, CallRecords DEF RecordsAlike, RecordKey, OnlyPairs
<1>8. ASSUME NEW q \in Pair, NEW v \in Content, UpdateAppPasswordSession(q, v)
      PROVE  RecordsSound'
  <2>. DEFINE row == Row(q, v)
              m == ReplaceAppSession(memory, row)
              s == ReplaceAppSession(sqlite, row)
              p == ReplaceAppSession(postgres, row)
  <2>1. Call(m, s, p) /\ UNCHANGED <<issued, spent, apart>>
    BY <1>8 DEF UpdateAppPasswordSession, recordHistory, MemoryUpdateAppSession,
       SqliteUpdateAppSession, PostgresUpdateAppSession
  <2>2. /\ row.key = q
        /\ OnlyPairs(memory, m.db, memory.passwords, Exchanged(memory.appSessions, row))
        /\ OnlyPairs(sqlite, s.db, sqlite.passwords, Exchanged(sqlite.appSessions, row))
        /\ OnlyPairs(postgres, p.db, postgres.passwords, Exchanged(postgres.appSessions, row))
    BY <1>a, NewRecordRows, PairWrites
  <2>. HIDE DEF row, m, s, p
  <2>5. \A t, x : Where(Exchanged(t, row), x) =
                     IF x # q \/ Where(t, x) = {} THEN Where(t, x) ELSE {row}
    BY <2>2, WhereExchanged
  <2>6. \A t : Keys(Exchanged(t, row)) = Keys(t)
    BY WhereExchanged
  <2>7. PairsSame(m.db, s.db, p.db, apart')
    <3>. SUFFICES ASSUME NEW x \in Pair \ apart'
                  PROVE  /\ Where(m.db.passwords, x) = Where(s.db.passwords, x)
                         /\ Where(m.db.passwords, x) = Where(p.db.passwords, x)
                         /\ Where(m.db.appSessions, x) = Where(s.db.appSessions, x)
                         /\ Where(m.db.appSessions, x) = Where(p.db.appSessions, x)
      BY DEF PairsSame
    <3>1. /\ Where(memory.passwords, x) = Where(sqlite.passwords, x)
          /\ Where(memory.passwords, x) = Where(postgres.passwords, x)
          /\ Where(memory.appSessions, x) = Where(sqlite.appSessions, x)
          /\ Where(memory.appSessions, x) = Where(postgres.appSessions, x)
      BY <1>b, <2>1 DEF PairsSame
    <3>2. /\ m.db.passwords = memory.passwords /\ s.db.passwords = sqlite.passwords
          /\ p.db.passwords = postgres.passwords
          /\ m.db.appSessions = Exchanged(memory.appSessions, row)
          /\ s.db.appSessions = Exchanged(sqlite.appSessions, row)
          /\ p.db.appSessions = Exchanged(postgres.appSessions, row)
      BY <2>2 DEF OnlyPairs
    <3>3. \A t : Where(Exchanged(t, row), x) =
                   IF x # q \/ Where(t, x) = {} THEN Where(t, x) ELSE {row}
      BY <2>5
    <3>4. /\ Where(Exchanged(memory.appSessions, row), x) =
                Where(Exchanged(sqlite.appSessions, row), x)
          /\ Where(Exchanged(memory.appSessions, row), x) =
                Where(Exchanged(postgres.appSessions, row), x)
      BY <3>1, <3>3
    <3>. QED BY <3>1, <3>2, <3>4
  <2>8. Refer(m.db, s.db, p.db, apart')
    BY <1>b, <2>1, <2>2, <2>6 DEF Refer, OnlyPairs
  <2>9. ClientsSame(m.db, s.db, p.db, issued', apart')
        /\ KeysSame(m.db, s.db, p.db, apart')
    BY <1>b, <2>1, <2>2 DEF ClientsSame, KeysSame, OnlyPairs
  <2>. QED BY <1>a, <2>1, <2>2, <2>7, <2>8, <2>9, CallRecords DEF RecordsAlike, RecordKey, OnlyPairs
<1>9. ASSUME NEW q \in Pair, NEW v \in Content, StoreAppPassword(q, v)
      PROVE  RecordsSound'
  <2>. DEFINE row == Row(q, v)
              m == Reply(PutPassword(memory, row), {})
              s == Reply(PutPassword(sqlite, row), {})
              p == PostgresStorePassword(postgres, row)
              linked == ClientOf(q) \in Keys(postgres.clients)
  <2>1. Call(m, s, p) /\ UNCHANGED <<issued, spent>> /\ apart' = apart \cup Orphan(q)
    BY <1>9 DEF StoreAppPassword, MayDiffer, MemoryStorePassword, SqliteStorePassword
  <2>2. /\ row.key = q
        /\ OnlyPairs(memory, m.db, Upsert(memory.passwords, row), memory.appSessions)
        /\ OnlyPairs(sqlite, s.db, Upsert(sqlite.passwords, row), sqlite.appSessions)
        /\ linked => OnlyPairs(postgres, p.db, Upsert(postgres.passwords, row), postgres.appSessions)
        /\ ~linked => OnlyPairs(postgres, p.db, postgres.passwords, postgres.appSessions)
    BY <1>a, NewRecordRows, PairWrites DEF Reply, PostgresStorePassword, Referring
  <2>. HIDE DEF row, m, s, p, linked
  <2>3. /\ linked => Orphan(q) = {} /\ ClientOf(q) \in Keys(postgres.clients)
        /\ ~linked => Orphan(q) = {q}
    BY DEF Orphan, linked
  <2>4. \A x \in {q} : x \in RecordKey
    BY DEF RecordKey
  <2>5. \A t, x : Where(Upsert(t, row), x) = IF x = q THEN {row} ELSE Where(t, x)
    BY <2>2, WhereUpsert
  <2>6. \A t : Keys(Upsert(t, row)) = Keys(t) \cup {q}
    BY <2>2, WhereUpsert
  <2>7. PairsSame(m.db, s.db, p.db, apart')
    <3>. SUFFICES ASSUME NEW x \in Pair \ apart'
                  PROVE  /\ Where(m.db.passwords, x) = Where(s.db.passwords, x)
                         /\ Where(m.db.passwords, x) = Where(p.db.passwords, x)
                         /\ Where(m.db.appSessions, x) = Where(s.db.appSessions, x)
                         /\ Where(m.db.appSessions, x) = Where(p.db.appSessions, x)
      BY DEF PairsSame
    <3>1. /\ Where(memory.passwords, x) = Where(sqlite.passwords, x)
          /\ Where(memory.passwords, x) = Where(postgres.passwords, x)
          /\ Where(memory.appSessions, x) = Where(sqlite.appSessions, x)
          /\ Where(memory.appSessions, x) = Where(postgres.appSessions, x)
      BY <1>b, <2>1 DEF PairsSame
    <3>2. /\ Where(m.db.passwords, x) = IF x = q THEN {row} ELSE Where(memory.passwords, x)
          /\ Where(s.db.passwords, x) = IF x = q THEN {row} ELSE Where(sqlite.passwords, x)
          /\ linked => Where(p.db.passwords, x) =
                         IF x = q THEN {row} ELSE Where(postgres.passwords, x)
          /\ ~linked => x # q /\ Where(p.db.passwords, x) = Where(postgres.passwords, x)
          /\ Where(m.db.appSessions, x) = Where(memory.appSessions, x)
          /\ Where(s.db.appSessions, x) = Where(sqlite.appSessions, x)
          /\ Where(p.db.appSessions, x) = Where(postgres.appSessions, x)
      BY <2>1, <2>2, <2>3, <2>5 DEF OnlyPairs
    <3>. QED BY <3>1, <3>2
  <2>8. Refer(m.db, s.db, p.db, apart')
    BY <1>b, <2>1, <2>2, <2>3, <2>6 DEF Refer, OnlyPairs
  <2>9. ClientsSame(m.db, s.db, p.db, issued', apart')
        /\ KeysSame(m.db, s.db, p.db, apart')
    BY <1>b, <2>1, <2>2 DEF ClientsSame, KeysSame, OnlyPairs
  <2>. QED BY <1>a, <2>1, <2>2, <2>3, <2>4, <2>7, <2>8, <2>9, CallRecords
    DEF RecordsAlike, OnlyPairs
<1>10. ASSUME NEW q \in Pair, NEW v \in Content, StoreAppPasswordSession(q, v)
      PROVE  RecordsSound'
  <2>. DEFINE row == Row(q, v)
              m == Reply(PutAppSession(memory, row), {})
              s == SqliteStoreAppSession(sqlite, row)
              p == PostgresStoreAppSession(postgres, row)
  <2>1. Call(m, s, p) /\ UNCHANGED <<issued, spent>> /\ apart' = apart \cup ({q} \ Keys(sqlite.passwords))
    BY <1>10 DEF StoreAppPasswordSession, MayDiffer, MemoryStoreAppSession
  <2>2. /\ row.key = q
        /\ OnlyPairs(memory, m.db, memory.passwords, Upsert(memory.appSessions, row))
        /\ q \in Keys(sqlite.passwords) =>
             OnlyPairs(sqlite, s.db, sqlite.passwords, Upsert(sqlite.appSessions, row))
        /\ q \notin Keys(sqlite.passwords) =>
             OnlyPairs(sqlite, s.db, sqlite.passwords, sqlite.appSessions)
        /\ q \in Keys(postgres.passwords) =>
             OnlyPairs(postgres, p.db, postgres.passwords, Upsert(postgres.appSessions, row))
        /\ q \notin Keys(postgres.passwords) =>
             OnlyPairs(postgres, p.db, postgres.passwords, postgres.appSessions)
    BY <1>a, NewRecordRows, PairWrites DEF Reply, SqliteStoreAppSession,
       PostgresStoreAppSession, Referring
  <2>. HIDE DEF row, m, s, p
  <2>a. /\ s.db.passwords = sqlite.passwords /\ p.db.passwords = postgres.passwords
        /\ s.db.appSessions = IF q \in Keys(sqlite.passwords) THEN Upsert(sqlite.appSessions, row)
                              ELSE sqlite.appSessions
        /\ p.db.appSessions = IF q \in Keys(postgres.passwords)
                              THEN Upsert(postgres.appSessions, row) ELSE postgres.appSessions
        /\ m.db.passwords = memory.passwords /\ m.db.appSessions = Upsert(memory.appSessions, row)
        /\ p.db.clients = postgres.clients
    BY <2>2 DEF OnlyPairs
  <2>3. \A x \in {q} : x \in RecordKey
    BY DEF RecordKey
  <2>4. ASSUME q \notin apart
        PROVE  /\ q \in Keys(sqlite.passwords) <=> q \in Keys(memory.passwords)
               /\ q \in Keys(sqlite.passwords) <=> q \in Keys(postgres.passwords)
    BY <1>b, <2>4, WhereKeys DEF PairsSame
  <2>5. \A t, x : Where(Upsert(t, row), x) = IF x = q THEN {row} ELSE Where(t, x)
    BY <2>2, WhereUpsert
  <2>6. \A t : Keys(Upsert(t, row)) = Keys(t) \cup {q}
    BY <2>2, WhereUpsert
  <2>7. PairsSame(m.db, s.db, p.db, apart')
    <3>. SUFFICES ASSUME NEW x \in Pair \ apart'
                  PROVE  /\ Where(m.db.passwords, x) = Where(s.db.passwords, x)
                         /\ Where(m.db.passwords, x) = Where(p.db.passwords, x)
                         /\ Where(m.db.appSessions, x) = Where(s.db.appSessions, x)
                         /\ Where(m.db.appSessions, x) = Where(p.db.appSessions, x)
      BY DEF PairsSame
    <3>1. /\ Where(memory.passwords, x) = Where(sqlite.passwords, x)
          /\ Where(memory.passwords, x) = Where(postgres.passwords, x)
          /\ Where(memory.appSessions, x) = Where(sqlite.appSessions, x)
          /\ Where(memory.appSessions, x) = Where(postgres.appSessions, x)
      BY <1>b, <2>1 DEF PairsSame
    <3>2. CASE x = q
      <4>1. q \in Keys(sqlite.passwords) /\ q \in Keys(postgres.passwords)
        BY <2>1, <2>4, <3>2
      <4>. QED BY <2>a, <2>5, <3>1, <3>2, <4>1
    <3>3. CASE x # q
      BY <2>a, <2>5, <3>1, <3>3
    <3>. QED BY <3>2, <3>3
  <2>8. Refer(m.db, s.db, p.db, apart')
    <3>1. /\ Keys(s.db.appSessions) \subseteq Keys(s.db.passwords)
          /\ Keys(p.db.appSessions) \subseteq Keys(p.db.passwords)
      BY <1>b, <2>a, <2>6 DEF Refer
    <3>2. Keys(m.db.appSessions) \ apart' \subseteq Keys(m.db.passwords)
      BY <1>b, <2>1, <2>4, <2>a, <2>6 DEF Refer
    <3>. QED BY <1>b, <2>a, <3>1, <3>2 DEF Refer
  <2>9. ClientsSame(m.db, s.db, p.db, issued', apart')
        /\ KeysSame(m.db, s.db, p.db, apart')
    BY <1>b, <2>1, <2>2 DEF ClientsSame, KeysSame, OnlyPairs
  <2>. QED BY <1>a, <2>1, <2>2, <2>3, <2>7, <2>8, <2>9, CallRecords DEF RecordsAlike, OnlyPairs
<1>11. ASSUME NEW q \in Pair, NEW v \in Content, NEW w \in Content,
              UpsertAppPasswordWithSession(q, v, w)
      PROVE  RecordsSound'
  <2>. DEFINE row == Row(q, v)
              new == Row(q, w)
              m == Reply(PutAppSession(PutPassword(memory, row), new), {})
              s == Reply(PutAppSession(PutPassword(sqlite, row), new), {})
              p == PostgresUpsertPassword(postgres, row, new)
              linked == ClientOf(q) \in Keys(postgres.clients)
  <2>1. Call(m, s, p) /\ UNCHANGED <<issued, spent>> /\ apart' = apart \cup Orphan(q)
    BY <1>11 DEF UpsertAppPasswordWithSession, MayDiffer, MemoryUpsertPassword, SqliteUpsertPassword
  <2>2. /\ row.key = q /\ new.key = q
        /\ OnlyPairs(memory, m.db, Upsert(memory.passwords, row), Upsert(memory.appSessions, new))
        /\ OnlyPairs(sqlite, s.db, Upsert(sqlite.passwords, row), Upsert(sqlite.appSessions, new))
        /\ linked => OnlyPairs(postgres, p.db, Upsert(postgres.passwords, row),
                               Upsert(postgres.appSessions, new))
        /\ ~linked => OnlyPairs(postgres, p.db, postgres.passwords, postgres.appSessions)
    BY <1>a, NewRecordRows, PairWrites DEF Reply, PostgresUpsertPassword, Referring
  <2>. HIDE DEF row, new, m, s, p, linked
  <2>3. /\ linked => Orphan(q) = {} /\ ClientOf(q) \in Keys(postgres.clients)
        /\ ~linked => Orphan(q) = {q}
    BY DEF Orphan, linked
  <2>4. \A x \in {q} : x \in RecordKey
    BY DEF RecordKey
  <2>5. \A t : Where(Upsert(t, row), q) = {row} /\ Where(Upsert(t, new), q) = {new}
    BY <2>2, WhereUpsert
  <2>a. \A t, x : x # q => /\ Where(Upsert(t, row), x) = Where(t, x)
                           /\ Where(Upsert(t, new), x) = Where(t, x)
    BY <2>2, WhereUpsert
  <2>6. \A t : Keys(Upsert(t, new)) = Keys(t) \cup {q} /\ Keys(Upsert(t, row)) = Keys(t) \cup {q}
    BY <2>2, WhereUpsert
  <2>7. PairsSame(m.db, s.db, p.db, apart')
    <3>. SUFFICES ASSUME NEW x \in Pair \ apart'
                  PROVE  /\ Where(m.db.passwords, x) = Where(s.db.passwords, x)
                         /\ Where(m.db.passwords, x) = Where(p.db.passwords, x)
                         /\ Where(m.db.appSessions, x) = Where(s.db.appSessions, x)
                         /\ Where(m.db.appSessions, x) = Where(p.db.appSessions, x)
      BY DEF PairsSame
    <3>1. /\ Where(memory.passwords, x) = Where(sqlite.passwords, x)
          /\ Where(memory.passwords, x) = Where(postgres.passwords, x)
          /\ Where(memory.appSessions, x) = Where(sqlite.appSessions, x)
          /\ Where(memory.appSessions, x) = Where(postgres.appSessions, x)
      BY <1>b, <2>1 DEF PairsSame
    <3>2. /\ m.db.passwords = Upsert(memory.passwords, row)
          /\ s.db.passwords = Upsert(sqlite.passwords, row)
          /\ m.db.appSessions = Upsert(memory.appSessions, new)
          /\ s.db.appSessions = Upsert(sqlite.appSessions, new)
      BY <2>2 DEF OnlyPairs
    <3>3. CASE linked
      <4>1. /\ p.db.passwords = Upsert(postgres.passwords, row)
            /\ p.db.appSessions = Upsert(postgres.appSessions, new)
        BY <2>2, <3>3 DEF OnlyPairs
      <4>2. CASE x = q
        BY <2>5, <3>2, <4>1, <4>2
      <4>3. CASE x # q
        BY <2>a, <3>1, <3>2, <4>1, <4>3
      <4>. QED BY <4>2, <4>3
    <3>4. CASE ~linked
      <4>1. x # q /\ p.db.passwords = postgres.passwords
            /\ p.db.appSessions = postgres.appSessions
        BY <2>1, <2>2, <2>3, <3>4 DEF OnlyPairs
      <4>. QED BY <2>a, <3>1, <3>2, <4>1
    <3>. QED BY <3>3, <3>4
  <2>8. Refer(m.db, s.db, p.db, apart')
    BY <1>b, <2>1, <2>2, <2>3, <2>6 DEF Refer, OnlyPairs
  <2>9. ClientsSame(m.db, s.db, p.db, issued', apart')
        /\ KeysSame(m.db, s.db, p.db, apart')
    BY <1>b, <2>1, <2>2 DEF ClientsSame, KeysSame, OnlyPairs
  <2>. QED BY <1>a, <2>1, <2>2, <2>3, <2>4, <2>7, <2>8, <2>9, CallRecords
              DEF RecordsAlike, OnlyPairs
<1>. QED BY <1>1, <1>2, <1>3, <1>4, <1>5, <1>6, <1>7, <1>8, <1>9, <1>10, <1>11
  DEF RecordCall, KeyCall

LEMMA SoundRecordsAgree ==
    ASSUME RecordsSound
    PROVE  RecordsAgree
<1>. USE DEF Reply
<1>. DEFINE memory == db.memory
            sqlite == db.sqlite
            postgres == db.postgres
            Open(t) == {x \in t : x.key \notin apart}
<1>a. /\ ClientsSame(memory, sqlite, postgres, issued, apart)
      /\ KeysSame(memory, sqlite, postgres, apart)
      /\ PairsSame(memory, sqlite, postgres, apart) /\ Refer(memory, sqlite, postgres, apart)
  BY DEF RecordsSound, RecordsAlike
<1>b. \A d \in {memory, sqlite, postgres} :
        d.passwords \subseteq PasswordRow /\ d.appSessions \subseteq AppSessionRow
  BY RecordsNow, RecordTable DEF RecordsSound
<1>1. ClientsAgree
  <2>1. \A c \in Client \ apart :
           /\ Where(memory.clients, c) = Where(sqlite.clients, c)
           /\ PlainRows(Where(sqlite.clients, c)) = PlainRows(Where(postgres.clients, c))
    BY <1>a DEF ClientsSame
  <2>2. /\ memory.clients \subseteq ClientRow /\ sqlite.clients \subseteq ClientRow
        /\ postgres.clients \subseteq ClientRow
    BY RecordsNow, RecordTable DEF RecordsSound
  <2>3. \A r \in ClientRow : Plain(r).key = r.key
    BY DEF Plain, ClientRow
  <2>4. /\ Open(memory.clients) = Open(sqlite.clients)
        /\ PlainRows(Open(sqlite.clients)) = PlainRows(Open(postgres.clients))
    <3>1. Open(memory.clients) = Open(sqlite.clients)
      BY <2>1, <2>2 DEF Where, ClientRow
    <3>2. ASSUME NEW t \in SUBSET ClientRow, NEW x
          PROVE  x \in PlainRows(Open(t)) <=>
                    \E c \in Client \ apart : x \in PlainRows(Where(t, c))
      BY DEF PlainRows, Where, ClientRow
    <3>3. ASSUME NEW x
          PROVE  x \in PlainRows(Open(sqlite.clients)) <=> x \in PlainRows(Open(postgres.clients))
      <4>1. \A c \in Client \ apart : x \in PlainRows(Where(sqlite.clients, c)) <=>
                                         x \in PlainRows(Where(postgres.clients, c))
        BY <2>1
      <4>2. x \in PlainRows(Open(sqlite.clients)) <=>
               \E c \in Client \ apart : x \in PlainRows(Where(sqlite.clients, c))
        BY <2>2, <3>2
      <4>3. x \in PlainRows(Open(postgres.clients)) <=>
               \E c \in Client \ apart : x \in PlainRows(Where(postgres.clients, c))
        BY <2>2, <3>2
      <4>. QED BY <4>1, <4>2, <4>3
    <3>. HIDE DEF Open
    <3>4. \A A, B : (\A x : x \in PlainRows(A) <=> x \in PlainRows(B)) => PlainRows(A) = PlainRows(B)
      BY DEF PlainRows
    <3>. QED BY <3>1, <3>3, <3>4
  <2>5. ASSUME NEW m, NEW s, NEW p, Open(m.answer) = Open(s.answer),
               s.answer \in SUBSET ClientRow, p.answer \in SUBSET ClientRow,
               PlainRows(Open(s.answer)) = PlainRows(Open(p.answer))
        PROVE  SameClients(m, s, p)
    <3>1. Shown(m) = Shown(s)
      BY <2>5 DEF Shown
    <3>2. ASSUME NEW reply, reply.answer \in SUBSET ClientRow
          PROVE  Shown(Settings(reply)) = {<<r.key, r.value>> : r \in PlainRows(Open(reply.answer))}
      <4>1. Settings(reply).answer = PlainRows(reply.answer)
        BY DEF Settings, PlainRows, Plain
      <4>2. {x \in PlainRows(reply.answer) : x.key \notin apart} = PlainRows(Open(reply.answer))
        BY <2>3, <3>2 DEF PlainRows
      <4>. QED BY <4>1, <4>2 DEF Shown
    <3>3. Shown(Settings(s)) = Shown(Settings(p))
      BY <2>5, <3>2
    <3>. QED BY <3>1, <3>3 DEF SameClients
  <2>6. ASSUME NEW c \in Client
        PROVE  SameClients(MemoryGetClient(memory, c), SqliteGetClient(sqlite, c),
                           PostgresGetClient(postgres, c))
    <3>1. /\ MemoryGetClient(memory, c).answer = Where(memory.clients, c)
          /\ SqliteGetClient(sqlite, c).answer = Where(sqlite.clients, c)
          /\ PostgresGetClient(postgres, c).answer = Where(postgres.clients, c)
      BY DEF MemoryGetClient, SqliteGetClient, PostgresGetClient
    <3>2. \A t : Open(Where(t, c)) = IF c \in apart THEN {} ELSE Where(t, c)
      BY DEF Where
    <3>3. /\ Where(sqlite.clients, c) \in SUBSET ClientRow
          /\ Where(postgres.clients, c) \in SUBSET ClientRow
      BY <2>2 DEF Where
    <3>. HIDE DEF Open
    <3>4. /\ Open(Where(memory.clients, c)) = Open(Where(sqlite.clients, c))
          /\ PlainRows(Open(Where(sqlite.clients, c))) = PlainRows(Open(Where(postgres.clients, c)))
      BY <2>1, <3>2
    <3>. QED BY <2>5, <3>1, <3>3, <3>4
  <2>7. ASSUME NEW c \in Client \ apart
        PROVE  SqliteDeleteClient(sqlite, c, FALSE).answer =
                  PostgresDeleteClient(postgres, c, FALSE).answer
    <3>1. Where(sqlite.clients, c) = {} <=> Where(postgres.clients, c) = {}
      BY <2>1 DEF PlainRows
    <3>. QED BY <3>1 DEF SqliteDeleteClient, PostgresDeleteClient, IfRow
  <2>8. SameClients(MemoryListClients(memory), SqliteListClients(sqlite), PostgresListClients(postgres))
    BY <2>2, <2>4, <2>5 DEF MemoryListClients, SqliteListClients, PostgresListClients
  <2>. QED BY <2>6, <2>7, <2>8 DEF ClientsAgree
<1>2. KeysAgree
  <2>1. Same(MemoryGetSigningKey(memory), SqliteGetSigningKey(sqlite),
             PostgresGetSigningKey(postgres))
    BY <1>a, EqualSame DEF ClientsSame, MemoryGetSigningKey, SqliteGetSigningKey,
       PostgresGetSigningKey
  <2>2. ASSUME NEW k \in KeyId
        PROVE  Same(MemoryGetKey(memory, k), SqliteGetKey(sqlite, k), PostgresGetKey(postgres, k))
    <3>1. CASE k \in apart
      <4>1. /\ Open(MemoryGetKey(memory, k).answer) = {}
            /\ Open(SqliteGetKey(sqlite, k).answer) = {}
            /\ Open(PostgresGetKey(postgres, k).answer) = {}
        BY <3>1 DEF MemoryGetKey, SqliteGetKey, PostgresGetKey, Where
      <4>. QED BY <4>1, ShownSame
    <3>2. CASE k \notin apart
      BY <1>a, <3>2, EqualSame DEF KeysSame, MemoryGetKey, SqliteGetKey, PostgresGetKey
    <3>. QED BY <3>1, <3>2
  <2>3. /\ SqliteListKeyIds(sqlite) = PostgresListKeyIds(postgres)
        /\ MemoryListKeyIds(memory) = SqliteListKeyIds(sqlite) \cap KeyId
    BY <1>a DEF KeysSame, SqliteListKeyIds, PostgresListKeyIds, MemoryListKeyIds
  <2>. QED BY <2>1, <2>2, <2>3 DEF KeysAgree
<1>3. PasswordsAgree
  <2>1. /\ Open(memory.passwords) = Open(sqlite.passwords)
        /\ Open(memory.passwords) = Open(postgres.passwords)
    BY <1>a, <1>b DEF PairsSame, Where, PasswordRow
  <2>2. /\ Open(memory.appSessions) = Open(sqlite.appSessions)
        /\ Open(memory.appSessions) = Open(postgres.appSessions)
    BY <1>a, <1>b DEF PairsSame, Where, AppSessionRow
  <2>3. ASSUME NEW q \in Pair
        PROVE  /\ Same(MemoryGetPassword(memory, q), SqliteGetPassword(sqlite, q),
                       PostgresGetPassword(postgres, q))
               /\ Same(MemoryGetAppSession(memory, q), SqliteGetAppSession(sqlite, q),
                       PostgresGetAppSession(postgres, q))
    <3>1. Same(MemoryGetPassword(memory, q), SqliteGetPassword(sqlite, q),
               PostgresGetPassword(postgres, q))
      BY <2>1, ShownSame DEF MemoryGetPassword, SqliteGetPassword, PostgresGetPassword, Where
    <3>2. Same(MemoryGetAppSession(memory, q), SqliteGetAppSession(sqlite, q),
               PostgresGetAppSession(postgres, q))
      BY <2>2, ShownSame DEF MemoryGetAppSession, SqliteGetAppSession, PostgresGetAppSession, Where
    <3>. QED BY <3>1, <3>2
  <2>4. ASSUME NEW u \in Holder
        PROVE  /\ Same(MemoryPasswordsOfUser(memory, u), SqlitePasswordsOfUser(sqlite, u),
                       PostgresPasswordsOfUser(postgres, u))
               /\ Same(MemoryAppSessionsOfUser(memory, u), SqliteAppSessionsOfUser(sqlite, u),
                       PostgresAppSessionsOfUser(postgres, u))
    <3>1. Same(MemoryPasswordsOfUser(memory, u), SqlitePasswordsOfUser(sqlite, u),
               PostgresPasswordsOfUser(postgres, u))
      BY <2>1, ShownSame DEF MemoryPasswordsOfUser, SqlitePasswordsOfUser, PostgresPasswordsOfUser,
         OfUser
    <3>2. Same(MemoryAppSessionsOfUser(memory, u), SqliteAppSessionsOfUser(sqlite, u),
               PostgresAppSessionsOfUser(postgres, u))
      BY <2>2, ShownSame DEF MemoryAppSessionsOfUser, SqliteAppSessionsOfUser,
         PostgresAppSessionsOfUser, OfUser
    <3>. QED BY <3>1, <3>2
  <2>5. ASSUME NEW c \in Client
        PROVE  /\ Same(MemoryPasswordsOfClient(memory, c), SqlitePasswordsOfClient(sqlite, c),
                       PostgresPasswordsOfClient(postgres, c))
               /\ Same(MemoryAppSessionsOfClient(memory, c), SqliteAppSessionsOfClient(sqlite, c),
                       PostgresAppSessionsOfClient(postgres, c))
    <3>1. Same(MemoryPasswordsOfClient(memory, c), SqlitePasswordsOfClient(sqlite, c),
               PostgresPasswordsOfClient(postgres, c))
      BY <2>1, ShownSame DEF MemoryPasswordsOfClient, SqlitePasswordsOfClient,
         PostgresPasswordsOfClient, OfClient
    <3>2. Same(MemoryAppSessionsOfClient(memory, c), SqliteAppSessionsOfClient(sqlite, c),
               PostgresAppSessionsOfClient(postgres, c))
      BY <2>2, ShownSame DEF MemoryAppSessionsOfClient, SqliteAppSessionsOfClient,
         PostgresAppSessionsOfClient, OfClient
    <3>. QED BY <3>1, <3>2
  <2>. QED BY <2>3, <2>4, <2>5 DEF PasswordsAgree
<1>4. AppSessionsHavePasswords
  BY <1>a DEF Refer, AppSessionsHavePasswords
<1>. QED BY <1>1, <1>2, <1>3, <1>4 DEF RecordsAgree

-----------------------------------------------------------------------------
(* ATProtocol sessions. *)

SessionsTyped == StoreTypeOK(SessionTables, Session)

LEMMA SessionsNow ==
    ASSUME SessionsTyped
    PROVE  /\ now \in 0..MaxTime /\ issued \subseteq Session /\ apart \subseteq Session
           /\ db.memory \in SessionTables /\ db.sqlite \in SessionTables
           /\ db.postgres \in SessionTables
BY DEF SessionsTyped, StoreTypeOK, Backend

LEMMA SessionTable ==
    ASSUME NEW d \in SessionTables
    PROVE  /\ d.sessions \in SUBSET SessionRow
           /\ d.byState \in SUBSET [key : Session, iteration : Iteration]
           /\ d.byUser \in SUBSET [key : Session, did : Did, iteration : Iteration]
           /\ \A rows \in SUBSET SessionRow : [d EXCEPT !.sessions = rows] \in SessionTables
BY DEF SessionTables

LEMMA StoreSessionTyped ==
    ASSUME NEW d \in SessionTables, NEW row \in SessionRow
    PROVE  /\ MemoryStoreSession(d, row).db \in SessionTables
           /\ SqliteStoreSession(d, row).db \in SessionTables
           /\ PostgresStoreSession(d, row).db \in SessionTables
<1>1. /\ row.key \in Session /\ row.value.iteration \in Iteration
      /\ row.value.did \in Did \cup {None}
  BY DEF SessionRow, Held
<1>2. (d.sessions \ At(d.sessions, row.key, row.value.iteration)) \cup {row} \in SUBSET SessionRow
  BY SessionTable
<1>3. Without(d.sessions, row.key) \cup {row} \in SUBSET SessionRow
  BY SessionTable DEF Without
<1>4. Without(d.byState, row.key) \cup {[key |-> row.key, iteration |-> row.value.iteration]}
        \in SUBSET [key : Session, iteration : Iteration]
  BY <1>1, SessionTable DEF Without
<1>5. d.byUser \cup {[key |-> row.key, did |-> u, iteration |-> row.value.iteration] :
                        u \in {row.value.did} \ {None}}
        \in SUBSET [key : Session, did : Did, iteration : Iteration]
  BY <1>1, SessionTable
<1>6. MemoryStoreSession(d, row).db \in SessionTables
  BY <1>2, <1>4, <1>5 DEF MemoryStoreSession, Reply, SessionTables
<1>. QED BY <1>2, <1>3, <1>6, SessionTable DEF SqliteStoreSession, PostgresStoreSession, Reply

LEMMA ChangeTyped ==
    ASSUME NEW d \in SessionTables, NEW s, NEW found, NEW made \in SUBSET SessionRow
    PROVE  Change(d, s, found, made).db \in SessionTables
BY SessionTable DEF Change, Reply

LEMMA UpdateTyped ==
    ASSUME NEW d \in SessionTables, NEW s \in Session, NEW held \in Held, NEW u, NEW i,
           NEW t \in Token
    PROVE  /\ MemoryUpdateSession(d, s, held).db \in SessionTables
           /\ SqliteUpdateSession(d, s, held).db \in SessionTables
           /\ PostgresUpdateSession(d, s, held).db \in SessionTables
           /\ MemoryUpdateTokens(d, u, s, i, t).db \in SessionTables
           /\ SqliteUpdateTokens(d, u, s, i, t).db \in SessionTables
           /\ PostgresUpdateTokens(d, u, s, i, t).db \in SessionTables
<1>1. \A rows \in SUBSET SessionRow : Holding(rows, held) \in SUBSET SessionRow
  BY DEF Holding, SessionRow
<1>2. \A rows \in SUBSET SessionRow : WithToken(rows, t) \in SUBSET SessionRow
  BY DEF WithToken, SessionRow, Held
<1>3. \A rows \in SUBSET SessionRow :
        {[r EXCEPT !.value = [held EXCEPT !.error = r.value.error]] : r \in rows}
            \in SUBSET SessionRow
  BY DEF SessionRow, Held
<1>4. /\ \A j : At(d.sessions, s, j) \in SUBSET SessionRow
      /\ Of(d.sessions, u, s) \in SUBSET SessionRow
  BY SessionTable DEF At, Of, Where
<1>5. /\ MemoryUpdateSession(d, s, held).db \in SessionTables
      /\ SqliteUpdateSession(d, s, held).db \in SessionTables
  BY <1>1, <1>4, ChangeTyped DEF MemoryUpdateSession, SqliteUpdateSession
<1>6. PostgresUpdateSession(d, s, held).db \in SessionTables
  BY <1>3, <1>4, ChangeTyped DEF PostgresUpdateSession
<1>7. /\ MemoryUpdateTokens(d, u, s, i, t).db \in SessionTables
      /\ SqliteUpdateTokens(d, u, s, i, t).db \in SessionTables
      /\ PostgresUpdateTokens(d, u, s, i, t).db \in SessionTables
  BY <1>2, <1>4, ChangeTyped DEF MemoryUpdateTokens, SqliteUpdateTokens, PostgresUpdateTokens
<1>. QED BY <1>5, <1>6, <1>7

LEMMA RemoveTyped ==
    ASSUME NEW d \in SessionTables, NEW u, NEW s, NEW i
    PROVE  /\ MemoryRemoveSession(d, u, s, i).db \in SessionTables
           /\ SqliteRemoveSession(d, u, s, i).db \in SessionTables
           /\ PostgresRemoveSession(d, u, s, i).db \in SessionTables
<1>1. \A rows : d.sessions \ rows \in SUBSET SessionRow
  BY SessionTable
<1>2. /\ SqliteRemoveSession(d, u, s, i).db \in SessionTables
      /\ PostgresRemoveSession(d, u, s, i).db \in SessionTables
  BY <1>1, SessionTable DEF SqliteRemoveSession, PostgresRemoveSession, Reply
<1>3. MemoryRemoveSession(d, u, s, i).db \in SessionTables
  BY DEF MemoryRemoveSession, Reply, SessionTables, Without
<1>. QED BY <1>2, <1>3

LEMMA CleanupTyped ==
    ASSUME NEW d \in SessionTables, NEW time
    PROVE  /\ MemoryCleanupSessions(d, time).db \in SessionTables
           /\ SqliteCleanupSessions(d, time).db \in SessionTables
           /\ PostgresCleanupSessions(d, time).db \in SessionTables
<1>1. \A rows : d.sessions \ rows \in SUBSET SessionRow
  BY SessionTable
<1>2. /\ SqliteCleanupSessions(d, time).db \in SessionTables
      /\ PostgresCleanupSessions(d, time).db \in SessionTables
  BY <1>1, SessionTable DEF SqliteCleanupSessions, PostgresCleanupSessions, Reply
<1>3. MemoryCleanupSessions(d, time).db \in SessionTables
  BY DEF MemoryCleanupSessions, Reply, SessionTables
<1>. QED BY <1>2, <1>3

LEMMA NextSessionsTyped ==
    ASSUME SessionsTyped, SessionCall
    PROVE  SessionsTyped'
<1>. USE DEF SessionsTyped
<1>a. /\ now \in Time /\ issued \subseteq Session /\ apart \subseteq Session
      /\ db.memory \in SessionTables /\ db.sqlite \in SessionTables /\ db.postgres \in SessionTables
  BY SessionsNow, StoreCallsAssumption DEF Time, Never
<1>b. \A s \in Session : \A r \in All(s) : r \in SessionRow /\ r.key = s
  BY <1>a, SessionTable DEF All, Where
<1>1. ASSUME NEW s \in Session, NEW held \in Held, StoreSession(s, held) PROVE SessionsTyped'
  <2>1. PICK created \in IF All(s) = {} THEN {now} ELSE {r.created : r \in All(s)} :
           LET row == [key |-> s, value |-> held, created |-> created]
           IN  Call(MemoryStoreSession(db.memory, row), SqliteStoreSession(db.sqlite, row),
                    PostgresStoreSession(db.postgres, row))
    BY <1>1 DEF StoreSession
  <2>2. [key |-> s, value |-> held, created |-> created] \in SessionRow
    BY <1>a, <1>b DEF SessionRow
  <2>3. UNCHANGED spent /\ issued' \subseteq Session /\ apart' \subseteq Session
    BY <1>1, <1>a DEF StoreSession, MayDiffer
  <2>. QED BY <1>a, <2>1, <2>2, <2>3, StoreSessionTyped, CallKeepsTypes
<1>2. ASSUME NEW s \in Session, NEW held \in Held, UpdateSession(s, held) PROVE SessionsTyped'
  <2>1. PICK t : t \in Token
    BY DEF Held
  <2>2. UNCHANGED spent /\ issued' \subseteq Session /\ apart' \subseteq Session
    BY <1>2, <1>a, <1>b DEF UpdateSession, MayDiffer
  <2>3. Call(MemoryUpdateSession(db.memory, s, held), SqliteUpdateSession(db.sqlite, s, held),
             PostgresUpdateSession(db.postgres, s, held))
    BY <1>2 DEF UpdateSession
  <2>. QED BY <1>a, <2>1, <2>2, <2>3, UpdateTyped, CallKeepsTypes
<1>3. ASSUME NEW u \in Did, NEW s \in Session, NEW i \in Iteration, NEW t \in Token,
             UpdateSessionTokens(u, s, i, t)
      PROVE  SessionsTyped'
  <2>1. PICK held : held \in Held
    <3>1. [iteration |-> i, did |-> u, token |-> t, error |-> FALSE] \in Held
      BY DEF Held
    <3>. QED BY <3>1
  <2>2. UNCHANGED spent /\ issued' \subseteq Session /\ apart' \subseteq Session
    BY <1>3, <1>a DEF UpdateSessionTokens, MayDiffer
  <2>3. Call(MemoryUpdateTokens(db.memory, u, s, i, t), SqliteUpdateTokens(db.sqlite, u, s, i, t),
             PostgresUpdateTokens(db.postgres, u, s, i, t))
    BY <1>3 DEF UpdateSessionTokens
  <2>. QED BY <1>a, <2>1, <2>2, <2>3, UpdateTyped, CallKeepsTypes
<1>4. ASSUME NEW u \in Did, NEW s \in Session, NEW i \in Iteration, RemoveSession(u, s, i)
      PROVE  SessionsTyped'
  <2>1. UNCHANGED spent /\ issued' \subseteq Session /\ apart' \subseteq Session
    BY <1>4, <1>a DEF RemoveSession, MayDiffer
  <2>2. Call(MemoryRemoveSession(db.memory, u, s, i), SqliteRemoveSession(db.sqlite, u, s, i),
             PostgresRemoveSession(db.postgres, u, s, i))
    BY <1>4 DEF RemoveSession
  <2>. QED BY <1>a, <2>1, <2>2, RemoveTyped, CallKeepsTypes
<1>5. ASSUME NEW time \in 1..now, CleanupOldSessions(time) PROVE SessionsTyped'
  <2>1. /\ UNCHANGED spent /\ issued' \subseteq Session /\ apart' \subseteq Session
        /\ Call(MemoryCleanupSessions(db.memory, time), SqliteCleanupSessions(db.sqlite, time),
                PostgresCleanupSessions(db.postgres, time))
    BY <1>5, <1>a DEF CleanupOldSessions
  <2>. QED BY <1>a, <2>1, CleanupTyped, CallKeepsTypes
<1>. QED BY <1>1, <1>2, <1>3, <1>4, <1>5 DEF SessionCall

(* The rows of one session. *)

OneLogin(rows) ==
    /\ IsFiniteSet(rows)
    /\ \A r, x \in rows : /\ r.value.iteration = x.value.iteration => r = x
                          /\ r.created = x.created

StateIndex(m, s, i) == [key |-> s, iteration |-> i] \in m.byState
UserIndex(m, s, u, i) == [key |-> s, did |-> u, iteration |-> i] \in m.byUser

Linked(m, s, rows) ==
    \A u \in Did, i \in Iteration :
        UserIndex(m, s, u, i) <=> \E r \in rows : r.value.iteration = i /\ r.value.did = u

\* t was stored last: SQLite has it alone, memory finds it by its state.
Last(m, kept, s, rows, t) ==
    /\ t \in rows /\ kept = {t}
    /\ \A r \in rows : r.value.iteration <= t.value.iteration /\ r.value.did \in {None, t.value.did}
    /\ \A i \in Iteration : StateIndex(m, s, i) <=> i = t.value.iteration

NoneLeft(m, kept, s, rows) ==
    rows = {} /\ kept = {} /\ \A i \in Iteration : ~StateIndex(m, s, i)

Corresponds(m, kept, s, rows) ==
    /\ OneLogin(rows) /\ Linked(m, s, rows)
    /\ NoneLeft(m, kept, s, rows) \/ \E t \in rows : Last(m, kept, s, rows, t)

SessionSame(m, q, p, s) ==
    /\ Where(m.sessions, s) = Where(p.sessions, s)
    /\ Corresponds(m, Where(q.sessions, s), s, Where(p.sessions, s))

SessionsSame(m, q, p, away) == \A s \in Session \ away : SessionSame(m, q, p, s)

\* What one backend has of a session is left as it was.
Untouched(d, e, s) ==
    /\ Where(e.sessions, s) = Where(d.sessions, s)
    /\ \A i \in Iteration : StateIndex(e, s, i) <=> StateIndex(d, s, i)
    /\ \A u \in Did, i \in Iteration : UserIndex(e, s, u, i) <=> UserIndex(d, s, u, i)

LEMMA UntouchedSame ==
    ASSUME NEW m, NEW q, NEW p, NEW m2, NEW q2, NEW p2, NEW s, SessionSame(m, q, p, s),
           Untouched(m, m2, s), Untouched(q, q2, s), Untouched(p, p2, s)
    PROVE  SessionSame(m2, q2, p2, s)
<1>. DEFINE rows == Where(p.sessions, s)
            kept == Where(q.sessions, s)
<1>1. /\ Where(m2.sessions, s) = rows /\ Where(p2.sessions, s) = rows
      /\ Where(q2.sessions, s) = kept /\ Corresponds(m, kept, s, rows)
  BY DEF SessionSame, Untouched
<1>. HIDE DEF rows, kept
<1>2. Linked(m, s, rows) => Linked(m2, s, rows)
  BY DEF Linked, Untouched
<1>3. NoneLeft(m, kept, s, rows) => NoneLeft(m2, kept, s, rows)
  BY DEF NoneLeft, Untouched
<1>4. \A t : Last(m, kept, s, rows, t) => Last(m2, kept, s, rows, t)
  BY DEF Last, Untouched
<1>5. Corresponds(m2, kept, s, rows)
  BY <1>1, <1>2, <1>3, <1>4 DEF Corresponds
<1>. QED BY <1>1, <1>5 DEF SessionSame

\* A backend's rows F of a session are replaced by the rows G; no index changes.
Swapped(d, e, s, F, G) ==
    /\ F \subseteq Where(d.sessions, s) /\ \A g \in G : g.key = s
    /\ e.sessions = (d.sessions \ F) \cup G

LEMMA SwappedRows ==
    ASSUME NEW d, NEW e, NEW s, NEW F, NEW G, Swapped(d, e, s, F, G)
    PROVE  /\ Where(e.sessions, s) = (Where(d.sessions, s) \ F) \cup G
           /\ \A x : x # s => Where(e.sessions, x) = Where(d.sessions, x)
<1>. DEFINE S == d.sessions
            T == e.sessions
<1>1. F \subseteq Where(S, s) /\ (\A g \in G : g.key = s) /\ T = (S \ F) \cup G
  BY DEF Swapped
<1>. HIDE DEF S, T
<1>2. Where(T, s) = (Where(S, s) \ F) \cup G
  BY <1>1 DEF Where
<1>3. \A x : x # s => Where(T, x) = Where(S, x)
  BY <1>1 DEF Where
<1>. QED BY <1>2, <1>3 DEF S, T

LEMMA SwapTouches ==
    ASSUME NEW d, NEW e, NEW s, NEW F, NEW G, Swapped(d, e, s, F, G),
           e.byState = d.byState, e.byUser = d.byUser
    PROVE  \A x : x # s => Untouched(d, e, x)
BY SwappedRows DEF Untouched, StateIndex, UserIndex

LEMMA StoreTouches ==
    ASSUME NEW d \in SessionTables, NEW row \in SessionRow
    PROVE  LET i == row.value.iteration
               s == row.key
               m == MemoryStoreSession(d, row).db
               q == SqliteStoreSession(d, row).db
               p == PostgresStoreSession(d, row).db
           IN  /\ Where(m.sessions, s) = (Where(d.sessions, s) \ At(d.sessions, s, i)) \cup {row}
               /\ Where(p.sessions, s) = (Where(d.sessions, s) \ At(d.sessions, s, i)) \cup {row}
               /\ Where(q.sessions, s) = {row}
               /\ \A j \in Iteration : StateIndex(m, s, j) <=> j = i
               /\ \A u \in Did, j \in Iteration :
                    UserIndex(m, s, u, j) <=> \/ UserIndex(d, s, u, j)
                                              \/ u = row.value.did /\ u # None /\ j = i
               /\ \A x : x # s => Untouched(d, m, x) /\ Untouched(d, q, x) /\ Untouched(d, p, x)
<1>. DEFINE i == row.value.iteration
            s == row.key
            m == MemoryStoreSession(d, row).db
            q == SqliteStoreSession(d, row).db
            p == PostgresStoreSession(d, row).db
<1>1. /\ Swapped(d, p, s, At(d.sessions, s, i), {row})
      /\ p.byState = d.byState /\ p.byUser = d.byUser
  BY DEF PostgresStoreSession, Reply, SessionTables, Swapped, At
<1>2. /\ Swapped(d, q, s, Where(d.sessions, s), {row})
      /\ q.byState = d.byState /\ q.byUser = d.byUser
  <2>1. Without(d.sessions, s) = d.sessions \ Where(d.sessions, s)
    BY DEF Without, Where
  <2>. QED BY <2>1 DEF SqliteStoreSession, Reply, SessionTables, Swapped
<1>3. /\ m.sessions = (d.sessions \ At(d.sessions, s, i)) \cup {row}
      /\ m.byState = Without(d.byState, s) \cup {[key |-> s, iteration |-> i]}
      /\ m.byUser = d.byUser \cup {[key |-> s, did |-> u, iteration |-> i] :
                                      u \in {row.value.did} \ {None}}
  BY DEF MemoryStoreSession, Reply
<1>4. Swapped(d, m, s, At(d.sessions, s, i), {row})
  BY <1>3 DEF At, Swapped
<1>. HIDE DEF i, s, m, q, p
<1>5. /\ Where(p.sessions, s) = (Where(d.sessions, s) \ At(d.sessions, s, i)) \cup {row}
      /\ \A x : x # s => Untouched(d, p, x)
  BY <1>1, SwappedRows, SwapTouches
<1>6. /\ Where(q.sessions, s) = {row}
      /\ \A x : x # s => Untouched(d, q, x)
  <2>1. /\ Where(q.sessions, s) = (Where(d.sessions, s) \ Where(d.sessions, s)) \cup {row}
        /\ \A x : x # s => Untouched(d, q, x)
    BY <1>2, SwappedRows, SwapTouches
  <2>. QED BY <2>1
<1>7. /\ Where(m.sessions, s) = (Where(d.sessions, s) \ At(d.sessions, s, i)) \cup {row}
      /\ \A x : x # s => Where(m.sessions, x) = Where(d.sessions, x)
  BY <1>4, SwappedRows
<1>8. /\ \A j \in Iteration : StateIndex(m, s, j) <=> j = i
      /\ \A x : x # s => \A j \in Iteration : StateIndex(m, x, j) <=> StateIndex(d, x, j)
  BY <1>3 DEF StateIndex, Without, i, s
<1>9. /\ \A u \in Did, j \in Iteration :
            UserIndex(m, s, u, j) <=> \/ UserIndex(d, s, u, j)
                                      \/ u = row.value.did /\ u # None /\ j = i
      /\ \A x : x # s => \A u \in Did, j \in Iteration : UserIndex(m, x, u, j) <=> UserIndex(d, x, u, j)
  BY <1>3 DEF UserIndex, i, s
<1>10. \A x : x # s => Untouched(d, m, x)
  BY <1>7, <1>8, <1>9 DEF Untouched
<1>. QED BY <1>5, <1>6, <1>7, <1>8, <1>9, <1>10 DEF i, s, m, q, p

LEMMA StoreSame ==
    ASSUME NEW m \in SessionTables, NEW q \in SessionTables, NEW p \in SessionTables,
           NEW row \in SessionRow, SessionSame(m, q, p, row.key),
           \A r \in Where(p.sessions, row.key) :
               /\ r.created = row.created /\ r.value.iteration <= row.value.iteration
               /\ r.value.did \in {None, row.value.did}
    PROVE  SessionSame(MemoryStoreSession(m, row).db, SqliteStoreSession(q, row).db,
                       PostgresStoreSession(p, row).db, row.key)
<1>. DEFINE s == row.key
            i == row.value.iteration
            rows == Where(p.sessions, s)
            A == At(p.sessions, s, i)
            N == (rows \ A) \cup {row}
            mm == MemoryStoreSession(m, row).db
            qq == SqliteStoreSession(q, row).db
            pp == PostgresStoreSession(p, row).db
<1>1. /\ OneLogin(rows) /\ Linked(m, s, rows) /\ Where(m.sessions, s) = rows
      /\ \A r \in rows : /\ r.created = row.created /\ r.value.iteration <= i
                         /\ r.value.did \in {None, row.value.did}
  BY DEF SessionSame, Corresponds
<1>2. /\ Where(mm.sessions, s) = (Where(m.sessions, s) \ At(m.sessions, s, i)) \cup {row}
      /\ Where(pp.sessions, s) = N /\ Where(qq.sessions, s) = {row}
      /\ \A j \in Iteration : StateIndex(mm, s, j) <=> j = i
      /\ \A u \in Did, j \in Iteration :
            UserIndex(mm, s, u, j) <=> \/ UserIndex(m, s, u, j)
                                       \/ u = row.value.did /\ u # None /\ j = i
  <2>1. Where(qq.sessions, s) = {row}
    BY StoreTouches
  <2>2. Where(pp.sessions, s) = N
    BY StoreTouches
  <2>3. Where(mm.sessions, s) = (Where(m.sessions, s) \ At(m.sessions, s, i)) \cup {row}
    BY StoreTouches
  <2>4. \A j \in Iteration : StateIndex(mm, s, j) <=> j = i
    BY StoreTouches
  <2>5. ASSUME NEW u \in Did, NEW j \in Iteration
        PROVE  UserIndex(mm, s, u, j) <=> \/ UserIndex(m, s, u, j)
                                          \/ u = row.value.did /\ u # None /\ j = i
    BY StoreTouches
  <2>. QED BY <2>1, <2>2, <2>3, <2>4, <2>5
<1>3. /\ A = {r \in rows : r.value.iteration = i} /\ At(m.sessions, s, i) = A
      /\ i \in Iteration /\ row.value.did \in Did \cup {None}
  BY <1>1 DEF At, SessionRow, Held
<1>. HIDE DEF s, i, rows, A, mm, qq, pp
<1>4. OneLogin(N)
  <2>1. IsFiniteSet(rows \ A) /\ IsFiniteSet(N)
    BY <1>1, FS_Subset, FS_AddElement DEF OneLogin
  <2>2. \A r, x \in N : /\ r.value.iteration = x.value.iteration => r = x
                        /\ r.created = x.created
    BY <1>1, <1>3 DEF OneLogin, i
  <2>. QED BY <2>1, <2>2 DEF OneLogin
<1>5. Linked(mm, s, N)
  <2>. SUFFICES ASSUME NEW u \in Did, NEW j \in Iteration
                PROVE  UserIndex(mm, s, u, j) <=> \E r \in N : r.value.iteration = j /\ r.value.did = u
    BY DEF Linked
  <2>0. u # None
    BY SessionStoresAssumption
  <2>1. UserIndex(m, s, u, j) <=> \E r \in rows : r.value.iteration = j /\ r.value.did = u
    BY <1>1 DEF Linked
  <2>2. UserIndex(mm, s, u, j) <=> UserIndex(m, s, u, j) \/ (u = row.value.did /\ j = i)
    BY <1>2, <2>0
  <2>3. ASSUME NEW r \in rows, r.value.iteration = j, r.value.did = u
        PROVE  \E x \in N : x.value.iteration = j /\ x.value.did = u
    <3>1. CASE r \in A
      BY <1>1, <1>3, <2>0, <2>3, <3>1 DEF i
    <3>2. CASE r \notin A
      BY <2>3, <3>2
    <3>. QED BY <3>1, <3>2
  <2>4. (u = row.value.did /\ j = i) => \E x \in N : x.value.iteration = j /\ x.value.did = u
    BY DEF i
  <2>5. ASSUME NEW x \in N, x.value.iteration = j, x.value.did = u
        PROVE  x \in rows \/ (u = row.value.did /\ j = i)
    BY <2>5 DEF i
  <2>. QED BY <2>1, <2>2, <2>3, <2>4, <2>5
<1>6. Last(mm, {row}, s, N, row)
  <2>1. i <= i
    BY <1>3, SessionStoresAssumption DEF Iteration
  <2>. QED BY <1>1, <1>2, <2>1 DEF Last, i
<1>7. Corresponds(mm, {row}, s, N)
  BY <1>4, <1>5, <1>6 DEF Corresponds, Last
<1>. QED BY <1>1, <1>2, <1>3, <1>7 DEF SessionSame, s, mm, qq, pp

\* The row stored last is replaced by one that differs in its token at most.
LEMMA SwapSame ==
    ASSUME NEW m, NEW q, NEW p, NEW mm, NEW qq, NEW pp, NEW s, NEW t, NEW x,
           SessionSame(m, q, p, s), Last(m, Where(q.sessions, s), s, Where(p.sessions, s), t),
           Swapped(m, mm, s, {t}, {x}), Swapped(q, qq, s, {t}, {x}), Swapped(p, pp, s, {t}, {x}),
           mm.byState = m.byState, mm.byUser = m.byUser,
           x.created = t.created, x.value.iteration = t.value.iteration,
           x.value.did = t.value.did
    PROVE  SessionSame(mm, qq, pp, s)
<1>. DEFINE rows == Where(p.sessions, s)
            N == (rows \ {t}) \cup {x}
<1>1. /\ OneLogin(rows) /\ Linked(m, s, rows) /\ Where(m.sessions, s) = rows
      /\ Where(q.sessions, s) = {t} /\ t \in rows
      /\ \A r \in rows : r.value.iteration <= t.value.iteration /\ r.value.did \in {None, t.value.did}
      /\ \A i \in Iteration : StateIndex(m, s, i) <=> i = t.value.iteration
  BY DEF SessionSame, Corresponds, Last
<1>2. Where(mm.sessions, s) = N /\ Where(pp.sessions, s) = N /\ Where(qq.sessions, s) = {x}
  BY <1>1, SwappedRows
<1>. HIDE DEF rows
<1>3. OneLogin(N)
  <2>1. IsFiniteSet(N)
    BY <1>1, FS_Subset, FS_AddElement DEF OneLogin
  <2>. QED BY <1>1, <2>1 DEF OneLogin
<1>4. Linked(mm, s, N)
  BY <1>1 DEF Linked, UserIndex
<1>5. Last(mm, {x}, s, N, x)
  BY <1>1 DEF Last, StateIndex
<1>6. Corresponds(mm, {x}, s, N)
  BY <1>3, <1>4, <1>5 DEF Corresponds, Last
<1>. QED BY <1>2, <1>6 DEF SessionSame

LEMMA RemoveSame ==
    ASSUME NEW m \in SessionTables, NEW q \in SessionTables, NEW p \in SessionTables,
           NEW u \in Did, NEW s, NEW i \in Iteration, SessionSame(m, q, p, s),
           At(Where(p.sessions, s), s, i) # {} =>
               \A r \in Where(p.sessions, s) : r.value.did = u /\ r.value.iteration = i
    PROVE  SessionSame(MemoryRemoveSession(m, u, s, i).db, SqliteRemoveSession(q, u, s, i).db,
                       PostgresRemoveSession(p, u, s, i).db, s)
<1>. DEFINE rows == Where(p.sessions, s)
            kept == Where(q.sessions, s)
            mm == MemoryRemoveSession(m, u, s, i).db
            qq == SqliteRemoveSession(q, u, s, i).db
            pp == PostgresRemoveSession(p, u, s, i).db
<1>1. /\ OneLogin(rows) /\ Linked(m, s, rows) /\ Where(m.sessions, s) = rows
      /\ kept \subseteq rows /\ (kept = {} => rows = {})
  BY DEF SessionSame, Corresponds, NoneLeft, Last
<1>2. /\ qq.sessions = q.sessions \ (At(q.sessions, s, i) \cap Of(q.sessions, u, s))
      /\ pp.sessions = p.sessions \ (At(p.sessions, s, i) \cap Of(p.sessions, u, s))
  BY DEF SqliteRemoveSession, PostgresRemoveSession, Reply, SessionTables
<1>3. /\ Where(qq.sessions, s) = {r \in kept : ~(r.value.iteration = i /\ r.value.did = u)}
      /\ Where(pp.sessions, s) = {r \in rows : ~(r.value.iteration = i /\ r.value.did = u)}
  BY <1>2 DEF Where, At, Of
<1>4. CASE At(rows, s, i) = {}
  <2>1. \A r \in rows : r.value.iteration # i
    BY <1>4 DEF At, Where
  <2>2. At(m.sessions, s, i) = {}
    BY <1>1, <2>1 DEF At
  <2>3. mm = m /\ Where(qq.sessions, s) = kept /\ Where(pp.sessions, s) = rows
    BY <1>1, <1>3, <2>1, <2>2 DEF MemoryRemoveSession, Reply
  <2>. QED BY <2>3 DEF SessionSame
<1>5. CASE At(rows, s, i) # {}
  <2>1. \A r \in rows : r.value.did = u /\ r.value.iteration = i
    BY <1>5
  <2>2. Where(qq.sessions, s) = {} /\ Where(pp.sessions, s) = {}
    BY <1>1, <1>3, <2>1
  <2>3. At(m.sessions, s, i) = rows /\ rows # {}
    BY <1>1, <1>5, <2>1 DEF At, Where
  <2>4. /\ mm.sessions = m.sessions \ rows
        /\ mm.byState = Without(m.byState, s)
        /\ mm.byUser = m.byUser \ {[key |-> s, did |-> u, iteration |-> i]}
    BY <2>3 DEF MemoryRemoveSession, Reply
  <2>. HIDE DEF mm
  <2>5. Where(mm.sessions, s) = {}
    BY <1>1, <2>4 DEF Where
  <2>6. \A j \in Iteration : ~StateIndex(mm, s, j)
    BY <2>4 DEF StateIndex, Without
  <2>7. Linked(mm, s, {})
    BY <1>1, <2>1, <2>4 DEF Linked, UserIndex
  <2>8. Corresponds(mm, {}, s, {})
    BY <2>6, <2>7, FS_EmptySet DEF Corresponds, NoneLeft, OneLogin
  <2>. QED BY <2>2, <2>5, <2>8 DEF SessionSame, mm
<1>. QED BY <1>4, <1>5

LEMMA RemoveTouches ==
    ASSUME NEW d \in SessionTables, NEW u, NEW s, NEW i, NEW x, x # s
    PROVE  /\ Untouched(d, MemoryRemoveSession(d, u, s, i).db, x)
           /\ Untouched(d, SqliteRemoveSession(d, u, s, i).db, x)
           /\ Untouched(d, PostgresRemoveSession(d, u, s, i).db, x)
<1>1. \A e : e = [d EXCEPT !.sessions = @ \ (At(@, s, i) \cap Of(@, u, s))] => Untouched(d, e, x)
  <2>. SUFFICES ASSUME NEW e, e = [d EXCEPT !.sessions = @ \ (At(@, s, i) \cap Of(@, u, s))]
                PROVE  Untouched(d, e, x)
    OBVIOUS
  <2>1. /\ e.sessions = d.sessions \ (At(d.sessions, s, i) \cap Of(d.sessions, u, s))
        /\ e.byState = d.byState /\ e.byUser = d.byUser
    BY DEF SessionTables
  <2>2. Where(e.sessions, x) = Where(d.sessions, x)
    BY <2>1 DEF Where, At, Of
  <2>. QED BY <2>1, <2>2 DEF Untouched, StateIndex, UserIndex
<1>2. /\ Untouched(d, SqliteRemoveSession(d, u, s, i).db, x)
      /\ Untouched(d, PostgresRemoveSession(d, u, s, i).db, x)
  BY <1>1 DEF SqliteRemoveSession, PostgresRemoveSession, Reply
<1>3. Untouched(d, MemoryRemoveSession(d, u, s, i).db, x)
  <2>. DEFINE e == MemoryRemoveSession(d, u, s, i).db
  <2>1. \/ e = d
        \/ /\ e.sessions = d.sessions \ At(d.sessions, s, i)
           /\ e.byState = Without(d.byState, s)
           /\ e.byUser = d.byUser \ {[key |-> s, did |-> u, iteration |-> i]}
    BY DEF MemoryRemoveSession, Reply
  <2>. HIDE DEF e
  <2>2. Where(e.sessions, x) = Where(d.sessions, x)
    BY <2>1 DEF Where, At
  <2>3. \A j \in Iteration : StateIndex(e, x, j) <=> StateIndex(d, x, j)
    BY <2>1 DEF StateIndex, Without
  <2>4. \A v \in Did, j \in Iteration : UserIndex(e, x, v, j) <=> UserIndex(d, x, v, j)
    BY <2>1 DEF UserIndex
  <2>. QED BY <2>2, <2>3, <2>4 DEF Untouched, e
<1>. QED BY <1>2, <1>3

\* The rows of a session were created together, and leave together.
LEMMA CleanupSame ==
    ASSUME NEW m \in SessionTables, NEW q \in SessionTables, NEW p \in SessionTables,
           NEW time, NEW s, SessionSame(m, q, p, s)
    PROVE  SessionSame(MemoryCleanupSessions(m, time).db, SqliteCleanupSessions(q, time).db,
                       PostgresCleanupSessions(p, time).db, s)
<1>. DEFINE rows == Where(p.sessions, s)
            kept == Where(q.sessions, s)
            mm == MemoryCleanupSessions(m, time).db
            qq == SqliteCleanupSessions(q, time).db
            pp == PostgresCleanupSessions(p, time).db
            old == Older(m.sessions, time)
<1>1. /\ OneLogin(rows) /\ Linked(m, s, rows) /\ Where(m.sessions, s) = rows
      /\ kept \subseteq rows
  BY DEF SessionSame, Corresponds, NoneLeft, Last
<1>2. /\ mm.sessions = m.sessions \ old
      /\ mm.byState = {e \in m.byState : e.key \notin Keys(old)}
      /\ mm.byUser = m.byUser \ {[key |-> r.key, did |-> r.value.did,
                                  iteration |-> r.value.iteration] : r \in old}
      /\ qq.sessions = q.sessions \ Older(q.sessions, time)
      /\ pp.sessions = p.sessions \ Older(p.sessions, time)
  BY DEF MemoryCleanupSessions, SqliteCleanupSessions, PostgresCleanupSessions, Reply, SessionTables
<1>. HIDE DEF mm, qq, pp
<1>3. /\ Where(mm.sessions, s) = {r \in rows : ~(r.created < time)}
      /\ Where(qq.sessions, s) = {r \in kept : ~(r.created < time)}
      /\ Where(pp.sessions, s) = {r \in rows : ~(r.created < time)}
  BY <1>1, <1>2 DEF Where, Older
<1>4. CASE \E r \in rows : r.created < time
  <2>1. \A r \in rows : r.created < time
    BY <1>1, <1>4 DEF OneLogin
  <2>2. Where(mm.sessions, s) = {} /\ Where(qq.sessions, s) = {} /\ Where(pp.sessions, s) = {}
    BY <1>1, <1>3, <2>1
  <2>3. rows \subseteq old /\ s \in Keys(old)
    BY <1>1, <1>4, <2>1 DEF Older, Where, Keys
  <2>4. \A j \in Iteration : ~StateIndex(mm, s, j)
    BY <1>2, <2>3 DEF StateIndex
  <2>5. Linked(mm, s, {})
    <3>. SUFFICES ASSUME NEW u \in Did, NEW j \in Iteration, UserIndex(mm, s, u, j) PROVE FALSE
      BY DEF Linked
    <3>1. UserIndex(m, s, u, j)
      BY <1>2 DEF UserIndex
    <3>2. PICK r \in rows : r.value.iteration = j /\ r.value.did = u
      BY <1>1, <3>1 DEF Linked
    <3>3. r \in old /\ r.key = s
      BY <2>3 DEF Where
    <3>. QED BY <1>2, <3>2, <3>3 DEF UserIndex
  <2>6. Corresponds(mm, {}, s, {})
    BY <2>4, <2>5, FS_EmptySet DEF Corresponds, NoneLeft, OneLogin
  <2>. QED BY <2>2, <2>6 DEF SessionSame, mm, qq, pp
<1>5. CASE \A r \in rows : ~(r.created < time)
  <2>1. Where(mm.sessions, s) = rows /\ Where(qq.sessions, s) = kept /\ Where(pp.sessions, s) = rows
    BY <1>1, <1>3, <1>5
  <2>2. \A r \in old : r.key # s
    BY <1>1, <1>5 DEF Older, Where
  <2>3. \A j \in Iteration : StateIndex(mm, s, j) <=> StateIndex(m, s, j)
    BY <1>2, <2>2 DEF StateIndex, Keys
  <2>4. \A u \in Did, j \in Iteration : UserIndex(mm, s, u, j) <=> UserIndex(m, s, u, j)
    BY <1>2, <2>2 DEF UserIndex
  <2>5. Untouched(m, mm, s) /\ Where(m.sessions, s) = rows
    BY <1>1, <2>1, <2>3, <2>4 DEF Untouched
  <2>6. Corresponds(mm, kept, s, rows)
    <3>. HIDE DEF rows, kept
    <3>1. Corresponds(m, kept, s, rows)
      BY DEF SessionSame, rows, kept
    <3>2. Linked(mm, s, rows) /\ (NoneLeft(m, kept, s, rows) => NoneLeft(mm, kept, s, rows))
      BY <1>1, <2>3, <2>4 DEF Linked, NoneLeft
    <3>3. \A t : Last(m, kept, s, rows, t) => Last(mm, kept, s, rows, t)
      BY <2>3 DEF Last
    <3>. QED BY <3>1, <3>2, <3>3 DEF Corresponds
  <2>. QED BY <2>1, <2>6 DEF SessionSame, mm, qq, pp
<1>. QED BY <1>4, <1>5

SessionsSound ==
    SessionsTyped /\ SessionsSame(db.memory, db.sqlite, db.postgres, apart)

\* A call about s keeps the correspondence of s, unless s is apart then.
LEMMA CallSessions ==
    ASSUME SessionsSound, NEW m, NEW q, NEW p, NEW s \in Session,
           Call(m, q, p), SessionsTyped', apart \subseteq apart',
           \A x \in Session : x # s => /\ Untouched(db.memory, m.db, x)
                                      /\ Untouched(db.sqlite, q.db, x)
                                      /\ Untouched(db.postgres, p.db, x),
           s \notin apart' => SessionSame(m.db, q.db, p.db, s)
    PROVE  SessionsSound'
<1>1. db'.memory = m.db /\ db'.sqlite = q.db /\ db'.postgres = p.db
  BY DEF Call
<1>2. ASSUME NEW x \in Session \ apart', x # s PROVE SessionSame(m.db, q.db, p.db, x)
  BY <1>2, UntouchedSame DEF SessionsSound, SessionsSame
<1>3. SessionsSame(m.db, q.db, p.db, apart')
  BY <1>2 DEF SessionsSame
<1>. QED BY <1>1, <1>3 DEF SessionsSound

\* What PostgreSQL has of a session that is not apart.
LEMMA SessionFacts ==
    ASSUME SessionsSound, NEW s \in Session \ apart
    PROVE  /\ SessionSame(db.memory, db.sqlite, db.postgres, s)
           /\ OneLogin(All(s)) /\ Where(db.memory.sessions, s) = All(s)
           /\ Where(db.sqlite.sessions, s) \subseteq All(s)
           /\ All(s) # {} => \E t \in All(s) :
                    /\ Last(db.memory, Where(db.sqlite.sessions, s), s, All(s), t)
                    /\ Top(s) = {t}
<1>1. /\ SessionSame(db.memory, db.sqlite, db.postgres, s)
      /\ Corresponds(db.memory, Where(db.sqlite.sessions, s), s, All(s))
      /\ OneLogin(All(s)) /\ Where(db.memory.sessions, s) = All(s)
      /\ Where(db.sqlite.sessions, s) \subseteq All(s)
  BY DEF SessionsSound, SessionsSame, SessionSame, Corresponds, All, NoneLeft, Last
<1>2. \A r \in All(s) : r.value.iteration \in Nat
  BY SessionsNow, SessionTable, SessionStoresAssumption
     DEF SessionsSound, SessionsTyped, All, Where, SessionRow, Held, Iteration
<1>3. ASSUME NEW t, Last(db.memory, Where(db.sqlite.sessions, s), s, All(s), t)
      PROVE  Top(s) = {t}
  BY <1>1, <1>2, <1>3 DEF Last, Top, OneLogin, Iterations, Where, All
<1>. QED BY <1>1, <1>3 DEF Corresponds, NoneLeft, Last

LEMMA StoreKeeps ==
    ASSUME SessionsSound, SessionsTyped', NEW s \in Session, NEW held \in Held,
           StoreSession(s, held)
    PROVE  SessionsSound'
<1>1. PICK created \in IF All(s) = {} THEN {now} ELSE {r.created : r \in All(s)} :
         LET row == [key |-> s, value |-> held, created |-> created]
         IN  Call(MemoryStoreSession(db.memory, row), SqliteStoreSession(db.sqlite, row),
                  PostgresStoreSession(db.postgres, row))
  BY DEF StoreSession
<1>. DEFINE row == [key |-> s, value |-> held, created |-> created]
<1>a. /\ now \in Time
      /\ db.memory \in SessionTables /\ db.sqlite \in SessionTables /\ db.postgres \in SessionTables
  BY SessionsNow, StoreCallsAssumption DEF SessionsSound, SessionsTyped, Time, Never
<1>b. \A r \in All(s) : r \in SessionRow /\ r.key = s
  BY <1>a, SessionTable DEF All, Where
<1>2. row \in SessionRow /\ row.key = s /\ row.value = held /\ row.created = created
  BY <1>a, <1>b DEF SessionRow
<1>3. /\ Call(MemoryStoreSession(db.memory, row), SqliteStoreSession(db.sqlite, row),
              PostgresStoreSession(db.postgres, row))
      /\ apart \subseteq apart'
  BY <1>1 DEF StoreSession, MayDiffer
<1>. HIDE DEF row
<1>4. ASSUME s \notin apart'
      PROVE  SessionSame(MemoryStoreSession(db.memory, row).db, SqliteStoreSession(db.sqlite, row).db,
                         PostgresStoreSession(db.postgres, row).db, s)
  <2>1. SessionSame(db.memory, db.sqlite, db.postgres, s) /\ OneLogin(All(s))
    BY <1>3, <1>4, SessionFacts
  <2>2. /\ ~(held.did = None /\ \E r \in All(s) : r.value.did # None)
        /\ ~(\E r \in All(s) : r.value.did \notin {None, held.did})
        /\ ~(\E j \in Iterations(All(s), s) : j > held.iteration)
    BY <1>4 DEF StoreSession, MayDiffer
  <2>3. ASSUME NEW r \in All(s)
        PROVE  /\ r.created = created /\ r.value.iteration <= held.iteration
               /\ r.value.did \in {None, held.did}
    <3>1. r.value.iteration \in Iterations(All(s), s)
      BY <1>b DEF Iterations, Where
    <3>2. r.value.iteration \in Nat /\ held.iteration \in Nat
      BY <1>b, SessionStoresAssumption DEF SessionRow, Held, Iteration
    <3>3. r.created = created
      BY <1>1, <2>1 DEF OneLogin
    <3>. QED BY <2>2, <3>1, <3>2, <3>3
  <2>. QED BY <1>a, <1>2, <2>1, <2>3, StoreSame DEF All
<1>5. ASSUME NEW x \in Session, x # s
      PROVE  /\ Untouched(db.memory, MemoryStoreSession(db.memory, row).db, x)
             /\ Untouched(db.sqlite, SqliteStoreSession(db.sqlite, row).db, x)
             /\ Untouched(db.postgres, PostgresStoreSession(db.postgres, row).db, x)
  BY <1>a, <1>2, <1>5, StoreTouches
<1>. QED BY <1>3, <1>4, <1>5, CallSessions

\* The rows found are of the session, and so are the rows made from them.
Found(d, s, found, made) ==
    found \subseteq Where(d.sessions, s) /\ \A g \in made : g.key = s

Touches(d, e, s, found, made) ==
    /\ found = {} => e = d
    /\ found # {} => /\ Swapped(d, e, s, found, made)
                    /\ e.byState = d.byState /\ e.byUser = d.byUser
    /\ \A x : x # s => Untouched(d, e, x)

LEMMA ChangeTouches ==
    ASSUME NEW d \in SessionTables, NEW s, NEW found, NEW made, Found(d, s, found, made)
    PROVE  Touches(d, Change(d, s, found, made).db, s, found, made)
<1>. DEFINE e == Change(d, s, found, made).db
<1>. USE DEF Touches
<1>1. CASE found = {}
  <2>1. e = d
    BY <1>1 DEF Change, Reply
  <2>. QED BY <1>1, <2>1 DEF Untouched
<1>2. CASE found # {}
  <2>1. /\ e.sessions = (d.sessions \ found) \cup made
        /\ e.byState = d.byState /\ e.byUser = d.byUser
    BY <1>2 DEF Change, Reply, SessionTables
  <2>. HIDE DEF e
  <2>2. Swapped(d, e, s, found, made)
    BY <2>1 DEF Swapped, Found
  <2>. QED BY <1>2, <2>1, <2>2, SwapTouches DEF e
<1>. QED BY <1>1, <1>2

\* An update finds the row stored last on each backend, or no row on any.
LEMMA ChangeKeeps ==
    ASSUME SessionsSound, SessionsTyped', NEW s \in Session, apart \subseteq apart',
           NEW fm, NEW fq, NEW fp, NEW gm, NEW gq, NEW gp,
           Call(Change(db.memory, s, fm, gm), Change(db.sqlite, s, fq, gq),
                Change(db.postgres, s, fp, gp)),
           Found(db.memory, s, fm, gm), Found(db.sqlite, s, fq, gq), Found(db.postgres, s, fp, gp),
           s \notin apart' =>
                \/ fm = {} /\ fq = {} /\ fp = {}
                \/ \E t, x :
                    /\ Last(db.memory, Where(db.sqlite.sessions, s), s, All(s), t)
                    /\ fm = {t} /\ fq = {t} /\ fp = {t} /\ gm = {x} /\ gq = {x} /\ gp = {x}
                    /\ x.created = t.created /\ x.value.iteration = t.value.iteration
                    /\ x.value.did = t.value.did
    PROVE  SessionsSound'
<1>. DEFINE mm == Change(db.memory, s, fm, gm)
            qq == Change(db.sqlite, s, fq, gq)
            pp == Change(db.postgres, s, fp, gp)
<1>a. db.memory \in SessionTables /\ db.sqlite \in SessionTables /\ db.postgres \in SessionTables
  BY SessionsNow DEF SessionsSound, SessionsTyped
<1>1. Touches(db.memory, mm.db, s, fm, gm)
  BY <1>a, ChangeTouches
<1>2. Touches(db.sqlite, qq.db, s, fq, gq)
  BY <1>a, ChangeTouches
<1>3. Touches(db.postgres, pp.db, s, fp, gp)
  BY <1>a, ChangeTouches
<1>4. Call(mm, qq, pp)
  OBVIOUS
<1>. HIDE DEF mm, qq, pp
<1>5. ASSUME s \notin apart' PROVE SessionSame(mm.db, qq.db, pp.db, s)
  <2>1. SessionSame(db.memory, db.sqlite, db.postgres, s)
    BY <1>5, SessionFacts
  <2>2. CASE fm = {} /\ fq = {} /\ fp = {}
    BY <1>1, <1>2, <1>3, <2>1, <2>2 DEF Touches
  <2>3. CASE ~(fm = {} /\ fq = {} /\ fp = {})
    <3>1. PICK t, x :
              /\ Last(db.memory, Where(db.sqlite.sessions, s), s, All(s), t)
              /\ fm = {t} /\ fq = {t} /\ fp = {t} /\ gm = {x} /\ gq = {x} /\ gp = {x}
              /\ x.created = t.created /\ x.value.iteration = t.value.iteration
              /\ x.value.did = t.value.did
      BY <1>5, <2>3
    <3>2. /\ Swapped(db.memory, mm.db, s, {t}, {x}) /\ Swapped(db.sqlite, qq.db, s, {t}, {x})
          /\ Swapped(db.postgres, pp.db, s, {t}, {x})
          /\ mm.db.byState = db.memory.byState /\ mm.db.byUser = db.memory.byUser
      BY <1>1, <1>2, <1>3, <3>1 DEF Touches
    <3>. QED BY <2>1, <3>1, <3>2, SwapSame DEF All
  <2>. QED BY <2>2, <2>3
<1>. QED BY <1>1, <1>2, <1>3, <1>4, <1>5, CallSessions DEF Touches

LEMMA UpdateKeeps ==
    ASSUME SessionsSound, SessionsTyped', NEW s \in Session, NEW held \in Held,
           UpdateSession(s, held)
    PROVE  SessionsSound'
<1>. DEFINE i == held.iteration
            fm == At(db.memory.sessions, s, i)
            fq == {r \in At(db.sqlite.sessions, s, i) : r.value.did = held.did /\ held.did # None}
            fp == At(db.postgres.sessions, s, i)
            gm == Holding(fm, held)
            gq == Holding(fq, held)
            gp == {[r EXCEPT !.value = [held EXCEPT !.error = r.value.error]] : r \in fp}
<1>a. db.memory \in SessionTables /\ db.sqlite \in SessionTables /\ db.postgres \in SessionTables
  BY SessionsNow DEF SessionsSound, SessionsTyped
<1>1. /\ Call(Change(db.memory, s, fm, gm), Change(db.sqlite, s, fq, gq),
              Change(db.postgres, s, fp, gp))
      /\ apart \subseteq apart'
  BY DEF UpdateSession, MemoryUpdateSession, SqliteUpdateSession, PostgresUpdateSession, MayDiffer
<1>2. \A r \in fm \cup fq \cup fp : r \in SessionRow /\ r.key = s
  BY <1>a, SessionTable DEF At, Where
<1>3. Found(db.memory, s, fm, gm)
  BY <1>2 DEF Found, Holding, At, SessionRow
<1>4. Found(db.sqlite, s, fq, gq)
  BY <1>2 DEF Found, Holding, At, SessionRow
<1>5. Found(db.postgres, s, fp, gp)
  BY <1>2 DEF Found, At, SessionRow
<1>6. ASSUME s \notin apart'
      PROVE  \/ fm = {} /\ fq = {} /\ fp = {}
             \/ \E t, x :
                 /\ Last(db.memory, Where(db.sqlite.sessions, s), s, All(s), t)
                 /\ fm = {t} /\ fq = {t} /\ fp = {t} /\ gm = {x} /\ gq = {x} /\ gp = {x}
                 /\ x.created = t.created /\ x.value.iteration = t.value.iteration
                 /\ x.value.did = t.value.did
  <2>1. \A r \in All(s) : /\ r \in Top(s) /\ held.did # None /\ held.did = r.value.did
                           /\ held.error = r.value.error /\ r.key = s
    <3>1. \A r \in All(s) : r.key = s
      BY DEF All, Where
    <3>. QED BY <1>6, <3>1 DEF UpdateSession, MayDiffer
  <2>2. /\ Where(db.memory.sessions, s) = All(s) /\ Where(db.sqlite.sessions, s) \subseteq All(s)
        /\ All(s) # {} => \E t \in All(s) :
                    /\ Last(db.memory, Where(db.sqlite.sessions, s), s, All(s), t)
                    /\ Top(s) = {t}
    BY <1>1, <1>6, SessionFacts
  <2>3. CASE All(s) = {}
    BY <2>2, <2>3 DEF At, All
  <2>4. CASE All(s) # {}
    <3>1. PICK t \in All(s) : /\ Last(db.memory, Where(db.sqlite.sessions, s), s, All(s), t)
                             /\ Top(s) = {t}
      BY <2>2, <2>4
    <3>2. All(s) = {t} /\ Where(db.sqlite.sessions, s) = {t}
      BY <2>1, <3>1 DEF Last
    <3>3. CASE t.value.iteration # i
      BY <2>2, <3>2, <3>3 DEF At, All
    <3>4. CASE t.value.iteration = i
      <4>1. fm = {t} /\ fp = {t} /\ fq = {t}
        BY <2>1, <2>2, <3>2, <3>4 DEF At, All
      <4>2. t \in SessionRow /\ t.value \in Held
        BY <1>2, <4>1 DEF SessionRow
      <4>3. [held EXCEPT !.error = t.value.error] = held
        BY <2>1, <4>2 DEF Held
      <4>. DEFINE x == [t EXCEPT !.value = held]
      <4>4. gm = {x} /\ gq = {x} /\ gp = {x}
        BY <4>1, <4>3 DEF Holding
      <4>5. /\ x.created = t.created /\ x.value.iteration = t.value.iteration
            /\ x.value.did = t.value.did
        BY <2>1, <3>4, <4>2 DEF SessionRow
      <4>. HIDE DEF x, fm, fq, fp, gm, gq, gp
      <4>. QED BY <3>1, <4>1, <4>4, <4>5
    <3>. QED BY <3>3, <3>4
  <2>. QED BY <2>3, <2>4
<1>. HIDE DEF fm, fq, fp, gm, gq, gp
<1>. QED BY <1>1, <1>3, <1>4, <1>5, <1>6, ChangeKeeps

LEMMA TokensKeep ==
    ASSUME SessionsSound, SessionsTyped', NEW u \in Did, NEW s \in Session, NEW i \in Iteration,
           NEW token \in Token, UpdateSessionTokens(u, s, i, token)
    PROVE  SessionsSound'
<1>. DEFINE fm == At(db.memory.sessions, s, i)
            fq == At(db.sqlite.sessions, s, i) \cap Of(db.sqlite.sessions, u, s)
            fp == At(db.postgres.sessions, s, i) \cap Of(db.postgres.sessions, u, s)
            gm == WithToken(fm, token)
            gq == WithToken(fq, token)
            gp == WithToken(fp, token)
<1>a. db.memory \in SessionTables /\ db.sqlite \in SessionTables /\ db.postgres \in SessionTables
  BY SessionsNow DEF SessionsSound, SessionsTyped
<1>1. /\ Call(Change(db.memory, s, fm, gm), Change(db.sqlite, s, fq, gq),
              Change(db.postgres, s, fp, gp))
      /\ apart \subseteq apart'
  BY
     DEF UpdateSessionTokens, MemoryUpdateTokens, SqliteUpdateTokens, PostgresUpdateTokens, MayDiffer
<1>2. \A r \in fm \cup fq \cup fp : r \in SessionRow /\ r.key = s
  BY <1>a, SessionTable DEF At, Where
<1>3. Found(db.memory, s, fm, gm)
  BY <1>2 DEF Found, WithToken, At, SessionRow
<1>4. Found(db.sqlite, s, fq, gq)
  BY <1>2 DEF Found, WithToken, At, SessionRow
<1>5. Found(db.postgres, s, fp, gp)
  BY <1>2 DEF Found, WithToken, At, SessionRow
<1>6. ASSUME s \notin apart'
      PROVE  \/ fm = {} /\ fq = {} /\ fp = {}
             \/ \E t, x :
                 /\ Last(db.memory, Where(db.sqlite.sessions, s), s, All(s), t)
                 /\ fm = {t} /\ fq = {t} /\ fp = {t} /\ gm = {x} /\ gq = {x} /\ gp = {x}
                 /\ x.created = t.created /\ x.value.iteration = t.value.iteration
                 /\ x.value.did = t.value.did
  <2>1. At(All(s), s, i) # {} => Known(u, s, i)
    BY <1>6 DEF UpdateSessionTokens, MayDiffer
  <2>2. /\ Where(db.memory.sessions, s) = All(s) /\ Where(db.sqlite.sessions, s) \subseteq All(s)
        /\ OneLogin(All(s))
        /\ All(s) # {} => \E t \in All(s) :
                    /\ Last(db.memory, Where(db.sqlite.sessions, s), s, All(s), t)
                    /\ Top(s) = {t}
    BY <1>1, <1>6, SessionFacts
  <2>3. CASE \A r \in All(s) : r.value.iteration # i
    BY <2>2, <2>3 DEF At, All
  <2>4. CASE \E r \in All(s) : r.value.iteration = i
    <3>1. PICK t \in All(s) : /\ Last(db.memory, Where(db.sqlite.sessions, s), s, All(s), t)
                             /\ Top(s) = {t}
      BY <2>2, <2>4
    <3>2. t.value.did = u /\ t.value.iteration = i
      <4>1. At(All(s), s, i) # {}
        BY <2>4 DEF At, All, Where
      <4>. QED BY <2>1, <3>1, <4>1 DEF Known
    <3>3. Where(db.sqlite.sessions, s) = {t}
      BY <3>1 DEF Last
    <3>4. \A r \in All(s) : r.value.iteration = i => r = t
      BY <2>2, <3>2 DEF OneLogin
    <3>5. fm = {t} /\ fq = {t} /\ fp = {t}
      BY <2>2, <3>2, <3>3, <3>4 DEF At, Of, All
    <3>6. t \in SessionRow /\ t.value \in Held
      BY <1>2, <3>5 DEF SessionRow
    <3>. DEFINE x == [t EXCEPT !.value.token = token]
    <3>7. gm = {x} /\ gq = {x} /\ gp = {x}
      BY <3>5 DEF WithToken
    <3>8. /\ x.created = t.created /\ x.value.iteration = t.value.iteration
          /\ x.value.did = t.value.did
      BY <3>6 DEF SessionRow, Held
    <3>. HIDE DEF x, fm, fq, fp, gm, gq, gp
    <3>. QED BY <3>1, <3>5, <3>7, <3>8
  <2>. QED BY <2>3, <2>4
<1>. HIDE DEF fm, fq, fp, gm, gq, gp
<1>. QED BY <1>1, <1>3, <1>4, <1>5, <1>6, ChangeKeeps

LEMMA RemoveKeeps ==
    ASSUME SessionsSound, SessionsTyped', NEW u \in Did, NEW s \in Session, NEW i \in Iteration,
           RemoveSession(u, s, i)
    PROVE  SessionsSound'
<1>a. db.memory \in SessionTables /\ db.sqlite \in SessionTables /\ db.postgres \in SessionTables
  BY SessionsNow DEF SessionsSound, SessionsTyped
<1>1. /\ Call(MemoryRemoveSession(db.memory, u, s, i), SqliteRemoveSession(db.sqlite, u, s, i),
              PostgresRemoveSession(db.postgres, u, s, i))
      /\ apart \subseteq apart'
  BY DEF RemoveSession, MayDiffer
<1>2. ASSUME s \notin apart'
      PROVE  SessionSame(MemoryRemoveSession(db.memory, u, s, i).db,
                         SqliteRemoveSession(db.sqlite, u, s, i).db,
                         PostgresRemoveSession(db.postgres, u, s, i).db, s)
  <2>1. At(All(s), s, i) # {} => Known(u, s, i) /\ ~(Cardinality(All(s)) > 1)
    BY <1>2 DEF RemoveSession, MayDiffer
  <2>2. /\ SessionSame(db.memory, db.sqlite, db.postgres, s) /\ OneLogin(All(s))
        /\ All(s) # {} => \E t \in All(s) : Top(s) = {t}
    BY <1>1, <1>2, SessionFacts
  <2>3. ASSUME At(All(s), s, i) # {}
        PROVE  \A r \in All(s) : r.value.did = u /\ r.value.iteration = i
    <3>1. PICK t \in All(s) : Top(s) = {t}
      BY <2>2, <2>3 DEF At, Where
    <3>2. t.value.did = u /\ t.value.iteration = i
      BY <2>1, <2>3, <3>1 DEF Known
    <3>3. ASSUME NEW r \in All(s) PROVE r = t
      <4>1. IsFiniteSet(All(s)) /\ Cardinality(All(s)) \in Nat
        BY <2>2, FS_CardinalityType DEF OneLogin
      <4>2. IsFiniteSet({t}) /\ Cardinality({t}) = 1
        BY FS_Singleton
      <4>3. Cardinality({t}) <= Cardinality(All(s)) /\
            (Cardinality(All(s)) = Cardinality({t}) => All(s) = {t})
        BY <3>1, <4>1, FS_Subset
      <4>. QED BY <2>1, <2>3, <4>1, <4>2, <4>3
    <3>. QED BY <3>2, <3>3
  <2>. QED BY <1>a, <2>2, <2>3, RemoveSame DEF All
<1>3. ASSUME NEW x \in Session, x # s
      PROVE  /\ Untouched(db.memory, MemoryRemoveSession(db.memory, u, s, i).db, x)
             /\ Untouched(db.sqlite, SqliteRemoveSession(db.sqlite, u, s, i).db, x)
             /\ Untouched(db.postgres, PostgresRemoveSession(db.postgres, u, s, i).db, x)
  BY <1>a, <1>3, RemoveTouches
<1>. QED BY <1>1, <1>2, <1>3, CallSessions

LEMMA CleanupKeeps ==
    ASSUME SessionsSound, SessionsTyped', NEW time, CleanupOldSessions(time)
    PROVE  SessionsSound'
<1>a. db.memory \in SessionTables /\ db.sqlite \in SessionTables /\ db.postgres \in SessionTables
  BY SessionsNow DEF SessionsSound, SessionsTyped
<1>1. /\ db'.memory = MemoryCleanupSessions(db.memory, time).db
      /\ db'.sqlite = SqliteCleanupSessions(db.sqlite, time).db
      /\ db'.postgres = PostgresCleanupSessions(db.postgres, time).db
      /\ apart' = apart
  BY DEF CleanupOldSessions, Call
<1>. QED BY <1>a, <1>1, CleanupSame DEF SessionsSound, SessionsSame

LEMMA NextSessionsSound ==
    ASSUME SessionsSound, SessionCall
    PROVE  SessionsSound'
<1>1. SessionsTyped'
  BY NextSessionsTyped DEF SessionsSound
<1>. QED BY <1>1, StoreKeeps, UpdateKeeps, TokensKeep, RemoveKeeps, CleanupKeeps DEF SessionCall

Having(rows, u) == {r \in rows : r.value.did = u}

LEMMA LatestAgree ==
    ASSUME SessionsSound, NEW u \in Did, NEW s \in Session \ apart
    PROVE  /\ MemoryGetSessions(db.memory, u, s).answer = Having(All(s), u)
           /\ MemoryGetLatestSession(db.memory, u, s).answer
                  = PostgresGetLatestSession(db.postgres, u, s).answer
           /\ SqliteGetLatestSession(db.sqlite, u, s).answer
                  = PostgresGetLatestSession(db.postgres, u, s).answer
<1>. DEFINE rows == All(s)
            kept == Where(db.sqlite.sessions, s)
            A == Having(rows, u)
            B == Having(kept, u)
<1>1. /\ Corresponds(db.memory, kept, s, rows) /\ OneLogin(rows)
      /\ Where(db.memory.sessions, s) = rows /\ kept \subseteq rows
  BY SessionFacts DEF SessionSame, All
<1>2. \A r \in rows : r.key = s /\ r.value.iteration \in Nat /\ r.value.iteration \in Iteration
  BY SessionsNow, SessionTable, SessionStoresAssumption
     DEF SessionsSound, SessionsTyped, All, Where, SessionRow, Held, Iteration
<1>3. {r \in rows : UserIndex(db.memory, s, u, r.value.iteration)} = A
  <2>1. Linked(db.memory, s, rows)
    BY <1>1 DEF Corresponds
  <2>2. \A r \in rows : UserIndex(db.memory, s, u, r.value.iteration) <=> r.value.did = u
    <3>. TAKE r \in rows
    <3>1. UserIndex(db.memory, s, u, r.value.iteration)
             <=> \E x \in rows : x.value.iteration = r.value.iteration /\ x.value.did = u
      BY <1>2, <2>1 DEF Linked
    <3>2. \A x \in rows : x.value.iteration = r.value.iteration => x = r
      BY <1>1 DEF OneLogin
    <3>. QED BY <3>1, <3>2
  <2>. QED BY <2>2 DEF Having
<1>4. /\ MemoryGetSessions(db.memory, u, s) = Reply(db.memory, A)
      /\ SqliteGetSessions(db.sqlite, u, s) = Reply(db.sqlite, B)
      /\ PostgresGetSessions(db.postgres, u, s) = Reply(db.postgres, A)
  BY <1>1, <1>3 DEF MemoryGetSessions, SqliteGetSessions, PostgresGetSessions, UserIndex, Of, All,
         Having
<1>5. \A d : Newest(Reply(d, A)).answer = {r \in A : \A x \in Where(A, r.key) :
                                               x.value.iteration <= r.value.iteration}
  BY DEF Newest, Reply
<1>6. \A d : Newest(Reply(d, B)).answer = {r \in B : \A x \in Where(B, r.key) :
                                               x.value.iteration <= r.value.iteration}
  BY DEF Newest, Reply
<1>7. \A d, e : Newest(Reply(d, A)).answer = Newest(Reply(e, B)).answer
  <2>. SUFFICES ASSUME NEW d, NEW e
                PROVE  Newest(Reply(d, A)).answer = Newest(Reply(e, B)).answer
    OBVIOUS
  <2>1. CASE rows = {}
    BY <1>1, <1>5, <1>6, <2>1 DEF Having
  <2>2. CASE rows # {}
    <3>1. PICK t \in rows : Last(db.memory, kept, s, rows, t)
      BY <1>1, <2>2 DEF Corresponds, NoneLeft
    <3>2. /\ kept = {t} /\ u # None
          /\ \A r \in rows : r.value.iteration <= t.value.iteration
                             /\ r.value.did \in {None, t.value.did}
          /\ \A r \in rows : r.value.iteration = t.value.iteration => r = t
      BY <1>1, <3>1, SessionStoresAssumption DEF Last, OneLogin
    <3>. HIDE DEF rows, kept
    <3>3. /\ \A r \in rows : r.key = s /\ r.value.iteration \in Nat
          /\ A \subseteq rows /\ Where(A, s) = A
          /\ t.value.did = u => t \in A
          /\ t.value.did # u => A = {}
      BY <1>2, <3>1, <3>2 DEF Having, Where
    <3>4. B = Having({t}, u) /\ Where(B, s) = B /\ t.key = s /\ t.value.iteration \in Nat
      BY <3>1, <3>2, <3>3 DEF Having, Where
    <3>5. CASE t.value.did = u
      <4>1. B = {t}
        BY <3>4, <3>5 DEF Having
      <4>2. {r \in A : \A x \in Where(A, r.key) : x.value.iteration <= r.value.iteration} = {t}
        <5>1. \A x \in Where(A, t.key) : x.value.iteration <= t.value.iteration
          BY <3>2, <3>3, <3>4
        <5>2. ASSUME NEW r \in A, \A x \in Where(A, r.key) : x.value.iteration <= r.value.iteration
              PROVE  r = t
          <6>1. t.value.iteration <= r.value.iteration
            BY <3>3, <3>5, <5>2
          <6>. QED BY <3>2, <3>3, <3>4, <6>1
        <5>. QED BY <3>3, <3>5, <5>1, <5>2
      <4>3. {r \in B : \A x \in Where(B, r.key) : x.value.iteration <= r.value.iteration} = {t}
        BY <3>4, <4>1
      <4>. QED BY <1>5, <1>6, <4>2, <4>3
    <3>6. CASE t.value.did # u
      <4>1. B = {}
        BY <3>4, <3>6 DEF Having
      <4>. QED BY <1>5, <1>6, <3>3, <3>6, <4>1
    <3>. QED BY <3>5, <3>6
  <2>. QED BY <2>1, <2>2
<1>8. \A d, e : Newest(Reply(d, A)).answer = Newest(Reply(e, A)).answer
  BY <1>5
<1>9. MemoryGetSessions(db.memory, u, s).answer = A
  BY <1>4 DEF Reply
<1>. HIDE DEF A, B
<1>. QED BY <1>4, <1>7, <1>8, <1>9
         DEF MemoryGetLatestSession, SqliteGetLatestSession, PostgresGetLatestSession, A

\* Of each session, the newest rows of a user are found as for it alone.
LEMMA NewestOfEach ==
    ASSUME NEW d, NEW table, NEW u, NEW s
    PROVE  Where(Newest(Reply(d, Having(table, u))).answer, s)
               = Newest(Reply(d, Of(table, u, s))).answer
<1>1. \A r : r.key = s => Where(Having(table, u), r.key) = Of(table, u, s)
  BY DEF Where, Of, Having
<1>2. \A r : r.key = s => Where(Of(table, u, s), r.key) = Of(table, u, s)
  BY DEF Where, Of
<1>. QED BY <1>1, <1>2 DEF Newest, Reply, Where, Of, Having

LEMMA SoundSessionsAgree ==
    ASSUME SessionsSound
    PROVE  SessionsAgree
<1>a. db.memory \in SessionTables /\ db.sqlite \in SessionTables /\ db.postgres \in SessionTables
  BY SessionsNow DEF SessionsSound, SessionsTyped
<1>1. ASSUME NEW u \in Did, NEW s \in Session \ apart
      PROVE  Same(MemoryGetLatestSession(db.memory, u, s), SqliteGetLatestSession(db.sqlite, u, s),
                  PostgresGetLatestSession(db.postgres, u, s))
  BY LatestAgree DEF Same, Shown
<1>2. ASSUME NEW u \in Did, NEW s \in Session \ apart, NEW i \in Iteration, Known(u, s, i)
      PROVE  Same(MemoryGetSession(db.memory, u, s, i), SqliteGetSession(db.sqlite, u, s, i),
                  PostgresGetSession(db.postgres, u, s, i))
  <2>1. /\ Where(db.memory.sessions, s) = All(s) /\ Where(db.sqlite.sessions, s) \subseteq All(s)
        /\ OneLogin(All(s))
        /\ All(s) # {} => \E t \in All(s) :
                    /\ Last(db.memory, Where(db.sqlite.sessions, s), s, All(s), t)
                    /\ Top(s) = {t}
    BY SessionFacts
  <2>2. /\ At(db.memory.sessions, s, i) = At(db.postgres.sessions, s, i) \cap Of(db.postgres.sessions, u, s)
        /\ At(db.sqlite.sessions, s, i) \cap Of(db.sqlite.sessions, u, s)
              = At(db.postgres.sessions, s, i) \cap Of(db.postgres.sessions, u, s)
    <3>1. CASE All(s) = {}
      BY <2>1, <3>1 DEF At, Of, All
    <3>2. CASE All(s) # {}
      <4>1. PICK t \in All(s) : /\ Last(db.memory, Where(db.sqlite.sessions, s), s, All(s), t)
                               /\ Top(s) = {t}
        BY <2>1, <3>2
      <4>2. /\ t.value.did = u /\ t.value.iteration = i /\ Where(db.sqlite.sessions, s) = {t}
            /\ \A r \in All(s) : r.value.iteration = i => r = t
        BY <1>2, <2>1, <4>1 DEF Known, Last, OneLogin
      <4>3. At(db.memory.sessions, s, i) = {t}
        BY <2>1, <4>2 DEF At
      <4>4. At(db.sqlite.sessions, s, i) \cap Of(db.sqlite.sessions, u, s) = {t}
        BY <4>2 DEF At, Of
      <4>5. At(db.postgres.sessions, s, i) \cap Of(db.postgres.sessions, u, s) = {t}
        BY <4>2 DEF At, Of, All
      <4>. QED BY <4>3, <4>4, <4>5
    <3>. QED BY <3>1, <3>2
  <2>. QED BY <2>2 DEF MemoryGetSession, SqliteGetSession, PostgresGetSession, Same, Shown, Reply
<1>3. ASSUME NEW s \in Session \ apart
      PROVE  /\ Shown(MemoryGetByState(db.memory, s)) = Shown(SqliteGetByState(db.sqlite, s))
             /\ Shown(MemoryGetByState(db.memory, s)) \subseteq Shown(PostgresGetByState(db.postgres, s))
  <2>. DEFINE kept == Where(db.sqlite.sessions, s)
              found == {r \in All(s) : StateIndex(db.memory, s, r.value.iteration)}
  <2>1. /\ Corresponds(db.memory, kept, s, All(s)) /\ OneLogin(All(s))
        /\ Where(db.memory.sessions, s) = All(s) /\ kept \subseteq All(s)
    BY SessionFacts DEF SessionSame, All
  <2>2. \A r \in All(s) : r.value.iteration \in Iteration
    BY <1>a, SessionTable DEF All, Where, SessionRow, Held
  <2>3. found = kept
    BY <2>1, <2>2 DEF Corresponds, NoneLeft, Last, OneLogin
  <2>4. MemoryGetByState(db.memory, s).answer = found
    BY <2>1 DEF MemoryGetByState, Reply, StateIndex
  <2>5. /\ SqliteGetByState(db.sqlite, s).answer = kept
        /\ PostgresGetByState(db.postgres, s).answer = All(s)
    BY DEF SqliteGetByState, PostgresGetByState, Reply, All
  <2>. HIDE DEF kept, found
  <2>. QED BY <2>1, <2>3, <2>4, <2>5 DEF Shown
<1>4. ASSUME NEW u \in Did
      PROVE  Same(Newest(MemoryGetByDid(db.memory, u)), Newest(SqliteGetByDid(db.sqlite, u)),
                  Newest(PostgresGetByDid(db.postgres, u)))
  <2>. DEFINE M == Newest(MemoryGetByDid(db.memory, u)).answer
              Q == Newest(SqliteGetByDid(db.sqlite, u)).answer
              P == Newest(PostgresGetByDid(db.postgres, u)).answer
  <2>1. \A r \in M \cup Q \cup P : r.key \in Session
    <3>1. M \subseteq db.memory.sessions /\ Q \subseteq db.sqlite.sessions
          /\ P \subseteq db.postgres.sessions
      BY DEF Newest, MemoryGetByDid, SqliteGetByDid, PostgresGetByDid, Reply
    <3>. QED BY <1>a, <3>1, SessionTable DEF SessionRow
  <2>2. ASSUME NEW s \in Session \ apart
        PROVE  Where(M, s) = Where(P, s)
               /\ Where(Q, s) = Where(P, s)
    <3>1. /\ Where(M, s) = Newest(Reply(db.memory, Of(db.memory.sessions, u, s))).answer
          /\ Where(Q, s) = Newest(Reply(db.sqlite, Of(db.sqlite.sessions, u, s))).answer
          /\ Where(P, s)
                 = Newest(Reply(db.postgres, Of(db.postgres.sessions, u, s))).answer
      <4>1. /\ MemoryGetByDid(db.memory, u) = Reply(db.memory, Having(db.memory.sessions, u))
            /\ SqliteGetByDid(db.sqlite, u) = Reply(db.sqlite, Having(db.sqlite.sessions, u))
            /\ PostgresGetByDid(db.postgres, u)
                   = Reply(db.postgres, Having(db.postgres.sessions, u))
        BY DEF MemoryGetByDid, SqliteGetByDid, PostgresGetByDid, Having
      <4>. QED BY <4>1, NewestOfEach
    <3>2. MemoryGetSessions(db.memory, u, s) = Reply(db.memory, Of(db.memory.sessions, u, s))
      <4>1. /\ MemoryGetSessions(db.memory, u, s).answer = Having(All(s), u)
            /\ Where(db.memory.sessions, s) = All(s)
        BY LatestAgree, SessionFacts
      <4>2. Having(All(s), u) = Of(db.memory.sessions, u, s)
        BY <4>1 DEF Of, Having
      <4>. QED BY <4>1, <4>2 DEF MemoryGetSessions, Reply
    <3>3. /\ SqliteGetSessions(db.sqlite, u, s) = Reply(db.sqlite, Of(db.sqlite.sessions, u, s))
          /\ PostgresGetSessions(db.postgres, u, s)
                 = Reply(db.postgres, Of(db.postgres.sessions, u, s))
      BY DEF SqliteGetSessions, PostgresGetSessions
    <3>. QED BY <3>1, <3>2, <3>3, LatestAgree
             DEF MemoryGetLatestSession, SqliteGetLatestSession, PostgresGetLatestSession
  <2>. HIDE DEF M, Q, P
  <2>3. /\ {r \in M : r.key \notin apart} = {r \in P : r.key \notin apart}
        /\ {r \in Q : r.key \notin apart} = {r \in P : r.key \notin apart}
    <3>1. ASSUME NEW r, r \in M \cup Q \cup P, r.key \notin apart
          PROVE  (r \in M <=> r \in P) /\ (r \in Q <=> r \in P)
      <4>1. r.key \in Session \ apart
        BY <2>1, <3>1
      <4>2. Where(M, r.key) = Where(P, r.key) /\ Where(Q, r.key) = Where(P, r.key)
        BY <2>2, <4>1
      <4>. QED BY <4>2 DEF Where
    <3>. QED BY <3>1
  <2>. QED BY <2>3 DEF Same, Shown, M, Q, P
<1>. QED BY <1>1, <1>2, <1>3, <1>4 DEF SessionsAgree

-----------------------------------------------------------------------------
(* The specification. *)

\* Each group of tables keeps what its calls keep.
Sound ==
    /\ group \in Group
    /\ group = "grants" => GrantsSound
    /\ group = "requests" => RequestsSound
    /\ group \in {"records", "keys"} => RecordsSound
    /\ group = "sessions" => SessionsSound

LEMMA NothingStored ==
    ASSUME NEW T, NEW K, NEW empty \in T, StoreInit(empty)
    PROVE  StoreTypeOK(T, K)
BY StoreCallsAssumption DEF StoreInit, StoreTypeOK

LEMMA InitSound ==
    ASSUME Init
    PROVE  Sound
<1>1. /\ group = "grants" => StoreInit(NoGrants)
      /\ group = "requests" => StoreInit(NoRequests)
      /\ group \in {"records", "keys"} => StoreInit(NoRecords)
      /\ group = "sessions" => StoreInit(NoSessions)
      /\ group \in Group
  BY DEF Init, Empty, Group
<1>2. /\ NoGrants \in GrantTables /\ NoRequests \in RequestTables
      /\ NoRecords \in RecordTables /\ NoSessions \in SessionTables
  BY DEF NoGrants, GrantTables, NoRequests, RequestTables, NoRecords, RecordTables,
     NoSessions, SessionTables
<1>3. ASSUME group = "grants" PROVE GrantsSound
  <2>1. StoreInit(NoGrants) /\ GrantsTyped
    BY <1>1, <1>2, <1>3, NothingStored DEF GrantsTyped
  <2>2. GrantsCareful /\ GrantsAlike
    BY <2>1 DEF StoreInit, NoGrants, GrantsCareful, Careful, GrantsAlike, SameGrants, Backend,
       Live, Where
  <2>. QED BY <2>1, <2>2 DEF GrantsSound
<1>4. ASSUME group = "requests" PROVE RequestsSound
  <2>1. StoreInit(NoRequests) /\ RequestsTyped
    BY <1>1, <1>2, <1>4, NothingStored DEF RequestsTyped
  <2>2. RequestsWaiting /\ RequestsAlike
    BY <2>1 DEF StoreInit, NoRequests, RequestsWaiting, Waiting, RequestsAlike, SameDevice,
       SamePushed, SameLogins, Backend, Where
  <2>. QED BY <2>1, <2>2 DEF RequestsSound
<1>5. ASSUME group \in {"records", "keys"} PROVE RecordsSound
  <2>1. StoreInit(NoRecords) /\ RecordsTyped
    BY <1>1, <1>2, <1>5, NothingStored DEF RecordsTyped
  <2>2. db.memory = NoRecords /\ db.sqlite = NoRecords /\ db.postgres = NoRecords
    BY <2>1 DEF StoreInit, Backend
  <2>3. RecordsAlike(NoRecords, NoRecords, NoRecords, issued, apart)
    BY DEF RecordsAlike, ClientsSame, KeysSame, PairsSame, Refer, NoRecords, Keys
  <2>. QED BY <2>1, <2>2, <2>3 DEF RecordsSound
<1>6. ASSUME group = "sessions" PROVE SessionsSound
  <2>1. StoreInit(NoSessions) /\ SessionsTyped
    BY <1>1, <1>2, <1>6, NothingStored DEF SessionsTyped
  <2>2. db.memory = NoSessions /\ db.sqlite = NoSessions /\ db.postgres = NoSessions
    BY <2>1 DEF StoreInit, Backend
  <2>3. \A s : Where(NoSessions.sessions, s) = {}
    BY DEF NoSessions, Where
  <2>4. \A s : Corresponds(NoSessions, {}, s, {})
    BY FS_EmptySet DEF Corresponds, OneLogin, Linked, NoneLeft, StateIndex, UserIndex, NoSessions
  <2>. QED BY <2>1, <2>2, <2>3, <2>4 DEF SessionsSound, SessionsSame, SessionSame
<1>. QED BY <1>1, <1>3, <1>4, <1>5, <1>6 DEF Sound

LEMMA NextSound ==
    ASSUME Sound, [Next]_vars
    PROVE  Sound'
<1>1. CASE Next
  <2>1. group' = group /\ group \in Group
    BY <1>1 DEF Next, Sound
  <2>2. CASE group = "grants"
    <3>1. GrantsSound /\ (Tick \/ GrantCall)
      BY <1>1, <2>2 DEF Next, Sound
    <3>. QED BY <2>1, <2>2, <3>1, TickGrants, NextGrantsSound DEF Sound
  <2>3. CASE group = "requests"
    <3>1. RequestsSound /\ (Tick \/ RequestCall)
      BY <1>1, <2>3 DEF Next, Sound
    <3>. QED BY <2>1, <2>3, <3>1, TickRequests, NextRequestsSound DEF Sound
  <2>4. CASE group \in {"records", "keys"}
    <3>1. RecordsSound /\ (RecordCall \/ KeyCall)
      BY <1>1, <2>4 DEF Next, Sound
    <3>. QED BY <2>1, <2>4, <3>1, NextRecordsSound DEF Sound
  <2>5. CASE group = "sessions"
    <3>1. SessionsSound /\ (Tick \/ SessionCall)
      BY <1>1, <2>5 DEF Next, Sound
    <3>2. Tick => SessionsSound'
      BY <3>1, TickTyped DEF SessionsSound, SessionsTyped, Tick
    <3>. QED BY <2>1, <2>5, <3>1, <3>2, NextSessionsSound DEF Sound
  <2>. QED BY <2>1, <2>2, <2>3, <2>4, <2>5 DEF Group
<1>2. CASE UNCHANGED vars
  <2>1. /\ GrantsSound => GrantsSound'
        /\ RequestsSound => RequestsSound'
        /\ RecordsSound => RecordsSound'
        /\ SessionsSound => SessionsSound'
    <3>1. GrantsSound => GrantsSound'
      BY <1>2
         DEF vars, storeVars, GrantsSound, GrantsTyped, StoreTypeOK, GrantsCareful, GrantsAlike,
         SameGrants
    <3>2. RequestsSound => RequestsSound'
      BY <1>2 DEF vars, storeVars, RequestsSound, RequestsTyped, StoreTypeOK, RequestsWaiting,
         RequestsAlike, SameDevice, SamePushed, SameLogins
    <3>3. RecordsSound => RecordsSound'
      BY <1>2 DEF vars, storeVars, RecordsSound, RecordsTyped, StoreTypeOK
    <3>4. SessionsSound => SessionsSound'
      BY <1>2 DEF vars, storeVars, SessionsSound, SessionsTyped, StoreTypeOK
    <3>. QED BY <3>1, <3>2, <3>3, <3>4
  <2>. QED BY <1>2, <2>1 DEF vars, Sound
<1>. QED BY <1>1, <1>2

LEMMA AlwaysSound == Spec => []Sound
BY InitSound, NextSound, PTL DEF Spec

\* The tables of each backend hold rows of their types after any sequence of
\* calls of the methods of storage/traits.rs.
THEOREM TypeCorrect == Spec => []TypeOK
<1>1. Sound => TypeOK
  BY DEF Sound, GrantsSound, GrantsTyped, RequestsSound, RequestsTyped, RecordsSound, RecordsTyped,
     SessionsSound, SessionsTyped, TypeOK, Tables, Key, Group
<1>. QED BY <1>1, AlwaysSound, PTL

\* Whatever is stored, consumed, exchanged, refreshed, revoked, cleaned up and
\* deleted with its client, and however the clock advances, a code, an access
\* token or a refresh token is answered alike by storage/inmemory,
\* storage/sqlite and storage/postgres.  Excepted are the moment of its expiry,
\* the refresh tokens that SQLite dropped with their access token, and the rows
\* of a deleted client, which memory keeps.
THEOREM GrantsAlwaysAgree == Spec => []GrantsInterchangeable
<1>1. Sound => GrantsInterchangeable
  BY SoundGrantsAgree DEF Sound, GrantsInterchangeable
<1>. QED BY <1>1, AlwaysSound, PTL

\* The callers of the device, pushed-request, OAuth-request and
\* authorization-request methods see the same on each backend, although SQLite
\* keeps whole seconds of a device code's expiry and memory hands out pushed
\* requests that have expired.  Excepted are the rows of a deleted client and
\* an OAuth request's authorization server, for which SQLite answers its issuer.
THEOREM RequestsAlwaysAgree == Spec => []RequestsInterchangeable
<1>1. Sound => RequestsInterchangeable
  BY SoundRequestsAgree DEF Sound, RequestsInterchangeable
<1>. QED BY <1>1, AlwaysSound, PTL

\* Clients, keys, app passwords and their sessions are answered alike by the
\* three backends unless a caller relied on a foreign key that one of them
\* lacks, and no app-password session outlives its password.  Excepted are a
\* client's application type and software, of which an update in PostgreSQL
\* keeps the old ones.
THEOREM RecordsAlwaysAgree == Spec => []RecordsInterchangeable
<1>1. Sound => RecordsInterchangeable
  BY SoundRecordsAgree DEF Sound, RecordsInterchangeable
<1>. QED BY <1>1, AlwaysSound, PTL

\* The newest iteration of an ATProtocol session, for its user, by its state
\* and among all of a user's, is the same row on each backend, although memory
\* and PostgreSQL keep every iteration and SQLite the one stored last.
THEOREM SessionsAlwaysAgree == Spec => []SessionsInterchangeable
<1>1. Sound => SessionsInterchangeable
  BY SoundSessionsAgree DEF Sound, SessionsInterchangeable
<1>. QED BY <1>1, AlwaysSound, PTL

\* A code, a refresh token, a device code or a pushed request that a backend
\* has handed out is not handed out again by it.
THEOREM OncePerCredential == Spec => []HandedOutOnce
<1>1. Sound => HandedOutOnce
  BY CarefulHandedOnce, WaitingHandedOnce DEF Sound, HandedOutOnce
<1>. QED BY <1>1, AlwaysSound, PTL
=============================================================================
