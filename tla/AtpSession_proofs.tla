-------------------------- MODULE AtpSession_proofs --------------------------
(***************************************************************************)
(* Theorems about AtpSession for any deliveries, requests and bound on the *)
(* iterations.                                                             *)
(*                                                                         *)
(* When the redirect is delivered once, the login has two phases: Before   *)
(* the callback stores the tokens no row has any, and After it every row   *)
(* has tokens or an error.  What makes the refreshes that follow safe is   *)
(* that iterations and generations advance together: a row without error   *)
(* holds the generation of its iteration.                                  *)
(***************************************************************************)
EXTENDS AtpSession, FiniteSetTheorems, TLAPS

-----------------------------------------------------------------------------
(* Types. *)

Bounded ==
    /\ pds.generation <= MaxIteration
    /\ 0 \notin stale
    /\ \A x \in rows : x.generation <= x.iteration
    /\ \A h \in Handler : held[h].generation <= held[h].iteration
    /\ \A r \in Request : pc[r] = "refreshing" => held[r].iteration < MaxIteration
    /\ \A k \in Callback : pc[k] \in {"idle", "stopped"} \cup CallbackStates
    /\ \A r \in Request : pc[r] \in {"idle", "stopped"} \cup RequestStates

Typed == TypeOK /\ Bounded

LEMMA Rows ==
    ASSUME NEW x \in Row
    PROVE  /\ x.iteration \in 1..MaxIteration /\ x.generation \in Nat
           /\ x.known \in BOOLEAN /\ x.error \in BOOLEAN
BY SessionAssumption DEF Row, Iteration, Generation

\* The row with an error, and the row with DID and tokens.
LEMMA RowsUpdated ==
    ASSUME NEW x \in Row
    PROVE  /\ [x EXCEPT !.error = TRUE] \in Row
           /\ [x EXCEPT !.error = TRUE].error
           /\ [x EXCEPT !.error = TRUE].iteration = x.iteration
           /\ [x EXCEPT !.error = TRUE].generation = x.generation
           /\ [x EXCEPT !.error = TRUE].known = x.known
           /\ [x EXCEPT !.known = TRUE, !.generation = 1] \in Row
           /\ [x EXCEPT !.known = TRUE, !.generation = 1].known
           /\ [x EXCEPT !.known = TRUE, !.generation = 1].iteration = x.iteration
           /\ [x EXCEPT !.known = TRUE, !.generation = 1].generation = 1
           /\ [x EXCEPT !.known = TRUE, !.generation = 1].error = x.error
<1>1. 1 \in Generation
  BY SessionAssumption DEF Generation
<1>. QED BY <1>1 DEF Row

LEMMA NewRows ==
    ASSUME NEW known \in BOOLEAN
    PROVE  /\ NewRow(known) \in Row
           /\ NewRow(known).iteration = 1 /\ NewRow(known).generation = 0
           /\ ~NewRow(known).error
BY SessionAssumption DEF NewRow, Row, Iteration, Generation

\* What storing a row does to the table.
LEMMA RowStored ==
    ASSUME Typed, NEW row \in Row, row.generation <= row.iteration, StoreSession(row)
    PROVE  /\ rows' \subseteq Row /\ indexed' \subseteq Iteration /\ atState' \in Iteration
           /\ \A x, y \in rows' : x.iteration = y.iteration => x = y
           /\ \A x \in rows' : x.generation <= x.iteration
           /\ row \in rows'
           /\ \A x \in rows' : x = row \/ (x \in rows /\ x.iteration # row.iteration)
           /\ backend = "sqlite" \/ rows' = {row} \cup {x \in rows : x.iteration # row.iteration}
           /\ indexed \subseteq indexed' /\ (row.known => row.iteration \in indexed')
BY DEF StoreSession, Typed, TypeOK, Bounded, Row

LEMMA StatesRows == Typed => ByState \subseteq rows /\ Visible \subseteq rows
BY DEF ByState, Visible

LEMMA InitTyped == Init => Typed
<1>. SUFFICES ASSUME Init PROVE Typed
  OBVIOUS
<1>. USE SessionAssumption DEF Init
<1>1. \A h \in Handler : held[h] \in Row /\ held[h].generation <= held[h].iteration
  BY DEF NewRow, Row, Iteration, Generation
<1>2. 0 \in Generation /\ 1 \in Iteration
  BY DEF Generation, Iteration
<1>3. TypeOK
  BY <1>1, <1>2 DEF TypeOK
<1>4. \A h \in Handler : pc[h] = "idle"
  OBVIOUS
<1>5. pds.generation = 0 /\ stale = {} /\ rows = {}
  OBVIOUS
<1>6. pds.generation <= MaxIteration
  BY <1>5
<1>7. \A k \in Callback : pc[k] = "idle"
  BY <1>4 DEF Handler
<1>8. \A r \in Request : pc[r] = "idle"
  BY <1>4 DEF Handler
<1>. HIDE DEF Init
<1>9. Bounded
  BY <1>1, <1>5, <1>6, <1>7, <1>8 DEF Bounded
<1>. QED BY <1>3, <1>9 DEF Typed

LEMMA LoginTyped ==
    ASSUME Typed, NEW known \in BOOLEAN, BeginLogin(known)
    PROVE  Typed'
<1>1. NewRow(known).generation <= NewRow(known).iteration
  BY NewRows
<1>2. StoreSession(NewRow(known))
  BY DEF BeginLogin
<1>. QED BY <1>1, <1>2, NewRows, RowStored DEF BeginLogin, Typed, TypeOK, Bounded

\* The steps of a callback that store no row.
LEMMA CallbackTyped ==
    ASSUME Typed, NEW k \in Callback, CallbackStep(k)
    PROVE  Typed'
<1>. USE SessionAssumption, StatesRows DEF Typed, TypeOK, Bounded, Handler, CallbackStates, RequestStates,
         Go, table, stores
<1>1. CASE ReadSession(k) \/ ReadForError(k)
  BY <1>1 DEF ReadSession, ReadForError
<1>2. CASE StampExchange(k)
  <2>1. held[k] \in Row /\ held[k].generation <= held[k].iteration
    OBVIOUS
  <2>. QED BY <1>2, <2>1, RowStored DEF StampExchange
<1>3. CASE ReadOAuthRequest(k) \/ ReadAuthRequest(k) \/ CallbackError(k)
  BY <1>3 DEF ReadOAuthRequest, ReadAuthRequest, CallbackError
<1>4. CASE CompleteExchange(k)
  <2>1. 1 \in Generation /\ 1 <= MaxIteration
    BY DEF Generation
  <2>. QED BY <1>4, <2>1 DEF CompleteExchange
<1>5. CASE ExchangeFails(k)
  BY <1>5 DEF ExchangeFails
<1>6. CASE StoreDocument(k) \/ DeleteOAuthRequest(k) \/ RemoveAuthRequest(k)
  BY <1>6 DEF StoreDocument, DeleteOAuthRequest, RemoveAuthRequest
<1>7. CASE StoreTokens(k)
  <2>. DEFINE row == [held[k] EXCEPT !.known = TRUE, !.generation = 1]
  <2>1. held[k] \in Row
    OBVIOUS
  <2>2. row \in Row /\ row.generation <= row.iteration
    <3>1. row \in Row /\ row.generation = 1 /\ row.iteration = held[k].iteration
      BY <2>1, RowsUpdated
    <3>2. held[k].iteration \in 1..MaxIteration
      BY <2>1, Rows
    <3>. QED BY <3>1, <3>2
  <2>3. StoreSession(row) /\ pc' = [pc EXCEPT ![k] = "linked"]
        /\ UNCHANGED <<backend, stores, pds, stale, held, got, issued, mishaps>>
    BY <1>7 DEF StoreTokens
  <2>. HIDE DEF row
  <2>. QED BY <2>2, <2>3, RowStored
<1>8. CASE IssueCode(k)
  BY <1>8 DEF IssueCode
<1>9. CASE StoreError(k)
  <2>. DEFINE row == [held[k] EXCEPT !.error = TRUE]
  <2>1. held[k] \in Row /\ held[k].generation <= held[k].iteration
    OBVIOUS
  <2>2. row \in Row /\ row.generation <= row.iteration
    BY <2>1, RowsUpdated
  <2>3. StoreSession(row) /\ pc' = [pc EXCEPT ![k] = "errored"]
        /\ UNCHANGED <<backend, stores, pds, stale, held, got, issued, mishaps>>
    BY <1>9 DEF StoreError
  <2>. HIDE DEF row
  <2>. QED BY <2>2, <2>3, RowStored
<1>. QED BY <1>1, <1>2, <1>3, <1>4, <1>5, <1>6, <1>7, <1>8, <1>9 DEF CallbackStep

\* The next iteration of what a request refreshes.
LEMMA RefreshedTyped ==
    ASSUME Typed, NEW r \in Request, pc[r] = "refreshing",
           NEW g \in Nat, g <= held[r].iteration + 1
    PROVE  /\ Refreshed(r, g) \in Row
           /\ Refreshed(r, g).iteration = held[r].iteration + 1
           /\ Refreshed(r, g).generation = g
           /\ Refreshed(r, g).error <=> g = 0
           /\ Refreshed(r, g).known
<1>1. held[r] \in Row /\ held[r].iteration < MaxIteration
  BY DEF Typed, TypeOK, Bounded, Handler
<1>2. held[r].iteration + 1 \in Iteration /\ g \in Generation
  BY <1>1, Rows, SessionAssumption DEF Iteration, Generation
<1>. QED BY <1>2 DEF Refreshed, Row

LEMMA RequestTyped ==
    ASSUME Typed, NEW r \in Request, RequestStep(r)
    PROVE  Typed'
<1>. USE SessionAssumption, StatesRows DEF Typed, TypeOK, Bounded, Handler, CallbackStates, RequestStates,
         Go, table, stores, Mishap
<1>0. held[r] \in Row /\ r \in Handler
  OBVIOUS
<1>1. CASE UseSession(r)
  <2>1. 0 \in Generation /\ \A x \in Row : x.generation \in Generation
    BY DEF Generation, Row
  <2>. QED BY <1>1, <2>1 DEF UseSession
<1>2. CASE BeginRefresh(r)
  BY <1>2 DEF BeginRefresh
<1>3. CASE DocumentMissing(r) \/ PdsRefuses(r)
  <2>1. Refreshed(r, 0) \in Row /\ Refreshed(r, 0).generation <= Refreshed(r, 0).iteration
    BY <1>0, <1>3, Rows, RefreshedTyped DEF DocumentMissing, PdsRefuses
  <2>2. /\ held' = [held EXCEPT ![r] = Refreshed(r, 0)] /\ pc' = [pc EXCEPT ![r] = "storing"]
        /\ UNCHANGED <<backend, table, stores, pds, stale, got, issued, mishaps>>
    BY <1>3 DEF DocumentMissing, PdsRefuses
  <2>. QED BY <2>1, <2>2
<1>4. CASE PdsRefreshes(r)
  <2>1. /\ pds.generation = held[r].generation /\ held[r].generation \in Nat
        /\ held[r].iteration \in Nat /\ held[r].iteration < MaxIteration
        /\ held[r].generation <= held[r].iteration
    BY <1>0, <1>4, Rows DEF PdsRefreshes
  <2>2. pds.generation + 1 <= held[r].iteration + 1 /\ pds.generation + 1 \in Nat
        /\ pds.generation + 1 <= MaxIteration
    BY <2>1
  <2>3. /\ Refreshed(r, pds.generation + 1) \in Row
        /\ Refreshed(r, pds.generation + 1).generation
             <= Refreshed(r, pds.generation + 1).iteration
    BY <1>4, <2>1, <2>2, RefreshedTyped DEF PdsRefreshes
  <2>4. pds.generation + 1 \in Generation
    BY <2>2 DEF Generation
  <2>. QED BY <1>4, <2>2, <2>3, <2>4 DEF PdsRefreshes
<1>5. CASE PdsUnreachable(r)
  <2>1. Refreshed(r, 0) \in Row /\ Refreshed(r, 0).generation <= Refreshed(r, 0).iteration
    BY <1>0, <1>5, Rows, RefreshedTyped DEF PdsUnreachable
  <2>2. pds' \in [unspent : BOOLEAN, generation : Generation] /\ pds'.generation <= MaxIteration
    <3>1. /\ held[r].generation \in Nat
          /\ held[r].iteration \in Nat /\ held[r].iteration < MaxIteration
          /\ held[r].generation <= held[r].iteration
      BY <1>0, <1>5, Rows DEF PdsUnreachable
    <3>2. CASE held[r].generation = pds.generation /\ pds' = [pds EXCEPT !.generation = @ + 1]
      BY <3>1, <3>2 DEF Generation
    <3>. QED BY <1>5, <3>2 DEF PdsUnreachable
  <2>. QED BY <1>5, <2>1, <2>2 DEF PdsUnreachable
<1>6. CASE StoreRefreshed(r)
  <2>1. StoreSession(held[r]) /\ held[r].generation \in Generation
    BY <1>0, <1>6 DEF StoreRefreshed, Row
  <2>. QED BY <1>0, <1>6, <2>1, RowStored DEF StoreRefreshed
<1>. QED BY <1>1, <1>2, <1>3, <1>4, <1>5, <1>6 DEF RequestStep

LEMMA NextTyped == Typed /\ [Next]_vars => Typed'
<1>. SUFFICES ASSUME Typed, [Next]_vars PROVE Typed'
  OBVIOUS
<1>. USE DEF Typed, TypeOK, Bounded, Handler, table, stores, Mishap
<1>1. ASSUME NEW h \in Handler, Stop(h) PROVE Typed'
  BY <1>1 DEF Stop
<1>2. ASSUME NEW g \in Generation, Age(g) PROVE Typed'
  BY <1>2 DEF Age
<1>3. CASE LoseOAuthRequest \/ LoseDocument
  BY <1>3 DEF LoseOAuthRequest, LoseDocument
<1>4. CASE UNCHANGED vars
  BY <1>4 DEF vars
<1>. QED BY <1>1, <1>2, <1>3, <1>4, LoginTyped, CallbackTyped, RequestTyped DEF Next

(* However often the redirect is delivered and whatever refreshes overlap,  *)
(* the table holds one row of each iteration, and no token is newer than    *)
(* its iteration.                                                           *)
THEOREM TypeCorrect == Spec => []TypeOK
<1>1. Typed => TypeOK
  BY DEF Typed
<1>. QED BY <1>1, InitTyped, NextTyped, PTL DEF Spec

-----------------------------------------------------------------------------
(* Codes. *)

\* Callbacks that hold tokens and have not issued their code yet.
Exchanged == {k \in Callback : pc[k] \in {"exchanged", "documented", "linked", "authorizing"}}

CodeOnce ==
    /\ issued <= 1
    /\ pds.unspent => Exchanged = {} /\ issued = 0
    /\ Exchanged # {} => issued = 0
    /\ \A j, k \in Exchanged : j = k

LEMMA NextCodeOnce ==
    ASSUME Typed, CodeOnce, [Next]_vars
    PROVE  CodeOnce'
<1>. USE SessionAssumption DEF Typed, TypeOK, CodeOnce, Exchanged, Handler, Go
<1>1. ASSUME NEW k \in Callback, CompleteExchange(k) PROVE CodeOnce'
  BY <1>1 DEF CompleteExchange
<1>2. ASSUME NEW k \in Callback, IssueCode(k) PROVE CodeOnce'
  BY <1>2 DEF IssueCode
<1>3. ASSUME NEW k \in Callback, CallbackStep(k), ~CompleteExchange(k), ~IssueCode(k)
      PROVE  CodeOnce'
  <2>1. issued' = issued /\ (pds'.unspent => pds.unspent) /\ Exchanged' \subseteq Exchanged
    BY <1>3 DEF CallbackStep, ReadSession, StampExchange, ReadOAuthRequest, ExchangeFails,
       StoreDocument, StoreTokens, ReadAuthRequest, DeleteOAuthRequest, RemoveAuthRequest,
       CallbackError, ReadForError, StoreError
  <2>. QED BY <2>1
<1>4. ASSUME NEW r \in Request, RequestStep(r) PROVE CodeOnce'
  BY <1>4 DEF RequestStep, UseSession, BeginRefresh, DocumentMissing, PdsRefreshes, PdsRefuses,
     PdsUnreachable, StoreRefreshed
<1>5. ASSUME NEW h \in Handler, Stop(h) PROVE CodeOnce'
  BY <1>5 DEF Stop
<1>6. CASE UNCHANGED <<pds, pc, issued>>
  BY <1>6
<1>. QED BY <1>1, <1>2, <1>3, <1>4, <1>5, <1>6
  DEF Next, BeginLogin, Age, LoseOAuthRequest, LoseDocument, vars

(* A login yields at most one authorization code, however often and however *)
(* concurrently the PDS's redirect is delivered.                            *)
THEOREM OneCodeForLogin == Spec => []OneCodePerLogin
<1>1. Init => CodeOnce
  BY DEF Init, CodeOnce, Exchanged, Handler
<1>2. Typed /\ CodeOnce /\ [Next]_vars => CodeOnce'
  BY NextCodeOnce
<1>3. CodeOnce => OneCodePerLogin
  BY DEF CodeOnce, OneCodePerLogin
<1>. QED BY <1>1, <1>2, <1>3, InitTyped, NextTyped, PTL DEF Spec

-----------------------------------------------------------------------------
(* Phases of a login whose redirect is delivered once. *)

Sole == \A j, k \in Callback : pc[j] # "idle" /\ pc[k] # "idle" => j = k

Before ==
    /\ \A x \in rows : x.iteration = 1 /\ x.generation = 0
    /\ \A k \in Callback :
          /\ pc[k] \notin {"linked", "authorizing", "issued", "cleaning", "done"}
          /\ pc[k] \in {"exchanged", "documented"} => pds.generation = 1
          /\ held[k].iteration = 1 /\ held[k].generation = 0
    /\ Refreshing = {}
    /\ \A r \in Request : got[r] = 0
    /\ issued = 0

\* A row, stored or about to be: with tokens or an error.
Sound(x) ==
    /\ x.known
    /\ x.error \/ (x.generation = x.iteration /\ x.generation <= pds.generation)

\* A request under way holds such a row; only one about to store it an error.
Holds(r) ==
    Sound(held[r]) /\ (held[r].error => pc[r] = "storing" /\ held[r].generation = 0)

\* A request that is about to store tokens the PDS just gave it.
Bearing == {r \in Request : pc[r] = "storing" /\ ~held[r].error}

\* What b brings is the newest, and newer than all else.
Leads(b) ==
    /\ held[b].generation = pds.generation
    /\ \A x \in rows : x.error \/ x.generation < held[b].generation
    /\ \A r \in Request :
          /\ r \in Refreshing \ {b} /\ ~held[r].error => held[r].generation < held[b].generation
          /\ got[r] < held[b].generation

Last(x) == x \in rows /\ \A y \in rows : y.iteration <= x.iteration

After ==
    /\ \E x \in rows : Last(x)
    /\ \A x \in rows : Sound(x) /\ x.iteration \in indexed
    /\ \E k \in Callback : pc[k] # "idle"
    /\ \A k \in Callback :
          /\ pc[k] \notin {"read", "stamped", "exchanging", "exchanged", "documented"}
          /\ pc[k] = "recording" => held[k].known
    /\ \A r \in Refreshing : Holds(r)
    /\ \A b \in Bearing : Leads(b)
    /\ \A r \in Request : got[r] <= pds.generation
    /\ \A x \in rows : Last(x) => x.error \/ \A r \in Request : got[r] <= x.generation

Phases == Sole => Before \/ After

LEMMA SoleOnce == DeliveredOnce <=> Sole
<1>. DEFINE S == {k \in Callback : pc[k] # "idle"}
<1>1. IsFiniteSet(S)
  BY SessionAssumption, FS_Subset
<1>2. ASSUME Cardinality(S) <= 1 PROVE Sole
  <2>1. S = {} \/ \E k : S = {k}
    <3>1. Cardinality(S) = 0 \/ Cardinality(S) = 1
      BY <1>1, <1>2, FS_CardinalityType
    <3>. QED BY <1>1, <3>1, FS_EmptySet, FS_Singleton
  <2>. QED BY <2>1 DEF Sole
<1>3. ASSUME Sole PROVE Cardinality(S) <= 1
  <2>1. CASE S = {}
    BY <2>1, FS_EmptySet
  <2>2. CASE S # {}
    <3>1. PICK k \in S : TRUE
      BY <2>2
    <3>2. S = {k}
      BY <1>3, <3>1 DEF Sole
    <3>3. Cardinality({k}) = 1
      BY FS_Singleton
    <3>. QED BY <3>2, <3>3
  <2>. QED BY <2>1, <2>2
<1>. QED BY <1>2, <1>3 DEF DeliveredOnce

\* A delivered callback stays so.
LEMMA CallbackStays ==
    ASSUME Typed, [Next]_vars, NEW k \in Callback, pc[k] # "idle"
    PROVE  pc'[k] # "idle"
<1>. USE SessionAssumption DEF Typed, TypeOK, Handler, Go
<1>1. ASSUME NEW j \in Callback, CallbackStep(j) PROVE pc'[k] # "idle"
  BY <1>1 DEF CallbackStep, ReadSession, StampExchange, ReadOAuthRequest, CompleteExchange,
     ExchangeFails, StoreDocument, StoreTokens, ReadAuthRequest, IssueCode, DeleteOAuthRequest,
     RemoveAuthRequest, CallbackError, ReadForError, StoreError
<1>2. ASSUME NEW r \in Request, RequestStep(r) PROVE pc'[k] # "idle"
  BY <1>2 DEF RequestStep, UseSession, BeginRefresh, DocumentMissing, PdsRefreshes, PdsRefuses,
     PdsUnreachable, StoreRefreshed
<1>3. ASSUME NEW h \in Handler, Stop(h) PROVE pc'[k] # "idle"
  BY <1>3 DEF Stop
<1>4. CASE UNCHANGED pc
  BY <1>4
<1>. QED BY <1>1, <1>2, <1>3, <1>4 DEF Next, BeginLogin, Age, LoseOAuthRequest, LoseDocument, vars

LEMMA SoleStays == Typed /\ [Next]_vars /\ Sole' => Sole
BY CallbackStays DEF Sole

-----------------------------------------------------------------------------
(* Before the tokens are stored. *)

LEMMA CallbackBefore ==
    ASSUME Typed, Before, NEW k \in Callback, CallbackStep(k), ~StoreTokens(k)
    PROVE  Before'
<1>. USE SessionAssumption, StatesRows DEF Typed, TypeOK, Bounded, Before, Refreshing, Handler, Go,
         table, stores
<1>1. CASE ReadSession(k) \/ ReadForError(k)
  BY <1>1 DEF ReadSession, ReadForError
<1>2. CASE StampExchange(k)
  BY <1>2, RowStored DEF StampExchange
<1>3. CASE ReadOAuthRequest(k) \/ CallbackError(k)
  BY <1>3 DEF ReadOAuthRequest, CallbackError
<1>4. CASE CompleteExchange(k) \/ ExchangeFails(k)
  BY <1>4 DEF CompleteExchange, ExchangeFails
<1>5. CASE StoreDocument(k)
  BY <1>5 DEF StoreDocument
<1>6. CASE StoreError(k)
  <2>1. held[k] \in Row /\ held[k].iteration = 1 /\ held[k].generation = 0
    OBVIOUS
  <2>. DEFINE row == [held[k] EXCEPT !.error = TRUE]
  <2>2. row \in Row /\ row.iteration = 1 /\ row.generation = 0
    BY <2>1, RowsUpdated
  <2>3. StoreSession(row) /\ pc' = [pc EXCEPT ![k] = "errored"]
        /\ UNCHANGED <<pds, held, got, issued>>
    BY <1>6 DEF StoreError
  <2>. HIDE DEF row
  <2>. QED BY <2>2, <2>3, RowStored
<1>. QED BY <1>1, <1>2, <1>3, <1>4, <1>5, <1>6
  DEF CallbackStep, ReadAuthRequest, IssueCode, DeleteOAuthRequest, RemoveAuthRequest

LEMMA NextBefore ==
    ASSUME Typed, Before, [Next]_vars, \A k \in Callback : ~StoreTokens(k)
    PROVE  Before'
<1>. USE SessionAssumption, StatesRows DEF Typed, TypeOK, Bounded, Before, Refreshing, Handler, Go,
         table, stores
<1>1. ASSUME NEW known \in BOOLEAN, BeginLogin(known) PROVE Before'
  BY <1>1, NewRows, RowStored DEF BeginLogin
<1>2. ASSUME NEW r \in Request, RequestStep(r) PROVE Before'
  <2>1. UseSession(r)
    BY <1>2 DEF RequestStep, BeginRefresh, NeedsRefresh, DocumentMissing, PdsRefreshes,
       PdsRefuses, PdsUnreachable, StoreRefreshed
  <2>. QED BY <2>1 DEF UseSession
<1>3. ASSUME NEW h \in Handler, Stop(h) PROVE Before'
  BY <1>3 DEF Stop
<1>4. CASE UNCHANGED <<rows, pc, pds, held, got, issued>>
  BY <1>4
<1>. QED BY <1>1, <1>2, <1>3, <1>4, CallbackBefore
  DEF Next, Age, LoseOAuthRequest, LoseDocument, vars

\* The tokens of the code exchange become the only row.
LEMMA TokensStored ==
    ASSUME Typed, Before, Sole, NEW k \in Callback, StoreTokens(k)
    PROVE  /\ After'
           /\ \A x \in rows' : x.iteration = 1 /\ x.error = held[k].error
           /\ pds'.generation = 1
<1>. DEFINE row == [held[k] EXCEPT !.known = TRUE, !.generation = 1]
<1>1. held[k] \in Row /\ held[k].iteration = 1
  BY DEF Typed, TypeOK, Before, Handler
<1>2. /\ row \in Row /\ row.known /\ row.iteration = 1 /\ row.generation = 1
      /\ row.error = held[k].error
  BY <1>1, RowsUpdated
<1>3. StoreSession(row) /\ pc[k] = "documented" /\ pc' = [pc EXCEPT ![k] = "linked"]
      /\ UNCHANGED <<backend, pds, held, got>>
  BY DEF StoreTokens, Go
<1>. HIDE DEF row
<1>4. rows' = {row} /\ row.iteration \in indexed'
  BY <1>2, <1>3, RowStored DEF Before
<1>5. pds'.generation = 1
  BY <1>3 DEF Before
<1>6. \A j \in Callback \ {k} : pc'[j] = "idle"
  BY <1>3 DEF Sole, Typed, TypeOK
<1>7. pc'[k] = "linked"
  BY <1>3 DEF Typed, TypeOK, Handler
<1>8. Refreshing' = {} /\ Bearing' = {}
  BY <1>3, SessionAssumption DEF Refreshing, Bearing, Before, Typed, TypeOK
<1>9. \A r \in Request : got'[r] = 0
  BY <1>3 DEF Before
<1>. QED BY <1>2, <1>4, <1>5, <1>6, <1>7, <1>8, <1>9 DEF After, Last, Sound

-----------------------------------------------------------------------------
(* After the tokens are stored. *)

\* The last row is the one stored, unless a later one remains.
LEMMA LastStored ==
    ASSUME Typed, \E x \in rows : Last(x), NEW row \in Row, StoreSession(row)
    PROVE  /\ \E x \in rows' : Last(x)'
           /\ \A x \in rows' : Last(x)' =>
                 x = row \/ (Last(x) /\ x.iteration > row.iteration)
<1>1. PICK top \in rows : Last(top)
  OBVIOUS
<1>2. \A x \in rows \cup {row} : x.iteration \in Nat
  BY Rows, SessionAssumption DEF Typed, TypeOK
<1>3. CASE backend = "sqlite"
  <2>1. rows' = {row}
    BY <1>3 DEF StoreSession
  <2>. QED BY <1>2, <2>1 DEF Last
<1>4. CASE backend # "sqlite"
  <2>1. rows' = {row} \cup {x \in rows : x.iteration # row.iteration}
    BY <1>4 DEF StoreSession
  <2>2. CASE top.iteration > row.iteration
    BY <1>1, <1>2, <2>1, <2>2 DEF Last
  <2>3. CASE top.iteration <= row.iteration
    BY <1>1, <1>2, <2>1, <2>3 DEF Last
  <2>. QED BY <1>1, <1>2, <2>2, <2>3
<1>. QED BY <1>3, <1>4

\* Storing a sound row keeps what After says of the rows.
LEMMA SoundStored ==
    ASSUME Typed, After, NEW row \in Row, row.generation <= row.iteration,
           Sound(row), StoreSession(row), UNCHANGED pds
    PROVE  /\ \E x \in rows' : Last(x)'
           /\ \A x \in rows' : Sound(x)' /\ x.iteration \in indexed'
           /\ \A x \in rows' : x = row \/ x \in rows
           /\ \A x \in rows' : Last(x)' =>
                 x = row \/ (Last(x) /\ x.iteration > row.iteration)
BY RowStored, LastStored DEF After, Sound

LEMMA CallbackAfter ==
    ASSUME Typed, After, Sole', NEW k \in Callback, CallbackStep(k)
    PROVE  After'
<1>. USE SessionAssumption DEF Handler, Go, table, stores
<1>0. /\ pc \in [Handler -> {"idle", "stopped"} \cup CallbackStates \cup RequestStates]
      /\ held \in [Handler -> Row] /\ k \notin Request
  BY DEF Typed, TypeOK
<1>1. pc[k] # "idle"
  <2>1. \E j \in Callback : pc[j] # "idle"
    BY DEF After
  <2>2. pc'[k] # "idle"
    BY <1>0 DEF CallbackStep, ReadSession, StampExchange, ReadOAuthRequest, CompleteExchange,
     ExchangeFails, StoreDocument, StoreTokens, ReadAuthRequest, IssueCode, DeleteOAuthRequest,
     RemoveAuthRequest, CallbackError, ReadForError, StoreError
  <2>3. \A j \in Callback \ {k} : pc'[j] = pc[j]
    BY <1>0 DEF CallbackStep, ReadSession, StampExchange, ReadOAuthRequest, CompleteExchange,
     ExchangeFails, StoreDocument, StoreTokens, ReadAuthRequest, IssueCode, DeleteOAuthRequest,
     RemoveAuthRequest, CallbackError, ReadForError, StoreError
  <2>. QED BY <2>1, <2>2, <2>3 DEF Sole
<1>2. pc[k] \notin {"read", "stamped", "exchanging", "exchanged", "documented"}
  BY DEF After
<1>3. CASE ReadAuthRequest(k) \/ IssueCode(k) \/ DeleteOAuthRequest(k) \/ RemoveAuthRequest(k)
           \/ CallbackError(k)
  BY <1>0, <1>3 DEF ReadAuthRequest, IssueCode, DeleteOAuthRequest, RemoveAuthRequest,
     CallbackError, After, Refreshing, Bearing, Leads, Holds, Sound, Last
<1>4. CASE ReadForError(k)
  BY <1>0, <1>4, StatesRows DEF ReadForError, After, Refreshing, Bearing, Leads, Holds, Sound, Last
<1>5. CASE StoreError(k)
  <2>. DEFINE row == [held[k] EXCEPT !.error = TRUE]
  <2>1. held[k] \in Row /\ held[k].generation <= held[k].iteration /\ held[k].known
    BY <1>0, <1>5 DEF StoreError, Typed, Bounded, After
  <2>2. row \in Row /\ row.generation <= row.iteration /\ row.known /\ row.error
    BY <2>1, RowsUpdated
  <2>3. StoreSession(row) /\ pc' = [pc EXCEPT ![k] = "errored"]
        /\ UNCHANGED <<pds, held, got>>
    BY <1>5 DEF StoreError
  <2>. HIDE DEF row
  <2>4. Sound(row)
    BY <2>2 DEF Sound
  <2>5. /\ \E x \in rows' : Last(x)'
        /\ \A x \in rows' : Sound(x)' /\ x.iteration \in indexed'
        /\ \A x \in rows' : x.error \/ x \in rows
        /\ \A x \in rows' : Last(x)' => x.error \/ Last(x)
    BY <2>2, <2>3, <2>4, SoundStored
  <2>6. pc'[k] = "errored" /\ \A h \in Handler \ {k} : pc'[h] = pc[h]
    BY <1>0, <2>3
  <2>7. Refreshing' = Refreshing /\ Bearing' = Bearing
    BY <1>0, <2>3, <2>6 DEF Refreshing, Bearing
  <2>8. \A b \in Bearing : Leads(b)'
    BY <2>3, <2>5, <2>7 DEF Leads, After
  <2>9. \A x \in rows' : Last(x)' => x.error \/ \A r \in Request : got'[r] <= x.generation
    BY <2>3, <2>5 DEF After, Last
  <2>10. \A r \in Refreshing : Holds(r)'
    BY <1>0, <2>3, <2>6 DEF After, Holds, Sound, Refreshing
  <2>. QED BY <1>0, <2>3, <2>5, <2>6, <2>7, <2>8, <2>9, <2>10 DEF After
<1>. QED BY <1>1, <1>2, <1>3, <1>4, <1>5
  DEF CallbackStep, ReadSession, StampExchange, ReadOAuthRequest, CompleteExchange, ExchangeFails,
      StoreDocument, StoreTokens

\* A refresh yields the token of its iteration.
LEMMA RefreshedSound ==
    ASSUME Typed, After, NEW r \in Request, pc[r] = "refreshing"
    PROVE  /\ r \in Refreshing /\ r \notin Bearing
           /\ held[r] \in Row /\ held[r].generation = held[r].iteration
           /\ held[r].generation <= pds.generation
           /\ held[r].generation \in Nat /\ pds.generation \in Nat
           /\ \A b \in Bearing : held[r].generation < held[b].generation
BY Rows, SessionAssumption
   DEF After, Refreshing, Bearing, Leads, Holds, Sound, Typed, TypeOK, Handler, Generation

\* An unsuccessful refresh: an error is about to be stored.
LEMMA FailedAfter ==
    ASSUME Typed, After, NEW r \in Request, Go(r, "refreshing", "storing"),
           held' = [held EXCEPT ![r] = Refreshed(r, 0)],
           pds'.generation = pds.generation
             \/ (held[r].generation = pds.generation
                   /\ pds'.generation = pds.generation + 1),
           UNCHANGED <<table, got>>
    PROVE  After'
<1>. USE DEF table, Go
<1>1. /\ held'[r].error /\ held'[r].known /\ held'[r].generation = 0
      /\ \A h \in Handler \ {r} : held'[h] = held[h] /\ pc'[h] = pc[h]
      /\ pc'[r] = "storing" /\ r \in Handler
  BY RefreshedTyped, Rows DEF Typed, TypeOK, Handler
<1>2. Refreshing' = Refreshing /\ Bearing' = Bearing
  BY <1>1, RefreshedSound DEF Refreshing, Bearing, Handler
<1>3. \A b \in Bearing : pds'.generation = pds.generation
  BY RefreshedSound DEF After, Leads
<1>4. \A b \in Bearing : Leads(b)'
  BY <1>1, <1>2, <1>3, RefreshedSound DEF After, Leads, Handler, Refreshing
<1>5. /\ pds.generation <= pds'.generation /\ pds.generation \in Nat /\ pds'.generation \in Nat
      /\ \A n \in Nat : n <= pds.generation => n <= pds'.generation
  BY RefreshedSound
<1>6. \A x \in Row : Sound(x) => Sound(x)'
  BY <1>5, Rows DEF Sound
<1>7. ASSUME NEW q \in Refreshing PROVE Holds(q)'
  <2>1. CASE q = r
    BY <1>1, <2>1 DEF Holds, Sound
  <2>2. CASE q # r
    BY <1>1, <1>6, <2>2 DEF After, Refreshing, Handler, Typed, TypeOK, Sound, Holds
  <2>. QED BY <2>1, <2>2
<1>8. \A x \in rows : Sound(x)' /\ x.iteration \in indexed'
  BY <1>6 DEF After, Typed, TypeOK
<1>9. \A q \in Request : got'[q] <= pds'.generation
  BY <1>5, SessionAssumption DEF After, Typed, TypeOK, Generation
<1>10. \A k \in Callback : pc'[k] = pc[k] /\ held'[k] = held[k]
  BY <1>1, SessionAssumption DEF Handler
<1>. QED BY <1>2, <1>4, <1>7, <1>8, <1>9, <1>10 DEF After, Last

LEMMA RequestAfter ==
    ASSUME Typed, After, NEW r \in Request, RequestStep(r)
    PROVE  After'
<1>. USE SessionAssumption DEF Go, table, stores
<1>0. /\ pc \in [Handler -> {"idle", "stopped"} \cup CallbackStates \cup RequestStates]
      /\ held \in [Handler -> Row] /\ got \in [Request -> Generation]
      /\ r \in Handler /\ r \notin Callback /\ held[r] \in Row
      /\ rows \subseteq Row
  BY DEF Typed, TypeOK, Handler
<1>1. ASSUME NEW x \in Visible, Newest(x) PROVE x \in rows /\ Last(x)
  <2>1. Visible = rows
    BY DEF Visible, After, Sound
  <2>. QED BY <1>1, <2>1 DEF Newest, Last
<1>2. CASE UseSession(r)
  <2>1. PICK x \in Visible : Newest(x) /\ got' = [got EXCEPT ![r] = IF x.error THEN 0 ELSE x.generation]
    BY <1>2 DEF UseSession
  <2>2. x \in rows /\ Last(x) /\ x \in Row
    BY <1>0, <1>1, <2>1
  <2>3. got'[r] = (IF x.error THEN 0 ELSE x.generation) /\ \A q \in Request \ {r} : got'[q] = got[q]
    BY <1>0, <2>1
  <2>4. \A y \in rows : Last(y) => y = x
    <3>1. \A y \in rows : Last(y) => y.iteration = x.iteration
      BY <1>0, <2>2, Rows DEF Last
    <3>. QED BY <2>2, <3>1 DEF Typed, TypeOK
  <2>5. /\ pc'[r] \in {"refused", "answered"} /\ \A h \in Handler \ {r} : pc'[h] = pc[h]
        /\ pc[r] = "idle"
        /\ UNCHANGED <<rows, indexed, pds, held>>
    BY <1>0, <1>2 DEF UseSession
  <2>6. Refreshing' = Refreshing /\ Bearing' = Bearing
    BY <2>5 DEF Refreshing, Bearing, Handler
  <2>7. pds.generation \in Nat /\ got'[r] <= pds.generation
    BY <2>2, <2>3, Rows DEF After, Sound, Typed, TypeOK, Generation
  <2>8. \A b \in Bearing : got'[r] < held[b].generation
    <3>1. got[r] \in Nat /\ \A b \in Bearing : held[b].generation \in Nat /\ got[r] < held[b].generation
      BY <1>0, Rows DEF After, Leads, Bearing, Handler, Generation
    <3>2. x.error \/ \A b \in Bearing : x.generation < held[b].generation
      BY <2>2 DEF After, Leads
    <3>. QED BY <2>3, <3>1, <3>2
  <2>9. \A b \in Bearing : Leads(b)'
    BY <2>3, <2>5, <2>6, <2>8 DEF After, Leads
  <2>10. \A y \in rows : Last(y) => y.error \/ \A q \in Request : got'[q] <= y.generation
    BY <2>2, <2>3, <2>4, Rows DEF After
  <2>11. \A k \in Callback : pc'[k] = pc[k]
    BY <1>0, <2>5 DEF Handler
  <2>12. \A q \in Refreshing : pc'[q] = pc[q]
    BY <2>5 DEF Refreshing, Handler
  <2>. QED BY <2>3, <2>5, <2>6, <2>7, <2>9, <2>10, <2>11, <2>12 DEF After, Last, Holds, Sound
<1>3. CASE BeginRefresh(r)
  <2>1. PICK x \in Visible : /\ Newest(x) /\ NeedsRefresh(x)
                             /\ held' = [held EXCEPT ![r] = x]
    BY <1>3 DEF BeginRefresh
  <2>2. x \in rows /\ x \in Row /\ ~x.error /\ Sound(x)
    BY <1>0, <1>1, <2>1 DEF NeedsRefresh, After
  <2>3. /\ pc'[r] = "refreshing" /\ held'[r] = x
        /\ \A h \in Handler \ {r} : pc'[h] = pc[h] /\ held'[h] = held[h]
        /\ pc[r] = "idle"
        /\ UNCHANGED <<rows, indexed, pds, got>>
    BY <1>0, <1>3, <2>1 DEF BeginRefresh
  <2>4. Refreshing' = Refreshing \cup {r} /\ r \notin Refreshing /\ Bearing' = Bearing
    BY <2>3 DEF Refreshing, Bearing, Handler
  <2>5. \A b \in Bearing : Leads(b)'
    BY <2>2, <2>3, <2>4 DEF After, Leads, Refreshing, Bearing, Handler
  <2>6. \A k \in Callback : pc'[k] = pc[k] /\ held'[k] = held[k]
    BY <1>0, <2>3 DEF Handler
  <2>7. \A q \in Refreshing' : Holds(q)'
    BY <2>2, <2>3, <2>4 DEF After, Holds, Sound, Refreshing, Handler
  <2>. QED BY <2>3, <2>4, <2>5, <2>6, <2>7 DEF After, Last, Sound
<1>4. CASE DocumentMissing(r) \/ PdsRefuses(r)
  BY <1>4, FailedAfter DEF DocumentMissing, PdsRefuses
<1>5. CASE PdsUnreachable(r)
  <2>1. pds' = pds \/ (held[r].generation = pds.generation /\ pds'.generation = pds.generation + 1)
    BY <1>5 DEF PdsUnreachable, Typed, TypeOK
  <2>. QED BY <1>5, <2>1, FailedAfter DEF PdsUnreachable
<1>6. CASE PdsRefreshes(r)
  <2>. DEFINE g == held[r].generation
  <2>1. /\ pc[r] = "refreshing" /\ g = pds.generation
        /\ pc' = [pc EXCEPT ![r] = "storing"]
        /\ held' = [held EXCEPT ![r] = Refreshed(r, pds.generation + 1)]
        /\ pds' = [pds EXCEPT !.generation = @ + 1]
        /\ UNCHANGED <<rows, indexed, got>>
    BY <1>6 DEF PdsRefreshes
  <2>2. /\ g \in Nat /\ g = held[r].iteration /\ pds'.generation = g + 1
        /\ r \in Refreshing /\ Bearing = {}
    BY <2>1, RefreshedSound DEF After, Leads, Typed, TypeOK
  <2>3. /\ held'[r].generation = g + 1 /\ held'[r].iteration = g + 1
        /\ held'[r].known /\ ~held'[r].error
        /\ pc'[r] = "storing"
        /\ \A h \in Handler \ {r} : pc'[h] = pc[h] /\ held'[h] = held[h]
    BY <1>0, <2>1, <2>2, RefreshedTyped
  <2>4. Refreshing' = Refreshing /\ Bearing' = {r}
    BY <2>2, <2>3 DEF Refreshing, Bearing, Handler
  <2>5. \A x \in Row : Sound(x) => Sound(x)' /\ (x.error \/ x.generation < g + 1)
    BY <2>1, <2>2, Rows DEF Sound
  <2>6. \A q \in Request : got[q] \in Nat /\ got[q] < g + 1
    BY <1>0, <2>1, <2>2 DEF After, Generation
  <2>7. \A q \in Refreshing \ {r} : Holds(q)' /\ (held'[q].error \/ held'[q].generation < g + 1)
    BY <1>0, <2>3, <2>5 DEF After, Holds, Sound, Refreshing, Handler
  <2>8. Holds(r)'
    BY <2>2, <2>3 DEF Holds, Sound
  <2>9. Leads(r)'
    BY <1>0, <2>1, <2>2, <2>3, <2>4, <2>5, <2>6, <2>7 DEF Leads, After
  <2>10. \A x \in rows : Sound(x)' /\ x.iteration \in indexed
    BY <1>0, <2>5 DEF After
  <2>11. \A k \in Callback : pc'[k] = pc[k] /\ held'[k] = held[k]
    BY <1>0, <2>3 DEF Handler
  <2>12. \A q \in Request : got'[q] <= pds'.generation
    BY <2>1, <2>2, <2>6
  <2>. QED BY <2>1, <2>4, <2>7, <2>8, <2>9, <2>10, <2>11, <2>12 DEF After, Last
<1>7. CASE StoreRefreshed(r)
  <2>1. /\ pc[r] = "storing" /\ StoreSession(held[r])
        /\ pc'[r] \in {"refused", "answered"} /\ \A h \in Handler \ {r} : pc'[h] = pc[h]
        /\ got'[r] = held[r].generation /\ \A q \in Request \ {r} : got'[q] = got[q]
        /\ UNCHANGED <<pds, held>>
    BY <1>0, <1>7 DEF StoreRefreshed
  <2>2. r \in Refreshing /\ Holds(r) /\ held[r].generation <= held[r].iteration
    BY <1>0, <2>1 DEF After, Refreshing, Typed, Bounded
  <2>3. /\ \E x \in rows' : Last(x)'
        /\ \A x \in rows' : Sound(x)' /\ x.iteration \in indexed'
        /\ \A x \in rows' : x = held[r] \/ x \in rows
        /\ \A x \in rows' : Last(x)' =>
              x = held[r] \/ (Last(x) /\ x.iteration > held[r].iteration)
    BY <1>0, <2>1, <2>2, SoundStored DEF Holds
  <2>4. Refreshing' = Refreshing \ {r} /\ Bearing' = Bearing \ {r}
    BY <2>1 DEF Refreshing, Bearing, Handler
  <2>5. \A b \in Bearing \ {r} : held[r].error
    BY <2>1, <2>2, Rows, <1>0 DEF After, Leads, Bearing, Handler
  <2>6. got[r] \in Nat /\ \A b \in Bearing : held[b].generation \in Nat /\ got[r] < held[b].generation
    BY <1>0, Rows DEF After, Leads, Bearing, Handler, Generation
  <2>7. ASSUME NEW b \in Bearing \ {r} PROVE Leads(b)'
    <3>1. held[r].error /\ got'[r] = 0
      BY <2>1, <2>2, <2>5, <2>7 DEF Holds
    <3>2. \A x \in rows' : x.error \/ x.generation < held[b].generation
      BY <2>3, <2>7, <3>1 DEF After, Leads
    <3>3. \A q \in Request : got'[q] < held[b].generation
      BY <2>1, <2>6, <2>7, <3>1 DEF After, Leads
    <3>. QED BY <2>1, <2>4, <2>7, <3>2, <3>3 DEF After, Leads
  <2>8. \A q \in Request : got'[q] <= pds'.generation
    <3>1. held[r].generation <= pds.generation
      BY <1>0, <2>2, SessionAssumption DEF Holds, Sound, Typed, TypeOK, Generation
    <3>. QED BY <2>1, <3>1 DEF After
  <2>9. ASSUME NEW x \in rows', Last(x)', ~x.error, NEW q \in Request
        PROVE  got'[q] <= x.generation
    <3>1. CASE x = held[r]
      <4>1. r \in Bearing
        BY <2>1, <2>9, <3>1 DEF Bearing
      <4>2. x.generation = pds.generation
        BY <3>1, <4>1 DEF After, Leads
      <4>. QED BY <2>1, <2>8, <4>2
    <3>2. CASE x \in rows /\ Last(x) /\ x.iteration > held[r].iteration
      <4>1. x.generation = x.iteration /\ x.generation <= pds.generation /\ x \in Row
        BY <1>0, <2>9, <3>2 DEF After, Sound
      <4>2. held[r].error
        BY <1>0, <2>1, <3>2, <4>1, <2>2, Rows
           DEF After, Leads, Bearing, Holds, Sound, Typed, TypeOK, Generation
      <4>3. got'[r] = 0
        BY <2>1, <2>2, <4>2 DEF Holds
      <4>4. got[q] <= x.generation
        BY <2>9, <3>2 DEF After
      <4>. QED BY <2>1, <4>1, <4>3, <4>4, Rows
    <3>. QED BY <2>3, <2>9, <3>1, <3>2
  <2>10. \A q \in Refreshing' : Holds(q)'
    BY <2>1, <2>4 DEF After, Holds, Sound, Refreshing, Handler
  <2>11. \A k \in Callback : pc'[k] = pc[k] /\ held'[k] = held[k]
    BY <1>0, <2>1 DEF Handler
  <2>. QED BY <2>3, <2>4, <2>7, <2>8, <2>9, <2>10, <2>11 DEF After
<1>. QED BY <1>2, <1>3, <1>4, <1>5, <1>6, <1>7 DEF RequestStep

LEMMA NextAfter == Typed /\ After /\ Sole' /\ [Next]_vars => After'
<1>. SUFFICES ASSUME Typed, After, Sole', [Next]_vars PROVE After'
  OBVIOUS
<1>. USE DEF After, Refreshing, Bearing, Leads, Holds, Sound, Last, table
<1>1. ASSUME NEW known \in BOOLEAN, BeginLogin(known) PROVE After'
  BY <1>1 DEF BeginLogin
<1>2. ASSUME NEW h \in Handler, Stop(h) PROVE After'
  <2>1. pc' = [pc EXCEPT ![h] = "stopped"] /\ UNCHANGED <<rows, indexed, pds, held, got>>
    BY <1>2 DEF Stop
  <2>2. Refreshing' \subseteq Refreshing /\ Bearing' \subseteq Bearing
    BY <2>1 DEF Typed, TypeOK, Handler
  <2>3. \A g \in Handler : pc'[g] = pc[g] \/ pc'[g] = "stopped"
    BY <2>1 DEF Typed, TypeOK
  <2>. QED BY <2>1, <2>2, <2>3 DEF Handler
<1>3. CASE UNCHANGED <<rows, indexed, pds, pc, held, got>>
  BY <1>3
<1>. QED BY <1>1, <1>2, <1>3, CallbackAfter, RequestAfter
  DEF Next, Age, LoseOAuthRequest, LoseDocument, vars

LEMMA NextPhases == Typed /\ Phases /\ [Next]_vars => Phases'
<1>. SUFFICES ASSUME Typed, Phases, [Next]_vars, Sole' PROVE Before' \/ After'
  BY DEF Phases
<1>1. Sole /\ (Before \/ After)
  BY SoleStays DEF Phases
<1>2. CASE After
  BY <1>2, NextAfter
<1>3. CASE Before /\ \E k \in Callback : StoreTokens(k)
  BY <1>1, <1>3, TokensStored
<1>4. CASE Before /\ \A k \in Callback : ~StoreTokens(k)
  BY <1>4, NextBefore
<1>. QED BY <1>1, <1>2, <1>3, <1>4

LEMMA InitBefore == Init => Before
BY DEF Init, Before, Refreshing, Handler, NewRow

LEMMA LastNewest ==
    ASSUME After, NEW x \in rows, Last(x)
    PROVE  x \in Visible /\ Newest(x)
BY DEF After, Last, Sound, Visible, Newest

(* A client that received its code finds its session with DID and tokens,   *)
(* or with the error of a refresh since, when the redirect came once.       *)
THEOREM IssuedCodesHaveSession == Spec => []IssuedCodeHasSession
<1>1. Init => Phases
  BY InitBefore DEF Phases
<1>2. Typed /\ Phases => IssuedCodeHasSession
  <2>. SUFFICES ASSUME Typed, After
                PROVE  \E x \in Visible : Newest(x) /\ (x.generation > 0 \/ x.error)
    BY SoleOnce DEF Phases, Before, IssuedCodeHasSession
  <2>1. PICK x \in rows : Last(x)
    BY DEF After
  <2>2. x \in Row /\ (x.error \/ x.generation = x.iteration)
    BY <2>1 DEF After, Sound, Typed, TypeOK
  <2>. QED BY <2>1, <2>2, LastNewest, Rows
<1>. QED BY <1>1, <1>2, InitTyped, NextTyped, NextPhases, PTL DEF Spec

(* Once a request was answered with some generation of the tokens, the      *)
(* newest row holds that one, a later one or an error, whatever slower      *)
(* refreshes and failing callbacks store afterwards, on every backend.      *)
THEOREM TokensAdvance == Spec => []TokensNeverGoBack
<1>1. Init => Phases
  BY InitBefore DEF Phases
<1>2. Typed /\ Phases => TokensNeverGoBack
  <2>. SUFFICES ASSUME Typed, After, NEW r \in Request
                PROVE  \E x \in Visible : Newest(x) /\ (x.error \/ x.generation >= got[r])
    BY SoleOnce DEF Phases, Before, TokensNeverGoBack
  <2>1. PICK x \in rows : Last(x)
    BY DEF After
  <2>2. x.error \/ got[r] <= x.generation
    BY <2>1 DEF After
  <2>3. x.generation \in Nat /\ got[r] \in Nat
    BY <2>1, Rows DEF Typed, TypeOK, Generation
  <2>. QED BY <2>1, <2>2, <2>3, LastNewest
<1>. QED BY <1>1, <1>2, InitTyped, NextTyped, NextPhases, PTL DEF Spec

-----------------------------------------------------------------------------
(* Refreshes while nothing goes wrong. *)

Smooth == mishaps = {} /\ ~CallbackFailed /\ Sole

\* No error, and one refresh at a time, which the PDS is going to accept.
Healthy ==
    /\ \A x \in rows : ~x.error
    /\ \A k \in Callback : ~held[k].error
    /\ \A q, r \in Refreshing : q = r
    /\ \A r \in Refreshing :
          document /\ ~held[r].error /\ held[r].generation = pds.generation

\* The newest tokens are stored, or about to be.
Synced ==
    \/ \E r \in Request : pc[r] = "storing"
    \/ \E x \in rows : x.iteration = pds.generation

Unharmed == Smooth => Healthy /\ (Before \/ (After /\ Synced))

LEMMA SmoothBefore ==
    ASSUME Typed, [Next]_vars, Smooth'
    PROVE  Smooth
<1>. USE SessionAssumption DEF Typed, TypeOK, Handler, Go, CallbackFailed
<1>1. Sole
  BY SoleStays DEF Smooth
<1>2. mishaps \subseteq mishaps'
  BY DEF Next, BeginLogin, CallbackStep, ReadSession, StampExchange, ReadOAuthRequest,
     CompleteExchange, ExchangeFails, StoreDocument, StoreTokens, ReadAuthRequest, IssueCode,
     DeleteOAuthRequest, RemoveAuthRequest, CallbackError, ReadForError, StoreError,
     RequestStep, UseSession, BeginRefresh, DocumentMissing, PdsRefreshes, PdsRefuses,
     PdsUnreachable, StoreRefreshed, Stop, Age, LoseOAuthRequest, LoseDocument, vars
<1>3. ASSUME CallbackFailed PROVE CallbackFailed'
  <2>1. ASSUME NEW k \in Callback, CallbackStep(k) PROVE CallbackFailed'
    BY <1>3, <2>1 DEF CallbackStep, ReadSession, StampExchange, ReadOAuthRequest, CompleteExchange,
     ExchangeFails, StoreDocument, StoreTokens, ReadAuthRequest, IssueCode, DeleteOAuthRequest,
     RemoveAuthRequest, CallbackError, ReadForError, StoreError
  <2>2. ASSUME NEW r \in Request, RequestStep(r) PROVE CallbackFailed'
    BY <1>3, <2>2 DEF RequestStep, UseSession, BeginRefresh, DocumentMissing, PdsRefreshes,
     PdsRefuses, PdsUnreachable, StoreRefreshed
  <2>3. ASSUME NEW h \in Handler, Stop(h) PROVE FALSE
    BY <2>3 DEF Stop, Smooth
  <2>4. CASE UNCHANGED pc
    BY <1>3, <2>4
  <2>. QED BY <2>1, <2>2, <2>3, <2>4 DEF Next, BeginLogin, Age, LoseOAuthRequest, LoseDocument, vars
<1>. QED BY <1>1, <1>2, <1>3 DEF Smooth

LEMMA CallbackHealthy ==
    ASSUME Typed, Healthy, Before \/ After, Smooth', NEW k \in Callback, CallbackStep(k)
    PROVE  Healthy'
<1>. USE SessionAssumption, StatesRows DEF Typed, TypeOK, Healthy, Handler, Go, table, stores, Refreshing
<1>1. CASE ReadSession(k)
  BY <1>1 DEF ReadSession
<1>2. CASE StampExchange(k)
  <2>1. held[k] \in Row /\ held[k].generation <= held[k].iteration
    BY DEF Bounded
  <2>. QED BY <1>2, <2>1, RowStored DEF StampExchange
<1>3. CASE ReadOAuthRequest(k) \/ ReadAuthRequest(k) \/ CallbackError(k)
  BY <1>3 DEF ReadOAuthRequest, ReadAuthRequest, CallbackError
<1>4. CASE CompleteExchange(k)
  <2>1. Refreshing = {}
    BY <1>4 DEF CompleteExchange, Before, After
  <2>. QED BY <1>4, <2>1 DEF CompleteExchange
<1>5. CASE ExchangeFails(k) \/ ReadForError(k) \/ StoreError(k)
  BY <1>5 DEF ExchangeFails, ReadForError, StoreError, Smooth, CallbackFailed
<1>6. CASE StoreDocument(k) \/ DeleteOAuthRequest(k) \/ RemoveAuthRequest(k) \/ IssueCode(k)
  BY <1>6 DEF StoreDocument, DeleteOAuthRequest, RemoveAuthRequest, IssueCode
<1>7. CASE StoreTokens(k)
  <2>1. Before /\ Refreshing = {}
    BY <1>7 DEF StoreTokens, Before, After
  <2>2. Sole
    BY SoleStays, SmoothBefore DEF Smooth, CallbackStep, Next
  <2>3. \A x \in rows' : ~x.error
    BY <1>7, <2>1, <2>2, TokensStored
  <2>. QED BY <1>7, <2>1, <2>3 DEF StoreTokens
<1>. QED BY <1>1, <1>2, <1>3, <1>4, <1>5, <1>6, <1>7 DEF CallbackStep

LEMMA RequestHealthy ==
    ASSUME Typed, Healthy, Before \/ (After /\ Synced), mishaps' = {},
           NEW r \in Request, RequestStep(r)
    PROVE  Healthy'
<1>. USE SessionAssumption DEF Typed, TypeOK, Healthy, Handler, Go, table, stores, Refreshing
<1>1. CASE UseSession(r)
  BY <1>1 DEF UseSession
<1>2. CASE BeginRefresh(r)
  <2>1. Refreshing = {} /\ document
    BY <1>2 DEF BeginRefresh
  <2>2. PICK x \in Visible : Newest(x) /\ NeedsRefresh(x) /\ held' = [held EXCEPT ![r] = x]
    BY <1>2 DEF BeginRefresh
  <2>3. x \in rows /\ ~x.error /\ x.generation # 0
    BY <2>2, StatesRows DEF NeedsRefresh, Bounded
  <2>4. After /\ Synced
    BY <2>3 DEF Before
  <2>5. PICK y \in rows : y.iteration = pds.generation
    BY <2>1, <2>4 DEF Synced
  <2>6. y \in Visible
    BY <2>4 DEF After, Sound, Visible
  <2>7. x.generation = pds.generation
    <3>1. x.generation = x.iteration /\ x.generation <= pds.generation /\ y.iteration <= x.iteration
      BY <2>2, <2>3, <2>4, <2>6 DEF After, Sound, Newest
    <3>. QED BY <2>3, <2>5, <3>1, Rows
  <2>. QED BY <1>2, <2>1, <2>2, <2>3, <2>7 DEF BeginRefresh
<1>3. CASE DocumentMissing(r) \/ PdsRefuses(r) \/ PdsUnreachable(r)
  BY <1>3 DEF DocumentMissing, PdsRefuses, PdsUnreachable
<1>4. CASE PdsRefreshes(r)
  <2>1. /\ pc[r] = "refreshing" /\ held[r].generation = pds.generation
        /\ pc' = [pc EXCEPT ![r] = "storing"]
        /\ held' = [held EXCEPT ![r] = Refreshed(r, pds.generation + 1)]
        /\ pds'.generation = pds.generation + 1
        /\ UNCHANGED <<rows, document>>
    BY <1>4 DEF PdsRefreshes
  <2>2. held[r] \in Row /\ held[r].generation <= held[r].iteration
    BY DEF Bounded
  <2>3. /\ Refreshed(r, pds.generation + 1).generation = pds.generation + 1
        /\ ~Refreshed(r, pds.generation + 1).error
    BY <2>1, <2>2, Rows, RefreshedTyped
  <2>. QED BY <1>4, <2>1, <2>3 DEF PdsRefreshes
<1>5. CASE StoreRefreshed(r)
  <2>1. held[r] \in Row /\ held[r].generation <= held[r].iteration
    BY DEF Bounded
  <2>. QED BY <1>5, <2>1, RowStored DEF StoreRefreshed
<1>. QED BY <1>1, <1>2, <1>3, <1>4, <1>5 DEF RequestStep

LEMMA NextHealthy ==
    ASSUME Typed, Healthy, Before \/ (After /\ Synced), Smooth', [Next]_vars
    PROVE  Healthy'
<1>. USE SessionAssumption DEF Typed, TypeOK, Healthy, Handler, Refreshing, table, stores
<1>1. ASSUME NEW known \in BOOLEAN, BeginLogin(known) PROVE Healthy'
  <2>1. /\ NewRow(known) \in Row /\ ~NewRow(known).error
        /\ NewRow(known).generation <= NewRow(known).iteration
    BY NewRows
  <2>. QED BY <1>1, <2>1, RowStored DEF BeginLogin
<1>2. ASSUME NEW h \in Handler, Stop(h) PROVE FALSE
  BY <1>2 DEF Stop, Smooth
<1>3. CASE LoseDocument
  BY <1>3 DEF LoseDocument, Smooth
<1>4. CASE UNCHANGED <<rows, document, pds, pc, held>>
  BY <1>4
<1>. QED BY <1>1, <1>2, <1>3, <1>4, CallbackHealthy, RequestHealthy
  DEF Next, Age, LoseOAuthRequest, vars, Smooth

LEMMA NextSynced ==
    ASSUME Typed, Healthy, After, Synced, After', Smooth', [Next]_vars
    PROVE  Synced'
<1>. USE SessionAssumption DEF Typed, TypeOK, Handler, Go, Synced, table, stores
<1>1. ASSUME NEW k \in Callback, CallbackStep(k) PROVE Synced'
  <2>1. ~StampExchange(k) /\ ~StoreTokens(k) /\ ~CompleteExchange(k)
    BY DEF After, StampExchange, StoreTokens, CompleteExchange
  <2>2. ~StoreError(k) /\ ~ExchangeFails(k)
    BY DEF StoreError, ExchangeFails, Smooth, CallbackFailed
  <2>3. UNCHANGED <<rows, pds>> /\ \A r \in Request : pc'[r] = pc[r]
    BY <1>1, <2>1, <2>2 DEF CallbackStep, ReadSession, ReadOAuthRequest, StoreDocument,
       ReadAuthRequest, IssueCode, DeleteOAuthRequest, RemoveAuthRequest, CallbackError, ReadForError
  <2>. QED BY <2>3
<1>2. ASSUME NEW r \in Request, StoreRefreshed(r) PROVE Synced'
  <2>1. r \in Refreshing /\ ~held[r].error /\ held[r].generation = pds.generation
    BY <1>2 DEF StoreRefreshed, Refreshing, Healthy
  <2>2. held[r].iteration = pds.generation
    BY <2>1 DEF After, Holds, Sound
  <2>3. held[r] \in Row /\ held[r].generation <= held[r].iteration
    BY DEF Bounded
  <2>. QED BY <1>2, <2>2, <2>3, RowStored DEF StoreRefreshed
<1>3. ASSUME NEW r \in Request, RequestStep(r), ~StoreRefreshed(r) PROVE Synced'
  BY <1>3 DEF RequestStep, UseSession, BeginRefresh, DocumentMissing, PdsRefreshes, PdsRefuses,
     PdsUnreachable
<1>4. ASSUME NEW h \in Handler, Stop(h) PROVE FALSE
  BY <1>4 DEF Stop, Smooth
<1>5. ASSUME NEW known \in BOOLEAN, BeginLogin(known) PROVE FALSE
  BY <1>5 DEF BeginLogin, After
<1>6. CASE UNCHANGED <<rows, pds, pc>>
  BY <1>6
<1>. QED BY <1>1, <1>2, <1>3, <1>4, <1>5, <1>6 DEF Next, Age, LoseOAuthRequest, LoseDocument, vars

LEMMA NextUnharmed == Typed /\ Unharmed /\ [Next]_vars => Unharmed'
<1>. SUFFICES ASSUME Typed, Unharmed, [Next]_vars, Smooth'
              PROVE  Healthy' /\ (Before' \/ (After' /\ Synced'))
  BY DEF Unharmed
<1>1. Smooth /\ Healthy /\ (Before \/ (After /\ Synced))
  BY SmoothBefore DEF Unharmed
<1>2. Healthy'
  BY <1>1, NextHealthy
<1>3. ASSUME After, Synced PROVE After' /\ Synced'
  <2>1. After'
    BY <1>3, NextAfter DEF Smooth
  <2>. QED BY <1>1, <1>3, <2>1, NextSynced
<1>4. ASSUME Before, NEW k \in Callback, StoreTokens(k) PROVE After' /\ Synced'
  <2>1. After' /\ (\A x \in rows' : x.iteration = 1) /\ pds'.generation = 1
    BY <1>1, <1>4, TokensStored DEF Smooth
  <2>. QED BY <2>1 DEF After, Synced
<1>5. ASSUME Before, \A k \in Callback : ~StoreTokens(k) PROVE Before'
  BY <1>5, NextBefore
<1>. QED BY <1>1, <1>2, <1>3, <1>4, <1>5

(* The session records an error only for a cause: refreshes that overlap, a *)
(* PDS out of reach, a handler that stopped, a lost document or a failed or *)
(* repeated callback.  Refreshes that follow one another keep it alive.     *)
THEOREM SessionErrorsExplained == Spec => []ErrorsExplained
<1>1. Init => Unharmed
  BY InitBefore DEF Init, Unharmed, Healthy, Before, Handler, NewRow
<1>2. Unharmed => ErrorsExplained
  BY SoleOnce DEF Unharmed, Smooth, Healthy, ErrorsExplained
<1>. QED BY <1>1, <1>2, InitTyped, NextTyped, NextUnharmed, PTL DEF Spec
=============================================================================
