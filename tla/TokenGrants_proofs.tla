------------------------- MODULE TokenGrants_proofs -------------------------
(***************************************************************************)
(* Theorems about TokenGrants for any sets of requests and codes.          *)
(*                                                                         *)
(* TypeOK is inductive only together with HandlersOK, which ties the       *)
(* position of a handler to what it has read.  With it, each redemption    *)
(* theorem follows from one fact about the tables: what a granted request  *)
(* presented is spent (CredentialsSpent), so the test inside the atomic    *)
(* exchange cannot succeed again.                                          *)
(*                                                                         *)
(* Lineage says that the code a token descends from is copied faithfully   *)
(* from row to handler to row.  The theorems about chains add Copied, that *)
(* a rotation goes on with the token type and the iteration of the pair it *)
(* replaces.                                                               *)
(***************************************************************************)
EXTENDS TokenGrants, TLAPS

(* A handler past its first read holds a credential of the right kind and   *)
(* the code fields of its row; only refresh tokens that were handed out are *)
(* ever presented.                                                          *)
HandlersOK ==
    \A r \in Request :
        /\ pc[r] \in {"code_read", "code_selected"} => presented[r] \in Code
        /\ pc[r] \in {"refresh_read", "access_read", "refresh_selected"} =>
              presented[r] \in Request
        /\ pc[r] \in Reading => grant[r] \in Code
        /\ presented[r] \in Request => presented[r] \in Granted

Typed == TypeOK /\ HandlersOK

LEMMA InitTyped == Init => Typed
BY GrantAssumption DEF Init, Typed, TypeOK, HandlersOK, Granted, Reading

LEMMA CommitExchangeTyped ==
    ASSUME Typed, NEW r \in Request, pc[r] \in {"code_read", "code_selected"},
           CommitExchange(r)
    PROVE  Typed'
<1>1. RefreshOf(r) \in RefreshRow
  BY DEF Typed, HandlersOK, RefreshOf, RefreshRow, Reading
<1>2. TypeOK'
  BY <1>1 DEF Typed, TypeOK, CommitExchange
<1>3. HandlersOK'
  BY DEF Typed, TypeOK, HandlersOK, CommitExchange, Granted, Reading
<1>. QED BY <1>2, <1>3 DEF Typed

LEMMA CommitRotationTyped ==
    ASSUME Typed, NEW r \in Request, pc[r] \in {"access_read", "refresh_selected"},
           CommitRotation(r)
    PROVE  Typed'
<1>1. RefreshOf(r) \in RefreshRow
  BY DEF Typed, HandlersOK, RefreshOf, RefreshRow, Reading
<1>2. TypeOK'
  BY <1>1 DEF Typed, TypeOK, CommitRotation
<1>3. HandlersOK'
  BY DEF Typed, TypeOK, HandlersOK, CommitRotation, Granted, Reading
<1>. QED BY <1>2, <1>3 DEF Typed

LEMMA CodeStepTyped ==
    ASSUME Typed, NEW r \in Request, CodeStep(r)
    PROVE  Typed'
<1>. USE GrantAssumption
<1>1. ASSUME NEW c \in Code, RefuseCode(r, c) PROVE Typed'
  BY <1>1 DEF RefuseCode, Refuse, Typed, TypeOK, HandlersOK, Granted, Reading
<1>2. ASSUME NEW c \in Code, NEW type \in TokenType, ReceiveCode(r, c, type) PROVE Typed'
  <2>1. [grant |-> c, type |-> type, iteration |-> 1] \in AccessRow
    BY DEF AccessRow
  <2>2. TypeOK'
    BY <1>2, <2>1 DEF ReceiveCode, Typed, TypeOK, Reading
  <2>3. HandlersOK'
    BY <1>2 DEF ReceiveCode, Typed, TypeOK, HandlersOK, Granted, Reading
  <2>. QED BY <2>2, <2>3 DEF Typed
<1>3. CASE ExchangeCode(r) \/ PgCommitCode(r)
  BY <1>3, CommitExchangeTyped DEF ExchangeCode, PgCommitCode
<1>4. CASE ExchangeRefused(r)
  <2>1. presented[r] \in Code
    BY <1>4 DEF ExchangeRefused, Typed, HandlersOK
  <2>2. CodeAfterRefusal(presented[r]) \in {"unissued", "live", "used", "removed"}
    BY <2>1 DEF CodeAfterRefusal, Typed, TypeOK
  <2>. QED BY <1>4, <2>1, <2>2
    DEF ExchangeRefused, Refuse, Typed, TypeOK, HandlersOK, Granted, Reading
<1>5. CASE PgSelectCode(r)
  BY <1>5 DEF PgSelectCode, Typed, TypeOK, HandlersOK, Granted, Reading
<1>. QED BY <1>1, <1>2, <1>3, <1>4, <1>5 DEF CodeStep

LEMMA RefreshStepTyped ==
    ASSUME Typed, NEW r \in Request, RefreshStep(r)
    PROVE  Typed'
<1>. USE GrantAssumption
<1>1. ASSUME NEW t \in Request, ReceiveRefresh(r, t) PROVE Typed'
  <2>1. refresh[t].grant \in Code
    BY <1>1 DEF ReceiveRefresh, RefreshUsable, Typed, TypeOK, RefreshRow
  <2>. QED BY <1>1, <2>1 DEF ReceiveRefresh, Typed, TypeOK, HandlersOK, Granted, Reading
<1>2. ASSUME NEW t \in Request, RefuseRefresh(r, t) PROVE Typed'
  BY <1>2 DEF RefuseRefresh, Refuse, Typed, TypeOK, HandlersOK, Granted, Reading
<1>3. CASE ReadOldAccess(r)
  <2>. DEFINE old == access[presented[r]]
              row == [grant |-> grant[r], type |-> old.type, iteration |-> old.iteration + 1]
  <2>1. old \in AccessRow /\ grant[r] \in Code
    BY <1>3 DEF ReadOldAccess, Typed, TypeOK, HandlersOK, Reading
  <2>2. row \in AccessRow
    BY <2>1 DEF AccessRow
  <2>3. minted' = [minted EXCEPT ![r] = row]
    BY <1>3 DEF ReadOldAccess
  <2>4. TypeOK'
    BY <1>3, <2>2, <2>3 DEF ReadOldAccess, Typed, TypeOK, Reading
  <2>5. HandlersOK'
    BY <1>3 DEF ReadOldAccess, Typed, TypeOK, HandlersOK, Granted, Reading
  <2>. QED BY <2>4, <2>5 DEF Typed
<1>4. CASE OldAccessGone(r)
  BY <1>4 DEF OldAccessGone, Refuse, Typed, TypeOK, HandlersOK, Granted, Reading
<1>5. CASE Rotate(r) \/ PgCommitRefresh(r)
  BY <1>5, CommitRotationTyped DEF Rotate, PgCommitRefresh
<1>6. CASE RotateRefused(r)
  BY <1>6 DEF RotateRefused, Refuse, Typed, TypeOK, HandlersOK, Granted, Reading
<1>7. CASE PgSelectRefresh(r)
  BY <1>7 DEF PgSelectRefresh, Typed, TypeOK, HandlersOK, Granted, Reading
<1>. QED BY <1>1, <1>2, <1>3, <1>4, <1>5, <1>6, <1>7 DEF RefreshStep

LEMMA NextTyped == Typed /\ [Next]_vars => Typed'
<1>. SUFFICES ASSUME Typed, [Next]_vars PROVE Typed'
  OBVIOUS
<1>1. ASSUME NEW c \in Code, Authorize(c) PROVE Typed'
  BY <1>1 DEF Authorize, Typed, TypeOK, HandlersOK, Granted
<1>2. ASSUME NEW r \in Request, CodeStep(r) \/ RefreshStep(r) PROVE Typed'
  BY <1>2, CodeStepTyped, RefreshStepTyped
<1>3. ASSUME NEW r \in Request, Fail(r) PROVE Typed'
  BY <1>3 DEF Fail, Typed, TypeOK, HandlersOK, Granted, Reading
<1>4. ASSUME NEW t \in Request, PresentExpiredAccess(t) PROVE Typed'
  BY <1>4 DEF PresentExpiredAccess, Typed, TypeOK, HandlersOK, Granted
<1>5. ASSUME NEW x \in Expirable, Expire(x) PROVE Typed'
  BY <1>5 DEF Expire, Typed, TypeOK, HandlersOK, Granted
<1>6. CASE UNCHANGED vars
  BY <1>6 DEF vars, Typed, TypeOK, HandlersOK, Granted
<1>. QED BY <1>1, <1>2, <1>3, <1>4, <1>5, <1>6 DEF Next

(* The variables keep their types on every backend: no handler stores a row *)
(* built from a credential of the wrong kind.                               *)
THEOREM TypeCorrect == Spec => []TypeOK
<1>1. Typed => TypeOK
  BY DEF Typed
<1>. QED BY <1>1, InitTyped, NextTyped, PTL DEF Spec

-----------------------------------------------------------------------------
(* What a granted request presented is spent, on every backend: PostgreSQL  *)
(* may grant twice, but never leaves the credential usable afterwards.      *)
CredentialsSpent ==
    \A r \in Granted :
        /\ presented[r] \in Code => codes[presented[r]] \in {"used", "removed"}
        /\ presented[r] \in Request => refresh[presented[r]] = NoRow

(* Rows exist only for granted requests. *)
RowsGranted ==
    \A r \in Request : access[r] # NoRow \/ refresh[r] # NoRow => r \in Granted

Spent == Typed /\ CredentialsSpent /\ RowsGranted

LEMMA InitSpent == Init => Spent
BY InitTyped DEF Init, Spent, CredentialsSpent, RowsGranted, Granted

LEMMA CodeStepSpent ==
    ASSUME Spent, NEW r \in Request, CodeStep(r)
    PROVE  CredentialsSpent' /\ RowsGranted'
<1>. USE GrantAssumption DEF Spent, Typed, TypeOK, HandlersOK, CredentialsSpent,
         RowsGranted, Granted, Reading
<1>1. ASSUME NEW c \in Code, RefuseCode(r, c) PROVE CredentialsSpent' /\ RowsGranted'
  BY <1>1 DEF RefuseCode, Refuse
<1>2. ASSUME NEW c \in Code, NEW type \in TokenType, ReceiveCode(r, c, type)
      PROVE  CredentialsSpent' /\ RowsGranted'
  BY <1>2 DEF ReceiveCode
<1>3. CASE ExchangeCode(r) \/ PgCommitCode(r)
  <2>1. CommitExchange(r) /\ presented[r] \in Code /\ pc[r] # "granted"
    BY <1>3 DEF ExchangeCode, PgCommitCode
  <2>2. CredentialsSpent'
    BY <2>1 DEF CommitExchange
  <2>3. RowsGranted'
    BY <2>1 DEF CommitExchange
  <2>. QED BY <2>2, <2>3
<1>4. CASE ExchangeRefused(r)
  BY <1>4 DEF ExchangeRefused, Refuse, CodeAfterRefusal
<1>5. CASE PgSelectCode(r)
  BY <1>5 DEF PgSelectCode
<1>. QED BY <1>1, <1>2, <1>3, <1>4, <1>5 DEF CodeStep

LEMMA RefreshStepSpent ==
    ASSUME Spent, NEW r \in Request, RefreshStep(r)
    PROVE  CredentialsSpent' /\ RowsGranted'
<1>. USE GrantAssumption DEF Spent, Typed, TypeOK, HandlersOK, CredentialsSpent,
         RowsGranted, Granted, Reading
<1>1. ASSUME NEW t \in Request, ReceiveRefresh(r, t) PROVE CredentialsSpent' /\ RowsGranted'
  BY <1>1 DEF ReceiveRefresh
<1>2. ASSUME NEW t \in Request, RefuseRefresh(r, t) PROVE CredentialsSpent' /\ RowsGranted'
  BY <1>2 DEF RefuseRefresh, Refuse
<1>3. CASE ReadOldAccess(r)
  BY <1>3 DEF ReadOldAccess
<1>4. CASE OldAccessGone(r)
  BY <1>4 DEF OldAccessGone, Refuse
<1>5. CASE Rotate(r) \/ PgCommitRefresh(r)
  <2>1. CommitRotation(r) /\ presented[r] \in Granted /\ pc[r] # "granted"
    BY <1>5 DEF Rotate, PgCommitRefresh
  <2>2. presented[r] # r
    BY <2>1
  <2>3. CredentialsSpent'
    BY <2>1, <2>2 DEF CommitRotation
  <2>4. RowsGranted'
    BY <2>1, <2>2 DEF CommitRotation
  <2>. QED BY <2>3, <2>4
<1>6. CASE RotateRefused(r)
  BY <1>6 DEF RotateRefused, Refuse
<1>7. CASE PgSelectRefresh(r)
  BY <1>7 DEF PgSelectRefresh
<1>. QED BY <1>1, <1>2, <1>3, <1>4, <1>5, <1>6, <1>7 DEF RefreshStep

LEMMA NextSpent == Spent /\ [Next]_vars => Spent'
<1>. SUFFICES ASSUME Spent, [Next]_vars PROVE CredentialsSpent' /\ RowsGranted'
  BY NextTyped DEF Spent
<1>. USE DEF Spent, Typed, TypeOK, CredentialsSpent, RowsGranted, Granted, Reading
<1>1. ASSUME NEW c \in Code, Authorize(c) PROVE CredentialsSpent' /\ RowsGranted'
  BY <1>1 DEF Authorize
<1>2. ASSUME NEW r \in Request, CodeStep(r) \/ RefreshStep(r)
      PROVE  CredentialsSpent' /\ RowsGranted'
  BY <1>2, CodeStepSpent, RefreshStepSpent
<1>3. ASSUME NEW r \in Request, Fail(r) PROVE CredentialsSpent' /\ RowsGranted'
  BY <1>3 DEF Fail
<1>4. ASSUME NEW t \in Request, PresentExpiredAccess(t) PROVE CredentialsSpent' /\ RowsGranted'
  BY <1>4 DEF PresentExpiredAccess
<1>5. ASSUME NEW x \in Expirable, Expire(x) PROVE CredentialsSpent' /\ RowsGranted'
  BY <1>5 DEF Expire
<1>6. CASE UNCHANGED vars
  BY <1>6 DEF vars
<1>. QED BY <1>1, <1>2, <1>3, <1>4, <1>5, <1>6 DEF Next

(* Exchange and rotation are all or nothing on every backend: a stored token *)
(* belongs to a granted request, whose code or refresh token is spent.       *)
THEOREM TokensCostCredentials == Spec => []NoTokenWithoutSpending
<1>1. Spent => NoTokenWithoutSpending
  BY DEF Spent, CredentialsSpent, RowsGranted, NoTokenWithoutSpending
<1>. QED BY <1>1, InitSpent, NextSpent, PTL DEF Spec

-----------------------------------------------------------------------------
(* Without PostgreSQL no handler stops between its test and its update. *)
NoOpenTransaction ==
    \A r \in Request : pc[r] \notin {"code_selected", "refresh_selected"}

RedeemedOnce ==
    Spent /\ NoOpenTransaction /\ CodeRedeemedOnce /\ RefreshRotatedOnce

LEMMA InitRedeemedOnce == Init => RedeemedOnce
BY InitSpent DEF Init, RedeemedOnce, NoOpenTransaction, CodeRedeemedOnce,
   RefreshRotatedOnce, Granted

LEMMA NextNoOpenTransaction ==
    ASSUME "postgres" \notin Backends, Typed, NoOpenTransaction, [Next]_vars
    PROVE  NoOpenTransaction'
<1>. USE DEF NoOpenTransaction, Typed, TypeOK
<1>1. ASSUME NEW r \in Request, CodeStep(r) PROVE NoOpenTransaction'
  BY <1>1 DEF CodeStep, RefuseCode, ReceiveCode, ExchangeCode, ExchangeRefused,
     PgSelectCode, PgCommitCode, CommitExchange, Refuse
<1>2. ASSUME NEW r \in Request, RefreshStep(r) PROVE NoOpenTransaction'
  BY <1>2 DEF RefreshStep, ReceiveRefresh, RefuseRefresh, ReadOldAccess, OldAccessGone,
     Rotate, RotateRefused, PgSelectRefresh, PgCommitRefresh, CommitRotation, Refuse
<1>3. ASSUME NEW r \in Request, Fail(r) PROVE NoOpenTransaction'
  BY <1>3 DEF Fail
<1>4. CASE UNCHANGED pc
  BY <1>4
<1>. QED BY <1>1, <1>2, <1>3, <1>4 DEF Next, vars, Authorize, PresentExpiredAccess, Expire

LEMMA NextRedeemedOnce ==
    ASSUME "postgres" \notin Backends, RedeemedOnce, [Next]_vars
    PROVE  RedeemedOnce'
<1>. USE DEF RedeemedOnce, Spent, Typed
<1>1. Spent' /\ NoOpenTransaction'
  BY NextSpent, NextNoOpenTransaction
<1>. SUFFICES CodeRedeemedOnce' /\ RefreshRotatedOnce'
  BY <1>1
<1>. USE DEF CodeRedeemedOnce, RefreshRotatedOnce, Granted
<1>2. ASSUME NEW r \in Request, ExchangeCode(r)
      PROVE  CodeRedeemedOnce' /\ RefreshRotatedOnce'
  <2>1. \A s \in Granted : presented[s] # presented[r]
    BY <1>2, GrantAssumption DEF ExchangeCode, CodeRedeemable, CredentialsSpent, HandlersOK
  <2>. QED BY <1>2, <2>1 DEF ExchangeCode, CommitExchange, TypeOK
<1>3. ASSUME NEW r \in Request, Rotate(r)
      PROVE  CodeRedeemedOnce' /\ RefreshRotatedOnce'
  <2>1. \A s \in Granted : presented[s] # presented[r]
    BY <1>3, GrantAssumption DEF Rotate, RefreshUsable, CredentialsSpent, HandlersOK
  <2>. QED BY <1>3, <2>1 DEF Rotate, CommitRotation, TypeOK
<1>4. ASSUME \A r \in Request : pc'[r] = "granted" => pc[r] = "granted" /\ presented'[r] = presented[r]
      PROVE  CodeRedeemedOnce' /\ RefreshRotatedOnce'
  BY <1>4
<1>5. ASSUME NEW r \in Request, CodeStep(r)
      PROVE  CodeRedeemedOnce' /\ RefreshRotatedOnce'
  BY <1>2, <1>4, <1>5 DEF CodeStep, RefuseCode, ReceiveCode, ExchangeRefused,
     PgSelectCode, PgCommitCode, NoOpenTransaction, Refuse, TypeOK
<1>6. ASSUME NEW r \in Request, RefreshStep(r)
      PROVE  CodeRedeemedOnce' /\ RefreshRotatedOnce'
  BY <1>3, <1>4, <1>6 DEF RefreshStep, ReceiveRefresh, RefuseRefresh, ReadOldAccess,
     OldAccessGone, RotateRefused, PgSelectRefresh, PgCommitRefresh, NoOpenTransaction,
     Refuse, TypeOK
<1>7. ASSUME NEW r \in Request, Fail(r)
      PROVE  CodeRedeemedOnce' /\ RefreshRotatedOnce'
  BY <1>4, <1>7 DEF Fail, TypeOK
<1>8. CASE UNCHANGED <<pc, presented>>
  BY <1>4, <1>8
<1>. QED BY <1>5, <1>6, <1>7, <1>8 DEF Next, vars, Authorize, PresentExpiredAccess, Expire

(* On the backends whose exchange is one atomic step, no authorization code *)
(* is ever redeemed by two requests.                                        *)
THEOREM CodesOneTime ==
    ASSUME "postgres" \notin Backends
    PROVE  Spec => []CodeRedeemedOnce
<1>1. RedeemedOnce /\ [Next]_vars => RedeemedOnce'
  BY NextRedeemedOnce
<1>2. RedeemedOnce => CodeRedeemedOnce
  BY DEF RedeemedOnce
<1>. QED BY <1>1, <1>2, InitRedeemedOnce, PTL DEF Spec

(* Nor is a refresh token rotated by two requests. *)
THEOREM RefreshTokensOneTime ==
    ASSUME "postgres" \notin Backends
    PROVE  Spec => []RefreshRotatedOnce
<1>1. RedeemedOnce /\ [Next]_vars => RedeemedOnce'
  BY NextRedeemedOnce
<1>2. RedeemedOnce => RefreshRotatedOnce
  BY DEF RedeemedOnce
<1>. QED BY <1>1, <1>2, InitRedeemedOnce, PTL DEF Spec
-----------------------------------------------------------------------------
(* The grant a token descends from is copied faithfully from row to handler *)
(* to row, and a code that tokens descend from is not live any more.        *)
Lineage ==
    /\ \A r \in Request :
         /\ pc[r] \in {"code_read", "code_selected", "access_read", "refresh_selected"} =>
               minted[r] \in AccessRow /\ minted[r].grant = grant[r]
         /\ pc[r] \in {"code_read", "code_selected"} => grant[r] = presented[r]
         /\ pc[r] \in {"refresh_read", "access_read", "refresh_selected"} =>
               grant[r] = minted[presented[r]].grant
         /\ refresh[r] # NoRow => refresh[r].grant = minted[r].grant
    /\ \A r \in Granted :
         minted[r] \in AccessRow /\ codes[minted[r].grant] \in {"used", "removed"}

Traced == Spent /\ Lineage

LEMMA InitTraced == Init => Traced
BY InitSpent DEF Init, Traced, Lineage, Granted

LEMMA CommitExchangeLineage ==
    ASSUME Traced, NEW r \in Request, pc[r] \in {"code_read", "code_selected"},
           CommitExchange(r)
    PROVE  Lineage'
BY GrantAssumption DEF Traced, Spent, Typed, TypeOK, HandlersOK, Lineage, Granted, Reading,
   CommitExchange, RefreshOf, AccessRow, RefreshRow

LEMMA CommitRotationLineage ==
    ASSUME Traced, NEW r \in Request, pc[r] \in {"access_read", "refresh_selected"},
           CommitRotation(r)
    PROVE  Lineage'
BY GrantAssumption DEF Traced, Spent, Typed, TypeOK, HandlersOK, Lineage, Granted, Reading,
   CommitRotation, RefreshOf, AccessRow, RefreshRow

LEMMA CodeStepLineage ==
    ASSUME Traced, NEW r \in Request, CodeStep(r)
    PROVE  Lineage'
<1>. USE GrantAssumption
         DEF Traced, Spent, Typed, TypeOK, HandlersOK, Lineage, Granted, Reading
<1>1. ASSUME NEW c \in Code, RefuseCode(r, c) PROVE Lineage'
  BY <1>1 DEF RefuseCode, Refuse
<1>2. ASSUME NEW c \in Code, NEW type \in TokenType, ReceiveCode(r, c, type) PROVE Lineage'
  <2>. DEFINE row == [grant |-> c, type |-> type, iteration |-> 1]
  <2>1. row \in AccessRow /\ row.grant = c
    BY DEF AccessRow
  <2>2. minted' = [minted EXCEPT ![r] = row]
    BY <1>2 DEF ReceiveCode
  <2>3. \A s \in Request : minted'[s] = IF s = r THEN row ELSE minted[s]
    BY <2>2
  <2>4. r \notin Granted /\ refresh[r] = NoRow
    BY <1>2 DEF ReceiveCode, RowsGranted
  <2>. HIDE DEF row
  <2>. QED BY <1>2, <2>1, <2>3, <2>4 DEF ReceiveCode
<1>3. CASE ExchangeCode(r) \/ PgCommitCode(r)
  BY <1>3, CommitExchangeLineage DEF ExchangeCode, PgCommitCode
<1>4. CASE ExchangeRefused(r)
  BY <1>4 DEF ExchangeRefused, Refuse, CodeAfterRefusal
<1>5. CASE PgSelectCode(r)
  BY <1>5 DEF PgSelectCode
<1>. QED BY <1>1, <1>2, <1>3, <1>4, <1>5 DEF CodeStep

LEMMA RefreshStepLineage ==
    ASSUME Traced, NEW r \in Request, RefreshStep(r)
    PROVE  Lineage'
<1>. USE GrantAssumption
         DEF Traced, Spent, Typed, TypeOK, HandlersOK, Lineage, Granted, Reading
<1>1. ASSUME NEW t \in Request, ReceiveRefresh(r, t) PROVE Lineage'
  BY <1>1 DEF ReceiveRefresh, RefreshUsable
<1>2. ASSUME NEW t \in Request, RefuseRefresh(r, t) PROVE Lineage'
  BY <1>2 DEF RefuseRefresh, Refuse
<1>3. CASE ReadOldAccess(r)
  <2>. DEFINE old == access[presented[r]]
              row == [grant |-> grant[r], type |-> old.type, iteration |-> old.iteration + 1]
  <2>1. old \in AccessRow /\ grant[r] \in Code
    BY <1>3 DEF ReadOldAccess
  <2>2. row \in AccessRow /\ row.grant = grant[r]
    BY <2>1 DEF AccessRow
  <2>3. minted' = [minted EXCEPT ![r] = row]
    BY <1>3 DEF ReadOldAccess
  <2>4. presented[r] # r /\ r \notin Granted
    BY <1>3 DEF ReadOldAccess
  <2>5. \A s \in Request : minted'[s] = IF s = r THEN row ELSE minted[s]
    BY <2>3
  <2>6. refresh[r] = NoRow
    BY <2>4 DEF RowsGranted
  <2>. HIDE DEF row
  <2>. QED BY <1>3, <2>2, <2>4, <2>5, <2>6 DEF ReadOldAccess
<1>4. CASE OldAccessGone(r)
  BY <1>4 DEF OldAccessGone, Refuse
<1>5. CASE Rotate(r) \/ PgCommitRefresh(r)
  BY <1>5, CommitRotationLineage DEF Rotate, PgCommitRefresh
<1>6. CASE RotateRefused(r)
  BY <1>6 DEF RotateRefused, Refuse
<1>7. CASE PgSelectRefresh(r)
  BY <1>7 DEF PgSelectRefresh
<1>. QED BY <1>1, <1>2, <1>3, <1>4, <1>5, <1>6, <1>7 DEF RefreshStep

LEMMA NextTraced == Traced /\ [Next]_vars => Traced'
<1>. SUFFICES ASSUME Traced, [Next]_vars PROVE Lineage'
  BY NextSpent DEF Traced
<1>. USE DEF Traced, Spent, Typed, TypeOK, HandlersOK, Lineage, Granted, Reading
<1>1. ASSUME NEW c \in Code, Authorize(c) PROVE Lineage'
  BY <1>1 DEF Authorize, AccessRow
<1>2. ASSUME NEW r \in Request, CodeStep(r) \/ RefreshStep(r) PROVE Lineage'
  BY <1>2, CodeStepLineage, RefreshStepLineage
<1>3. ASSUME NEW r \in Request, Fail(r) PROVE Lineage'
  BY <1>3 DEF Fail
<1>4. ASSUME NEW t \in Request, PresentExpiredAccess(t) PROVE Lineage'
  BY <1>4 DEF PresentExpiredAccess
<1>5. ASSUME NEW x \in Expirable, Expire(x) PROVE Lineage'
  BY <1>5 DEF Expire
<1>6. CASE UNCHANGED vars
  BY <1>6 DEF vars
<1>. QED BY <1>1, <1>2, <1>3, <1>4, <1>5, <1>6 DEF Next

-----------------------------------------------------------------------------
(* A stored access token is what its request minted, and a rotation under    *)
(* way builds the successor of the pair it presents.                         *)
Copied ==
    /\ \A r \in Request : access[r] # NoRow => access[r] = minted[r]
    /\ \A r \in Request : pc[r] \in {"access_read", "refresh_selected"} =>
         /\ minted[r].type = minted[presented[r]].type
         /\ minted[r].iteration = minted[presented[r]].iteration + 1

LEMMA NextCopied ==
    ASSUME Traced, Copied, [Next]_vars
    PROVE  Copied'
<1>. USE GrantAssumption
         DEF Traced, Spent, Typed, TypeOK, HandlersOK, RowsGranted, Copied, Granted, Reading
<1>1. ASSUME NEW r \in Request, NEW c \in Code, RefuseCode(r, c) PROVE Copied'
  BY <1>1 DEF RefuseCode, Refuse
<1>2. ASSUME NEW r \in Request, NEW c \in Code, NEW type \in TokenType, ReceiveCode(r, c, type)
      PROVE  Copied'
  BY <1>2 DEF ReceiveCode
<1>3. ASSUME NEW r \in Request, ExchangeCode(r) \/ PgCommitCode(r) PROVE Copied'
  BY <1>3 DEF ExchangeCode, PgCommitCode, CommitExchange
<1>4. ASSUME NEW r \in Request, ExchangeRefused(r) \/ PgSelectCode(r) PROVE Copied'
  BY <1>4 DEF ExchangeRefused, PgSelectCode, Refuse
<1>5. ASSUME NEW r \in Request, NEW t \in Request, ReceiveRefresh(r, t) \/ RefuseRefresh(r, t)
      PROVE  Copied'
  BY <1>5 DEF ReceiveRefresh, RefuseRefresh, Refuse
<1>6. ASSUME NEW r \in Request, ReadOldAccess(r) PROVE Copied'
  <2>. DEFINE old == access[presented[r]]
              row == [grant |-> grant[r], type |-> old.type, iteration |-> old.iteration + 1]
  <2>1. presented[r] # r /\ old = minted[presented[r]] /\ access[r] = NoRow
    BY <1>6 DEF ReadOldAccess
  <2>2. \A s \in Request : minted'[s] = IF s = r THEN row ELSE minted[s]
    BY <1>6 DEF ReadOldAccess
  <2>3. row.type = old.type /\ row.iteration = old.iteration + 1
    OBVIOUS
  <2>4. \A s \in Request : pc[s] \in {"access_read", "refresh_selected"} => presented[s] # r
    BY <1>6 DEF ReadOldAccess
  <2>. HIDE DEF row
  <2>. QED BY <1>6, <2>1, <2>2, <2>3, <2>4 DEF ReadOldAccess
<1>7. ASSUME NEW r \in Request, OldAccessGone(r) \/ RotateRefused(r) \/ PgSelectRefresh(r)
      PROVE  Copied'
  BY <1>7 DEF OldAccessGone, RotateRefused, PgSelectRefresh, Refuse
<1>8. ASSUME NEW r \in Request, Rotate(r) \/ PgCommitRefresh(r) PROVE Copied'
  BY <1>8 DEF Rotate, PgCommitRefresh, CommitRotation
<1>9. ASSUME NEW r \in Request, Fail(r) PROVE Copied'
  BY <1>9 DEF Fail
<1>10. ASSUME NEW t \in Request, PresentExpiredAccess(t) PROVE Copied'
  BY <1>10 DEF PresentExpiredAccess
<1>11. CASE UNCHANGED <<access, pc, presented, minted>>
  BY <1>11
<1>. QED
  BY <1>1, <1>2, <1>3, <1>4, <1>5, <1>6, <1>7, <1>8, <1>9, <1>10, <1>11
  DEF Next, CodeStep, RefreshStep, Authorize, Expire, vars

\* What the chain of a code looks like from its members.
Chained == Traced /\ Copied /\ NoOpenTransaction /\ BindingPreserved /\ NewestPairHoldsRefresh

LEMMA InitChained == Init => Chained
BY InitTraced DEF Init, Chained, Copied, NoOpenTransaction, BindingPreserved,
   NewestPairHoldsRefresh, Granted

\* The first pair of a chain has no elder: its code was live until now.
LEMMA ExchangeChained ==
    ASSUME Chained, NEW r \in Request, ExchangeCode(r)
    PROVE  BindingPreserved' /\ NewestPairHoldsRefresh'
<1>. USE GrantAssumption DEF Chained, Traced, Spent, Typed, TypeOK, HandlersOK
<1>1. /\ presented[r] \in Code /\ codes[presented[r]] = "live" /\ pc[r] = "code_read"
      /\ minted[r].grant = presented[r] /\ grant[r] = presented[r]
  BY DEF ExchangeCode, CodeRedeemable, Lineage
<1>2. \A s \in Granted : minted[s].grant # presented[r]
  BY <1>1 DEF Lineage
<1>3. Granted' = Granted \cup {r} /\ r \notin Granted /\ minted' = minted
  BY <1>1 DEF ExchangeCode, CommitExchange, Granted
<1>4. BindingPreserved'
  BY <1>1, <1>2, <1>3 DEF BindingPreserved
<1>5. refresh' = [refresh EXCEPT ![r] = RefreshOf(r)] /\ RefreshOf(r).grant = presented[r]
  BY <1>1 DEF ExchangeCode, CommitExchange, RefreshOf
<1>6. \A t \in Request : refresh[t] # NoRow =>
          t \in Granted /\ refresh[t].grant = minted[t].grant
  BY DEF RowsGranted, Lineage
<1>7. NewestPairHoldsRefresh'
  BY <1>1, <1>2, <1>3, <1>5, <1>6 DEF NewestPairHoldsRefresh
<1>. QED BY <1>4, <1>7

\* A rotation presents the newest pair, whose refresh token it takes out.
LEMMA RotateChained ==
    ASSUME Chained, NEW r \in Request, Rotate(r)
    PROVE  BindingPreserved' /\ NewestPairHoldsRefresh'
<1>. USE GrantAssumption DEF Chained, Traced, Spent, Typed, TypeOK, HandlersOK
<1>. DEFINE t == presented[r]
<1>1. /\ t \in Granted /\ t \in Request /\ refresh[t] # NoRow
      /\ pc[r] = "access_read" /\ r # t
      /\ minted[r].grant = minted[t].grant /\ grant[r] = minted[r].grant
      /\ refresh[t].grant = minted[t].grant
      /\ minted[r].type = minted[t].type
      /\ minted[r].iteration = minted[t].iteration + 1
  BY DEF Rotate, RefreshUsable, Lineage, Copied, Granted
<1>2. Granted' = Granted \cup {r} /\ r \notin Granted /\ minted' = minted
  BY <1>1 DEF Rotate, CommitRotation, Granted
<1>3. BindingPreserved'
  BY <1>1, <1>2 DEF BindingPreserved
<1>4. /\ refresh' = [refresh EXCEPT ![t] = NoRow, ![r] = RefreshOf(r)]
      /\ RefreshOf(r).grant = minted[r].grant
  BY <1>1 DEF Rotate, CommitRotation, RefreshOf
<1>5. ASSUME NEW s \in Granted, minted[s].grant = minted[r].grant
      PROVE  /\ s # t => refresh[s] = NoRow /\ minted[s].iteration < minted[t].iteration
             /\ minted[s].iteration \in Nat
  BY <1>1, <1>5 DEF NewestPairHoldsRefresh, Lineage, AccessRow
<1>6. ASSUME NEW s \in Granted, minted[s].grant = minted[r].grant
      PROVE  refresh'[s] = NoRow /\ minted[s].iteration < minted[r].iteration
  <2>1. refresh'[s] = NoRow
    BY <1>1, <1>2, <1>4, <1>5, <1>6 DEF Granted
  <2>2. minted[s].iteration < minted[r].iteration
    BY <1>1, <1>5, <1>6
  <2>. QED BY <2>1, <2>2
<1>7. \A s \in Request \ {r} : refresh'[s] # NoRow =>
         s \in Granted /\ refresh'[s] = refresh[s] /\ refresh[s].grant = minted[s].grant
  BY <1>4 DEF RowsGranted, Lineage
<1>8. refresh'[r] = RefreshOf(r) /\ \A s \in Granted : s \in Request /\ s # r => refresh'[s] \in {refresh[s], NoRow}
  BY <1>1, <1>4
<1>9. ASSUME NEW u \in Request, refresh'[u] # NoRow,
             NEW s \in Granted', minted[s].grant = refresh'[u].grant, s # u
      PROVE  refresh'[s] = NoRow /\ minted[s].iteration < minted[u].iteration
  <2>1. CASE u = r
    BY <1>2, <1>4, <1>6, <1>8, <1>9, <2>1
  <2>2. CASE u # r
    <3>1. u \in Granted /\ refresh'[u] = refresh[u] /\ refresh[u].grant = minted[u].grant
      BY <1>7, <1>9, <2>2
    <3>2. minted[u].grant # minted[r].grant
      BY <1>6, <1>9, <3>1
    <3>3. s \in Granted /\ s \in Request /\ s # r
      BY <1>2, <1>9, <3>1, <3>2 DEF Granted
    <3>4. refresh[s] = NoRow /\ minted[s].iteration < minted[u].iteration
      BY <1>9, <3>1, <3>3 DEF NewestPairHoldsRefresh
    <3>. QED BY <1>8, <3>3, <3>4
  <2>. QED BY <2>1, <2>2
<1>10. NewestPairHoldsRefresh'
  BY <1>2, <1>9 DEF NewestPairHoldsRefresh
<1>. QED BY <1>3, <1>10

LEMMA NextChained ==
    ASSUME "postgres" \notin Backends, Chained, [Next]_vars
    PROVE  Chained'
<1>1. Traced' /\ Copied' /\ NoOpenTransaction'
  BY NextTraced, NextCopied, NextNoOpenTransaction DEF Chained, Traced, Spent
<1>. SUFFICES BindingPreserved' /\ NewestPairHoldsRefresh'
  BY <1>1 DEF Chained
<1>. USE DEF Chained, Traced, Spent, Typed, TypeOK, HandlersOK, RowsGranted,
             BindingPreserved, NewestPairHoldsRefresh, Granted
<1>2. ASSUME \A r \in Request : pc'[r] = "granted" <=> pc[r] = "granted",
             \A r \in Request : refresh'[r] \in {refresh[r], NoRow},
             \A r \in Granted : minted'[r] = minted[r]
      PROVE  BindingPreserved' /\ NewestPairHoldsRefresh'
  BY <1>2
<1>3. ASSUME NEW r \in Request, CodeStep(r) PROVE BindingPreserved' /\ NewestPairHoldsRefresh'
  <2>1. CASE ExchangeCode(r)
    BY <2>1, ExchangeChained
  <2>2. ASSUME NEW c \in Code, RefuseCode(r, c) PROVE BindingPreserved' /\ NewestPairHoldsRefresh'
    BY <1>2, <2>2 DEF RefuseCode, Refuse
  <2>3. ASSUME NEW c \in Code, NEW type \in TokenType, ReceiveCode(r, c, type)
        PROVE  BindingPreserved' /\ NewestPairHoldsRefresh'
    BY <1>2, <2>3 DEF ReceiveCode
  <2>4. CASE ExchangeRefused(r) \/ PgSelectCode(r)
    BY <1>2, <2>4 DEF ExchangeRefused, PgSelectCode, Refuse
  <2>. QED BY <1>3, <2>1, <2>2, <2>3, <2>4 DEF CodeStep, PgCommitCode, NoOpenTransaction
<1>4. ASSUME NEW r \in Request, RefreshStep(r)
      PROVE  BindingPreserved' /\ NewestPairHoldsRefresh'
  <2>1. CASE Rotate(r)
    BY <2>1, RotateChained
  <2>2. ASSUME NEW t \in Request, ReceiveRefresh(r, t) \/ RefuseRefresh(r, t)
        PROVE  BindingPreserved' /\ NewestPairHoldsRefresh'
    BY <1>2, <2>2 DEF ReceiveRefresh, RefuseRefresh, Refuse
  <2>3. CASE ReadOldAccess(r)
    BY <1>2, <2>3 DEF ReadOldAccess
  <2>4. CASE OldAccessGone(r) \/ RotateRefused(r) \/ PgSelectRefresh(r)
    BY <1>2, <2>4 DEF OldAccessGone, RotateRefused, PgSelectRefresh, Refuse
  <2>. QED
    BY <1>4, <2>1, <2>2, <2>3, <2>4 DEF RefreshStep, PgCommitRefresh, NoOpenTransaction
<1>5. ASSUME NEW r \in Request, Fail(r) \/ PresentExpiredAccess(r)
      PROVE  BindingPreserved' /\ NewestPairHoldsRefresh'
  BY <1>2, <1>5 DEF Fail, PresentExpiredAccess, Reading
<1>6. CASE UNCHANGED <<pc, refresh, minted>>
  BY <1>2, <1>6
<1>. QED BY <1>3, <1>4, <1>5, <1>6 DEF Next, vars, Authorize, Expire

(* Without PostgreSQL, every pair of a grant keeps the token type that the  *)
(* first exchange fixed, through any number of rotations.                   *)
THEOREM BindingsLast ==
    ASSUME "postgres" \notin Backends
    PROVE  Spec => []BindingPreserved
<1>1. Chained /\ [Next]_vars => Chained'
  BY NextChained
<1>2. Chained => BindingPreserved
  BY DEF Chained
<1>. QED BY <1>1, <1>2, InitChained, PTL DEF Spec

(* Without PostgreSQL, the one refresh token of a grant in store is that of *)
(* its newest pair.                                                         *)
THEOREM NewestPairRefreshes ==
    ASSUME "postgres" \notin Backends
    PROVE  Spec => []NewestPairHoldsRefresh
<1>1. Chained /\ [Next]_vars => Chained'
  BY NextChained
<1>2. Chained => NewestPairHoldsRefresh
  BY DEF Chained
<1>. QED BY <1>1, <1>2, InitChained, PTL DEF Spec

-----------------------------------------------------------------------------
(* A handler that holds a code has read it from a row. *)
CodesIssued ==
    \A r \in Request : pc[r] \in {"code_read", "code_selected"} =>
        codes[presented[r]] # "unissued"

Unburned == Typed /\ CodesIssued /\ CodeNeverBurned

LEMMA NextUnburned ==
    ASSUME Unburned, [Next]_vars
    PROVE  Unburned'
<1>1. Typed'
  BY NextTyped DEF Unburned
<1>. SUFFICES CodesIssued' /\ CodeNeverBurned'
  BY <1>1 DEF Unburned
<1>. USE GrantAssumption DEF Unburned, Typed, TypeOK, HandlersOK, CodesIssued,
         CodeNeverBurned, Granted
<1>2. ASSUME NEW c \in Code, Authorize(c) PROVE CodesIssued' /\ CodeNeverBurned'
  BY <1>2 DEF Authorize
<1>3. ASSUME NEW r \in Request, CodeStep(r) PROVE CodesIssued' /\ CodeNeverBurned'
  <2>1. ASSUME NEW c \in Code, RefuseCode(r, c) PROVE CodesIssued' /\ CodeNeverBurned'
    BY <2>1 DEF RefuseCode, Refuse
  <2>2. ASSUME NEW c \in Code, NEW type \in TokenType, ReceiveCode(r, c, type)
        PROVE  CodesIssued' /\ CodeNeverBurned'
    BY <2>2 DEF ReceiveCode, CodeRedeemable
  <2>3. CASE ExchangeCode(r) \/ PgCommitCode(r)
    BY <2>3 DEF ExchangeCode, PgCommitCode, CommitExchange
  <2>4. CASE ExchangeRefused(r)
    BY <2>4 DEF ExchangeRefused, CodeRedeemable, CodeAfterRefusal, Refuse
  <2>5. CASE PgSelectCode(r)
    BY <2>5 DEF PgSelectCode
  <2>. QED BY <1>3, <2>1, <2>2, <2>3, <2>4, <2>5 DEF CodeStep
<1>4. ASSUME NEW r \in Request, RefreshStep(r) PROVE CodesIssued' /\ CodeNeverBurned'
  BY <1>4 DEF RefreshStep, ReceiveRefresh, RefuseRefresh, ReadOldAccess, OldAccessGone,
     Rotate, RotateRefused, PgSelectRefresh, PgCommitRefresh, CommitRotation, Refuse
<1>5. ASSUME NEW r \in Request, Fail(r) \/ PresentExpiredAccess(r)
      PROVE  CodesIssued' /\ CodeNeverBurned'
  BY <1>5 DEF Fail, PresentExpiredAccess, Reading
<1>6. ASSUME NEW x \in Expirable, Expire(x) PROVE CodesIssued' /\ CodeNeverBurned'
  BY <1>6 DEF Expire
<1>7. CASE UNCHANGED vars
  BY <1>7 DEF vars
<1>. QED BY <1>2, <1>3, <1>4, <1>5, <1>6, <1>7 DEF Next

(* On every backend a code is spent only if it expired or if a request was  *)
(* granted for it: neither a failed validation nor a handler that stops     *)
(* takes it from its client.                                                *)
THEOREM CodesNeverBurned == Spec => []CodeNeverBurned
<1>1. Init => Unburned
  BY InitTyped DEF Init, Unburned, CodesIssued, CodeNeverBurned
<1>2. Unburned /\ [Next]_vars => Unburned'
  BY NextUnburned
<1>3. Unburned => CodeNeverBurned
  BY DEF Unburned
<1>. QED BY <1>1, <1>2, <1>3, PTL DEF Spec

-----------------------------------------------------------------------------
(* Without SQLite, whose reads delete expired rows, a granted request keeps *)
(* its access token's row, and its refresh token leaves by being rotated or *)
(* after its own expiry.                                                    *)
GoneExplained(t) ==
    <<"refresh", t>> \in expired \/ \E s \in Granted : presented[s] = t

Kept ==
    /\ \A r \in Granted : access[r] # NoRow
    /\ \A t \in Granted : refresh[t] = NoRow => GoneExplained(t)

Explained == Traced /\ Kept /\ RefusedRefreshExplained

LEMMA NextExplained ==
    ASSUME "sqlite" \notin Backends, Explained, [Next]_vars
    PROVE  Explained'
<1>1. Traced'
  BY NextTraced DEF Explained
<1>. SUFFICES Kept' /\ RefusedRefreshExplained'
  BY <1>1 DEF Explained
<1>. USE GrantAssumption DEF Explained, Traced, Spent, Typed, TypeOK, HandlersOK,
         RowsGranted, Kept, GoneExplained, RefusedRefreshExplained, Granted, Reading
<1>2. ASSUME NEW c \in Code, Authorize(c) PROVE Kept' /\ RefusedRefreshExplained'
  BY <1>2 DEF Authorize
<1>3. ASSUME NEW r \in Request, CodeStep(r) PROVE Kept' /\ RefusedRefreshExplained'
  <2>1. ASSUME NEW c \in Code, RefuseCode(r, c) PROVE Kept' /\ RefusedRefreshExplained'
    BY <2>1 DEF RefuseCode, Refuse
  <2>2. ASSUME NEW c \in Code, NEW type \in TokenType, ReceiveCode(r, c, type)
        PROVE  Kept' /\ RefusedRefreshExplained'
    BY <2>2 DEF ReceiveCode
  <2>3. CASE ExchangeCode(r) \/ PgCommitCode(r)
    <3>1. CommitExchange(r) /\ minted[r] # NoRow /\ presented[r] \in Code /\ pc[r] # "granted"
      BY <2>3 DEF ExchangeCode, PgCommitCode, Lineage
    <3>2. RefreshOf(r) # NoRow
      BY <2>3 DEF ExchangeCode, PgCommitCode, RefreshOf, RefreshRow
    <3>. QED BY <3>1, <3>2 DEF CommitExchange
  <2>4. CASE ExchangeRefused(r)
    BY <2>4 DEF ExchangeRefused, Refuse
  <2>5. CASE PgSelectCode(r)
    BY <2>5 DEF PgSelectCode
  <2>. QED BY <1>3, <2>1, <2>2, <2>3, <2>4, <2>5 DEF CodeStep
<1>4. ASSUME NEW r \in Request, RefreshStep(r) PROVE Kept' /\ RefusedRefreshExplained'
  <2>1. ASSUME NEW t \in Request, ReceiveRefresh(r, t) PROVE Kept' /\ RefusedRefreshExplained'
    BY <2>1 DEF ReceiveRefresh
  <2>2. ASSUME NEW t \in Request, RefuseRefresh(r, t) PROVE Kept' /\ RefusedRefreshExplained'
    BY <2>2 DEF RefuseRefresh, RefreshUsable, Refuse
  <2>3. CASE ReadOldAccess(r)
    BY <2>3 DEF ReadOldAccess
  <2>4. CASE OldAccessGone(r)
    BY <2>4 DEF OldAccessGone, Refuse
  <2>5. CASE Rotate(r) \/ PgCommitRefresh(r)
    <3>1. /\ CommitRotation(r) /\ minted[r] # NoRow /\ pc[r] # "granted"
          /\ presented[r] \in Granted /\ presented[r] # r
      BY <2>5 DEF Rotate, PgCommitRefresh, Lineage
    <3>2. RefreshOf(r) # NoRow
      BY <2>5 DEF Rotate, PgCommitRefresh, RefreshOf, RefreshRow
    <3>. QED BY <3>1, <3>2 DEF CommitRotation
  <2>6. CASE RotateRefused(r)
    BY <2>6 DEF RotateRefused, RefreshUsable, Refuse
  <2>7. CASE PgSelectRefresh(r)
    BY <2>7 DEF PgSelectRefresh
  <2>. QED BY <1>4, <2>1, <2>2, <2>3, <2>4, <2>5, <2>6, <2>7 DEF RefreshStep
<1>5. ASSUME NEW r \in Request, Fail(r) PROVE Kept' /\ RefusedRefreshExplained'
  BY <1>5 DEF Fail
<1>6. ASSUME NEW t \in Request, PresentExpiredAccess(t) PROVE FALSE
  BY <1>6 DEF PresentExpiredAccess
<1>7. ASSUME NEW x \in Expirable, Expire(x) PROVE Kept' /\ RefusedRefreshExplained'
  BY <1>7 DEF Expire
<1>8. CASE UNCHANGED vars
  BY <1>8 DEF vars
<1>. QED BY <1>2, <1>3, <1>4, <1>5, <1>6, <1>7, <1>8 DEF Next

(* Without SQLite a refresh is refused only for a token that was rotated by *)
(* another request or is past its own expiry, PostgreSQL's races included.  *)
THEOREM RefusalsExplained ==
    ASSUME "sqlite" \notin Backends
    PROVE  Spec => []RefusedRefreshExplained
<1>1. Init => Explained
  BY InitTraced DEF Init, Explained, Kept, RefusedRefreshExplained, Granted
<1>2. Explained /\ [Next]_vars => Explained'
  BY NextExplained
<1>3. Explained => RefusedRefreshExplained
  BY DEF Explained
<1>. QED BY <1>1, <1>2, <1>3, PTL DEF Spec

LEMMA StepKeepsRefresh ==
    ASSUME "sqlite" \notin Backends, Spent, [Next]_vars,
           NEW t \in Request, refresh[t] # NoRow, refresh'[t] = NoRow
    PROVE  \/ <<"refresh", t>> \in expired
           \/ \E r \in Request : pc[r] # "granted" /\ pc'[r] = "granted" /\ presented[r] = t
<1>. USE DEF Spent, Typed, TypeOK, HandlersOK, RowsGranted, Granted
<1>1. ASSUME NEW r \in Request, ExchangeCode(r) \/ PgCommitCode(r) PROVE FALSE
  BY <1>1 DEF ExchangeCode, PgCommitCode, CommitExchange
<1>2. ASSUME NEW r \in Request, Rotate(r) \/ PgCommitRefresh(r)
      PROVE  pc[r] # "granted" /\ pc'[r] = "granted" /\ presented[r] = t
  BY <1>2 DEF Rotate, PgCommitRefresh, CommitRotation
<1>3. ASSUME NEW r \in Request, RotateRefused(r) PROVE <<"refresh", t>> \in expired
  BY <1>3 DEF RotateRefused, RefreshUsable
<1>4. ASSUME NEW r \in Request, PresentExpiredAccess(r) PROVE FALSE
  BY <1>4 DEF PresentExpiredAccess
<1>5. CASE UNCHANGED refresh
  BY <1>5
<1>. QED
  BY <1>1, <1>2, <1>3, <1>4, <1>5 DEF Next, CodeStep, RefreshStep, RefuseCode, ReceiveCode,
     ExchangeRefused, PgSelectCode, ReceiveRefresh, RefuseRefresh, ReadOldAccess,
     OldAccessGone, PgSelectRefresh, Fail, Authorize, Expire, vars

(* Without SQLite no step takes a live refresh token out of the store but   *)
(* the rotation that presents it; an expired access token plays no part.    *)
THEOREM RefreshTokensLast ==
    ASSUME "sqlite" \notin Backends
    PROVE  Spec => RefreshLeavesByRotationOrExpiry
<1>. DEFINE Leaves(t) ==
       refresh[t] # NoRow /\ refresh'[t] = NoRow =>
          \/ <<"refresh", t>> \in expired
          \/ \E r \in Request : pc[r] # "granted" /\ pc'[r] = "granted" /\ presented[r] = t
<1>1. Spent /\ [Next]_vars => [\A t \in Request : Leaves(t)]_vars
  BY StepKeepsRefresh
<1>2. Spec => [][\A t \in Request : Leaves(t)]_vars
  BY <1>1, InitSpent, NextSpent, PTL DEF Spec
<1>. QED BY <1>2 DEF RefreshLeavesByRotationOrExpiry
=============================================================================
