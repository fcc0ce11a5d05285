-------------------------- MODULE DeviceFlow_proofs --------------------------
(***************************************************************************)
(* Theorems about DeviceFlow for any devices, users and numbers of polls   *)
(* and logins.                                                             *)
(*                                                                         *)
(* Two facts carry them.  Stages says what a poll has taken and stored at  *)
(* each position of its handler.  Codes says that, on the stores that read *)
(* and delete a code in one step, the code is gone once a poll took it,    *)
(* and that one poll took it, for the user who approved it last.           *)
(***************************************************************************)
EXTENDS DeviceFlow, FiniteSetTheorems, WellFoundedInduction, TLAPS

-----------------------------------------------------------------------------
(* Sessions. *)

\* A nonempty set of positions has a last one.
LEMMA LastExists ==
    ASSUME NEW n \in Nat, NEW S \in SUBSET (1..n), S # {}
    PROVE  \E i \in S : \A j \in S : j <= i
<1>. DEFINE Above(i) == {j \in S : i < j}
            T == {Above(i) : i \in S}
<1>1. IsFiniteSet(S)
  <2>1. IsFiniteSet(1..n)
    BY FS_Interval
  <2>. QED BY <2>1, FS_Subset
<1>2. T \subseteq FiniteSubsetsOf(S)
  BY <1>1, FS_FiniteSubsetsOfFinite
<1>3. PICK x \in T : \A y \in T : <<y, x>> \notin StrictSubsetOrdering(S)
  <2>1. IsWellFoundedOn(StrictSubsetOrdering(S), FiniteSubsetsOf(S))
    BY FS_StrictSubsetOrderingWellFounded
  <2>2. T # {}
    OBVIOUS
  <2>. HIDE DEF T
  <2>. QED BY <1>2, <2>1, <2>2, WFMin
<1>4. PICK i \in S : x = Above(i)
  BY <1>3
<1>5. ASSUME NEW j \in S, i < j PROVE FALSE
  <2>1. i \in Int /\ j \in Int /\ \A k \in S : k \in Int
    OBVIOUS
  <2>2. ASSUME NEW k \in S, j < k PROVE i < k
    BY <1>5, <2>1, <2>2
  <2>3. Above(j) \subseteq Above(i)
    BY <2>2
  <2>4. j \in Above(i) /\ j \notin Above(j)
    BY <1>5, <2>1
  <2>5. Above(i) \in SUBSET S /\ Above(j) \in SUBSET S
    OBVIOUS
  <2>. HIDE DEF Above
  <2>6. <<Above(j), Above(i)>> \in StrictSubsetOrdering(S)
    BY <2>3, <2>4, <2>5 DEF StrictSubsetOrdering
  <2>. QED BY <1>3, <1>4, <2>6
<1>. QED BY <1>5

LEMMA LatestSessionTyped ==
    ASSUME TypeOK, NEW u \in User, SessionsOf(u) # {}
    PROVE  /\ LatestSession(u) \in Session
           /\ LatestSession(u) \in DOMAIN sessions
           /\ sessions[LatestSession(u)] = u
<1>1. DOMAIN sessions = 1..Len(sessions) /\ Len(sessions) \in Nat /\ Len(sessions) <= MaxLogins
  BY DEF TypeOK
<1>2. SessionsOf(u) \subseteq 1..Len(sessions)
  BY <1>1 DEF SessionsOf
<1>3. LatestSession(u) \in SessionsOf(u)
  BY <1>1, <1>2, LastExists DEF LatestSession
<1>. QED BY <1>1, <1>3, DeviceAssumption DEF SessionsOf, Session

-----------------------------------------------------------------------------
(* Invariants. *)

Stages ==
    \A r \in Poll :
        /\ pc[r] \in {"idle", "approved", "refused"} => consumed[r] = None
        /\ pc[r] \in {"idle", "approved", "refused", "selected", "consumed"} =>
              access[r] = None /\ refresh[r] = None
        /\ pc[r] \in {"selected", "consumed", "access_stored", "stored", "linking", "granted"} =>
              consumed[r] # None
        /\ pc[r] \in {"access_stored", "stored", "linking", "granted"} => access[r] # None
        /\ pc[r] = "selected" => backend = "postgres"
        /\ pc[r] = "linking" =>
              found[r] \in DOMAIN sessions /\ sessions[found[r]] = consumed[r]

\* What a poll stored belongs to the user it took from the code.
Owned ==
    \A r \in Poll :
        /\ access[r] # None =>
              /\ consumed[r] # None /\ access[r].user = consumed[r]
              /\ access[r].session # None =>
                    /\ access[r].session \in DOMAIN sessions
                    /\ sessions[access[r].session] = consumed[r]
        /\ refresh[r] # None =>
              /\ access[r] # None
              /\ refresh[r].user = consumed[r] /\ refresh[r].session = None

Codes ==
    /\ \A d \in Device : Approved(d) => entry[d] = approver[d]
    /\ \A d \in Device : entry[d] = "gone" =>
          d \in expired \/ \E s \in Poll : s[1] = d /\ consumed[s] # None
    /\ backend # "postgres" =>
          /\ \A r \in Poll : consumed[r] # None =>
                entry[r[1]] = "gone" /\ consumed[r] = approver[r[1]]
          /\ \A r, s \in Poll : r[1] = s[1] /\ consumed[r] # None /\ consumed[s] # None => r = s

IInv == TypeOK /\ Stages /\ Owned

LEMMA PollDevice == \A r \in Poll : r[1] \in Device
BY DEF Poll

LEMMA InitIInv == Init => IInv /\ Codes /\ RefusedPollExplained
BY DeviceAssumption, PollDevice
   DEF Init, IInv, TypeOK, Stages, Owned, Codes, Approved, RefusedPollExplained

-----------------------------------------------------------------------------
(* Types, stages and owners. *)

LEMMA LogInIInv ==
    ASSUME IInv, NEW u \in User, LogIn(u)
    PROVE  IInv'
<1>1. /\ sessions' \in Seq(User) /\ Len(sessions') <= MaxLogins
      /\ \A i \in DOMAIN sessions : i \in DOMAIN sessions' /\ sessions'[i] = sessions[i]
  BY DeviceAssumption DEF LogIn, IInv, TypeOK
<1>. QED BY <1>1 DEF LogIn, IInv, TypeOK, Stages, Owned

LEMMA CodeStepIInv ==
    ASSUME IInv, NEW d \in Device, IssueCode(d) \/ Expire(d) \/ \E u \in User : Approve(d, u)
    PROVE  IInv'
BY DEF IssueCode, Expire, Approve, IInv, TypeOK, Stages, Owned

LEMMA ServeIInv ==
    ASSUME IInv, NEW r \in Poll, Serve(r)
    PROVE  IInv'
<1>. USE DeviceAssumption, PollDevice DEF Move, IInv, TypeOK, Stages, Owned
<1>1. CASE ReadCode(r)
  BY <1>1 DEF ReadCode
<1>2. CASE RefuseCode(r)
  BY <1>2 DEF RefuseCode
<1>3. CASE ConsumeCode(r)
  BY <1>3 DEF ConsumeCode, Take, Approved
<1>4. CASE ConsumeRefused(r)
  BY <1>4 DEF ConsumeRefused, Take
<1>5. CASE PgSelectCode(r)
  BY <1>5 DEF PgSelectCode, Approved
<1>6. CASE PgDeleteCode(r)
  BY <1>6 DEF PgDeleteCode, Take
<1>7. CASE StoreAccess(r)
  <2>1. [user |-> consumed[r], session |-> None, numbered |-> FALSE] \in AccessRow
    BY <1>7 DEF StoreAccess, AccessRow
  <2>. QED BY <1>7, <2>1 DEF StoreAccess
<1>8. CASE StoreRefresh(r)
  <2>1. [user |-> consumed[r], session |-> None] \in RefreshRow
    BY <1>8 DEF StoreRefresh, RefreshRow
  <2>. QED BY <1>8, <2>1 DEF StoreRefresh
<1>9. CASE FindSession(r)
  <2>1. access[r].user = consumed[r] /\ consumed[r] \in User
    BY <1>9 DEF FindSession
  <2>. QED BY <1>9, <2>1, LatestSessionTyped DEF FindSession
<1>10. CASE AnswerUnlinked(r)
  BY <1>10 DEF AnswerUnlinked
<1>11. CASE StoreLink(r)
  <2>1. access[r].user = consumed[r] /\ access[r] \in AccessRow /\ found[r] \in Session
    BY <1>11 DEF StoreLink
  <2>2. [user |-> access[r].user, session |-> found[r], numbered |-> TRUE] \in AccessRow
    BY <2>1 DEF AccessRow
  <2>. QED BY <1>11, <2>1, <2>2 DEF StoreLink
<1>. QED BY <1>1, <1>2, <1>3, <1>4, <1>5, <1>6, <1>7, <1>8, <1>9, <1>10, <1>11 DEF Serve

LEMMA RefreshPairIInv ==
    ASSUME IInv, NEW r \in Poll, RefreshPair(r)
    PROVE  IInv'
<1>1. access[r] \in AccessRow /\ refresh[r] \in RefreshRow /\ refresh[r].session = None
  BY DEF RefreshPair, IInv, TypeOK, Stages, Owned
<1>2. access'[r] = [access[r] EXCEPT !.session = None]
  BY <1>1 DEF RefreshPair, IInv, TypeOK
<1>3. access'[r] \in AccessRow /\ access'[r].user = access[r].user /\ access'[r].session = None
  BY <1>1, <1>2 DEF AccessRow
<1>. QED BY <1>1, <1>3, DeviceAssumption DEF RefreshPair, IInv, TypeOK, Stages, Owned

LEMMA FailIInv ==
    ASSUME IInv, NEW r \in Poll, Fail(r)
    PROVE  IInv'
BY DEF Fail, IInv, TypeOK, Stages, Owned

LEMMA NextIInv == IInv /\ [Next]_vars => IInv'
<1>. SUFFICES ASSUME IInv, [Next]_vars PROVE IInv'
  OBVIOUS
<1>1. CASE UNCHANGED vars
  BY <1>1 DEF vars, IInv, TypeOK, Stages, Owned
<1>. QED
  BY <1>1, LogInIInv, CodeStepIInv, ServeIInv, RefreshPairIInv, FailIInv DEF Next

(* However many polls and approvals overlap, the tables hold rows of their  *)
(* types, and the session found for a token is one of the stored ones.      *)
THEOREM TypeCorrect == Spec => []TypeOK
<1>1. IInv => TypeOK
  BY DEF IInv
<1>. QED BY <1>1, InitIInv, NextIInv, PTL DEF Spec

(* A stored refresh token has its access token beside it, of the same user, *)
(* wherever a handler stops: the foreign key of the SQL schemas holds.      *)
THEOREM RefreshRowsBacked == Spec => []RefreshRowBacked
<1>1. IInv => RefreshRowBacked
  BY DEF IInv, Owned, RefreshRowBacked
<1>. QED BY <1>1, InitIInv, NextIInv, PTL DEF Spec

-----------------------------------------------------------------------------
(* The device code. *)

LEMMA ServeCodes ==
    ASSUME IInv, Codes, NEW r \in Poll, Serve(r)
    PROVE  Codes'
<1>. USE DeviceAssumption, PollDevice DEF Move, Codes
<1>0. backend \in Backends /\ entry \in [Device -> {"unissued", "pending", "gone"} \cup User]
      /\ pc \in [Poll -> {"idle", "approved", "selected", "consumed", "access_stored",
                        "stored", "linking", "granted", "refused", "failed"}]
      /\ consumed \in [Poll -> User \cup {None}]
  BY DEF IInv, TypeOK
<1>1. CASE ConsumeCode(r)
  <2>1. /\ backend # "postgres" /\ Approved(r[1]) /\ consumed[r] = None
        /\ \A s \in Poll : s[1] = r[1] => consumed[s] = None
    BY <1>0, <1>1 DEF ConsumeCode, IInv, Stages, Approved
  <2>2. /\ entry'[r[1]] = "gone" /\ consumed'[r] = entry[r[1]] /\ entry[r[1]] = approver[r[1]]
        /\ \A d \in Device \ {r[1]} : entry'[d] = entry[d]
        /\ \A s \in Poll \ {r} : consumed'[s] = consumed[s]
        /\ UNCHANGED <<backend, approver, expired>>
    BY <1>0, <1>1, <2>1 DEF ConsumeCode, Take
  <2>3. entry[r[1]] \in User
    BY <2>1 DEF Approved
  <2>. QED BY <1>0, <2>1, <2>2, <2>3 DEF Approved
<1>2. CASE ConsumeRefused(r)
  BY <1>0, <1>2 DEF ConsumeRefused, Take, Approved
<1>3. CASE PgSelectCode(r)
  BY <1>0, <1>3 DEF PgSelectCode, Approved
<1>4. CASE PgDeleteCode(r)
  BY <1>0, <1>4 DEF PgDeleteCode, Take, Approved, IInv, Stages
<1>5. CASE UNCHANGED <<backend, entry, approver, expired, consumed>>
  BY <1>5 DEF Approved
<1>. QED BY <1>1, <1>2, <1>3, <1>4, <1>5
  DEF Serve, ReadCode, RefuseCode, StoreAccess, StoreRefresh, FindSession, AnswerUnlinked, StoreLink

LEMMA NextCodes == IInv /\ Codes /\ [Next]_vars => Codes'
<1>. SUFFICES ASSUME IInv, Codes, [Next]_vars PROVE Codes'
  OBVIOUS
<1>1. ASSUME NEW d \in Device, IssueCode(d) PROVE Codes'
  BY <1>1, DeviceAssumption DEF IssueCode, Codes, Approved, IInv, TypeOK
<1>2. ASSUME NEW d \in Device, Expire(d) PROVE Codes'
  BY <1>2, DeviceAssumption DEF Expire, Codes, Approved
<1>3. ASSUME NEW d \in Device, NEW u \in User, Approve(d, u) PROVE Codes'
  BY <1>3, DeviceAssumption, PollDevice DEF Approve, Stored, Codes, Approved, IInv, TypeOK
<1>4. CASE UNCHANGED <<backend, entry, approver, expired, consumed>>
  BY <1>4 DEF Codes, Approved
<1>. QED BY <1>1, <1>2, <1>3, <1>4, ServeCodes
  DEF Next, LogIn, RefreshPair, Fail, vars

(* Where the store reads and deletes a code in one step, one poll gets      *)
(* tokens for it, however many polls of the device overlap.                 *)
THEOREM DeviceCodesOnce == Spec => []DeviceCodeOnce
<1>1. IInv /\ Codes => DeviceCodeOnce
  <2>. SUFFICES ASSUME IInv, Codes, backend # "postgres", NEW d \in Device
                PROVE  Cardinality(Holders(d)) <= 1
    BY DEF DeviceCodeOnce
  <2>1. \A r, s \in Holders(d) : r = s
    BY DEF IInv, Owned, Codes, Holders
  <2>2. CASE Holders(d) = {}
    BY <2>2, FS_EmptySet
  <2>3. CASE Holders(d) # {}
    <3>1. PICK r \in Holders(d) : TRUE
      BY <2>3
    <3>2. Holders(d) = {r}
      BY <2>1, <3>1
    <3>3. Cardinality({r}) = 1
      BY FS_Singleton
    <3>. QED BY <3>2, <3>3
  <2>. QED BY <2>2, <2>3
<1>. QED BY <1>1, InitIInv, NextIInv, NextCodes, PTL DEF Spec

(* What a device receives belongs to the last user whose approval of its    *)
(* code was confirmed, and so does the session its token is linked to.      *)
THEOREM TokensOfLastApprovers == Spec => []TokensOfLastApprover
<1>1. IInv /\ Codes => TokensOfLastApprover
  BY DEF IInv, Owned, Codes, TokensOfLastApprover
<1>. QED BY <1>1, InitIInv, NextIInv, NextCodes, PTL DEF Spec

LEMMA NextRefusedPollExplained ==
    ASSUME IInv, Codes, RefusedPollExplained, [Next]_vars
    PROVE  RefusedPollExplained'
<1>. SUFFICES ASSUME NEW r \in Poll, pc'[r] = "refused"
              PROVE  \/ r[1] \in expired'
                     \/ \E s \in Poll \ {r} : s[1] = r[1] /\ consumed'[s] # None
  BY DEF RefusedPollExplained
<1>1. expired \subseteq expired' /\ \A s \in Poll : consumed[s] # None => consumed'[s] # None
  BY DeviceAssumption, PollDevice
     DEF Next, IssueCode, Expire, Approve, LogIn, Serve, ReadCode, RefuseCode, ConsumeCode,
     ConsumeRefused, PgSelectCode, PgDeleteCode, Take, StoreAccess, StoreRefresh, FindSession,
     AnswerUnlinked, StoreLink, RefreshPair, Fail, vars, Approved, IInv, TypeOK
<1>2. pc[r] = "refused" \/ (entry[r[1]] = "gone" /\ consumed[r] = None) \/ r[1] \in expired
  <2>1. pc[r] = "refused" \/ RefuseCode(r) \/ ConsumeRefused(r)
    BY DEF Next, IssueCode, Expire, Approve, LogIn, Serve, ReadCode, RefuseCode, ConsumeCode,
     ConsumeRefused, PgSelectCode, PgDeleteCode, StoreAccess, StoreRefresh, FindSession,
     AnswerUnlinked, StoreLink, RefreshPair, Fail, vars, Move, IInv, TypeOK
  <2>. QED BY <2>1 DEF RefuseCode, ConsumeRefused, Move, IInv, Stages
<1>. QED BY <1>1, <1>2, PollDevice DEF RefusedPollExplained, Codes

(* A poll is refused only if the code expired or another poll took it.      *)
THEOREM RefusedPollsExplained == Spec => []RefusedPollExplained
BY InitIInv, NextIInv, NextCodes, NextRefusedPollExplained, PTL DEF Spec
=============================================================================
