----------------------- MODULE TokenGrants_refinement -----------------------
(***************************************************************************)
(* TokenGrants implements TokenChain on every backend whose exchange is    *)
(* one atomic step, for any sets of requests and codes.                    *)
(*                                                                         *)
(* Traced says which code each pair descends from.  OneTip adds that the   *)
(* newest pair of a chain is unique.  Under both, a successful exchange is *)
(* a Redeem step of TokenChain, a successful rotation is a Rotate step,    *)
(* and every other step leaves the chains alone.                           *)
(***************************************************************************)
EXTENDS TokenGrants_proofs

-----------------------------------------------------------------------------
(* The newest pair of a chain is unique. *)
OneTip == \A c \in Code : \A r, s \in Tip(c) : r = s

Implements == Traced /\ NoOpenTransaction /\ OneTip

ChainStep == [Chain!Next]_(Chain!vars)

LEMMA InitImplements == Init => Implements /\ Chain!Init
<1>. SUFFICES ASSUME Init PROVE Implements /\ Chain!Init
  OBVIOUS
<1>1. Granted = {}
  BY DEF Init, Granted
<1>2. Chain!Init
  BY <1>1 DEF Chain!Init, Tip
<1>. QED
  BY <1>1, <1>2, InitTraced DEF Init, Implements, NoOpenTransaction, OneTip, Tip

(* A step that grants nothing and leaves the granted requests as they are    *)
(* leaves the chains as they are.                                            *)
LEMMA QuietStep ==
    ASSUME Granted' = Granted,
           \A r \in Granted : presented'[r] = presented[r] /\ minted'[r] = minted[r]
    PROVE  /\ \A c \in Code : Tip(c)' = Tip(c)
           /\ [c \in Code |-> Tip(c)]' = [c \in Code |-> Tip(c)]
           /\ ChainStep
           /\ OneTip => OneTip'
<1>1. \A c \in Code : Tip(c)' = Tip(c)
  BY DEF Tip
<1>2. [c \in Code |-> Tip(c)]' = [c \in Code |-> Tip(c)]
  BY <1>1
<1>. QED
  BY <1>1, <1>2 DEF ChainStep, Chain!vars, OneTip

(* A request that joins the granted ones becomes the only tip of its chain,  *)
(* provided the chain had no tip but the pair the request presented.         *)
LEMMA GrantStep ==
    ASSUME Traced, Traced', NEW r \in Request, NEW c \in Code,
           pc[r] # "granted", pc' = [pc EXCEPT ![r] = "granted"],
           UNCHANGED <<presented, minted>>,
           minted[r].grant = c,
           \A s \in Tip(c) : s = presented[r],
           presented[r] \in Code \/ (presented[r] \in Granted /\ minted[presented[r]].grant = c)
    PROVE  /\ Granted' = Granted \cup {r}
           /\ Tip(c)' = {r}
           /\ \A d \in Code \ {c} : Tip(d)' = Tip(d)
<1>. USE GrantAssumption DEF Traced, Spent, Typed, TypeOK, HandlersOK
<1>1. Granted' = Granted \cup {r} /\ r \notin Granted
  BY DEF Granted
<1>2. \A s \in Granted \cup {r} : presented[s] # r
  BY <1>1 DEF Granted
<1>3. Tip(c)' = {r}
  BY <1>1, <1>2 DEF Tip
<1>4. ASSUME NEW d \in Code \ {c} PROVE Tip(d)' = Tip(d)
  <2>1. \A s \in Granted : minted[s].grant = d => presented[r] # s
    BY <1>4 DEF Granted
  <2>. QED BY <1>1, <1>4, <2>1 DEF Tip
<1>. QED BY <1>1, <1>3, <1>4

LEMMA OneTipAfter ==
    ASSUME OneTip, NEW c \in Code, NEW r \in Request, Tip(c)' = {r},
           \A d \in Code \ {c} : Tip(d)' = Tip(d)
    PROVE  OneTip'
<1>. SUFFICES ASSUME NEW d \in Code, NEW p \in Tip(d)', NEW q \in Tip(d)' PROVE p = q
  BY DEF OneTip
<1>. QED BY DEF OneTip

LEMMA ExchangeStep ==
    ASSUME Implements, Traced', NEW r \in Request, ExchangeCode(r)
    PROVE  ChainStep /\ OneTip'
<1>. Traced /\ OneTip
  BY DEF Implements
<1>0. PICK c \in Code : c = presented[r]
  BY DEF ExchangeCode, Traced, Spent, Typed, HandlersOK
<1>1. c = presented[r] /\ minted[r].grant = c /\ pc[r] # "granted" /\ codes[c] = "live"
  BY <1>0, GrantAssumption DEF ExchangeCode, CodeRedeemable, Lineage, Traced
<1>2. Tip(c) = {}
  BY <1>1 DEF Tip, Lineage, Traced
<1>3. pc' = [pc EXCEPT ![r] = "granted"] /\ UNCHANGED <<presented, minted>>
  BY DEF ExchangeCode, CommitExchange
<1>4. /\ Granted' = Granted \cup {r}
      /\ Tip(c)' = {r}
      /\ \A d \in Code \ {c} : Tip(d)' = Tip(d)
  BY <1>1, <1>2, <1>3, GrantStep
<1>5. [d \in Code |-> Tip(d)]' = [[d \in Code |-> Tip(d)] EXCEPT ![c] = {r}]
  BY <1>1, <1>4
<1>6. Chain!Redeem(c, r)
  BY <1>1, <1>2, <1>4, <1>5 DEF Chain!Redeem, Granted
<1>7. OneTip'
  BY <1>4, OneTipAfter
<1>. QED BY <1>1, <1>6, <1>7 DEF ChainStep, Chain!Next

LEMMA RotateStep ==
    ASSUME Implements, Traced', NEW r \in Request, Rotate(r)
    PROVE  ChainStep /\ OneTip'
<1>. Traced /\ OneTip
  BY DEF Implements
<1>0. PICK t \in Request, c \in Code : t = presented[r] /\ c = grant[r]
  BY DEF Rotate, Reading, Traced, Spent, Typed, HandlersOK
<1>1. /\ t \in Granted /\ t = presented[r]
      /\ minted[r].grant = c /\ minted[t].grant = c
      /\ pc[r] # "granted" /\ refresh[t] # NoRow
  BY <1>0, GrantAssumption
  DEF Rotate, RefreshUsable, Lineage, Reading, Traced, Spent, Typed, HandlersOK
<1>2. \A s \in Granted : presented[s] # t
  BY <1>1 DEF CredentialsSpent, Granted, Traced, Spent
<1>3. Tip(c) = {t}
  <2>1. t \in Tip(c)
    BY <1>1, <1>2 DEF Tip
  <2>. QED BY <1>1, <2>1 DEF OneTip
<1>4. pc' = [pc EXCEPT ![r] = "granted"] /\ UNCHANGED <<presented, minted>>
  BY DEF Rotate, CommitRotation
<1>5. /\ Granted' = Granted \cup {r}
      /\ Tip(c)' = {r}
      /\ \A d \in Code \ {c} : Tip(d)' = Tip(d)
  BY <1>1, <1>3, <1>4, GrantStep
<1>6. [d \in Code |-> Tip(d)]' = [[d \in Code |-> Tip(d)] EXCEPT ![c] = {r}]
  BY <1>1, <1>5
<1>7. Chain!Rotate(c, t, r)
  BY <1>1, <1>3, <1>5, <1>6 DEF Chain!Rotate, Granted
<1>8. OneTip'
  BY <1>5, OneTipAfter
<1>. QED BY <1>1, <1>7, <1>8 DEF ChainStep, Chain!Next

LEMMA NextImplements ==
    ASSUME "postgres" \notin Backends, Implements, [Next]_vars
    PROVE  Implements' /\ ChainStep
<1>1. Traced' /\ NoOpenTransaction'
  BY NextTraced, NextNoOpenTransaction DEF Implements, Traced, Spent
<1>. SUFFICES ChainStep /\ OneTip'
  BY <1>1 DEF Implements
<1>. USE DEF Implements, Traced, Spent, Typed, TypeOK, Granted
<1>2. ASSUME \A r \in Request : pc'[r] = "granted" <=> pc[r] = "granted",
             \A r \in Granted : presented'[r] = presented[r] /\ minted'[r] = minted[r]
      PROVE  ChainStep /\ OneTip'
  <2>1. Granted' = Granted
    BY <1>2
  <2>. QED BY <1>2, <2>1, QuietStep
<1>3. ASSUME NEW r \in Request, CodeStep(r) PROVE ChainStep /\ OneTip'
  <2>1. CASE ExchangeCode(r)
    BY <1>1, <2>1, ExchangeStep
  <2>2. ASSUME NEW c \in Code, RefuseCode(r, c) PROVE ChainStep /\ OneTip'
    BY <1>2, <2>2 DEF RefuseCode, Refuse
  <2>3. ASSUME NEW c \in Code, NEW type \in TokenType, ReceiveCode(r, c, type)
        PROVE  ChainStep /\ OneTip'
    BY <1>2, <2>3 DEF ReceiveCode
  <2>4. CASE ExchangeRefused(r) \/ PgSelectCode(r)
    BY <1>2, <2>4 DEF ExchangeRefused, PgSelectCode, Refuse
  <2>. QED BY <1>3, <2>1, <2>2, <2>3, <2>4 DEF CodeStep, PgCommitCode, NoOpenTransaction
<1>4. ASSUME NEW r \in Request, RefreshStep(r) PROVE ChainStep /\ OneTip'
  <2>1. CASE Rotate(r)
    BY <1>1, <2>1, RotateStep
  <2>2. ASSUME NEW t \in Request, ReceiveRefresh(r, t) \/ RefuseRefresh(r, t)
        PROVE  ChainStep /\ OneTip'
    BY <1>2, <2>2 DEF ReceiveRefresh, RefuseRefresh, Refuse
  <2>3. CASE ReadOldAccess(r)
    BY <1>2, <2>3 DEF ReadOldAccess
  <2>4. CASE OldAccessGone(r) \/ RotateRefused(r) \/ PgSelectRefresh(r)
    BY <1>2, <2>4 DEF OldAccessGone, RotateRefused, PgSelectRefresh, Refuse
  <2>. QED
    BY <1>4, <2>1, <2>2, <2>3, <2>4 DEF RefreshStep, PgCommitRefresh, NoOpenTransaction
<1>5. ASSUME NEW r \in Request, Fail(r) PROVE ChainStep /\ OneTip'
  BY <1>2, <1>5 DEF Fail, Reading
<1>6. CASE UNCHANGED <<pc, presented, minted>>
  BY <1>2, <1>6
<1>. QED
  BY <1>3, <1>4, <1>5, <1>6 DEF Next, vars, Authorize, PresentExpiredAccess, Expire

(* The endpoint implements TokenChain: no code starts two chains of token   *)
(* pairs and no chain forks (exchange_code_for_tokens and refresh_tokens on *)
(* the in-memory store and SQLite).                                         *)
THEOREM ChainRefinement ==
    ASSUME "postgres" \notin Backends
    PROVE  Spec => ImplementsChain
<1>1. Implements /\ [Next]_vars => Implements' /\ ChainStep
  BY NextImplements
<1>. QED
  BY <1>1, InitImplements, PTL DEF Spec, ImplementsChain, Chain!Spec, ChainStep
=============================================================================
