------------------------- MODULE AppPassword_proofs -------------------------
(***************************************************************************)
(* Theorems about AppPassword for any handlers, passwords and bound on the *)
(* generations.                                                            *)
(*                                                                         *)
(* Stages ties what a handler holds to its position.  Three invariants     *)
(* build on it.  Undisturbed describes the handlers while no change of the *)
(* password overlapped another handler, Unharmed while nothing went wrong  *)
(* at all, and Rotations, without any condition, where the newest tokens   *)
(* of a session may be.                                                    *)
(***************************************************************************)
EXTENDS AppPassword, TLAPS

-----------------------------------------------------------------------------
(* Types. *)

\* The creators whose session has been in store.
Stored == {h \in Creator : pc[h] \in {"authorizing", "done", "refused"}}

Stages ==
    /\ \A s \in Setter : pc[s] \in {"idle", "deleting", "setting", "creating", "storing",
                                    "done", "refused"}
    /\ \A l \in Login : pc[l] \in {"idle", "creating", "storing", "cleaning", "authorizing",
                                   "done", "refused"}
    /\ \A h \in Creator : pc[h] = "storing" => newest[h] = 1
    /\ \A r \in Request :
          /\ pc[r] \in {"idle", "refreshing", "storing", "answered", "refused"}
          /\ pc[r] \in {"refreshing", "storing"} => held[r] \in Row
          /\ pc[r] = "refreshing" => ~held[r].error /\ held[r].generation < MaxGeneration
          /\ ~got[r].error
          /\ {held[r].creator, got[r].creator} \subseteq Stored \cup {None}
    /\ session.creator \in Stored \cup {None}

Typed == TypeOK /\ Stages

LEMMA Sessions ==
    /\ NoSession \notin Row
    /\ \A s \in Session : s \in Row <=> s.creator # None
    /\ \A s \in Row : /\ s.creator \in Creator /\ s.generation \in 1..MaxGeneration
                     /\ s.error \in BOOLEAN
BY AppPasswordAssumption DEF NoSession, Session, Row, Generation

LEMMA InitTyped == Init => Typed
BY AppPasswordAssumption
   DEF Init, Typed, TypeOK, Stages, NoSession, Session, Generation, Handler, Creator

LEMMA SetterTyped ==
    ASSUME Typed, NEW s \in Setter, SetterStep(s)
    PROVE  Typed'
<1>. USE AppPasswordAssumption DEF Typed, TypeOK, Stages, Stored, Go, NoteChange, tables, world,
         Handler, Creator, CreatorStates, RequestStates, Mishap, NoSession, Session
<1>1. CASE CheckExisting(s)
  BY <1>1 DEF CheckExisting
<1>2. CASE DeleteSessions(s)
  BY <1>2 DEF DeleteSessions
<1>3. CASE StorePassword(s)
  BY <1>3 DEF StorePassword
<1>4. CASE SetterError(s)
  BY <1>4 DEF SetterError
<1>. QED BY <1>1, <1>2, <1>3, <1>4 DEF SetterStep

LEMMA LoginTyped ==
    ASSUME Typed, NEW l \in Login, LoginStep(l)
    PROVE  Typed'
<1>. USE AppPasswordAssumption DEF Typed, TypeOK, Stages, Stored, Go, NoteChange, tables, world,
         Handler, Creator, CreatorStates, RequestStates, Mishap, NoSession, Session
<1>1. CASE StoreLoginPassword(l)
  BY <1>1 DEF StoreLoginPassword
<1>2. CASE CleanUp(l)
  BY <1>2 DEF CleanUp, DeletePassword
<1>3. CASE LeaveBehind(l)
  BY <1>3 DEF LeaveBehind
<1>4. CASE Authorize(l)
  BY <1>4 DEF Authorize
<1>. QED BY <1>1, <1>2, <1>3, <1>4 DEF LoginStep

LEMMA CreateTyped ==
    ASSUME Typed, NEW h \in Creator, CreateStep(h)
    PROVE  Typed'
<1>. USE AppPasswordAssumption DEF Typed, TypeOK, Stages, Stored, Go, tables, world,
         Handler, Creator, CreatorStates, RequestStates, CreateFailed
<1>1. CASE CreateSession(h)
  <2>1. 1 \in Generation
    BY DEF Generation
  <2>. QED BY <1>1, <2>1 DEF CreateSession
<1>2. CASE CreateRefused(h) \/ CreateUnreachable(h)
  BY <1>2 DEF CreateRefused, CreateUnreachable
<1>3. CASE StoreSession(h)
  <2>1. [creator |-> h, generation |-> 1, error |-> FALSE] \in Session
    BY DEF Session, Row, Generation
  <2>. QED BY <1>3, <2>1 DEF StoreSession
<1>4. CASE StoreSessionFails(h)
  BY <1>4 DEF StoreSessionFails
<1>. QED BY <1>1, <1>2, <1>3, <1>4 DEF CreateStep

LEMMA RefreshedTyped ==
    ASSUME Typed, NEW r \in Request, pc[r] = "refreshing"
    PROVE  /\ Refreshed(held[r]) \in Row
           /\ Refreshed(held[r]).creator = held[r].creator
           /\ Refreshed(held[r]).generation = held[r].generation + 1
           /\ Refreshed(held[r]).error = held[r].error
           /\ Failed(held[r]) \in Row
           /\ Failed(held[r]).creator = held[r].creator
           /\ Failed(held[r]).generation = held[r].generation
           /\ Failed(held[r]).error
           /\ Rotated(held[r]) \in [Creator -> Generation]
           /\ Rotated(held[r])[held[r].creator] = held[r].generation + 1
           /\ \A h \in Creator \ {held[r].creator} : Rotated(held[r])[h] = newest[h]
<1>1. held[r] \in Row /\ held[r].generation < MaxGeneration
  BY DEF Typed, Stages
<1>2. held[r].generation \in 1..MaxGeneration /\ held[r].generation + 1 \in 1..MaxGeneration
      /\ MaxGeneration \in Nat /\ held[r].creator \in Creator
  BY <1>1, AppPasswordAssumption DEF Row, Generation
<1>3. Rotated(held[r]) \in [Creator -> Generation]
  BY <1>2 DEF Rotated, Generation, Typed, TypeOK
<1>4. /\ Rotated(held[r])[held[r].creator] = held[r].generation + 1
      /\ \A h \in Creator \ {held[r].creator} : Rotated(held[r])[h] = newest[h]
  BY <1>2 DEF Rotated, Typed, TypeOK
<1>5. held[r] = [creator |-> held[r].creator, generation |-> held[r].generation,
                 error |-> held[r].error] /\ held[r].error \in BOOLEAN
  BY <1>1 DEF Row
<1>6. Refreshed(held[r]) = [creator |-> held[r].creator, generation |-> held[r].generation + 1,
                            error |-> held[r].error]
  BY <1>5 DEF Refreshed
<1>7. /\ Failed(held[r]).creator = held[r].creator /\ Failed(held[r]).error
      /\ Failed(held[r]).generation = held[r].generation /\ Failed(held[r]) \in Row
  BY <1>1 DEF Failed, Row
<1>8. \A g \in 1..MaxGeneration : g \in Generation \ {0}
  BY AppPasswordAssumption DEF Generation
<1>. QED BY <1>2, <1>3, <1>4, <1>5, <1>6, <1>7, <1>8 DEF Row

LEMMA RequestTyped ==
    ASSUME Typed, NEW r \in Request, RequestStep(r)
    PROVE  Typed'
<1>. USE AppPasswordAssumption, Sessions DEF Typed, TypeOK, Stages, Stored, Go, tables, world,
         Handler, Creator, CreatorStates, RequestStates, Mishap, Session
<1>1. CASE UseSession(r)
  BY <1>1 DEF UseSession, Ready
<1>2. CASE BeginRefresh(r)
  BY <1>2 DEF BeginRefresh, Ready, NeedsRefresh
<1>3. CASE PdsRefreshes(r)
  <2>1. \A h \in Creator : pc[h] = "storing" => newest'[h] = 1
    BY <1>3, RefreshedTyped DEF PdsRefreshes
  <2>. QED BY <1>3, <2>1, RefreshedTyped DEF PdsRefreshes
<1>4. CASE PdsRefuses(r)
  BY <1>4, RefreshedTyped DEF PdsRefuses
<1>5. CASE PdsUnreachable(r)
  <2>1. \A h \in Creator : pc[h] = "storing" => newest'[h] = 1
    BY <1>5, RefreshedTyped DEF PdsUnreachable
  <2>. QED BY <1>5, <2>1, RefreshedTyped DEF PdsUnreachable
<1>6. CASE StoreRefreshed(r)
  BY <1>6 DEF StoreRefreshed, NoSession
<1>7. CASE StoreRefreshedFails(r)
  BY <1>7 DEF StoreRefreshedFails, NoSession
<1>. QED BY <1>1, <1>2, <1>3, <1>4, <1>5, <1>6, <1>7 DEF RequestStep

LEMMA NextTyped == Typed /\ [Next]_vars => Typed'
<1>. SUFFICES ASSUME Typed, [Next]_vars PROVE Typed'
  OBVIOUS
<1>1. CASE Age
  <2>1. TokenOf(session) \in Token
    BY <1>1, Sessions DEF Age, Typed, TypeOK, Session, TokenOf, Token, Generation
  <2>. QED BY <1>1, <2>1 DEF Age, Typed, TypeOK, Stages, Stored, tables
<1>2. ASSUME NEW p \in Password, Revoke(p) PROVE Typed'
  BY <1>2 DEF Revoke, Typed, TypeOK, Stages, Stored, tables, Mishap
<1>3. CASE UNCHANGED vars
  BY <1>3 DEF vars, Typed, TypeOK, Stages, Stored
<1>. QED BY <1>1, <1>2, <1>3, SetterTyped, LoginTyped, CreateTyped, RequestTyped DEF Next

(* Whatever handlers overlap, the tables hold rows of their types, and the  *)
(* stored session was created by a handler that is done creating it.        *)
THEOREM TypeCorrect == Spec => []TypeOK
<1>1. Typed => TypeOK
  BY DEF Typed
<1>. QED BY <1>1, InitTyped, NextTyped, PTL DEF Spec

-----------------------------------------------------------------------------
(* Changes of the password that overlap no other handler. *)

Undisturbed ==
    "changes" \notin mishaps =>
        /\ \A g, h \in Changing : g = h
        /\ Changing # {} => Refreshing = {}
        /\ \A h \in Creator : pc[h] \in {"creating", "storing"} => password = form[h]
        /\ \A s \in Setter : pc[s] \in {"setting", "creating", "storing"} => session = NoSession
        /\ \A l \in Login : pc[l] = "authorizing" =>
              session.creator = l /\ password = form[l]
        /\ \A r \in Refreshing : session.creator = held[r].creator
        /\ session # NoSession => password # None
        /\ session # NoSession /\ "leftover" \notin mishaps
             /\ (\A l \in Login : pc[l] \notin {"creating", "storing", "cleaning"})
           => password = form[session.creator]

LEMMA InitUndisturbed == Init => Undisturbed
BY AppPasswordAssumption DEF Init, Undisturbed, Changing, Refreshing, Handler, Creator, NoSession

\* Where a session was created by nobody, there is none.
LEMMA CreatorOf ==
    ASSUME Typed
    PROVE  /\ session # NoSession <=> session.creator \in Creator
           /\ \A r \in Refreshing : held[r] \in Row /\ held[r].creator \in Creator
BY Sessions, AppPasswordAssumption
   DEF Typed, TypeOK, Stages, Stored, Session, NoSession, Refreshing, Row

LEMMA SetterUndisturbed ==
    ASSUME Typed, Undisturbed, NEW s \in Setter, SetterStep(s)
    PROVE  Undisturbed'
<1>. USE AppPasswordAssumption, CreatorOf DEF Typed, TypeOK, Stages, Undisturbed, Changing,
         Refreshing, Go, Handler, Creator, world, tables
<1>1. CASE CheckExisting(s)
  BY <1>1 DEF CheckExisting, NoteChange
<1>2. CASE DeleteSessions(s)
  BY <1>2 DEF DeleteSessions
<1>3. CASE StorePassword(s)
  BY <1>3 DEF StorePassword
<1>4. CASE SetterError(s)
  BY <1>4 DEF SetterError
<1>. QED BY <1>1, <1>2, <1>3, <1>4 DEF SetterStep

LEMMA LoginUndisturbed ==
    ASSUME Typed, Undisturbed, NEW l \in Login, LoginStep(l)
    PROVE  Undisturbed'
<1>. USE AppPasswordAssumption, CreatorOf DEF Typed, TypeOK, Stages, Undisturbed, Changing,
         Refreshing, Go, Handler, Creator, world, tables
<1>1. CASE StoreLoginPassword(l)
  BY <1>1 DEF StoreLoginPassword, NoteChange
<1>2. CASE CleanUp(l)
  BY <1>2 DEF CleanUp, DeletePassword
<1>3. CASE LeaveBehind(l)
  BY <1>3 DEF LeaveBehind
<1>4. CASE Authorize(l)
  BY <1>4 DEF Authorize
<1>. QED BY <1>1, <1>2, <1>3, <1>4 DEF LoginStep

LEMMA CreateUndisturbed ==
    ASSUME Typed, Undisturbed, NEW h \in Creator, CreateStep(h)
    PROVE  Undisturbed'
<1>. USE AppPasswordAssumption, CreatorOf DEF Typed, TypeOK, Stages, Undisturbed, Changing,
         Refreshing, Go, Handler, Creator, world, tables, CreateFailed
<1>1. CASE CreateSession(h)
  BY <1>1 DEF CreateSession
<1>2. CASE CreateRefused(h) \/ CreateUnreachable(h) \/ StoreSessionFails(h)
  BY <1>2 DEF CreateRefused, CreateUnreachable, StoreSessionFails
<1>3. CASE StoreSession(h)
  BY <1>3 DEF StoreSession, NoSession
<1>. QED BY <1>1, <1>2, <1>3 DEF CreateStep

LEMMA RequestUndisturbed ==
    ASSUME Typed, Undisturbed, NEW r \in Request, RequestStep(r)
    PROVE  Undisturbed'
<1>. USE AppPasswordAssumption, CreatorOf DEF Typed, TypeOK, Stages, Undisturbed, Changing,
         Refreshing, Go, Handler, Creator, world, tables
<1>1. CASE UseSession(r)
  BY <1>1 DEF UseSession, Ready
<1>2. CASE BeginRefresh(r)
  BY <1>2 DEF BeginRefresh, Ready
<1>3. CASE PdsRefreshes(r) \/ PdsRefuses(r) \/ PdsUnreachable(r)
  BY <1>3, RefreshedTyped DEF PdsRefreshes, PdsRefuses, PdsUnreachable
<1>4. CASE StoreRefreshed(r)
  BY <1>4 DEF StoreRefreshed
<1>5. CASE StoreRefreshedFails(r)
  BY <1>5 DEF StoreRefreshedFails
<1>. QED BY <1>1, <1>2, <1>3, <1>4, <1>5 DEF RequestStep

LEMMA NextUndisturbed == Typed /\ Undisturbed /\ [Next]_vars => Undisturbed'
<1>. SUFFICES ASSUME Typed, Undisturbed, [Next]_vars PROVE Undisturbed'
  OBVIOUS
<1>1. CASE Age \/ (\E p \in Password : Revoke(p)) \/ UNCHANGED vars
  BY <1>1 DEF Age, Revoke, vars, tables, Undisturbed, Changing, Refreshing
<1>. QED
  BY <1>1, SetterUndisturbed, LoginUndisturbed, CreateUndisturbed, RequestUndisturbed DEF Next

(* While no change of the password overlaps another handler and no failed   *)
(* login left its password behind, the session is that of the stored        *)
(* password.                                                                *)
THEOREM SessionsUseStoredPassword == Spec => []SessionUsesStoredPassword
<1>1. Typed /\ Undisturbed => SessionUsesStoredPassword
  BY AppPasswordAssumption
     DEF Typed, Stages, Undisturbed, SessionUsesStoredPassword, LoggingIn, Changing, Creator
<1>. QED BY <1>1, InitTyped, NextTyped, InitUndisturbed, NextUndisturbed, PTL DEF Spec

(* A login receives its code only with its own session in store.            *)
THEOREM CodesFindSession == Spec => []CodeFindsSession
<1>1. Undisturbed => CodeFindsSession
  BY DEF Undisturbed, CodeFindsSession
<1>. QED BY <1>1, InitTyped, NextTyped, InitUndisturbed, NextUndisturbed, PTL DEF Spec

\* The foreign key of the databases.
ForeignKey == backend # "memory" /\ session # NoSession => password # None

LEMMA NextForeignKey == Typed /\ ForeignKey /\ [Next]_vars => ForeignKey'
<1>. SUFFICES ASSUME Typed, ForeignKey, [Next]_vars PROVE ForeignKey'
  OBVIOUS
<1>. USE AppPasswordAssumption DEF ForeignKey, Typed, TypeOK, tables
<1>1. ASSUME NEW s \in Setter, SetterStep(s) PROVE ForeignKey'
  BY <1>1 DEF SetterStep, CheckExisting, DeleteSessions, StorePassword, SetterError, Creator
<1>2. ASSUME NEW l \in Login, LoginStep(l) PROVE ForeignKey'
  BY <1>2 DEF LoginStep, StoreLoginPassword, CleanUp, DeletePassword, LeaveBehind, Authorize, Creator
<1>3. ASSUME NEW h \in Creator, CreateStep(h) PROVE ForeignKey'
  BY <1>3 DEF CreateStep, CreateSession, CreateRefused, CreateUnreachable, StoreSession,
     MayStoreSession, StoreSessionFails
<1>4. ASSUME NEW r \in Request, RequestStep(r) PROVE ForeignKey'
  BY <1>4 DEF RequestStep, UseSession, BeginRefresh, PdsRefreshes, PdsRefuses, PdsUnreachable,
     StoreRefreshed, MayStoreSession, StoreRefreshedFails
<1>5. CASE Age \/ (\E p \in Password : Revoke(p)) \/ UNCHANGED vars
  BY <1>5 DEF Age, Revoke, vars
<1>. QED BY <1>1, <1>2, <1>3, <1>4, <1>5 DEF Next

(* A session never outlives its password in the databases, and in memory    *)
(* only when a change of the password overlapped a refresh.                 *)
THEOREM SessionsHavePassword == Spec => []SessionHasPassword
<1>1. Init => ForeignKey
  BY DEF Init, ForeignKey
<1>2. Undisturbed /\ ForeignKey => SessionHasPassword
  BY DEF Undisturbed, ForeignKey, SessionHasPassword
<1>. QED
  BY <1>1, <1>2, InitTyped, NextTyped, InitUndisturbed, NextUndisturbed, NextForeignKey, PTL
  DEF Spec
-----------------------------------------------------------------------------
(* Refreshes while nothing goes wrong. *)

Unharmed ==
    mishaps = {} =>
        /\ \A q, r \in Refreshing : q = r
        /\ ~session.error
        /\ \A h \in Creator : pc[h] = "storing" => form[h] \in accepted
        /\ session # NoSession => form[session.creator] \in accepted
        /\ \A r \in Request :
              /\ pc[r] = "refreshing" => held[r] = session
              /\ pc[r] = "storing" =>
                    /\ ~held[r].error
                    /\ newest[held[r].creator] = held[r].generation
        /\ session # NoSession /\ (\A r \in Request : pc[r] # "storing") =>
              newest[session.creator] = session.generation

LEMMA InitUnharmed == Init => Unharmed
BY AppPasswordAssumption DEF Init, Unharmed, Refreshing, Handler, Creator, NoSession

\* A creator whose session is not in store yet owns nothing a request holds.
LEMMA CreateUnharmed ==
    ASSUME Typed, Undisturbed, Unharmed, NEW h \in Creator, CreateStep(h)
    PROVE  Unharmed'
<1>. USE AppPasswordAssumption, CreatorOf DEF Typed, TypeOK, Stages, Stored, Unharmed,
         Refreshing, Go, Handler, Creator, world, tables, CreateFailed
<1>1. CASE CreateSession(h)
  BY <1>1 DEF CreateSession
<1>2. CASE CreateRefused(h) \/ CreateUnreachable(h) \/ StoreSessionFails(h)
  BY <1>2 DEF CreateRefused, CreateUnreachable, StoreSessionFails
<1>3. CASE StoreSession(h)
  <2>1. mishaps = {} => Refreshing = {}
    BY <1>3 DEF StoreSession, Undisturbed, Changing
  <2>. QED BY <1>3, <2>1 DEF StoreSession
<1>. QED BY <1>1, <1>2, <1>3 DEF CreateStep

LEMMA RequestUnharmed ==
    ASSUME Typed, Undisturbed, Unharmed, NEW r \in Request, RequestStep(r)
    PROVE  Unharmed'
<1>. USE AppPasswordAssumption, CreatorOf, Sessions DEF Typed, TypeOK, Stages, Unharmed,
         Refreshing, Go, Handler, Creator, world, tables
<1>1. CASE UseSession(r)
  BY <1>1 DEF UseSession, Ready
<1>2. CASE BeginRefresh(r)
  <2>1. mishaps' = {} => mishaps = {} /\ \A q \in Request : pc[q] \notin {"refreshing", "storing"}
    BY <1>2 DEF BeginRefresh
  <2>2. /\ pc' = [pc EXCEPT ![r] = "refreshing"] /\ held' = [held EXCEPT ![r] = session]
        /\ session # NoSession
        /\ UNCHANGED <<form, session, accepted, newest>>
    BY <1>2 DEF BeginRefresh
  <2>. QED BY <2>1, <2>2
<1>3. CASE PdsRefreshes(r)
  BY <1>3, RefreshedTyped DEF PdsRefreshes
<1>4. CASE PdsRefuses(r)
  <2>1. mishaps = {} => \A q \in Request : pc[q] # "storing"
    BY <1>4 DEF PdsRefuses
  <2>2. mishaps = {} => PdsKnows(held[r])
    BY <1>4, <2>1 DEF PdsRefuses, PdsKnows
  <2>. QED BY <1>4, <2>2 DEF PdsRefuses
<1>5. CASE StoreRefreshed(r)
  BY <1>5 DEF StoreRefreshed, Undisturbed
<1>6. CASE PdsUnreachable(r) \/ StoreRefreshedFails(r)
  BY <1>6 DEF PdsUnreachable, StoreRefreshedFails
<1>. QED BY <1>1, <1>2, <1>3, <1>4, <1>5, <1>6 DEF RequestStep

LEMMA NextUnharmed == Typed /\ Undisturbed /\ Unharmed /\ [Next]_vars => Unharmed'
<1>. SUFFICES ASSUME Typed, Undisturbed, Unharmed, [Next]_vars PROVE Unharmed'
  OBVIOUS
<1>. USE AppPasswordAssumption DEF Typed, TypeOK, Stages, Unharmed, Refreshing, Go, Handler,
         Creator, NoteChange, world, tables
<1>1. ASSUME NEW s \in Setter, SetterStep(s) PROVE Unharmed'
  <2>1. \A r \in Request : pc'[r] = pc[r]
    BY <1>1 DEF SetterStep, CheckExisting, DeleteSessions, StorePassword, SetterError
  <2>2. \A h \in Creator : pc'[h] = "storing" => pc[h] = "storing"
    BY <1>1 DEF SetterStep, CheckExisting, DeleteSessions, StorePassword, SetterError
  <2>3. /\ mishaps \subseteq mishaps' /\ session' \in {session, NoSession}
        /\ UNCHANGED <<form, accepted, newest, held, got>>
    BY <1>1 DEF SetterStep, CheckExisting, DeleteSessions, StorePassword, SetterError
  <2>4. session' = session \/ (mishaps = {} => Refreshing = {})
    BY <1>1 DEF SetterStep, CheckExisting, DeleteSessions, StorePassword, SetterError,
       Undisturbed, Changing
  <2>5. Unharmed /\ mishaps' = {} => mishaps = {}
    BY <2>3
  <2>. QED BY <2>1, <2>2, <2>3, <2>4, <2>5, CreatorOf DEF NoSession
<1>2. ASSUME NEW l \in Login, LoginStep(l) PROVE Unharmed'
  <2>1. \A r \in Request : pc'[r] = pc[r]
    BY <1>2 DEF LoginStep, StoreLoginPassword, CleanUp, LeaveBehind, Authorize
  <2>2. \A h \in Creator : pc'[h] = "storing" => pc[h] = "storing"
    BY <1>2 DEF LoginStep, StoreLoginPassword, CleanUp, LeaveBehind, Authorize
  <2>3. /\ mishaps \subseteq mishaps' /\ session' \in {session, NoSession}
        /\ UNCHANGED <<form, accepted, newest, held, got>>
    BY <1>2 DEF LoginStep, StoreLoginPassword, CleanUp, DeletePassword, LeaveBehind, Authorize
  <2>4. session' = session \/ (mishaps = {} => Refreshing = {})
    BY <1>2 DEF LoginStep, StoreLoginPassword, CleanUp, LeaveBehind, Authorize,
       Undisturbed, Changing
  <2>5. Unharmed /\ mishaps' = {} => mishaps = {}
    BY <2>3
  <2>. QED BY <2>1, <2>2, <2>3, <2>4, <2>5, CreatorOf DEF NoSession
<1>3. CASE Age \/ (\E p \in Password : Revoke(p)) \/ UNCHANGED vars
  BY <1>3 DEF Age, Revoke, vars
<1>. QED BY <1>1, <1>2, <1>3, CreateUnharmed, RequestUnharmed DEF Next

(* A session records an error only for a cause: refreshes that follow one   *)
(* another keep it alive.                                                   *)
THEOREM SessionErrorsExplained == Spec => []ErrorsExplained
<1>1. Unharmed => ErrorsExplained
  BY DEF Unharmed, ErrorsExplained
<1>. QED
  BY <1>1, InitTyped, NextTyped, InitUndisturbed, NextUndisturbed, InitUnharmed, NextUnharmed, PTL
  DEF Spec
-----------------------------------------------------------------------------
(* Generations. *)

\* A request that is about to store tokens the PDS just gave it.
Bearing == {r \in Request : pc[r] = "storing" /\ ~held[r].error}

\* No token is newer than the newest one of the PDS.
NoneNewer ==
    /\ session # NoSession => session.generation <= newest[session.creator]
    /\ \A r \in Request :
          /\ r \in Refreshing => held[r].generation <= newest[held[r].creator]
          /\ got[r] # NoSession => got[r].generation <= newest[got[r].creator]

\* What b brings is newer than whatever is stored, answered or held of it.
Leads(b) ==
    /\ held[b].generation = newest[held[b].creator]
    /\ session.creator = held[b].creator => session.generation < held[b].generation
    /\ \A r \in Request :
          /\ r \in Refreshing \ {b} /\ held[r].creator = held[b].creator =>
                held[r].generation < held[b].generation
          /\ got[r].creator = held[b].creator => got[r].generation < held[b].generation

Rotations == NoneNewer /\ (\A b \in Bearing : Leads(b)) /\ TokensNeverGoBack

LEMMA InitRotations == Init => Rotations
BY AppPasswordAssumption
   DEF Init, Rotations, NoneNewer, Leads, TokensNeverGoBack, Bearing, Refreshing, Handler, NoSession

LEMMA CreateRotations ==
    ASSUME Typed, Rotations, NEW h \in Creator, CreateStep(h)
    PROVE  Rotations'
<1>. USE AppPasswordAssumption, CreatorOf DEF Typed, TypeOK, Stages, Stored, Rotations, NoneNewer, Leads, Bearing,
         TokensNeverGoBack, Refreshing, Go, Handler, Creator, world, tables, CreateFailed
<1>1. CASE CreateSession(h)
  BY <1>1 DEF CreateSession
<1>2. CASE CreateRefused(h) \/ CreateUnreachable(h) \/ StoreSessionFails(h)
  BY <1>2 DEF CreateRefused, CreateUnreachable, StoreSessionFails
<1>3. CASE StoreSession(h)
  BY <1>3 DEF StoreSession
<1>. QED BY <1>1, <1>2, <1>3 DEF CreateStep

\* The PDS only rotates to later generations.
LEMMA RotatedLater ==
    ASSUME Typed, NEW r \in Request, pc[r] = "refreshing",
           newest[held[r].creator] = held[r].generation
    PROVE  \A h \in Creator : \A n \in Nat : n <= newest[h] => n <= Rotated(held[r])[h]
<1>1. held[r].generation \in Nat /\ held[r].creator \in Creator
  BY Sessions DEF Typed, Stages
<1>2. newest \in [Creator -> Nat]
  BY AppPasswordAssumption DEF Typed, TypeOK, Generation
<1>3. /\ Rotated(held[r])[held[r].creator] = held[r].generation + 1
      /\ \A h \in Creator \ {held[r].creator} : Rotated(held[r])[h] = newest[h]
  BY RefreshedTyped
<1>. QED BY <1>1, <1>2, <1>3

LEMMA Generations ==
    ASSUME Typed
    PROVE  /\ session # NoSession => session.creator \in Creator /\ session.generation \in Nat
           /\ \A r \in Request :
                 /\ got[r] # NoSession => got[r].creator \in Creator /\ got[r].generation \in Nat
                 /\ r \in Refreshing => held[r].creator \in Creator /\ held[r].generation \in Nat
BY Sessions DEF Typed, TypeOK, Stages, Session, Refreshing

LEMMA RequestRotations ==
    ASSUME Typed, Rotations, NEW r \in Request, RequestStep(r)
    PROVE  Rotations'
<1>. USE AppPasswordAssumption, CreatorOf, Sessions DEF Typed, TypeOK, Stages, Rotations, NoneNewer, Leads, Bearing,
         TokensNeverGoBack, Refreshing, Go, Handler, Creator, world, tables
<1>1. CASE UseSession(r)
  BY <1>1 DEF UseSession, Ready
<1>2. CASE BeginRefresh(r)
  BY <1>2 DEF BeginRefresh, Ready
<1>3. CASE PdsRefreshes(r)
  <2>1. /\ held[r] \in Row /\ newest[held[r].creator] = held[r].generation
        /\ pc[r] = "refreshing" /\ pc' = [pc EXCEPT ![r] = "storing"]
        /\ newest' = Rotated(held[r])
        /\ held' = [held EXCEPT ![r] = Refreshed(held[r])]
        /\ UNCHANGED <<session, got>>
    BY <1>3 DEF PdsRefreshes, PdsKnows
  <2>2. \A b \in Bearing : b # r /\ held[b].creator # held[r].creator
    BY <2>1
  <2>3. /\ newest'[held[r].creator] = held[r].generation + 1
        /\ \A h \in Creator \ {held[r].creator} : newest'[h] = newest[h]
        /\ held'[r] \in Row /\ held'[r].generation = held[r].generation + 1
        /\ held'[r].creator = held[r].creator
        /\ \A q \in Request \ {r} : held'[q] = held[q] /\ pc'[q] = pc[q]
        /\ Refreshing' = Refreshing
    BY <2>1, RefreshedTyped
  <2>4. NoneNewer'
    <3>1. \A h \in Creator : \A n \in Nat : n <= newest[h] => n <= newest'[h]
      BY <2>1, RotatedLater
    <3>2. \A q \in Request : q \in Refreshing => held'[q].generation <= newest'[held'[q].creator]
      BY <2>1, <2>3, <3>1, Generations
    <3>. QED BY <2>1, <2>3, <3>1, <3>2, Generations
  <2>5. ASSUME NEW b \in Bearing' PROVE Leads(b)'
    <3>1. CASE b = r
      BY <2>1, <2>3, <3>1
    <3>2. CASE b # r
      BY <2>1, <2>2, <2>3, <2>5, <3>2
    <3>. QED BY <3>1, <3>2
  <2>6. TokensNeverGoBack'
    BY <2>1
  <2>. QED BY <2>4, <2>5, <2>6
<1>4. CASE PdsRefuses(r)
  BY <1>4, RefreshedTyped DEF PdsRefuses
<1>5. CASE PdsUnreachable(r)
  <2>1. /\ held[r] \in Row
        /\ pc[r] = "refreshing" /\ pc' = [pc EXCEPT ![r] = "storing"]
        /\ held' = [held EXCEPT ![r] = Failed(held[r])]
        /\ UNCHANGED <<session, got>>
    BY <1>5 DEF PdsUnreachable
  <2>2. CASE newest' = newest
    BY <2>1, <2>2, RefreshedTyped
  <2>3. CASE newest' = Rotated(held[r]) /\ newest[held[r].creator] = held[r].generation
    <3>1. \A b \in Bearing : b # r /\ held[b].creator # held[r].creator
      BY <2>1, <2>3
    <3>2. /\ newest'[held[r].creator] = held[r].generation + 1
          /\ \A h \in Creator \ {held[r].creator} : newest'[h] = newest[h]
          /\ held'[r] \in Row /\ held'[r].generation = held[r].generation
          /\ held'[r].creator = held[r].creator /\ held'[r].error
          /\ \A q \in Request \ {r} : held'[q] = held[q] /\ pc'[q] = pc[q]
          /\ Refreshing' = Refreshing
      BY <2>1, <2>3, RefreshedTyped
    <3>3. NoneNewer'
      <4>1. \A h \in Creator : \A n \in Nat : n <= newest[h] => n <= newest'[h]
        BY <2>1, <2>3, RotatedLater
      <4>2. \A q \in Request : q \in Refreshing =>
              held'[q].generation <= newest'[held'[q].creator]
        BY <2>1, <2>3, <3>2, <4>1, Generations
      <4>. QED BY <2>1, <3>2, <4>1, <4>2, Generations
    <3>4. ASSUME NEW b \in Bearing' PROVE Leads(b)'
      BY <2>1, <3>1, <3>2, <3>4
    <3>5. TokensNeverGoBack'
      BY <2>1
    <3>. QED BY <3>3, <3>4, <3>5
  <2>. QED BY <1>5, <2>2, <2>3 DEF PdsUnreachable, PdsKnows
<1>6. CASE StoreRefreshed(r)
  BY <1>6 DEF StoreRefreshed
<1>7. CASE StoreRefreshedFails(r)
  BY <1>7 DEF StoreRefreshedFails
<1>. QED BY <1>1, <1>2, <1>3, <1>4, <1>5, <1>6, <1>7 DEF RequestStep

LEMMA NextRotations == Typed /\ Rotations /\ [Next]_vars => Rotations'
<1>. SUFFICES ASSUME Typed, Rotations, [Next]_vars PROVE Rotations'
  OBVIOUS
<1>. USE AppPasswordAssumption DEF Typed, TypeOK, Stages, Rotations, NoneNewer, Leads, Bearing, TokensNeverGoBack,
         Refreshing, Go, Handler, Creator, NoteChange, world, tables
<1>1. ASSUME NEW s \in Setter, SetterStep(s) PROVE Rotations'
  <2>1. \A r \in Request : pc'[r] = pc[r]
    BY <1>1 DEF SetterStep, CheckExisting, DeleteSessions, StorePassword, SetterError
  <2>2. \A h \in Creator : pc'[h] = "storing" => pc[h] = "storing"
    BY <1>1 DEF SetterStep, CheckExisting, DeleteSessions, StorePassword, SetterError
  <2>3. /\ mishaps \subseteq mishaps' /\ session' \in {session, NoSession}
        /\ UNCHANGED <<form, accepted, newest, held, got>>
    BY <1>1 DEF SetterStep, CheckExisting, DeleteSessions, StorePassword, SetterError
  <2>. QED BY <2>1, <2>3, CreatorOf, Sessions DEF NoSession, Session
<1>2. ASSUME NEW l \in Login, LoginStep(l) PROVE Rotations'
  <2>1. \A r \in Request : pc'[r] = pc[r]
    BY <1>2 DEF LoginStep, StoreLoginPassword, CleanUp, LeaveBehind, Authorize
  <2>2. \A h \in Creator : pc'[h] = "storing" => pc[h] = "storing"
    BY <1>2 DEF LoginStep, StoreLoginPassword, CleanUp, LeaveBehind, Authorize
  <2>3. /\ mishaps \subseteq mishaps' /\ session' \in {session, NoSession}
        /\ UNCHANGED <<form, accepted, newest, held, got>>
    BY <1>2 DEF LoginStep, StoreLoginPassword, CleanUp, DeletePassword, LeaveBehind, Authorize
  <2>. QED BY <2>1, <2>3, CreatorOf, Sessions DEF NoSession, Session
<1>3. CASE Age \/ (\E p \in Password : Revoke(p)) \/ UNCHANGED vars
  BY <1>3 DEF Age, Revoke, vars
<1>. QED BY <1>1, <1>2, <1>3, CreateRotations, RequestRotations DEF Next

(* Once a request was answered with some generation of a session's tokens,  *)
(* that session is never usable with older ones, whatever refreshes overlap *)
(* and whichever of their answers are lost.                                 *)
THEOREM TokensAdvance == Spec => []TokensNeverGoBack
<1>1. Rotations => TokensNeverGoBack
  BY DEF Rotations
<1>. QED BY <1>1, InitTyped, NextTyped, InitRotations, NextRotations, PTL DEF Spec
=============================================================================
