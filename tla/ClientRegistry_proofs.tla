------------------------ MODULE ClientRegistry_proofs ------------------------
(***************************************************************************)
(* Theorems about ClientRegistry for any requests and redirect URIs.       *)
(***************************************************************************)
EXTENDS ClientRegistry, TLAPS

-----------------------------------------------------------------------------
(* Forms and rows. *)

LEMMA FormFields ==
    ASSUME NEW form \in Form
    PROVE  /\ form.uris \in {Keep} \cup SUBSET Uri /\ form.grants \in {Keep} \cup SUBSET Kind
           /\ form.responses \in {Keep} \cup SUBSET Kind
           /\ form.software \in {Keep} \cup Detail /\ form.metadata \in {None} \cup Detail
           /\ form.jwks \in {Keep} \cup Detail
BY RegistryAssumption

LEMMA RowFields ==
    ASSUME NEW row \in Row
    PROVE  /\ row.uris \in SUBSET Uri /\ row.grants \in SUBSET Kind
           /\ row.responses \in SUBSET Kind /\ row.software \in Detail \cup {None}
           /\ row.metadata \in Detail \cup {None} /\ row.jwks \in Detail \cup {None}
           /\ row = [f \in Field |-> row[f]]
BY DEF Row, Field

\* A function on Field with the right values is a row.
LEMMA RowByFields ==
    ASSUME NEW r, r = [f \in Field |-> r[f]],
           r["uris"] \in SUBSET Uri, r["grants"] \in SUBSET Kind,
           r["responses"] \in SUBSET Kind, r["software"] \in Detail \cup {None},
           r["metadata"] \in Detail \cup {None}, r["jwks"] \in Detail \cup {None}
    PROVE  r \in Row
BY DEF Row, Field

LEMMA RowsRegistered ==
    ASSUME NEW form \in Form, NEW default \in SUBSET Kind
    PROVE  Registered(form, default) \in Row
<1>. DEFINE grants == Given(form.grants, default)
<1>1. Given(form.uris, {}) \in SUBSET Uri
  BY FormFields DEF Given
<1>2. grants \in SUBSET Kind
  BY FormFields DEF Given
<1>3. Given(form.responses, IF "device" \in grants THEN {"device"} ELSE {"code"}) \in SUBSET Kind
  BY FormFields DEF Given, Kind
<1>4. /\ Given(form.software, None) \in Detail \cup {None}
      /\ Given(form.jwks, None) \in Detail \cup {None}
      /\ form.metadata \in Detail \cup {None}
  BY FormFields DEF Given
<1>. QED BY <1>1, <1>2, <1>3, <1>4 DEF Registered, Row

\* An update changes the fields it writes, to what its form holds, and no other.
LEMMA RowsMerged ==
    ASSUME NEW form \in Form, NEW row \in Row
    PROVE  /\ Merged(row, form) \in Row
           /\ \A f \in Columns : Merged(row, form)[f] =
                 IF f \in Written(form) THEN form[f] ELSE row[f]
<1>. DEFINE merged == Merged(row, form)
<1>1. /\ merged.uris = Given(form.uris, row.uris)
      /\ merged.grants = Given(form.grants, row.grants)
      /\ merged.responses = Given(form.responses, row.responses)
      /\ merged.software = Given(form.software, row.software)
      /\ merged.metadata = form.metadata /\ merged.jwks = row.jwks
      /\ merged = [f \in Field |-> merged[f]]
  BY RowFields DEF Merged, Row, Field
<1>2. /\ Given(form.uris, row.uris) \in SUBSET Uri
      /\ Given(form.grants, row.grants) \in SUBSET Kind
      /\ Given(form.responses, row.responses) \in SUBSET Kind
      /\ Given(form.software, row.software) \in Detail \cup {None}
      /\ form.metadata \in Detail \cup {None} /\ row.jwks \in Detail \cup {None}
  BY FormFields, RowFields DEF Given
<1>3. merged \in Row
  BY <1>1, <1>2, RowByFields
<1>4. \A f \in Columns : merged[f] = IF f \in Written(form) THEN form[f] ELSE row[f]
  BY <1>1 DEF Columns, Written, Given, Field
<1>. QED BY <1>3, <1>4

\* What an update writes are values of the fields.
LEMMA RowsApplied ==
    ASSUME NEW form \in Form \cup {NoField}, NEW row \in Row
    PROVE  [f \in Field |-> IF f \in Written(form) THEN form[f] ELSE row[f]] \in Row
<1>. DEFINE r == [f \in Field |-> IF f \in Written(form) THEN form[f] ELSE row[f]]
<1>1. form.metadata \in Detail \cup {None}
  BY FormFields DEF NoField
<1>2. \A f \in Written(form) \ {"metadata"} : form[f] # Keep /\ f \in Field \ {"metadata", "jwks"}
  BY DEF Written, Columns
<1>3. /\ "uris" \in Written(form) => form.uris \in SUBSET Uri
      /\ "grants" \in Written(form) => form.grants \in SUBSET Kind
      /\ "responses" \in Written(form) => form.responses \in SUBSET Kind
      /\ "software" \in Written(form) => form.software \in Detail
      /\ "jwks" \notin Written(form)
  BY <1>2, FormFields DEF NoField
<1>4. /\ r["uris"] \in SUBSET Uri /\ r["grants"] \in SUBSET Kind
      /\ r["responses"] \in SUBSET Kind /\ r["software"] \in Detail \cup {None}
      /\ r["metadata"] \in Detail \cup {None} /\ r["jwks"] \in Detail \cup {None}
  BY <1>1, <1>3, RowFields DEF Field
<1>5. r = [f \in Field |-> r[f]]
  OBVIOUS
<1>. QED BY <1>4, <1>5, RowByFields

\* The stored row is the updater's but for what the statement does not set.
LEMMA RowsStored ==
    ASSUME NEW old \in Row, NEW new \in Row
    PROVE  [f \in Field |-> IF f \in Columns THEN new[f] ELSE old[f]] \in Row
<1>. DEFINE r == [f \in Field |-> IF f \in Columns THEN new[f] ELSE old[f]]
<1>1. /\ r["uris"] \in SUBSET Uri /\ r["grants"] \in SUBSET Kind
      /\ r["responses"] \in SUBSET Kind /\ r["software"] \in Detail \cup {None}
      /\ r["metadata"] \in Detail \cup {None} /\ r["jwks"] \in Detail \cup {None}
  BY RowFields DEF Field
<1>2. r = [f \in Field |-> r[f]]
  OBVIOUS
<1>. QED BY <1>1, <1>2, RowByFields

-----------------------------------------------------------------------------
(* Types.  That a token's code is used is inductive only because a login    *)
(* whose tokens are stored is over, and stores no code after them.          *)

TokensDone == \A l \in tokens : pc[l] = "done"

Typed == TypeOK /\ TokensDone

LEMMA InitTyped == Init => Typed
<1>. SUFFICES ASSUME Init PROVE TypeOK /\ TokensDone
  BY DEF Typed
<1>1. held \in [Updater -> Row \cup {Unregistered}]
  BY DEF Init
<1>. QED BY <1>1 DEF Init, TypeOK, TokensDone, Known, Handler

LEMMA RegisterTyped ==
    ASSUME Typed, NEW form \in Form, Register(form)
    PROVE  Typed' /\ client' \in Row
<1>1. PICK default \in {{"code"}, {"device"}} : client' = Registered(form, default)
  BY DEF Register
<1>2. client' \in Row
  BY <1>1, RowsRegistered DEF Kind
<1>3. /\ expected' = client'
      /\ UNCHANGED <<backend, references, pc, inputs, held, origin, stale, reverted, disturbed>>
  BY DEF Register
<1>. QED BY <1>2, <1>3 DEF Typed, TypeOK, TokensDone, references, inputs, Known

LEMMA UpdateTyped ==
    ASSUME Typed, NEW u \in Updater, UpdateStep(u)
    PROVE  Typed'
<1>. USE DEF Go, references, inputs, history, updates, Handler
<1>1. ASSUME NEW form \in Form, ReadForUpdate(u, form) PROVE Typed'
  <2>1. Merged(client, form) \in Row
    BY <1>1, RowsMerged DEF ReadForUpdate, Typed, TypeOK
  <2>. QED BY <1>1, <2>1 DEF ReadForUpdate, Typed, TypeOK, TokensDone, Known
<1>2. CASE StoreUpdate(u)
  <2>1. /\ body[u] \in Form \cup {NoField} /\ expected \in Row
        /\ held[u] \in Row /\ client \in Row
    BY <1>2 DEF StoreUpdate, Replace, Typed, TypeOK
  <2>2. client' \in Row /\ expected' \in Row
    BY <1>2, <2>1, RowsStored, RowsApplied DEF StoreUpdate, Replace
  <2>3. Written(body[u]) \subseteq Field
    BY DEF Written, Columns, Field
  <2>4. stale' \in [Updater -> SUBSET Field] /\ reverted' \subseteq Field
    BY <1>2, <2>3 DEF StoreUpdate, Replace, Typed, TypeOK
  <2>5. /\ UNCHANGED <<backend, references, request, origin>>
        /\ disturbed' = Login
        /\ pc' = [pc EXCEPT ![u] = "reading"]
        /\ body' = [body EXCEPT ![u] = NoField]
        /\ held' = [held EXCEPT ![u] = Unregistered]
    BY <1>2 DEF StoreUpdate, Replace, LetGo
  <2>6. /\ pc' \in [Handler -> {"idle", "storing", "reading", "deleting", "opened", "away",
                              "issuing", "issued", "redeeming", "done", "refused"}]
        /\ body' \in [Updater -> Form \cup {NoField}]
        /\ held' \in [Updater -> Row \cup {Unregistered}]
    BY <2>5 DEF Typed, TypeOK
  <2>7. \A v \in Updater : pc'[v] = "storing" => held'[v] \in Row
    BY <2>5 DEF Typed, TypeOK
  <2>8. UNCHANGED <<pushed, codes, tokens, device>> /\ \A l \in tokens : pc[l] = "done"
    BY <2>5 DEF Typed, TokensDone
  <2>9. TokensDone'
    <3>1. ASSUME NEW l \in tokens PROVE l # u /\ l \in Handler
      BY <1>2, <2>8 DEF StoreUpdate, Replace, Typed, TypeOK
    <3>. QED BY <2>5, <2>8, <3>1 DEF Typed, TypeOK, TokensDone
  <2>10. TypeOK'
    BY <2>2, <2>4, <2>5, <2>6, <2>7, <2>8 DEF Typed, TypeOK, Known
  <2>. QED BY <2>9, <2>10 DEF Typed
<1>3. CASE UpdateRefused(u)
  BY <1>3 DEF UpdateRefused, LetGo, Typed, TypeOK, TokensDone, Known
<1>4. ASSUME NEW outcome \in {"done", "refused"}, AnswerUpdate(u, outcome) PROVE Typed'
  BY <1>4 DEF AnswerUpdate, Typed, TypeOK, TokensDone, Known
<1>. QED BY <1>1, <1>2, <1>3, <1>4 DEF UpdateStep

LEMMA DeleteTyped ==
    ASSUME Typed, NEW d \in Deleter, DeleteStep(d)
    PROVE  Typed'
<1>. USE RegistryAssumption DEF Go, references, inputs, history, updates, Handler, Typed, TypeOK, TokensDone, Known
<1>1. CASE ReadForDelete(d)
  BY <1>1 DEF ReadForDelete
<1>2. CASE DeleteClient(d)
  BY <1>2 DEF DeleteClient, Cascade
<1>3. CASE DeleteRefused(d)
  BY <1>3 DEF DeleteRefused
<1>. QED BY <1>1, <1>2, <1>3 DEF DeleteStep

LEMMA PushTyped ==
    ASSUME Typed, NEW p \in Pusher, PushStep(p)
    PROVE  Typed'
<1>. USE RegistryAssumption DEF Go, references, inputs, history, updates, Handler, Typed, TypeOK, TokensDone, Known
<1>1. ASSUME NEW uri \in Uri, CheckPush(p, uri) PROVE Typed'
  BY <1>1 DEF CheckPush
<1>2. CASE StorePush(p)
  BY <1>2 DEF StorePush
<1>3. CASE StoreFails(p)
  BY <1>3 DEF StoreFails
<1>4. CASE ExpirePush(p)
  BY <1>4 DEF ExpirePush
<1>. QED BY <1>1, <1>2, <1>3, <1>4 DEF PushStep

LEMMA LoginTyped ==
    ASSUME Typed, NEW l \in Login, LoginStep(l)
    PROVE  Typed'
<1>. USE RegistryAssumption DEF Go, references, inputs, history, updates, Handler, Typed, TypeOK, TokensDone, Known
<1>1. ASSUME NEW uri \in Uri, BeginPlain(l, uri) \/ SubmitPassword(l, uri) PROVE Typed'
  BY <1>1 DEF BeginPlain, SubmitPassword
<1>2. ASSUME NEW p \in Pusher, BeginPushed(l, p) PROVE Typed'
  BY <1>2 DEF BeginPushed
<1>3. CASE Validate(l) \/ CheckLogin(l)
  BY <1>3 DEF Validate, CheckLogin
<1>4. CASE StoreCode(l)
  BY <1>4 DEF StoreCode
<1>5. CASE ReadCode(l)
  BY <1>5 DEF ReadCode
<1>6. CASE StoreTokens(l)
  BY <1>6 DEF StoreTokens
<1>7. CASE LoginRefused(l)
  BY <1>7 DEF LoginRefused
<1>. QED BY <1>1, <1>2, <1>3, <1>4, <1>5, <1>6, <1>7 DEF LoginStep

LEMMA DeviceTyped ==
    ASSUME Typed, NEW d \in Device, DeviceStep(d)
    PROVE  Typed'
<1>. USE RegistryAssumption DEF Go, references, inputs, history, updates, Handler, Typed, TypeOK, TokensDone, Known
<1>1. CASE CheckDevice(d)
  BY <1>1 DEF CheckDevice
<1>2. CASE StoreDeviceCode(d)
  BY <1>2 DEF StoreDeviceCode
<1>3. CASE StoreFails(d)
  BY <1>3 DEF StoreFails
<1>. QED BY <1>1, <1>2, <1>3 DEF DeviceStep

LEMMA NextTyped == Typed /\ [Next]_vars => Typed'
<1>. SUFFICES ASSUME Typed, [Next]_vars PROVE Typed'
  OBVIOUS
<1>1. CASE ConsumeDeviceCode
  BY <1>1 DEF ConsumeDeviceCode, Typed, TypeOK, TokensDone, inputs, history, updates, Known
<1>2. CASE UNCHANGED vars
  BY <1>2 DEF vars, Typed, TypeOK, TokensDone, Known
<1>. QED
  BY <1>1, <1>2, RegisterTyped, UpdateTyped, DeleteTyped, PushTyped, LoginTyped, DeviceTyped
  DEF Next

(* Whatever requests overlap, the tables hold rows of their types; in the   *)
(* databases a token's code is used.                                        *)
THEOREM TypeCorrect == Spec => []TypeOK
<1>1. Typed => TypeOK
  BY DEF Typed
<1>. QED BY <1>1, InitTyped, NextTyped, PTL DEF Spec

-----------------------------------------------------------------------------
(* Deletion.  No step brings a deleted client back: only a registration     *)
(* makes a row, and an update finds none to replace.                        *)

LEMMA RowKnown == \A row \in Row : row \notin {Unregistered, Deleted}
BY RegistryAssumption DEF Row

\* The steps that write the client's row.
LEMMA ClientSteps ==
    ASSUME Typed, [Next]_vars
    PROVE  \/ UNCHANGED client
           \/ client = Unregistered /\ client' \in Row
           \/ \E u \in Updater : Known /\ StoreUpdate(u) /\ client' \in Row
           \/ \E d \in Deleter : DeleteClient(d) /\ client' = Deleted
<1>1. ASSUME NEW form \in Form, Register(form) PROVE client = Unregistered /\ client' \in Row
  BY <1>1, RegisterTyped DEF Register
<1>2. ASSUME NEW u \in Updater, StoreUpdate(u) PROVE Known /\ client' \in Row
  BY <1>2, RowsStored DEF StoreUpdate, Replace, Go, Typed, TypeOK
<1>3. ASSUME NEW u \in Updater, UpdateStep(u), ~StoreUpdate(u) PROVE UNCHANGED client
  BY <1>3 DEF UpdateStep, ReadForUpdate, UpdateRefused, AnswerUpdate
<1>4. ASSUME NEW d \in Deleter, DeleteStep(d), ~DeleteClient(d) PROVE UNCHANGED client
  BY <1>4 DEF DeleteStep, ReadForDelete, DeleteRefused
<1>5. ASSUME NEW d \in Deleter, DeleteClient(d) PROVE client' = Deleted
  BY <1>5 DEF DeleteClient
<1>6. ASSUME NEW p \in Pusher, PushStep(p) PROVE UNCHANGED client
  BY <1>6 DEF PushStep, CheckPush, StorePush, StoreFails, ExpirePush
<1>7. ASSUME NEW l \in Login, LoginStep(l) PROVE UNCHANGED client
  BY <1>7 DEF LoginStep, BeginPlain, SubmitPassword, BeginPushed, Validate, CheckLogin,
     StoreCode, ReadCode, StoreTokens, LoginRefused
<1>8. ASSUME NEW d \in Device, DeviceStep(d) PROVE UNCHANGED client
  BY <1>8 DEF DeviceStep, CheckDevice, StoreDeviceCode, StoreFails
<1>9. CASE ConsumeDeviceCode \/ UNCHANGED vars
  BY <1>9 DEF ConsumeDeviceCode, vars
<1>. QED BY <1>1, <1>2, <1>3, <1>4, <1>5, <1>6, <1>7, <1>8, <1>9 DEF Next

\* What the tables hold of other requests grows only where it may.
LEMMA ReferenceSteps ==
    ASSUME Typed, [Next]_vars
    PROVE  /\ UNCHANGED backend
           /\ \/ UNCHANGED references
              \/ MayReference /\ UNCHANGED client
              \/ \E d \in Deleter : DeleteClient(d)
              \/ /\ \E p \in Pusher : pushed[p] = "live"
                 /\ UNCHANGED client
              \/ device /\ device' = FALSE /\ UNCHANGED <<client, pushed, codes, tokens>>
<1>. USE DEF references, inputs, history, updates
<1>1. ASSUME NEW form \in Form, Register(form) PROVE UNCHANGED <<backend, references>>
  BY <1>1 DEF Register
<1>2. ASSUME NEW u \in Updater, UpdateStep(u) PROVE UNCHANGED <<backend, references>>
  BY <1>2 DEF UpdateStep, ReadForUpdate, StoreUpdate, Replace, UpdateRefused, AnswerUpdate
<1>3. ASSUME NEW d \in Deleter, DeleteStep(d)
      PROVE  UNCHANGED backend /\ (DeleteClient(d) \/ UNCHANGED references)
  BY <1>3 DEF DeleteStep, ReadForDelete, DeleteRefused, DeleteClient
<1>4. ASSUME NEW p \in Pusher, PushStep(p)
      PROVE  /\ UNCHANGED <<backend, client>>
             /\ UNCHANGED references \/ MayReference \/ pushed[p] = "live"
  BY <1>4 DEF PushStep, CheckPush, StorePush, StoreFails, ExpirePush
<1>5. ASSUME NEW l \in Login, LoginStep(l)
      PROVE  UNCHANGED <<backend, client>> /\ (UNCHANGED references \/ MayReference)
  BY <1>5 DEF LoginStep, BeginPlain, SubmitPassword, BeginPushed, Validate, CheckLogin,
     StoreCode, ReadCode, StoreTokens, LoginRefused
<1>6. ASSUME NEW d \in Device, DeviceStep(d)
      PROVE  UNCHANGED <<backend, client>> /\ (UNCHANGED references \/ MayReference)
  BY <1>6 DEF DeviceStep, CheckDevice, StoreDeviceCode, StoreFails
<1>7. CASE ConsumeDeviceCode \/ UNCHANGED vars
  BY <1>7 DEF ConsumeDeviceCode, vars
<1>. QED BY <1>1, <1>2, <1>3, <1>4, <1>5, <1>6, <1>7 DEF Next

LEMMA NextDeletedLeavesNothing ==
    ASSUME Typed, DeletedLeavesNothing, [Next]_vars
    PROVE  DeletedLeavesNothing'
<1>. SUFFICES ASSUME backend' # "memory", client' = Deleted
              PROVE  /\ \A p \in Pusher : pushed'[p] = "none"
                     /\ \A l \in Login : codes'[l] = "none"
                     /\ tokens' = {} /\ ~device'
  BY DEF DeletedLeavesNothing
<1>1. backend # "memory"
  BY ReferenceSteps
<1>2. ASSUME NEW d \in Deleter, DeleteClient(d)
      PROVE  /\ \A p \in Pusher : pushed'[p] = "none"
             /\ \A l \in Login : codes'[l] = "none"
             /\ tokens' = {} /\ ~device'
  BY <1>1, <1>2 DEF DeleteClient, MayDelete, Cascade
<1>3. ASSUME \A d \in Deleter : ~DeleteClient(d) PROVE client = Deleted
  BY <1>3, ClientSteps, RowKnown
<1>4. ASSUME \A d \in Deleter : ~DeleteClient(d)
      PROVE  UNCHANGED references \/ (device' = FALSE /\ UNCHANGED <<pushed, codes, tokens>>)
  <2>1. client = Deleted /\ ~MayReference
    BY <1>1, <1>3, <1>4 DEF MayReference, Known
  <2>2. \A p \in Pusher : pushed[p] # "live"
    BY <1>1, <2>1 DEF DeletedLeavesNothing
  <2>. QED BY <1>4, <2>1, <2>2, ReferenceSteps
<1>5. CASE \E d \in Deleter : DeleteClient(d)
  BY <1>2, <1>5
<1>6. CASE \A d \in Deleter : ~DeleteClient(d)
  <2>1. /\ \A p \in Pusher : pushed[p] = "none"
        /\ \A l \in Login : codes[l] = "none"
        /\ tokens = {} /\ ~device
    BY <1>1, <1>3, <1>6 DEF DeletedLeavesNothing
  <2>2. UNCHANGED <<pushed, codes, tokens>> /\ (UNCHANGED device \/ device' = FALSE)
    BY <1>4, <1>6 DEF references
  <2>. QED BY <2>1, <2>2
<1>. QED BY <1>5, <1>6

(* On the databases a deleted client leaves nothing that refers to it,      *)
(* whichever requests had read the client before it was deleted.            *)
THEOREM DeletionsLeaveNothing == Spec => []DeletedLeavesNothing
<1>1. Init => DeletedLeavesNothing
  BY RegistryAssumption DEF Init, DeletedLeavesNothing
<1>2. Typed /\ DeletedLeavesNothing /\ [Next]_vars => DeletedLeavesNothing'
  BY NextDeletedLeavesNothing
<1>. QED BY <1>1, <1>2, InitTyped, NextTyped, PTL DEF Spec

\* Only a deletion that removes the row is answered with success.
LEMMA DeleterSteps ==
    ASSUME Typed, [Next]_vars, NEW d \in Deleter, pc'[d] = "done"
    PROVE  pc[d] = "done" \/ DeleteClient(d)
<1>. USE RegistryAssumption DEF Typed, TypeOK, Go, Handler
<1>1. ASSUME NEW u \in Updater, UpdateStep(u) PROVE pc'[d] = pc[d]
  BY <1>1 DEF UpdateStep, ReadForUpdate, StoreUpdate, Replace, UpdateRefused, AnswerUpdate
<1>2. ASSUME NEW e \in Deleter, DeleteStep(e) PROVE pc[d] = "done" \/ DeleteClient(d)
  BY <1>2 DEF DeleteStep, ReadForDelete, DeleteClient, DeleteRefused
<1>3. ASSUME NEW p \in Pusher, PushStep(p) PROVE pc'[d] = pc[d]
  BY <1>3 DEF PushStep, CheckPush, StorePush, StoreFails, ExpirePush
<1>4. ASSUME NEW l \in Login, LoginStep(l) PROVE pc'[d] = pc[d]
  BY <1>4 DEF LoginStep, BeginPlain, SubmitPassword, BeginPushed, Validate, CheckLogin,
     StoreCode, ReadCode, StoreTokens, LoginRefused
<1>5. ASSUME NEW e \in Device, DeviceStep(e) PROVE pc'[d] = pc[d]
  BY <1>5 DEF DeviceStep, CheckDevice, StoreDeviceCode, StoreFails
<1>6. CASE UNCHANGED pc
  BY <1>6
<1>. QED
  BY <1>1, <1>2, <1>3, <1>4, <1>5, <1>6 DEF Next, Register, ConsumeDeviceCode, vars

(* A deletion that was answered with success is final on every backend,     *)
(* also for updates that read the row before it.                            *)
THEOREM DeletionsFinal == Spec => []DeletionFinal
<1>1. Init => DeletionFinal
  BY DEF Init, DeletionFinal, Handler
<1>2. Typed /\ DeletionFinal /\ [Next]_vars => DeletionFinal'
  <2>. SUFFICES ASSUME Typed, DeletionFinal, [Next]_vars, NEW d \in Deleter, pc'[d] = "done"
                PROVE  client' = Deleted
    BY DEF DeletionFinal
  <2>1. CASE DeleteClient(d)
    BY <2>1 DEF DeleteClient
  <2>2. CASE pc[d] = "done"
    BY <2>2, ClientSteps, RegistryAssumption DEF DeletionFinal, Known
  <2>. QED BY <2>1, <2>2, DeleterSteps
<1>. QED BY <1>1, <1>2, InitTyped, NextTyped, PTL DEF Spec

-----------------------------------------------------------------------------
(* Updates.  What an updater is about to store of a field is its own value, *)
(* or the value of now unless the field was written since it read the row.  *)

Waiting(u) == pc[u] = "storing"

Undisturbed ==
    /\ client = Unregistered => \A u \in Updater : ~Waiting(u)
    /\ Known => \A f \in Field \ reverted : client[f] = expected[f]
    /\ \A u \in Updater : ~Waiting(u) => stale[u] = {}
    /\ Known => \A u \in Updater : Waiting(u) =>
          \A f \in Columns :
              /\ f \in Written(body[u]) => held[u][f] = body[u][f]
              /\ f \notin Written(body[u]) \cup stale[u] \cup reverted
                    => held[u][f] = expected[f]

\* The other handlers leave the updates under way alone.
LEMMA UpdaterSteps ==
    ASSUME Typed, [Next]_vars
    PROVE  /\ UNCHANGED backend
           /\ \/ \E form \in Form : Register(form)
              \/ \E u \in Updater : UpdateStep(u)
              \/ /\ UNCHANGED client \/ client' = Deleted
                 /\ UNCHANGED <<updates, held, body>>
                 /\ \A u \in Updater : pc'[u] = pc[u]
<1>. DEFINE Apart == /\ UNCHANGED client \/ client' = Deleted
                    /\ UNCHANGED <<updates, held, body>>
                    /\ \A u \in Updater : pc'[u] = pc[u]
<1>. USE RegistryAssumption DEF Typed, TypeOK, Go, Handler, inputs, history
<1>1. ASSUME NEW d \in Deleter, DeleteStep(d) PROVE Apart
  BY <1>1 DEF DeleteStep, ReadForDelete, DeleteClient, DeleteRefused
<1>2. ASSUME NEW p \in Pusher, PushStep(p) PROVE Apart
  BY <1>2 DEF PushStep, CheckPush, StorePush, StoreFails, ExpirePush
<1>3. ASSUME NEW l \in Login, LoginStep(l) PROVE Apart
  BY <1>3 DEF LoginStep, BeginPlain, SubmitPassword, BeginPushed, Validate, CheckLogin,
     StoreCode, ReadCode, StoreTokens, LoginRefused
<1>4. ASSUME NEW d \in Device, DeviceStep(d) PROVE Apart
  BY <1>4 DEF DeviceStep, CheckDevice, StoreDeviceCode, StoreFails
<1>5. CASE ConsumeDeviceCode \/ UNCHANGED vars
  BY <1>5 DEF ConsumeDeviceCode, vars, updates
<1>6. UNCHANGED backend
  BY ReferenceSteps
<1>. QED BY <1>1, <1>2, <1>3, <1>4, <1>5, <1>6 DEF Next

LEMMA NextUndisturbed ==
    ASSUME Typed, Undisturbed, [Next]_vars
    PROVE  Undisturbed'
<1>. USE RegistryAssumption DEF Go, Handler
<1>0. UNCHANGED backend /\ Columns' = Columns /\ Columns \subseteq Field
      /\ \A form : Written(form)' = Written(form) /\ Written(form) \subseteq Columns
  BY UpdaterSteps DEF Columns, Written, Field
<1>1. ASSUME NEW form \in Form, Register(form) PROVE Undisturbed'
  <2>1. \A u \in Updater : ~Waiting(u)' /\ stale'[u] = {}
    BY <1>1 DEF Register, Undisturbed, Waiting
  <2>2. client' = expected' /\ client' # Unregistered
    BY <1>1, RegisterTyped, RowKnown DEF Register
  <2>. QED BY <2>1, <2>2 DEF Undisturbed
<1>2. ASSUME NEW u \in Updater, NEW form \in Form, ReadForUpdate(u, form) PROVE Undisturbed'
  <2>1. Known /\ UNCHANGED <<client, expected, stale, reverted>>
        /\ pc[u] = "idle" /\ client \in Row /\ client # Unregistered
    BY <1>2 DEF ReadForUpdate, history, updates, Known, Typed, TypeOK
  <2>2. body'[u] = form /\ held'[u] = Merged(client, form) /\ Waiting(u)'
    BY <1>2 DEF ReadForUpdate, Typed, TypeOK, Waiting
  <2>3. ~Waiting(u)
    BY <2>1 DEF Waiting
  <2>4. \A v \in Updater \ {u} : pc'[v] = pc[v] /\ held'[v] = held[v] /\ body'[v] = body[v]
    BY <1>2 DEF ReadForUpdate, Typed, TypeOK
  <2>5. \A f \in Columns :
           /\ f \in Written(form) => held'[u][f] = form[f]
           /\ f \notin Written(form) \cup reverted => held'[u][f] = expected[f]
    BY <2>1, <2>2, <1>0, RowsMerged DEF Undisturbed
  <2>6. \A v \in Updater : ~Waiting(v)' => stale'[v] = {}
    BY <2>1, <2>2, <2>4 DEF Undisturbed, Waiting
  <2>7. \A v \in Updater : Waiting(v)' => \A f \in Columns :
              /\ f \in Written(body'[v]) => held'[v][f] = body'[v][f]
              /\ f \notin Written(body'[v]) \cup stale'[v] \cup reverted'
                    => held'[v][f] = expected'[f]
    BY <2>1, <2>2, <2>4, <2>5 DEF Undisturbed, Waiting
  <2>. QED BY <1>0, <2>1, <2>6, <2>7 DEF Undisturbed, Known
<1>3. ASSUME NEW u \in Updater, StoreUpdate(u) PROVE Undisturbed'
  <2>. DEFINE written == Written(body[u])
  <2>1. /\ Known /\ Waiting(u) /\ ~Waiting(u)'
        /\ \A v \in Updater \ {u} : pc'[v] = pc[v] /\ held'[v] = held[v] /\ body'[v] = body[v]
    BY <1>3 DEF StoreUpdate, Replace, LetGo, Typed, TypeOK, Waiting
  <2>2. /\ \A f \in Field : client'[f] = IF f \in Columns THEN held[u][f] ELSE client[f]
        /\ \A f \in Field : expected'[f] = IF f \in written THEN body[u][f] ELSE expected[f]
        /\ \A v \in Updater : stale'[v] =
              IF v # u /\ Waiting(v) THEN stale[v] \cup written ELSE {}
        /\ reverted' = (reverted \cup stale[u]) \ written
    BY <1>3 DEF StoreUpdate, Replace, Waiting
  <2>3. client' \in Row /\ client' # Unregistered
    BY <1>3, RowKnown, RowsStored DEF StoreUpdate, Replace, Typed, TypeOK
  <2>4. \A f \in Field \ reverted' : client'[f] = expected'[f]
    BY <1>0, <2>1, <2>2 DEF Undisturbed
  <2>5. \A v \in Updater : ~Waiting(v)' => stale'[v] = {}
    BY <2>1, <2>2 DEF Waiting
  <2>6. ASSUME NEW v \in Updater, Waiting(v)', NEW f \in Columns
        PROVE  /\ f \in Written(body'[v]) => held'[v][f] = body'[v][f]
               /\ f \notin Written(body'[v]) \cup stale'[v] \cup reverted'
                     => held'[v][f] = expected'[f]
    <3>1. v # u /\ Waiting(v) /\ held'[v] = held[v] /\ body'[v] = body[v]
      BY <2>1, <2>6 DEF Waiting
    <3>2. stale'[v] = stale[v] \cup written
      BY <2>2, <3>1
    <3>3. f \notin stale'[v] \cup reverted' => f \notin reverted /\ expected'[f] = expected[f]
      BY <1>0, <2>2, <3>2
    <3>. QED BY <2>1, <3>1, <3>2, <3>3 DEF Undisturbed
  <2>. QED BY <1>0, <2>3, <2>4, <2>5, <2>6 DEF Undisturbed
<1>4. ASSUME NEW u \in Updater, UpdateRefused(u) PROVE Undisturbed'
  <2>1. /\ ~Waiting(u)' /\ stale'[u] = {}
        /\ \A v \in Updater \ {u} :
              pc'[v] = pc[v] /\ held'[v] = held[v] /\ body'[v] = body[v] /\ stale'[v] = stale[v]
        /\ UNCHANGED <<client, expected, reverted>>
    BY <1>4 DEF UpdateRefused, LetGo, Typed, TypeOK, Waiting
  <2>. QED BY <1>0, <2>1 DEF Undisturbed, Known, Waiting
<1>5. ASSUME NEW u \in Updater, NEW outcome \in {"done", "refused"}, AnswerUpdate(u, outcome)
      PROVE  Undisturbed'
  <2>1. /\ ~Waiting(u) /\ ~Waiting(u)'
        /\ \A v \in Updater \ {u} : pc'[v] = pc[v]
        /\ UNCHANGED <<client, updates, held, body>>
    BY <1>5 DEF AnswerUpdate, Typed, TypeOK, history, inputs, Waiting
  <2>. QED BY <1>0, <2>1 DEF Undisturbed, Known, Waiting, updates
<1>6. CASE /\ UNCHANGED client \/ client' = Deleted
           /\ UNCHANGED <<updates, held, body>>
           /\ \A u \in Updater : pc'[u] = pc[u]
  BY <1>0, <1>6 DEF Undisturbed, Known, Waiting, updates
<1>. QED BY <1>1, <1>2, <1>3, <1>4, <1>5, <1>6, UpdaterSteps DEF UpdateStep

(* Each field has the value that the last stored update naming it gave it,  *)
(* unless an update that had read the row before put it back, for any       *)
(* number of updates in any order and on every backend.                     *)
THEOREM UpdatesAreKept == Spec => []UpdatesKept
<1>1. Init => Undisturbed
  BY DEF Init, Undisturbed, Known, Handler, Waiting
<1>2. Typed /\ Undisturbed /\ [Next]_vars => Undisturbed'
  BY NextUndisturbed
<1>3. Undisturbed => UpdatesKept
  BY DEF Undisturbed, UpdatesKept
<1>. QED BY <1>1, <1>2, <1>3, InitTyped, NextTyped, PTL DEF Spec

-----------------------------------------------------------------------------
(* Logins.  A login that is about to receive its code was checked against   *)
(* the registration, and whatever writes the row from then on marks it.     *)

LEMMA IssuingSteps ==
    ASSUME Typed, [Next]_vars, NEW l \in Login, pc'[l] = "issuing"
    PROVE  \/ Allowed(request'[l]) /\ UNCHANGED client
           \/ client = Unregistered /\ UNCHANGED <<pc, request, disturbed>>
           \/ /\ pc[l] = "issuing" /\ request'[l] = request[l]
              /\ \/ disturbed' = Login
                 \/ UNCHANGED client /\ (l \in disturbed => l \in disturbed')
<1>. DEFINE Same == /\ pc[l] = "issuing" /\ request'[l] = request[l]
                   /\ \/ disturbed' = Login
                      \/ UNCHANGED client /\ (l \in disturbed => l \in disturbed')
<1>. USE RegistryAssumption DEF Typed, TypeOK, Go, Handler, inputs, history, updates
<1>1. ASSUME NEW form \in Form, Register(form)
      PROVE  client = Unregistered /\ UNCHANGED <<pc, request, disturbed>>
  BY <1>1 DEF Register
<1>2. ASSUME NEW u \in Updater, UpdateStep(u) PROVE Same
  BY <1>2 DEF UpdateStep, ReadForUpdate, StoreUpdate, Replace, UpdateRefused, AnswerUpdate
<1>3. ASSUME NEW d \in Deleter, DeleteStep(d) PROVE Same
  BY <1>3 DEF DeleteStep, ReadForDelete, DeleteClient, DeleteRefused
<1>4. ASSUME NEW p \in Pusher, PushStep(p) PROVE Same
  BY <1>4 DEF PushStep, CheckPush, StorePush, StoreFails, ExpirePush
<1>5. ASSUME NEW k \in Login, LoginStep(k) PROVE Same \/ (Allowed(request'[l]) /\ UNCHANGED client)
  <2>1. CASE k = l /\ CheckLogin(l)
    BY <2>1 DEF CheckLogin
  <2>2. CASE k # l /\ CheckLogin(k)
    BY <2>2 DEF CheckLogin
  <2>3. CASE ~CheckLogin(k)
    BY <1>5, <2>3 DEF LoginStep, BeginPlain, SubmitPassword, BeginPushed, Validate,
       StoreCode, ReadCode, StoreTokens, LoginRefused
  <2>. QED BY <2>1, <2>2, <2>3
<1>6. ASSUME NEW d \in Device, DeviceStep(d) PROVE Same
  BY <1>6 DEF DeviceStep, CheckDevice, StoreDeviceCode, StoreFails
<1>7. CASE ConsumeDeviceCode \/ UNCHANGED vars
  BY <1>7 DEF ConsumeDeviceCode, vars
<1>. QED BY <1>1, <1>2, <1>3, <1>4, <1>5, <1>6, <1>7 DEF Next

(* What a login asks for is allowed by the registration of now when its     *)
(* code is issued, unless the registration changed during this last step.   *)
THEOREM CodesWithinRegistration == Spec => []CodeWithinRegistration
<1>1. Init => CodeWithinRegistration
  BY DEF Init, CodeWithinRegistration, Handler
<1>2. Typed /\ CodeWithinRegistration /\ [Next]_vars => CodeWithinRegistration'
  <2>. SUFFICES ASSUME Typed, CodeWithinRegistration, [Next]_vars,
                       NEW l \in Login, pc'[l] = "issuing"
                PROVE  Allowed(request[l])' \/ l \in disturbed'
    BY DEF CodeWithinRegistration
  <2>1. CASE Allowed(request'[l]) /\ UNCHANGED client
    BY <2>1 DEF Allowed, Known
  <2>2. CASE client = Unregistered /\ UNCHANGED <<pc, request, disturbed>>
    BY <2>2 DEF CodeWithinRegistration, Allowed, Known
  <2>3. CASE pc[l] = "issuing" /\ request'[l] = request[l] /\ disturbed' = Login
    BY <2>3
  <2>4. CASE /\ pc[l] = "issuing" /\ request'[l] = request[l]
             /\ UNCHANGED client /\ (l \in disturbed => l \in disturbed')
    BY <2>4 DEF CodeWithinRegistration, Allowed, Known
  <2>. QED BY <2>1, <2>2, <2>3, <2>4, IssuingSteps
<1>. QED BY <1>1, <1>2, InitTyped, NextTyped, PTL DEF Spec
=============================================================================
