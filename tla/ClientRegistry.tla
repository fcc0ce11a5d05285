--------------------------- MODULE ClientRegistry ---------------------------
(***************************************************************************)
(* One registered client and what refers to it: registration, update and   *)
(* deletion (oauth/clients/registration.rs), pushed authorization requests *)
(* (http/handler_par.rs), logins that end in an authorization code and a   *)
(* token pair (auth_server.rs), and the tables of storage/*/ with their    *)
(* foreign keys.                                                           *)
(*                                                                         *)
(* Client ids are generated, so clients never share a row and one is       *)
(* enough.  Of what a login asks for, the model follows the redirect URI   *)
(* and the response type "code"; a scope, a challenge or a secret that     *)
(* does not pass is one more way to be refused (LoginRefused).             *)
(***************************************************************************)
EXTENDS Naturals, FiniteSets

CONSTANTS
    Updater,   \* requests to update the client, by its owner or an admin
    Deleter,   \* requests to delete it
    Pusher,    \* pushed authorization requests
    Login,     \* authorization requests, up to the tokens they yield
    Device,    \* requests of devices for a device code
    Uri, Keep, \* redirect URIs; the absence of a field in a request
    Covers,    \* the registered URIs that let a redirect URI pass (see Allowed)
    Detail,    \* values of the fields that no login looks at
    Form,      \* bodies of registration and update requests
    Backends,  \* the storage backends the server may be configured with
    Unregistered, Deleted \* why the client has no row

Kind == {"code", "device"}
None == "none"

\* The parts of a registration.  uris goes for the client's name, scope and
\* authentication method too, which an update treats alike; software is
\* application_type, software_id and software_version; metadata is whatever
\* else the body holds, and never absent (serde's flatten).
Field == {"uris", "grants", "responses", "software", "metadata", "jwks"}
Row == [uris : SUBSET Uri, grants : SUBSET Kind, responses : SUBSET Kind,
        software : Detail \cup {None}, metadata : Detail \cup {None},
        jwks : Detail \cup {None}]

NoField == [uris |-> Keep, grants |-> Keep, responses |-> Keep,
            software |-> Keep, metadata |-> None, jwks |-> Keep]

Handler == Updater \cup Deleter \cup Pusher \cup Login \cup Device

ASSUME RegistryAssumption ==
    /\ Backends \subseteq {"memory", "sqlite", "postgres"}
    /\ Form \subseteq [uris : {Keep} \cup SUBSET Uri, grants : {Keep} \cup SUBSET Kind,
                       responses : {Keep} \cup SUBSET Kind, software : {Keep} \cup Detail,
                       metadata : {None} \cup Detail, jwks : {Keep} \cup Detail]
    /\ Covers \in [Uri -> SUBSET Uri] /\ \A uri \in Uri : uri \in Covers[uri]
    /\ Keep # None /\ Keep \notin Detail
    /\ Updater \cap (Deleter \cup Pusher \cup Login \cup Device) = {}
    /\ Deleter \cap (Pusher \cup Login \cup Device) = {}
    /\ Pusher \cap (Login \cup Device) = {}
    /\ Login \cap Device = {}
    /\ None \notin Pusher
    /\ Unregistered # Deleted
    /\ {Unregistered, Deleted} \cap Row = {}

VARIABLES
    backend,    \* the configured storage backend, fixed at startup
    client,     \* the row of oauth_clients, or why there is none
    pushed,     \* par_requests: whether each pushed request is stored
    codes,      \* authorization_codes: the code each login ended in
    tokens,     \* logins whose token pair is stored
    device,     \* does device_codes hold a code of the client?
    pc,         \* where each handler stands
    body,       \* the body of each update request under way
    held,       \* the row each updater is about to store
    request,    \* the redirect URI each push or login asks for
    origin,     \* the pushed request each login was started from, or None
    expected,   \* history: the registration with every stored update applied
    stale,      \* history: the fields written since each updater read the row
    reverted,   \* history: the fields an updater has put back to what it had read
    disturbed   \* history: logins whose callback overlapped an update or deletion

vars == <<backend, client, pushed, codes, tokens, device, pc, body, held, request,
          origin, expected, stale, reverted, disturbed>>

Known == client \notin {Unregistered, Deleted}

TypeOK ==
    /\ backend \in Backends
    /\ Known => client \in Row
    /\ pushed \in [Pusher -> {"none", "live", "expired"}]
    /\ codes \in [Login -> {"none", "live", "used"}]
    /\ tokens \subseteq {l \in Login : backend # "memory" => codes[l] = "used"}
    /\ device \in BOOLEAN
    /\ pc \in [Handler -> {"idle", "storing", "reading", "deleting", "opened", "away", "issuing",
                           "issued", "redeeming", "done", "refused"}]
    /\ body \in [Updater -> Form \cup {NoField}]
    /\ held \in [Updater -> Row \cup {Unregistered}]
    /\ \A u \in Updater : pc[u] = "storing" => held[u] \in Row
    /\ request \in [Pusher \cup Login -> Uri \cup {None}]
    /\ origin \in [Login -> Pusher \cup {None}]
    /\ Known => expected \in Row
    /\ stale \in [Updater -> SUBSET Field] /\ reverted \subseteq Field
    /\ disturbed \subseteq Login

Init ==
    /\ backend \in Backends
    /\ client = Unregistered
    /\ pushed = [p \in Pusher |-> "none"]
    /\ codes = [l \in Login |-> "none"]
    /\ tokens = {} /\ device = FALSE
    /\ pc = [h \in Handler |-> "idle"]
    /\ body = [u \in Updater |-> NoField]
    /\ held = [u \in Updater |-> Unregistered]
    /\ request = [h \in Pusher \cup Login |-> None]
    /\ origin = [l \in Login |-> None]
    /\ expected = Unregistered
    /\ stale = [u \in Updater |-> {}] /\ reverted = {} /\ disturbed = {}

references == <<pushed, codes, tokens, device>>
inputs == <<body, request>>
updates == <<expected, stale, reverted>>
history == <<updates, disturbed>>

Go(h, from, to) == pc[h] = from /\ pc' = [pc EXCEPT ![h] = to]

-----------------------------------------------------------------------------
(* Storage. *)

\* The databases' tables refer to the client; memory has no such check.
MayReference == backend = "memory" \/ Known

(* Mutant: only the client's own row is deleted. *)
MutCascade == UNCHANGED <<pushed, codes, tokens>>

\* ON DELETE CASCADE of requests, codes and tokens in the databases.
Cascade ==
    IF backend = "memory" THEN UNCHANGED <<pushed, codes, tokens>>
    ELSE /\ pushed' = [p \in Pusher |-> "none"]
         /\ codes' = [l \in Login |-> "none"]
         /\ tokens' = {}

-----------------------------------------------------------------------------
(* Registration. *)

Given(value, default) == IF value = Keep THEN default ELSE value

\* validate_registration_request: types are compared if the request has both.
Acceptable(form) ==
    form.grants # Keep /\ form.responses # Keep => form.grants \subseteq form.responses

(* register_client with its defaults; the default grants are those of a web *)
(* or of a native application.                                              *)
Registered(form, default) ==
    LET grants == Given(form.grants, default)
    IN [uris |-> Given(form.uris, {}), grants |-> grants,
        responses |-> Given(form.responses,
                            IF "device" \in grants THEN {"device"} ELSE {"code"}),
        software |-> Given(form.software, None), metadata |-> form.metadata,
        jwks |-> Given(form.jwks, None)]

Register(form) ==
    /\ client = Unregistered
    /\ Acceptable(form)
    /\ \E default \in {{"code"}, {"device"}} : client' = Registered(form, default)
    /\ expected' = client'
    /\ UNCHANGED <<backend, references, pc, inputs, held, origin, stale, reverted, disturbed>>

(* Mutant: an update takes the fields it lacks from the defaults. *)
MutMerged(row, form) == Registered(form, {"code"})

\* update_client: a field the request lacks keeps its value, but the metadata
\* are replaced whatever the request holds, and its jwks are not looked at.
Merged(row, form) ==
    [row EXCEPT !.uris = Given(form.uris, @), !.grants = Given(form.grants, @),
                !.responses = Given(form.responses, @),
                !.software = Given(form.software, @), !.metadata = form.metadata]

\* The columns UPDATE sets: PostgreSQL's binds the software's three values and
\* names no column for them.
Columns == IF backend = "postgres" THEN Field \ {"software"} ELSE Field

\* History: the fields an update is to write.
Written(form) ==
    {"metadata"} \cup {f \in Columns \ {"metadata", "jwks"} : form[f] # Keep}

(* The row is read and changed in the handler's own copy. *)
ReadForUpdate(u, form) ==
    /\ Known /\ Acceptable(form)
    /\ Go(u, "idle", "storing")
    /\ body' = [body EXCEPT ![u] = form]
    /\ held' = [held EXCEPT ![u] = Merged(client, form)]
    /\ UNCHANGED <<backend, client, references, request, origin, history>>

LetGo(u) ==
    /\ body' = [body EXCEPT ![u] = NoField]
    /\ held' = [held EXCEPT ![u] = Unregistered]

(* The row is replaced, and another updater that holds it is behind now. *)
Replace(u, row) ==
    LET written == Written(body[u]) IN
    /\ Go(u, "storing", "reading") /\ LetGo(u)
    /\ client' = row
    /\ expected' = [f \in Field |-> IF f \in written THEN body[u][f] ELSE expected[f]]
    /\ stale' = [v \in Updater |->
                    IF v # u /\ pc[v] = "storing" THEN stale[v] \cup written ELSE {}]
    /\ reverted' = (reverted \cup stale[u]) \ written
    /\ disturbed' = Login
    /\ UNCHANGED <<backend, references, request, origin>>

(* Mutant: the update inserts a row that is gone. *)
MutStoreUpdate(u) == Replace(u, held[u])

(* update_client of the storage, which finds no row to replace once it is gone. *)
StoreUpdate(u) ==
    /\ Known
    /\ Replace(u, [f \in Field |-> IF f \in Columns THEN held[u][f] ELSE client[f]])

(* The row is gone, or storage fails. *)
UpdateRefused(u) ==
    /\ Go(u, "storing", "refused") /\ LetGo(u)
    /\ stale' = [stale EXCEPT ![u] = {}]
    /\ UNCHANGED <<backend, client, references, request, origin, expected, reverted, disturbed>>

(* The row is read again for the answer: it may be gone, or storage may fail, *)
(* and then the request fails although its update was stored.                 *)
AnswerUpdate(u, outcome) ==
    /\ outcome = "done" => Known
    /\ Go(u, "reading", outcome)
    /\ UNCHANGED <<backend, client, references, inputs, held, origin, history>>

ReadForDelete(d) ==
    /\ Known
    /\ Go(d, "idle", "deleting")
    /\ UNCHANGED <<backend, client, references, inputs, held, origin, history>>

\* A device code refers to the client without a cascade.
MayDelete == backend = "memory" \/ (Known /\ ~device)

DeleteClient(d) ==
    /\ MayDelete
    /\ Go(d, "deleting", "done")
    /\ client' = Deleted
    /\ Cascade
    /\ disturbed' = Login
    /\ UNCHANGED <<backend, device, inputs, held, origin, updates>>

(* The row is gone, a device code refers to it, or storage fails. *)
DeleteRefused(d) ==
    /\ Go(d, "deleting", "refused")
    /\ UNCHANGED <<backend, client, references, inputs, held, origin, history>>

-----------------------------------------------------------------------------
(* Pushed requests and logins. *)

\* The checks of handler_par and authorize.  A URI is covered by itself and,
\* unless the client's require_redirect_exact is set, by its prefixes.
Allowed(uri) ==
    Known /\ Covers[uri] \cap client.uris # {} /\ "code" \in client.responses

\* The bridge's own check, which is exact whatever the client requires.
AllowedAway(uri) == Known /\ uri \in client.uris /\ "code" \in client.responses

CheckPush(p, uri) ==
    /\ Allowed(uri)
    /\ Go(p, "idle", "storing")
    /\ request' = [request EXCEPT ![p] = uri]
    /\ UNCHANGED <<backend, client, references, body, held, origin, history>>

StorePush(p) ==
    /\ MayReference
    /\ Go(p, "storing", "done")
    /\ pushed' = [pushed EXCEPT ![p] = "live"]
    /\ UNCHANGED <<backend, client, codes, tokens, device, inputs, held, origin, history>>

(* The foreign key fails, or storage does. *)
StoreFails(h) ==
    /\ Go(h, "storing", "refused")
    /\ UNCHANGED <<backend, client, references, inputs, held, origin, history>>

ExpirePush(p) ==
    /\ pushed[p] = "live"
    /\ pushed' = [pushed EXCEPT ![p] = "expired"]
    /\ UNCHANGED <<backend, client, codes, tokens, device, pc, inputs, held, origin,
                   history>>

(* process_authorization_query without request_uri. *)
BeginPlain(l, uri) ==
    /\ Go(l, "idle", "opened")
    /\ request' = [request EXCEPT ![l] = uri]
    /\ UNCHANGED <<backend, client, references, body, held, origin, history>>

(* With request_uri: the pushed request is read and stays in store. *)
BeginPushed(l, p) ==
    /\ pushed[p] = "live"
    /\ Go(l, "idle", "opened")
    /\ request' = [request EXCEPT ![l] = request[p]]
    /\ origin' = [origin EXCEPT ![l] = p]
    /\ UNCHANGED <<backend, client, references, body, held, history>>

(* authorize_with_atprotocol checks the request before it sends the user away. *)
Validate(l) ==
    /\ Go(l, "opened", IF AllowedAway(request[l]) THEN "away" ELSE "refused")
    /\ UNCHANGED <<backend, client, references, inputs, held, origin, history>>

(* The app-password form brings the whole request and logs in unchecked. *)
SubmitPassword(l, uri) ==
    /\ Go(l, "idle", "away")
    /\ request' = [request EXCEPT ![l] = uri]
    /\ UNCHANGED <<backend, client, references, body, held, origin, history>>

(* Mutant: what was checked when it was pushed is not checked again. *)
MutCheckLogin(l) ==
    /\ Go(l, "away", IF Known /\ (origin[l] # None \/ Allowed(request[l]))
                     THEN "issuing" ELSE "refused")
    /\ disturbed' = disturbed \ {l}
    /\ UNCHANGED <<backend, client, references, inputs, held, origin, updates>>

(* The user is back from the PDS: authorize reads the client and checks. *)
CheckLogin(l) ==
    /\ Go(l, "away", IF Allowed(request[l]) THEN "issuing" ELSE "refused")
    /\ disturbed' = disturbed \ {l}
    /\ UNCHANGED <<backend, client, references, inputs, held, origin, updates>>

StoreCode(l) ==
    /\ MayReference
    /\ Go(l, "issuing", "issued")
    /\ codes' = [codes EXCEPT ![l] = "live"]
    /\ UNCHANGED <<backend, client, pushed, tokens, device, inputs, held, origin, history>>

(* The token endpoint finds the code and then the client. *)
ReadCode(l) ==
    /\ Go(l, "issued", IF codes[l] = "live" /\ Known THEN "redeeming" ELSE "refused")
    /\ UNCHANGED <<backend, client, references, inputs, held, origin, history>>

\* Mutant: tokens are stored for the code that was read, wherever it is now.
MutStoreTokens(l) ==
    /\ Go(l, "redeeming", "done")
    /\ codes' = [codes EXCEPT ![l] = IF @ = "live" THEN "used" ELSE @]
    /\ tokens' = tokens \cup {l}
    /\ UNCHANGED <<backend, client, pushed, device, inputs, held, origin, history>>

(* exchange_code_for_tokens marks the code and stores both tokens. *)
StoreTokens(l) ==
    /\ MayReference
    /\ codes[l] = "live"
    /\ Go(l, "redeeming", "done")
    /\ codes' = [codes EXCEPT ![l] = "used"]
    /\ tokens' = tokens \cup {l}
    /\ UNCHANGED <<backend, client, pushed, device, inputs, held, origin, history>>

(* A foreign key, the code's absence or expiry, storage or the PDS ends it. *)
LoginRefused(l) ==
    /\ pc[l] \in {"opened", "away", "issuing", "issued", "redeeming"}
    /\ pc' = [pc EXCEPT ![l] = "refused"]
    /\ UNCHANGED <<backend, client, references, inputs, held, origin, history>>

-----------------------------------------------------------------------------
(* Device codes. *)

CheckDevice(d) ==
    /\ Known /\ "device" \in client.grants
    /\ Go(d, "idle", "storing")
    /\ UNCHANGED <<backend, client, references, inputs, held, origin, history>>

StoreDeviceCode(d) ==
    /\ MayReference
    /\ Go(d, "storing", "done")
    /\ device' = TRUE
    /\ UNCHANGED <<backend, client, pushed, codes, tokens, inputs, held, origin, history>>

(* An approved code is consumed by a poll; nothing removes the other codes. *)
ConsumeDeviceCode ==
    /\ device
    /\ device' = FALSE
    /\ UNCHANGED <<backend, client, pushed, codes, tokens, pc, inputs, held, origin, history>>

UpdateStep(u) ==
    \/ \E form \in Form : ReadForUpdate(u, form)
    \/ StoreUpdate(u) \/ UpdateRefused(u)
    \/ \E outcome \in {"done", "refused"} : AnswerUpdate(u, outcome)

DeleteStep(d) == ReadForDelete(d) \/ DeleteClient(d) \/ DeleteRefused(d)

PushStep(p) ==
    (\E uri \in Uri : CheckPush(p, uri)) \/ StorePush(p) \/ StoreFails(p) \/ ExpirePush(p)

DeviceStep(d) == CheckDevice(d) \/ StoreDeviceCode(d) \/ StoreFails(d)

LoginStep(l) ==
    \/ \E uri \in Uri : BeginPlain(l, uri) \/ SubmitPassword(l, uri)
    \/ \E p \in Pusher : BeginPushed(l, p)
    \/ Validate(l) \/ CheckLogin(l) \/ StoreCode(l)
    \/ ReadCode(l) \/ StoreTokens(l) \/ LoginRefused(l)

Next ==
    \/ \E form \in Form : Register(form)
    \/ \E u \in Updater : UpdateStep(u)
    \/ \E d \in Deleter : DeleteStep(d)
    \/ \E p \in Pusher : PushStep(p)
    \/ \E l \in Login : LoginStep(l)
    \/ \E d \in Device : DeviceStep(d)
    \/ ConsumeDeviceCode

Spec == Init /\ [][Next]_vars

-----------------------------------------------------------------------------
(* A deleted client leaves nothing behind in the databases: no pushed       *)
(* request, code, token or device code refers to it, also not from requests *)
(* that had read the client before it was deleted.                          *)
DeletedLeavesNothing ==
    backend # "memory" /\ client = Deleted =>
        /\ \A p \in Pusher : pushed[p] = "none"
        /\ \A l \in Login : codes[l] = "none"
        /\ tokens = {} /\ ~device

(* Once a deletion was answered with success the client never comes back,    *)
(* although updates that had read its row may still be under way.            *)
DeletionFinal == (\E d \in Deleter : pc[d] = "done") => client = Deleted

(* Each field of the registration has the value that the last stored update  *)
(* naming it gave it.  Updates that overlap lose only the fields one of them *)
(* wrote while the other held the row and did not name them itself, and only *)
(* until the next update of the field.  What an update names without effect  *)
(* is not among what is kept: jwks, and in PostgreSQL the software fields;   *)
(* the metadata are those of the last update, which may have held none.      *)
UpdatesKept == Known => \A f \in Field \ reverted : client[f] = expected[f]

(* A login is about to receive its code: what it asks for is allowed by the  *)
(* registration of now and not only by the one of when it was pushed, unless *)
(* the registration changed during this last step.                           *)
CodeWithinRegistration ==
    \A l \in Login : pc[l] = "issuing" => Allowed(request[l]) \/ l \in disturbed

(* "Remove a PAR request after use (one-time use)": a pushed request starts  *)
(* at most one login.                                                        *)
PushedUsedOnce == \A p \in Pusher : Cardinality({l \in Login : origin[l] = p}) <= 1
=============================================================================
