# AIP: a TLA+ model of the ATProtocol identity provider

AIP (`src/`) is an OAuth 2.1 authorization server whose users log in at their
own ATProtocol PDS.  To its clients it is the server that hands out codes and
tokens; to the PDS it is itself a client that keeps a session for each user.
This directory models the parts whose correctness depends on the order of
steps: the grants of the token endpoint, the device flow, the sessions and app
passwords kept with the PDS, the registration of clients with the requests that
refer to it, the nonces of DPoP proofs, and the three storage backends the
program can run on, method by method.

## The system's parts

| part | state it keeps | operations | what makes it correct |
|---|---|---|---|
| token endpoint (`oauth/auth_server.rs`) | none of its own; rows of codes, access and refresh tokens | exchange a code, rotate a refresh token, client credentials | a credential buys one token response; a failed request costs nothing; the DPoP binding survives |
| storage (`storage/{inmemory,sqlite,postgres}`) | tables of codes, tokens, device codes, sessions, requests, clients | single-row reads and writes; `exchange_code_for_tokens`, `refresh_tokens` | the two transactions are all-or-nothing and happen once; a caller sees the same on each backend |
| device grant (`handler_device_*.rs`, `auth_server.rs`, `handler_oauth.rs`) | device codes | issue, approve, poll, consume, store, link to a session | one poll is served, with the tokens of the last approver, and some poll is |
| ATProtocol bridge (`atprotocol_bridge.rs`) | sessions (rows by session id and iteration), authorization requests, PKCE verifiers, DID documents | start a login, handle the PDS's redirect | one client code per login, and a session behind it |
| session refresh (`utils_atprotocol_oauth.rs`) | sessions | use, refresh at the PDS | tokens never go back; an error has a cause |
| resource endpoints (`middleware_auth.rs`) | none | look a token up, check scheme and proof | the scheme matches the stored type |
| app passwords (`utils_app_password.rs`, `handler_app_password*.rs`) | passwords and sessions | set, log in, refresh | a session belongs to the stored password; a code finds its session |
| authorization endpoint, PAR (`handler_par.rs`, `handler_atprotocol_oauth_authorize.rs`) | pushed requests | push, read | a pushed request is used as pushed, once, and within the registration |
| client registration (`clients/registration.rs`) | clients | register, read, update, delete | an update changes what it names and nothing else; a deletion is final and complete |
| DPoP nonces (`dpop_nonce.rs`, `middleware_auth.rs`) | the last two windows of each process | generate, check, hand out | a client that takes over each response's nonce is not turned away without a reason |
| scopes, OpenID claims, keys, configuration, routes | little or none | | pure functions and wiring |

Handlers are async functions run by tokio: every `await` is a point at which
another request may run, so two handlers meet only in the tables (and in the
nonce windows, behind a mutex).  The token
endpoint and the bridge share the table of codes (the bridge's callback calls
`authorize`), the device grant reads the bridge's sessions to link its tokens,
and the session endpoint reads sessions by the id an access token carries.

The hard behaviours are: requests that present the same credential at once; a
row that is read, then awaited over, then relied on; transactions that are
serial on two backends and only READ COMMITTED on the third; the expiry of one
row between two steps about another; a handler that stops half-way; a redirect
delivered twice; a PDS that rotates its refresh token and may do so without its
answer arriving; caches that forget; expiries that the backends test with
different comparisons and precision.  `PROJECT.json` lists them under
`hazards`, each at its line.

## Modules

`TokenChain` is the abstract promise of `TransactionalStorage`
(`storage/traits.rs`): a code starts at most one chain of token pairs, and each
refresh replaces the tip of its chain.

`TokenGrants` models the two grants.  `codes`, `access`, `refresh` are the
tables, `expired` the rows whose time is past, `pc` the place of each handler,
and `presented`, `grant`, `minted` the locals that a handler carries across an
`await`.  The actions follow the handler: `ReceiveCode` (`get_code` and the
records built), `ExchangeCode`/`ExchangeRefused` (the transaction),
`ReceiveRefresh`, `ReadOldAccess` (`get_token_including_expired`),
`Rotate`/`RotateRefused`.  On PostgreSQL the transaction is two steps
(`PgSelectCode`, `PgCommitCode` and the same for refresh), as its SELECT takes no
lock.  `PresentExpiredAccess` is the lookup of an expired access token, which on
SQLite deletes the row and by its foreign key the refresh token.  `Fail` stands
for every check that fails after the row was read, for a storage error and for
a process that stops: in each case nothing was committed.  A code stands for
all the fields that tokens copy from it, a token for the request that minted it.

`DeviceFlow` models the device grant up to the linking step of
`handle_oauth_token`, over all three backends, with overlapping polls of one
code, approvals by different users, and `RefreshPair`, the first refresh of the
resulting pair.  Two writes of one row matter here: `StoreAccess` and, after the
refresh token was stored, `StoreLink`, which overwrites in memory, replaces (and
cascades) on SQLite and fails on PostgreSQL.

`AtpSession` models one session: the callback as fourteen steps with the error
path that records `exchange_error`, and `get_atprotocol_session_with_refresh`
with its refresh.  `StoreSession`, `ByState` and `Visible` are the three tables:
an index by state and by DID in memory, one row per session on SQLite, one row
per session and iteration on PostgreSQL.  `pds` is the PDS as the code uses it:
its code is accepted once and its refresh token rotates.  `mishaps` is a history
variable of what went wrong, so that errors can be required to have a cause.

`AppPassword` models one client and DID: `app_passwords` and
`app_password_sessions` are each keyed by the pair.  A setter
(`create_app_password_handler`) deletes the old sessions, stores the password and
creates a session; a login (`handle_app_password_login`) stores the password,
creates a session, and deletes both again when that fails; both share
`create_app_password_session`.  Requests of the session endpoint use the session
or refresh it.  A session is named by its creator and its tokens by generation;
`accepted` and `newest` are the PDS.  The foreign key of the databases is
`MayStoreSession`.

`ClientRegistry` models one client's row, the requests that update and delete it,
and what refers to it: pushed requests, codes, token pairs, device codes.  The row
is a record of six fields, as many as the code treats differently: a field the
body lacks keeps its value, but the metadata are always replaced and jwks never
(`Merged`), and PostgreSQL's UPDATE names no column for the software fields
(`Columns`).  `ReadForUpdate`, `StoreUpdate` and `AnswerUpdate`, which reads the
row again for the response and may fail there, are three steps, so that other
handlers act in between.  Three history variables say what should be stored:
`expected` is the registration with every stored update applied to it, `stale`
the fields written since an updater read the row, and `reverted` those that an
updater has put back.  A login goes from `process_authorization_query` (`BeginPlain`,
`BeginPushed`) by the check before the redirect (`Validate`), or directly from
the app-password form (`SubmitPassword`), to `authorize` (`CheckLogin`,
`StoreCode`) and the token endpoint.  The check before the redirect is exact
(`AllowedAway`), the others let a registered prefix pass (`Allowed`, `Covers`).
Foreign keys are `MayReference`, `Cascade` and, for device codes, which have no
cascade, `MayDelete`; the two databases declare the same ones.

`Stores` sets the three storage backends side by side.  Each method of the
traits in `storage/traits.rs` is three operators (`MemoryGetCode`,
`SqliteGetCode`, `PostgresGetCode`), each from a backend's tables to its reply:
the new tables and the rows answered, or a refusal.  A method that writes is an
action that calls all three; what a reading method would answer is compared in
every state.  `StoreCalls` is the frame (rows with a key, a value and an expiry,
the clock, the comparison), and four modules hold the tables: `GrantStores`
(codes, access and refresh tokens and the two transactions), `RequestStores`
(device codes, pushed requests, OAuth requests, authorization requests),
`RecordStores` (clients, keys, app passwords and their sessions) and
`SessionStores` (ATProtocol sessions with memory's two indexes).  A behaviour
calls the methods of one group, of which the keys are a group of their own.  One
method crosses the groups: `delete_client` deletes codes, tokens and pushed
requests in the databases, is refused there while a device code refers to the
client, and does neither in memory.  It is therefore a call of each group it
reaches (`DeleteClientGrants`, `DeleteClientRequests`, `DeleteClient`); the rows
of the first two groups are those of one client, whose presence the tables
record (`client`, `IfClient`), and the third is told by its input which databases
hold a device code.  Statements are not interleaved here: that is what the
handlers' modules are for.

The backends do differ, and `Stores` says where.  `AtEdge` are the keys at the
moment they expire, where memory tests `expires_at < now` and the databases
`expires_at > now`; `LastSecond` the device codes in the second in which they expire,
as SQLite keeps whole seconds.  A call after which the rows of a key may
differ for good puts the key into `apart` (`MayDiffer`), and each use of it
names the cause: a credential spent at its edge, a refresh token that SQLite
dropped with its access token, a code, token or pushed request whose client was
deleted (memory keeps it and takes new ones), a client deleted in memory in spite
of a device code, a password whose client is gone in PostgreSQL, a key stored
twice, an older iteration of a session written or removed after a newer.  Two
columns are compared for what they hold and not for equality: SQLite writes an
OAuth request's issuer in the place of its authorization server (`ByIssuer`; the
comment in the code calls it a temporary solution), and PostgreSQL keeps a client's
application type and software through an update (`KeepSoftware`), so that
`ClientsAgree` leaves these out of its comparison with PostgreSQL.  These are all
the differences the properties allow between rows of the modelled tables.

`DPoPNonces` models the nonces at protected endpoints.  `values` is the list of
windows of each process (`InnerDPoPNonceGenerator`), `Generated` is
`generate_nonces`.  A request is sent with the nonce the client received last
(`Send`), checked by some process (`Check`), or declined for another reason
(`Decline`), and its response carries the first nonce of a second call
(`Answer`, which is `set_dpop_headers`); responses are taken over in any order
or get lost.  `Visit` is any other response, `Restart` a new process.  Processes
share the seed (`CONFIGURATION.md` deploys two), so a window stands for its
nonce.

`MCTokenGrants`, `MCAtpSession`, `MCAppPassword`, `MCClientRegistry`, `MCStores` and
`MCDPoPNonces` add symmetry for TLC, some of them also a set that a cfg cannot
write.  Each `..._proofs` module holds the proofs about the module it is named
for, and `TokenGrants_refinement` those about `TokenChain`.  Operators named
`Mut...` are variants of an action with a plausible bug: with one put in the action's place
some property of the module fails.

## Runs

| run | bounds | shows |
|---|---|---|
| `tokens_serial` | memory and SQLite, 4 requests, 2 codes | `CodeRedeemedOnce`, `RefreshRotatedOnce`, `NewestPairHoldsRefresh`, `BindingPreserved`; `TokenGrants` implements `TokenChain` |
| `tokens_lasting` | memory and PostgreSQL, 4 requests, 2 codes | `CodeNeverBurned`, `NoTokenWithoutSpending`, `RefusedRefreshExplained`, `RefreshLeavesByRotationOrExpiry` |
| `device_grant` | every backend, 1 device, 2 overlapping polls, 2 users, 3 logins | `DeviceCodeOnce`, `TokensOfLastApprover`, `RefreshRowBacked`, `RefusedPollExplained`, `ApprovedDeviceServed` |
| `session` | every backend, 2 deliveries, 2 requests, 3 iterations | `OneCodePerLogin`, `IssuedCodeHasSession`, `TokensNeverGoBack`, `ErrorsExplained` |
| `app_password` | memory and SQLite, 1 setter, 1 login, 2 requests, 2 passwords, 3 generations | `SessionUsesStoredPassword`, `SessionHasPassword`, `CodeFindsSession`, `ErrorsExplained`, `TokensNeverGoBack` |
| `registry` | every backend, 2 updates, 1 deletion, 1 push, 1 login, 1 device, 2 URIs | `DeletedLeavesNothing`, `DeletionFinal`, `UpdatesKept`, `CodeWithinRegistration` |
| `stores` | 1 or 2 keys of each kind, 1 or 2 clients, 4 ticks, 2 ticks to a second, 2 iterations (499,551 states) | `GrantsInterchangeable`, `RequestsInterchangeable`, `RecordsInterchangeable`, `SessionsInterchangeable`, `HandedOutOnce` |
| `dpop_nonces` | 2 processes, 2 requests, windows of 2 ticks, 6 ticks | `RefusedNonceExplained` |
| `tokens_postgres_race` | PostgreSQL, 3 requests | violated: two exchanges of one code succeed |
| `tokens_sqlite_cascade` | SQLite, 3 requests | violated: an expired access token takes the live refresh token along |
| `device_refresh_session` | memory, 1 login | violated: a device's refresh loses its session |
| `registry_pushed_once` | 1 push, 2 logins | violated: one pushed request starts two logins |

Each of the last four checks one sentence of the code's own documentation;
`PROJECT.json` quotes it under `findings`.

The bounds.  Four requests are enough for a code redeemed, refreshed and raced
for in the same behaviour, with two codes so that chains could mix; they are
also the only bound of that model.  Two polls and two users make every race of
the device flow, and three logins leave the latest session of a user behind that
of the other.  Iteration 3 lets one refresh follow another after both have
raced.  A setter and a login already meet in every order, and a third handler
would only repeat one of them; the second request of `app_password` is what
lets two refreshes race.  Two updates make a lost update, and one of each other
request of `registry` meets them in every order; a request body gives one field
or all, which is what tells a merge from a replacement and an update that lost a
field from one that never named it.  Sessions, devices and codes carry random
names and meet only in tables keyed by them, so one or two of each say what many
would.  In `stores` the
lives of rows are shorter than the run, so that every row is live, at its edge
and expired, and two access and two refresh tokens make one rotation and a row
that it does not touch; a third client, password or session would meet no
other rows than the second.  Three windows fit into six ticks, which is what
makes a process drop the oldest, and two processes are what makes one idle.
Runs end when every request has been served or the clock is at its bound, which
is why most do not check for deadlock; `dpop_nonces` does.

Which backend a property is checked on is part of what it says.  The one-time
properties hold where a transaction tests and writes without another in
between, and not on PostgreSQL (`tokens_postgres_race`; `DeviceCodeOnce` and
`TokensOfLastApprover` have the same premise, for the same SELECT and DELETE).
The properties about lasting credentials hold where an expired access token's
row stays, and not on SQLite.  Properties of `AtpSession` that start with
`DeliveredOnce` are about a redirect that the browser delivers once: a second,
late delivery writes back the row it read earlier and may erase tokens.
`SessionUsesStoredPassword` and `CodeFindsSession` exclude a change of the password
that overlapped another handler of the pair: the code takes no lock across its
reads and writes, and TLC violates both without the exception.  `UpdatesKept`
holds for overlapping updates too, and excludes only the fields that one of them
wrote while the other held the row and did not name; each is excluded until the
next update of it.  It says what the code does with the metadata (an update
without any erases them) and with jwks and PostgreSQL's software fields (an update
that names them is answered with success and leaves them as they were), not that
this is what the sender wants.  `SessionHasPassword` and `DeletedLeavesNothing` are
unconditional on the databases and are what the foreign keys buy; in memory a
deleted client's codes and tokens stay.
`RefusedNonceExplained` accepts four causes: no nonce yet, a nonce more than a window
old, and a nonce of an earlier window that another process handed out or this
one before its restart; TLC violates it without any one of them.

Fairness.  Only `ApprovedDeviceServed` needs it: weak fairness of `Serve(r)` for
each poll.  It stands for two facts: RFC 8628 clients poll until they are
answered (the repository's own device client does, in
`examples/device-flow-cli/src/main.rs`), and tokio runs every task that is
ready.  Logging in, approving, expiring and failing are not fair.  A poll of a
code that is still pending changes no state and is a stuttering step.  (On
`/oauth/token` that answer is a `server_error`, where
`examples/device-flow-cli/README.md` expects `authorization_pending`; the
client treats both alike and goes on.)

## Proofs

Every invariant and action property of the passing runs is proved, for all
values of the constants that meet the assumptions named at the end of this
section.  Most hold only as part of a stronger invariant that is inductive; those
are named here.

`TokenGrants_proofs`, for any number of requests and codes:

- `TypeCorrect`: `Spec => []TypeOK`.  `TypeOK` is inductive only with
  `HandlersOK`, which ties the place of a handler to what it has read.
- `TokensCostCredentials`: `NoTokenWithoutSpending` on every backend.  The
  strengthening `Spent` adds that what a granted request presented is spent
  (`CredentialsSpent`) and that rows exist only for granted requests
  (`RowsGranted`).  PostgreSQL may grant twice, but never leaves the credential
  usable.
- `CodesOneTime` and `RefreshTokensOneTime`: `CodeRedeemedOnce` and
  `RefreshRotatedOnce`, assuming that PostgreSQL is not among the backends, so
  that no handler ever stands between a SELECT and its commit
  (`NoOpenTransaction`).  An exchange that commits finds its credential usable,
  and by `CredentialsSpent` nobody was granted for it before.
- `BindingsLast` and `NewestPairRefreshes`: `BindingPreserved` and
  `NewestPairHoldsRefresh`, without PostgreSQL.  `Lineage` says that the code a
  token descends from is copied faithfully from row to handler to row, and that a
  code with a chain is not live any more; `Copied` adds that a handler past its
  reads continues the pair it is going to replace, with its token type and the
  next iteration (`Chained`).
- `CodesNeverBurned`: `CodeNeverBurned` on every backend, as a code leaves the
  store only by its expiry or a commit (`CodesIssued`).
- `RefusalsExplained` and `RefreshTokensLast`: `RefusedRefreshExplained` and the
  action property `RefreshLeavesByRotationOrExpiry`, assuming that SQLite is not
  among the backends.  `Kept` says that a granted request's access row stays, and
  its refresh row too unless another request was granted for it or it expired:
  nothing cascades.

`TokenGrants_refinement` proves `ChainRefinement`: without PostgreSQL `Spec`
implements `TokenChain!Spec`, where the tip of a code's chain is the granted
pair that no granted request has presented.  `OneTip` says that a chain has one
tip.  Under it and `Lineage`, `ExchangeCode` is a `Redeem` step, `Rotate` a `Rotate`
step, and every other step stutters.

`DeviceFlow_proofs`, for any devices, users, polls and logins:

- `TypeCorrect` and `RefreshRowsBacked`: `TypeOK` with `Stages`, what a poll has taken
  and stored at each place of its handler, and `Owned`, that what it stored
  belongs to the user it took from the code.  `LastExists` and the lemmas after it
  are about the latest session of a user, which is what a poll links to.
- `DeviceCodesOnce` and `TokensOfLastApprovers`: except on PostgreSQL the code is
  gone once a poll took it, and one poll took it, for its last approver (`Codes`).
- `RefusedPollsExplained`, on every backend: `Codes` says that a code is gone only
  by its expiry or because a poll took it.

`AtpSession_proofs`, for any deliveries, requests and bound on the iterations:

- `TypeCorrect`: `TypeOK` with `Bounded`, that no row's tokens are ahead of its
  iteration.
- `OneCodeForLogin`: the PDS's code is spent by the one callback that holds tokens,
  and it has issued no code before (`CodeOnce`).
- `IssuedCodesHaveSession` and `TokensAdvance`: with one delivery (`Sole`) a login has
  two phases.  `Before` the callback stores the tokens no row has any, no request
  refreshes and no code was issued; `After` it every row has an error or the
  generation that equals its iteration, all rows are found by memory's index, and
  the refresh that has the newest tokens in its hands (`Bearing`) is ahead of
  every row, every handler and every answer (`Leads`).  That iterations and
  generations advance together is what makes a late writer harmless.
- `SessionErrorsExplained`: while nothing went wrong (`Smooth`) there is no error,
  one refresh at a time, which holds the PDS's current generation (`Healthy`), and
  the newest tokens are stored or about to be (`Synced`).

`AppPassword_proofs`, for any handlers, passwords and bound on the generations:

- `TypeCorrect`: `TypeOK` with `Stages`.
- `SessionsUseStoredPassword`, `CodesFindSession` and `SessionsHavePassword`:
  `Undisturbed` says, while no change of the password overlapped another handler, what
  the one handler that is changing it has written so far; on the databases
  `ForeignKey` alone gives the last of the three.
- `SessionErrorsExplained`: while nothing went wrong, the one refresh under way
  holds the stored session and the PDS accepts its password (`Unharmed`).
- `TokensAdvance`, without any condition: `Rotations`, that no tokens are newer than
  the PDS's (`NoneNewer`), and that what a refresh brings is newer than all that
  is stored, held or answered of its session (`Leads`).

`ClientRegistry_proofs`, for any handlers, forms and redirect URIs:

- `TypeCorrect`: `TypeOK` with `TokensDone`, that tokens belong to logins that ended.
- `DeletionsLeaveNothing`: the foreign keys of the databases, kept by every step
  that stores a reference (`ReferenceSteps`) or changes the row (`ClientSteps`).
- `DeletionsFinal`: no update brings a row back, on any backend.
- `UpdatesAreKept`: what an updater is about to store of a field is the value its
  body gives, or else the expected one, unless the field is stale for this updater
  or was reverted before it read the row (`Undisturbed`).
- `CodesWithinRegistration`: whatever changes the row while a login is about to
  receive its code marks that login (`IssuingSteps`).

`Stores_proofs`, for any keys, values, lives of rows and length of the run:

- `TypeCorrect`: every method of every backend keeps its tables' types.
- `GrantsAlwaysAgree`, `RequestsAlwaysAgree`, `RecordsAlwaysAgree` and
  `SessionsAlwaysAgree`: the four properties of interchangeability.  An
  abstraction function would hide what differs, so the invariants relate the three
  backends' tables row by row, for the keys that are not apart: the same rows
  that could still be used (`SameGrants`, which allows for clean-ups that leave
  other expired rows); the same device codes but for whole seconds
  (`SameDevice`); the same OAuth requests but for the server (`SameLogins`); the same
  clients but for PostgreSQL's software fields (`ClientsSame`), the same keys and
  pairs, with the foreign keys each backend keeps (`Refer`); and for a session the same rows in memory and
  PostgreSQL, the last of them in SQLite, and memory's two indexes pointing at
  them (`SessionSame`).  Each method keeps its relation and each reading method
  answers alike under it.
- `OncePerCredential`: `HandedOutOnce`.  A row whose key was handed out is marked or
  gone, and no key is stored again (`GrantsCareful`, `RequestsWaiting`).

`DPoPNonces_proofs`, for any processes, requests, clock bound and length of a
window:

- `TypeCorrect`: `Spec => []TypeOK`, with the windows of each process distinct,
  in order and none in the future.
- `NoncesExplained`: `RefusedNonceExplained`, where a process keeps two windows
  or more (`bin/aip.rs:273` keeps two; with one the theorem fails).  The
  invariant, `AllFine`, says that a process which handed a nonce out and was not
  restarted since has that nonce's window in front, or two windows that are no
  older (`Recent`).  It is inductive because a call pushes at most one window, and
  only once the one in front is over (`FineAfterGenerate`).  Windows that differ
  are at least their length apart (`WindowSteps`), so a nonce whose window has
  left the list was handed out more than that length ago (`RecentGone`).

The assumptions.  Each module names what its proofs need of its constants, and
TLC evaluates all of it in the runs: that the kinds of handlers are disjoint sets
and an empty value is none of the values (`GrantAssumption`, `DeviceAssumption`,
`SessionAssumption`, `AppPasswordAssumption`, `RegistryAssumption`), that bounds are
natural numbers and the lives of rows end within the times counted
(`StoreCallsAssumption`, `GrantStoresAssumption`, `RequestStoresAssumption`,
`RecordStoresAssumption`, `SessionStoresAssumption`, `NonceAssumption`), and that the
different random strings the server mints differ.  A redirect is delivered
finitely often (`IsFiniteSet(Callback)`).  The premises `"postgres" \notin Backends`
and `"sqlite" \notin Backends` stand in the theorems that need them;
`tokens_postgres_race` and `tokens_sqlite_cascade` show that they do.

Only model-checked: `ApprovedDeviceServed`, because liveness under fairness is
outside the proof system's reach, and the four violations.

## Not modelled

Client authentication, PKCE and the signatures of DPoP proofs either pass or end
the handler.  Client credentials store one fresh row and share nothing.  OpenID
claims, scopes, metadata documents, templates, configuration and the
command-line tool keep no state that requests share; the parsing of scopes and
proofs is a library's.  The memory of DPoP proof identifiers
(`storage/inmemory/nonce.rs`) would be shared state, but
`create_base_auth_server` makes a new one for each token request
(`http/utils_oauth.rs:199`, `oauth/auth_server.rs:39`), so that it never sees a
second proof.  `storage/key_provider.rs` reads a fixed map.  The in-memory and
the SQLite server keep OAuth requests in a cache of the atproto library
(`bin/aip.rs:158`, `226`); `AtpSession` lets it forget, and `Stores` compares the two
database implementations only.

`Stores` includes methods that no handler calls (the clean-ups, `consume_code`,
`consume_refresh_token`, `consume_par_request`, `revoke_token`, `update_session`
and others); the handlers' modules leave them out.  Two of them behave apart from
their namesakes: PostgreSQL's `consume_code` ignores the `used` column
(`storage/postgres/authorization_codes.rs:124`), and `update_session` finds and
keeps something else on each backend.

Some behaviours were seen while modelling and no property forbids them.  A
failed refresh is stored as an error that no later request retries, for both
kinds of session.  A failed app-password login deletes an earlier good password.
A device code that no poll consumes (it is never approved, say) stays for ever
and, having no cascade, keeps its client from being deleted.  An update of a
client that brings no metadata erases those of the registration
(`registration.rs:318`), and the jwks of an update are ignored
(`handler_xrpc_clients.rs:89` says so for one of the two endpoints) although the
answer is a success, as are application type and software in PostgreSQL
(`postgres/oauth_clients.rs:450`).  In memory the codes, tokens and pushed
requests of a deleted client stay, and the tokens go on being accepted.  A poll
that fails after its device code was taken leaves the device with nothing.  The
app-password form cannot finish a pushed request, as it does not carry the redirect URI
(`handler_app_password_login.rs:86`).  After a refresh the response calls a
DPoP-bound token Bearer (`auth_server.rs:566`), and the resource endpoints refuse
it under that scheme (`middleware_auth.rs:270`).  Registration compares grants
with response types only where a request names both, before the defaults are
filled in (`registration.rs:397`), so that a grant can be stored without its
response type.  After an idle time a process accepts the nonce of its previous
window, however old, until the next window opens (`dpop_nonce.rs:98`).

## Plan

Order of work, the most important behaviour first; the first ten are done.

1. `TokenChain`, `TokenGrants` and their proofs.
2. `DeviceFlow`.
3. `AtpSession`.
4. `AppPassword`: setting a password, logging in with it and refreshing its
   session, which write password and session in separate steps.
5. `ClientRegistry`: registration, update and deletion under concurrent requests,
   the cascade of a deletion, and pushed requests from the push to the code.
6. `StoreCalls`, `GrantStores`, `RequestStores`, `RecordStores`, `SessionStores` and
   `Stores`: every storage method on every backend.
7. `DPoPNonces` and its proofs.
8. Proofs about `ClientRegistry` and `AppPassword` for any number of requests.
9. Proofs about `Stores`: that the backends are interchangeable, and
   `HandedOutOnce`.
10. Proofs: the rest of `TokenGrants`, `DeviceFlow` and `AtpSession`.
11. An abstract specification of a session with the PDS (one chain of token
    generations), which `AtpSession` with one delivery and `AppPassword` both
    implement, and the proofs of it.
12. The choice of the best session by the session endpoint, composing
    `AtpSession` and `AppPassword`.
