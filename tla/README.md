# A verification of goacos in TLA+

goacos is a small Nacos-compatible server: configuration management with long polling, a
service registry with heartbeats, a console, and an optional HTTP gateway that routes to the
registered instances. All state is in one MySQL or PostgreSQL database; any number of server
processes may share it for the registry, but the configuration is served by one process at a
time. This directory holds TLA+ models of its parts, the TLC runs that check them on small
instances and the TLAPS proofs about them.

Commands: `tlc -workers 2 -config <cfg> <MC module>` for a run (`PROJECT.json` lists them),
`tlapm <module>` for the proofs, which are in the modules `*Proofs`.

## 1. Inventory

| Part | Source (`src/`) | State | Operations | What is hard |
|---|---|---|---|---|
| Configuration ownership | `internal/storage/config_owner.go`, `internal/api/config_admission.go`, `internal/app/app.go` | advisory lock and pinned session in the database; `lost`, `done`, `sem`, `conn` in the process | `AcquireConfigOwnership`, `WithConfigTransaction`, `ReleaseConfigOwnership`, admission of requests | takeover while a transaction is open, COMMIT without an answer, cancellation, one-token semaphore, shutdown timeout |
| Configuration tables | `internal/storage/configstore.go`, `config_facade.go`, `internal/api/config_v1.go`, `config_v2.go` | `config_info`, `his_config_info`, `config_tags_relation` | publish, delete, list, history | several tables in one operation, rejected half way |
| Long-poll hub | `internal/core/hub.go` and the listener routes | `md5s`, `watchers`, one channel per listener | `Publish`, `Invalidate`, `WaitChanged` | missed notifications, hooks under the token, lost ownership while parked |
| Service registry | `internal/storage/namingstore.go`, `internal/api/naming_v1.go`, `naming_v2.go` | `naming_service`, `naming_instance` | register, beat, deregister, service CRUD, list | statements without a transaction, several processes, unequal clocks |
| Sweeper | `internal/core/sweeper.go` | none of its own | mark unhealthy, delete, mark persistent | runs in every process, against heartbeats |
| Go client | `sdk/registry/*.go`, `cmd/goacos-registrar` | registration, backoff, token | register, beat, deregister, discover | stop against a beat in flight, retries, token refresh |
| Gateway | `internal/gateway/routetable.go`, `lb.go`, `proxy.go`, `gateway.go`, `policy.go`, `static.go`, `security.go` | route table, balancer state, transports | refresh, lookup, pick, forward | refresh under requests, retries, in-flight counts |
| Certificates | `internal/gateway/certs.go`, `acme.go`, `certdir.go`, `selfsigned.go` | certificates by domain and source | issue, renew, reload, fall back | renewal against requests, competing sources |
| Schema and migrations | `internal/storage/store.go`, `migrate.go`, `dialect.go` | schema version ledger | open, migrate, seed | concurrent starts, crash in the middle |
| Users and roles | `internal/core/auth.go`, `internal/storage/authstore.go`, `internal/api/auth_api.go`, `router.go` | users, roles, tokens | login, authenticate, administer | roles that change after a token was issued |
| Namespaces | `internal/storage/tenantstore.go` | `tenant_info` | create, update, delete | deletion against a publish or a register |
| Applications, routes, ports | `internal/storage/appstore.go`, `gatewaystore.go`, `portpool.go`, `internal/api/app_v1.go`, `gateway_v1.go` | rows | declarative upserts | allocation of ports |
| Python and Node clients | `sdk/registry-python`, `sdk/registry-node` | as the Go client | as the Go client | as the Go client |
| Process configuration, CLI | `internal/config`, `internal/dbcli`, `main.go` | none | parsing, discovery | none |

How they interact: an HTTP request on a configuration route is admitted by `serveConfig`, which
runs the handler inside `WithConfigTransaction`; the handler calls the configuration tables and
registers hub notifications that run after the commit. Listener requests run outside a
transaction and call `WithConfigTransaction` for each comparison and once more before they are
answered. Naming requests and the sweepers use pooled connections, one statement at a time. The
gateway reads the registry periodically; clients beat over HTTP. What makes each part correct is
stated as the properties of section 3; `PROJECT.json` lists the hazards line by line.

## 2. Modules

`ConfigStore` is the three configuration tables as a value and the SQL operations as operators
(`upsertConfig`, `deleteConfig`, `replaceConfigTags`, `insertHistory` keep their names). A key
stands for (dataId, group, tenant), a content is its own md5. `Apply` is a whole handler,
`Prefixes` what a rejected one may have done before it stopped. `WellFormed` is what every
committed value satisfies: the newest history entry of a key describes its row, every tag belongs
to a live row, ids are not reused. The path of `upsertConfig` that recovers from a lost INSERT
race cannot be taken while one session writes.

`ConfigOwner` is ownership. A member of `Procs` is one run of the binary, so a restart is another
member. The client's side (`proc`, `lost`, `sem`, `conn`) and the server's side (`lock`, `sess`,
`tx`, `db`) are separate, since every interesting behaviour is a disagreement between them: a
session ends and the process has not noticed; a process has died and the server has not; a COMMIT
has been executed and not acknowledged. One action is one blocking step of
`WithConfigTransaction` (enter, select, verify, begin, handler, verify, send COMMIT, answer,
rollback, put the token back, look at `lost`, discard), of `AcquireConfigOwnership`,
`ReleaseConfigOwnership` or of the database server. A request may be cancelled at any moment
(`Impatient`), a process may crash at any moment (`Exit`), a session may be killed at any moment
(`SessionEnd`). The database server and `database/sql` are external: a session that ends aborts
its transaction and frees its lock at once; a COMMIT already received may be executed after the
client died; `sql.Conn` closes once the open transaction on it is finished. `Commit` may return an
error at any time after the COMMIT was sent (`CommitUnknown`: a read timeout, `dialect.go:142`, a cut
connection, a cancelled context): the client gets its 503, the process is lost, and the server may
still execute the COMMIT as long as the session lives.

`SingleActive` is what ownership promises a client, without sessions, transactions or semaphores:
at most one owner, never again after retirement; a request takes effect at most once, at one
instant, on the tables as they are then and while the process it was sent to owns them; "ok" only
after it did, "rejected" only if it never does. A 503 leaves it open: it may have happened or happen
later, but no longer once its process has lost the tables, so that a client that is served by a
successor knows its 503 to be settled.

`ConfigHub` is the hub of one process with its listeners and writers. Because of the refinement
above an owned transaction is one step here; the after-commit hooks are separate steps under the
token (`busy`). The session may end, the process may lose the configuration and another process
may then write. Where the listener is in `WaitChanged` is `lpc`.

`Naming` is the registry and the sweepers of all processes. One action is one SQL statement. A
timestamp is the process that took it and the true time, and `Skew` turns it into the number the
code stores, so that properties can speak of true silence. `FoundRows` tells the two drivers
apart: MySQL's default counts changed rows, PostgreSQL matched ones. One service with several
endpoints: nothing in these statements relates two services. A list takes three steps: the database
takes the rows (`Query`), the handler reads its clock once (`ReadClock`, `namingstore.go:355`), and it
judges the rows by that reading and answers (`Scan`), with time, beats and sweeps in between; what was
answered stays in `req` with the true time of the rows (`asOf`). The history variable `overtaken` has
the requests that a deletion of the service met between their `EnsureService` and their INSERT.

`RegistryClient` is the Go client in one process: the goroutine of the application (`Announce`,
`Start`), the one that runs `Stop`, and one loop per effective `Start`. Its registry calls
(`Exchange`: token from the cache or by a login under the mutex, send, answer, one retry with a new
token after a rejection) are the same actions for every goroutine, since they share the cache. A
call that is given up stays in `late` and may be handled at any later time. Of the registry it
keeps whether the instance is there, per namespace; `Sweep` removes a silent one. The registrar
boots the same way and cancels the loop's context on a signal (`ParentCancelled`).

`GatewayRouting` is the pure part of the gateway as operators: order of the routes, selection of
the instances (clusters, stand-bys, declared ports, lanes), admission by a domain's policy, and the
four algorithms of `lb.go`. A sorted slice is given by what sorting promises: `SortInstances` puts an
instance in the place that says how many come before it, and `FirstHit` is the matching route that no
other comes before. `Round` repeats a round robin pick as often as the weights sum up to, for
`RoundRobinShares`. `Gateway` is the data plane over it: a reload query by query, with its
swap, its pruning of transports and its `Forget`; a request through dispatch, route, pick, send and
answer, failure, upgrade or panic; the balancer's state; shutdown. One action is what happens under
one lock or between two.

`Certificates` is the certificate manager: the goroutine that reloads, scans and reconciles
(`mgr`), handlers that upload and delete beside it (`api`), handshakes, the row in the database, the
pair in the certificate directory, the self-signed pair kept on disk, the cache, the challenges and
the waits. A certificate is fresh, due or expired; a pair of files may not belong together. The
process may crash between any two writes.

`Schema` is the boot of several processes on one database: base script, ledger, migrations and seed,
one statement per action, any of which may be the last one of its process. `Pending` is the
set of versions that the ledger did not name when it was read; the lowest is next, as in the sorted
slice of the code. A database from before the ledger comes with any users, administrators or not, with
a private password or with the public one (`weak`, which also stands for a hash that is none; a
disabled account is not weak, since `ValidateAuthState` does not look at it). `Seed` makes the
administrator only if there are no users; then `ValidateAuthState` ends the boot of a process that
runs with authentication (`AuthEnabled`) if an administrator is weak. A process without
authentication may have the default `ADMIN_PASSWORD`, and so has `goacos db init` (`PublicSeed`); one
with authentication may not (`Config.ValidateAuth`). `found` is the history of the users before the
first boot. Users that change through the API of a process that serves are left out.

`MC*` modules give the constants of the runs. Definitions whose comment says "faulty" are wrong
versions of the definition below them; they are used by no specification and serve to check that
a property notices the fault (`PROJECT.json`, "mutants").

## 3. Runs

States and times are for two workers.

| Run | Bounds | Checks |
|---|---|---|
| `config_owner_safety` | 2 processes, 2 requests that may be cancelled, publish with a tag and delete on one key | `OnlyOwnerWrites`, `WorkIsCurrent`, `TablesAgree`, `TokenConserved`, the inductive invariant `Fenced` of the proofs, refinement `ActsAsSingleActive`, `TypeOK` (699,056 states, 1 min) |
| `config_owner_live` | 1 process, 3 requests, one may be cancelled | `EveryRequestAnswered`, `LostFreesLock` (95,719, 1 min) |
| `config_owner_cancel` | 1 process, 1 request | violation of `CancelKeepsOwnership` |
| `config_hub` | 1 key, 2 contents, 1 listener that may go away, 2 writers | `WatchedKeyUnchanged`, `NoWatcherLeak`, `HubFollowsDatabase`, `ChangeReported`, `PublishNeverBlocks`, `LostListenersAnswered` (104,056 states, 40 s) |
| `naming` | 2 processes with clocks one unit apart, both sweeping, 1 endpoint, 2 requests of any kind, time 0..2 | `UnhealthyIsSilent`, `OnlySilentRemoved`, `ListedAreFresh`, `InstanceHasService` (3.5 million, 2 min) |
| `naming_register` | 1 process, 1 endpoint, 1 request | violation of `RegisterTakesEffect` |
| `registry_client_safety` | 2 loops, 1 revocation, password | `StopCanReachEveryLoop`, `LoopEndsBeforeDeregister`, `RetryHasNewToken` (758,717, 30 s) |
| `registry_client_live` | 1 loop, 1 revocation, password, public namespace | `RunningIsRegistered`, `StoppedIsGone`, `StopReturns` (57,000, 2.5 min) |
| `registry_client_namespace` | 1 loop, a namespace of its own | violation of `RunningIsRegistered` |
| `gateway` | 2 requests, 2 components of one service, 3 instances, 1 refresher, 1 change of the database | `OpenRequestsCounted`, `NoPhantomRequests`, `EveryCandidateTried`, `NoReplayAfterBytes`, `RoundRobinShares`, `StableStaysRouted` (1.4 million, 2 min) |
| `certificates` | 1 domain, 1 name beneath it that nobody serves, 1 certificate on demand | `FallbackProvided`, `IssuedIsRenewed`, `RealBeatsPlaceholder`, `RevokedIsForgotten`, `ChallengeOnlyWhileIssuing`, `TypeOK` (172,726, 2.5 min) |
| `schema` | 3 processes, 2 base tables, 2 migrations (one statement that cannot be repeated), 2 deaths; 2 processes with authentication, one that seeds the public password; a database without users or with any accounts of 2 names | `LedgerMeansApplied`, `ServingMeansReady`, `ServesUnlessRefused` (689,144, 1.5 min) |

Each module has a `TypeOK`. In `ConfigHub`, `Naming`, `RegistryClient` and `Gateway` it is a conjunct
of an invariant that needs it (`NoWatcherLeak`, `InstanceHasService`, `StopCanReachEveryLoop`,
`RoundRobinShares`); that of `Schema` is proved.

Why the bounds are enough. Ownership: a takeover needs two processes; a queue for the token needs
two requests, and a request that waits behind a discard that waits for a transaction needs three
(`config_owner_live`); recreating a deleted key needs two operations. The proofs remove these bounds
for the safety properties. Hub: two writers reorder hooks, or notify a listener twice; one of them
may change the key back. Naming: with `Timeout` 1, `DeleteAfter` 2 and a process whose clock is one
ahead an instance goes through healthy, unhealthy and removed; two requests are the shortest
race between statements; the tables start with any instances of an earlier time; nothing in these
statements relates two endpoints but the service row. Client: a second loop is what an overlap of
`Start` and `Stop` needs, one revocation lets two goroutines hold the same rejected token, and a
`BeatFailureThreshold` of 2 instead of 3 keeps a failure that does not count from one that does.
Gateway: two requests are in flight on one target while it is forgotten; a second instance to fail
over to and a stand-by on another port; weights 0 (taken as 1) and 5 for the shares; one change and
one reload put every old value against every new one. Certificates: no step relates two domains but
`todo`, which orders them. Schema: one process records what a second one is applying while a third
has not yet read the ledger; of two accounts one is the configured administrator's and one is not; the
proofs remove the bounds.
`MaxTime`, `MaxStarts`, `MaxRevocations`, `MaxChanges` and `MaxFaults` are the counter bounds; ids and
the history are bounded by the number of requests.

Deadlock is not checked (`CHECK_DEADLOCK FALSE`): clients may stop sending, and a run ends when every
request has been used and time has stopped. That nobody waits for ever is stated by the liveness
properties instead.

Fairness.
* `ConfigOwner`: a goroutine that can step does (`WF` on `Serve`); a channel serves its receivers in
  order (`SF` on `SelectToken`); the server executes a COMMIT it has received and notices a closed
  socket; the timer of `ReleaseConfigOwnership` fires.
* `ConfigHub`: goroutines and the ticker run, a transaction that waits for the token gets it.
* `RegistryClient`: goroutines that can step do; `sync.Mutex` does not starve a waiter, and a `select`
  serves a timer that fires again and again; the registry answers at last a loop that asks again
  and again, and handles what was sent; the sweeper runs.
* `Certificates`: the manager's goroutine runs and its `select` serves both timers; handlers finish;
  waits end; the CA and the database do not refuse for ever what is tried again and again.
* `Schema`: a process goes on, and what started it starts it again (`deploy/deploy.sh:157`,
  `--restart unless-stopped`).

Nothing makes a client send, cancel or go, a session end, a token be revoked, or an operator act.

### What the runs found

* `config_owner_cancel`: `verifyConfigOwner`, `BeginTx` and `Commit` treat the error of a cancelled
  request context as the loss of the session. One client that goes away in that moment makes the
  process answer 503 to every configuration request until it is replaced.
* `naming_register`: a register answers ok after an UPDATE that hit no row, when a sweeper removed
  the long silent instance after the SELECT.
* `registry_client_namespace`: `Beat` names neither namespace nor group. A client in a namespace of
  its own that was evicted keeps an instance of the public namespace alive and never registers again.

### Observations

What the models show, or what was met while modelling, without a run of its own:

* A publish takes the listeners off the key; one whose md5 did not change goes on waiting without
  being registered, and the next change reaches it by the one-second tick (`ChangeReported`).
* The final transaction of a listener reads nothing: it answers what its last comparison saw.
* A beat that found no row registers over whatever was registered meanwhile, with the defaults of a
  beat; and a beat that was stalled moves the heartbeat back.
* `DeleteService` between `EnsureService` and the INSERT leaves an instance without a service row,
  which its own later registrations and beats do not repair: they take the UPDATE path. It is shown
  again when another instance of the service is inserted or the service is created; `InstanceHasService`
  says that this order of statements is the only one that leaves an instance behind.
* A configuration request that was answered 503 because its COMMIT took too long may be carried out
  afterwards, until the process has lost its session (`CommitUnknown`).
* A panic in the reverse proxy skips `Release` (`proxy.go:361`): the count of that instance stays too
  high until its target is forgotten (`aborted` in `Gateway`).
* Overlapping reloads of the gateway can put the older table back until the next tick; a request
  reads its policy and its route under two locks; a request with a body does not fail over; shutdown
  empties the transport pool before it drains.
* After a failed first order a domain has a fresh fallback, and `reconcile` orders again only when
  that is due, against the comment of `attemptIssuance` (`certs.go:552`). While ACME is possible but
  failing, an expired fallback is not made anew.
* A crash between the two files of a fallback (`selfsigned.go:73`) over an older pair leaves a
  certificate with another one's key, which is taken again and again; `FallbackProvided` excludes it.
* An upload that races a reload or an issuance may be overwritten in the cache until the next
  reload; a deleted certificate that was copied into the directory is still served from there
  (`RevokedIsForgotten` is about certificates that were uploaded).
* On MySQL a death between the ALTER TABLE of `004_instance_sweep.mysql.sql` and the ledger's row
  (`migrate.go:173`) makes every later boot fail. `ServesUnlessRefused` shows that there is one other way
  not to come up: with authentication, an administrator with the public credential (`store.go:239`),
  until somebody rotates it.
* A death between the row of the administrator and that of its role (`store.go:228`) leaves an
  administrator without a role for good, since the next boot counts a user; `ServingMeansReady` shows
  that nothing else does. A process that boots between the two statements serves before the role is
  there.
* For the same reason a process without authentication, or `goacos db init`, that seeds the public
  password beside the boot of a process with authentication can give its administrator the role after
  `ValidateAuthState` has looked: that process serves, and later boots are refused. A login with that
  password is refused all the same (`auth.go:35`).
* A database with users but without `ADMIN_USERNAME`'s is served as it is: the seed does not add the
  administrator, which `store.go:199` and `seed_admin_integration_test.go` say.

## 4. Proofs

Each proof has the same plan: an inductive invariant, checked by TLC first; one lemma per action, or per
group of actions that change the same variables; the theorems last. What is assumed of the constants is
in the named assumptions of the modules, which TLC evaluates on every run: the types of the constants,
the finiteness of sets that are counted or ordered (endpoints, requests, routes, instances), values that
stand for "nobody" being nobody's, an address or a component name naming one thing and having a place of its
own in the order of the strings, a heartbeat timeout above zero (at zero `namingstore.go:86` switches the
filter off), at least one attempt for a forwarded request, hashes that are naturals (`hashIndex` takes an
unsigned one), and that the components called stable are routed ones.

`ConfigOwnerProofs`, which also has the proofs about `ConfigStore`: for every set of keys, contents, tags, processes, requests and
operations, from `AbsentAssumption`, `NoProcAssumption`, `ImpatientAssumption` and `OpsAssumption`.

* Publish and delete keep the tables typed (`ApplyType`) and in agreement (`ApplyKeepsTablesAgreeing`).
  The key lemma `RecordedWrite` says that writing one row together with its history entry keeps the
  newest entry of every key in agreement with its row.
* `Fenced` is inductive (`FencingInvariant`), and `TypeOK`, `OnlyOwnerWrites`, `WorkIsCurrent`,
  `TokenConserved` and `TablesAgree` follow.
* `Spec => ActsAsSingleActive` (`Refinement`); the owner is the holder of the lock, a process is retired
  when its session has ended, a request takes effect when the server executes its COMMIT, be its answer
  still to come, given up (503) or without anybody to receive it.

Why `Fenced` is needed: `OnlyOwnerWrites` is not inductive, since it says nothing of where a
transaction came from. `SessionIsLock` ties the session to the lock, so that at most one session
is open; `TxInv` ties the transaction to the request that began it, also after that request is
gone or has given its COMMIT up, in which case the process is lost and begins no other; `OneHolder` makes that request the only one on the session; `RequestInv` says what each
place in `WithConfigTransaction` implies about answer and commit. `WorkIsCurrent` then follows
because nobody else can have changed the tables since the handler read them.

`ConfigHubProofs`: for every set of keys, contents, listeners and writers, from `HubAssumption`:
`WatchedKeyUnchanged`, `HubFollowsDatabase` and `NoWatcherLeak`. The two first hold while no hook runs, so
the invariant says what is true while one does: the map differs from the database at most in the write
whose hook is about to run (`HubLag`), a watched key from what its listener knows at most in that write
(`WatchedFresh`), and the writer in its hooks is the one that holds the token (`Token`), so there is one.

`NamingProofs`: for every set of processes, clock errors, timeouts, endpoints, configurations and
requests, from `NamingAssumption`: `UnhealthyIsSilent`, `OnlySilentRemoved`, `ListedAreFresh` and
`InstanceHasService`. A sweeper compares rows with a clock that it has read earlier, so its statement
marks and removes less than it might; that its time is never ahead of the true one (`SweepsBehind`) and
that a beat only makes a row younger is the argument. A row says which process stamped it, and the bound
is stated by the clock of some process: an error of the clocks moves it by as much and no more.
A list is judged by a clock that was read after the rows were taken, and rows in hand do not get younger
(`ListFacts`), so what it names was fresh when the rows were taken.
`InsertsCovered` says why an instance is missing its service only if its own INSERT was overtaken: a
handler before its INSERT has the service there, or is in `overtaken` since the deletion.

`RegistryClientProofs`: for any number of starts and revocations, any threshold and each kind of
credentials, from `ClientAssumption`: `StopCanReachEveryLoop`, `LoopEndsBeforeDeregister` and the action
property `RetryHasNewToken`. Loops are started in order (`StartedInOrder`), so the last one started is the
one whose cancel function is kept; `StopOrder` carries the end of the loop from the wait to the
deregistration. For the tokens `Fresh` says, of every goroutine, that its token was issued, that a
rejected one is older than the newest, and that a cached token that a retry may take is newer than the
rejected one: another goroutine may have renewed the cache, but cannot put the old token back.

`GatewayProofs`: for all components, routes, instances, policies and kinds of requests, any number of
reloads at once and any finite set of requests, from `RoutingAssumption` and `KindAssumption`:
`OpenRequestsCounted`, `NoPhantomRequests`, `NoReplayAfterBytes` and `StableStaysRouted`. `Counts` bounds each
count from both sides by the requests in flight; a target that is forgotten loses its count and not its
requests, so the lower bound is for targets that stay declared, and the upper one needs that a Release
stops at zero. A count stays within the number of requests because the handlers that panicked are over
and no longer in flight. `RoutesKept` follows the routes that stay through every place of a reload, which
also gives that `Forget` keeps their targets.

`EveryCandidateTried` and `RoundRobinShares` need a second invariant, `Typed`, over the first. Of a request
that is being forwarded it says that its target is a pool of different instances, that what it tried are
addresses of that pool, and that these are as many as the attempts it made, or all (`Forwarded`). Each
attempt adds one address because the candidates are those not tried, every algorithm picks a candidate
(`PickedTyped`), and different instances have different addresses; a request without candidates has
therefore tried all, and after the last attempt it has tried as many as there were attempts. With `Typed`
comes the gateway's `TypeOK`.

`GatewayRoutingProofs` has what this needs of the operators, for any routes, instances and weights: sorting
by places is a permutation (`SortedInstances`), the first entry that matches has the longest prefix and of
those the lowest priority (`LongestPrefixWins`), each algorithm picks one of its candidates, and a round of
smooth weighted round robin gives every instance its weight in picks (`WeightedShares`). The argument for
the last (`Fair`): after t picks an instance of weight w that was picked g times has the balance
t*w - T*g, T being the total, and the g sum up to t. After the next gain the balances sum up to T, so the
highest one, the winner's, is positive: (t+1)*w > T*g, and g < w since t < T. So nobody gets more than its
weight, and as the T picks are T in sum, everybody gets exactly it. The
library's induction theorems cannot be instantiated by the provers; induction is over sets of numbers
instead (`Induction`: a set that has 0 and the successor of each of its members below N has all of 0..N),
which is enough for the recursive functions `WeightSums` and `Round`.

`CertificatesProofs`: for any domains, strangers, wildcards and limit, from `CertAssumption`: `TypeOK` (with
the limit on certificates made on demand) and `ChallengeOnlyWhileIssuing`. `Places` says what the manager
holds at each place, and that a file that it completes or reads has been begun.

`SchemaProofs`: for every set of processes, every base script and every set of migrations, from
`SchemaAssumption`: `LedgerMeansApplied` and `ServingMeansReady`. The inductive invariant adds what the
place of each process says about the database (`Progress`): what is left of its script is all that can be
missing of it, and every version it need not apply any more is in the ledger. It is kept by the steps of
the others because tables, ledger and users only grow (`OthersProgress`), and by `RecordMigration` because
the version recorded was the lowest of those left. Of the users it says where they come from
(`Provenance`: a process that seeds has seen an empty table, so nobody was found) and where the role of
the seeded administrator is (`RoleOnItsWay`); the check of a process with authentication stays true of
the users that were found because nothing is added to them.

Model-checked only: all liveness, since the prover does not do liveness under fairness: `EveryRequestAnswered`,
`LostFreesLock`, `ChangeReported`, `PublishNeverBlocks`, `LostListenersAnswered`, `RunningIsRegistered`,
`StoppedIsGone`, `StopReturns`, `FallbackProvided`, `IssuedIsRenewed`, `RealBeatsPlaceholder`,
`RevokedIsForgotten`, `ServesUnlessRefused`.

Every invariant and every action property of the passing runs is proved.

## 5. Not modelled, and the plan

* Users and roles: each request is judged by itself against rows; what a client sees of it, a token
  that is refused or expires, is in `RegistryClient`. Hashes and signatures are out of reach.
* Namespaces: single statements, but for a deletion that counts configurations in an owned
  transaction and instances outside it, of which neither code nor docs say what holds in between.
* Applications and the rows behind routes: storage row by row; what the gateway reads of them is in
  `Gateway`.
* Python and Node clients: the contract of the Go client in other languages.
* Cryptography, the ACME account and its wire protocol, parsing of environment variables, formatting
  of responses, header rewriting, limits in bytes, paging, embedded assets: no state of their own.
* Parts of modelled components: discovery by the Go client, the status column of a certificate's row,
  the row of the public namespace in the seed. `UpsertCertificate`'s SELECT and write are one step.
* Simplifications. A pair of the gateway's own making in the certificate directory, which `classifyFileCert`
  (`certdir.go:108`) ranks as a placeholder, does not occur in `Certificates`: its files are real ones.
  `generateSelfSigned` ignores the errors of its two writes, which are not atomic (`selfsigned.go:73`):
  an unusable pair arises in the model only from a crash between them. `Handshake` is one step, although
  the lookup and the making of a certificate on demand are under two locks (`certs.go:187`); the bound is
  checked under the second. `GatewayRouting` assumes that the instances of a pool have different
  addresses, which the code does not enforce across groups and clusters. `RegistryClient` has one `Stop`
  at a time. `RoundRobinShares` starts a round from even balances; `FallbackProvided` excludes pairs that
  do not belong together, `NoPhantomRequests` handlers that panicked, and `registry_client_live` has one
  loop, so that `StoppedIsGone` says nothing of overlapping `Start`s.

Next: `Access` for users and namespaces.
