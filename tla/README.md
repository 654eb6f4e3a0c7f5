# Verification of the fluxkeys gateway

fluxkeys is a gateway in front of LLM providers. It owns a pool of upstream API
keys with daily quotas, pre-deducts an estimate from a key before it calls the
provider, settles the real consumption afterwards, and binds each key to one
egress address for life. This directory holds TLA+ modules of the parts whose
correctness depends on the order of things (interleavings, lost replies,
crashes, restarts, stale reads), the TLC configurations that check them, and
TLAPS proofs for every value of the constants.

All paths are relative to `src/`.

    tlc -config QuotaLease.cfg MCQuotaLease      # a run
    tlapm QuotaLeaseProofs.tla                   # a proof module

`PROJECT.json` lists the runs, maps every definition to the lines it models and
gives, for each checked property, a plausible bug that makes the run fail.

## 1. Inventory

| component | code | state | operations |
|---|---|---|---|
| quota authority | `internal/quota/{scripts,manager,quotaday}.go` | in Redis, per (provider, kind, key, quota day): `used`, `prededuct`; the set of leases with expiry; one hash per lease | Acquire, Commit, Release, Reap, Reconcile, MarkRefreshed, read-only Get |
| refresh prober | `internal/quota/refresh.go` | in memory: keys confirmed / failed in this window, probe times | Tick, confirm, resetAfterWindow |
| request path | `internal/gateway/{server,proxy,handlers,stream,authcache}.go` | in-flight counter and drain flag; authentication cache with single flight; per request: excluded keys, attempts | authenticate, limit, retry loop, attempt, settle, log, drain |
| rate limiter | `internal/gateway/ratelimit.go` | token buckets in Redis | Allow, refund; fails open |
| scheduler | `internal/scheduler/{scheduler,health,score}.go` | active keys, quota snapshots, yesterday's history, health of each key | Select, Reload, RefreshKey, MarkSuccess / MarkFailure, SetStatus |
| egress pool | `internal/egress/egress.go` | addresses with status, reputation, failure streak; bindings key -> address; one HTTP client per key | ClientFor, Bind, Rebind, Release, Mark*, TryUnban, reconciliation |
| provider configuration | `internal/store/providers*.go` | tables `provider_configs`, `config_versions`, `audit_logs` | create, update, delete, rollback, list |
| configuration snapshot | `internal/confsnap`, `cmd/gateway/provider_reload.go`, `provider_seed.go` | the snapshot in service (atomic pointer) | seed, build, swap |
| admin API | `internal/gateway/adminapi` | none of its own | provider CRUD, upstream key import / patch / delete, rebind, unban, users |
| upstream keys | `internal/store/upstreamkeys*.go` | table `upstream_keys`: status, pool, egress, shard | conditional updates, import, soft delete |
| usage writer, history | `internal/store/{usage,history}.go` | bounded channel, batches; daily archive | enqueue, flush, close, archive |
| background tasks | `cmd/gateway/background.go` | timers | lease_reap, reconcile, refresh_probe, key_reload, egress tasks, archive |
| adapters, persona, metrics, configuration, dashboard, mock upstream | see `PROJECT.json` | none that another part relies on | not modelled |

How they interact. A request passes the gate, authenticates, picks a key
(scheduler), pre-deducts (quota), gets a client (egress), calls the provider,
and in one deferred function commits or releases the lease; the result goes back
to the health table, the egress address and the usage channel. Admin handlers
write the database first and then bring memory into line (snapshot swap, key
refresh, egress release), in separate steps. Background tasks repair what
requests leave behind (leases, counters, bindings). Several gateway processes
share Redis and PostgreSQL; keys are divided among them by shards.

What is hard, and what makes each part correct:

* **Quota.** Each Lua script is atomic; nothing around it is: clock and quota
  day are read before, replies get lost and commands are sent again, the process
  dies holding a lease, a reaper takes a lease that is still being used, a
  refresh zeroes a counter with leases outstanding, a late consumption is booked
  by a second command, the day changes at 12:00 in between. Correct means:
  reservations neither leak (a key looks exhausted for ever) nor vanish
  (overspending), every consumption that was acknowledged is booked, and
  overspending is bounded by what can be named.
* **Provider configuration.** Row and history are written in one transaction,
  but the handler reads before it and the process reloads after it, concurrently
  with other admins; starts may die half-way through seeding. Correct means: row
  and history agree, the audit log tells what was replaced, the process serves
  the table of one moment and not an older one than it must, and nothing at all
  only if the config file leaves it nothing.
* **Egress.** Binding, client, status and database record are four places that
  change under different locks. Correct means: a key keeps its address for life
  unless there is a stated reason, it sends from the address it is bound to, and
  an address does not exceed its capacity by ordinary binding.
* **Keys and health.** Database status, pool membership and health table are
  changed by requests, admins and reload in separate steps. Correct means:
  banned and invalid are final unless an admin says so, and a deleted key is not
  selected again.
* **Request life cycle.** Drain, authentication cache, single flight, usage
  channel. Correct means: revocation takes effect within the TTL, a request that
  is let in is finished or counted, nothing is sent on a closed channel.

`PROJECT.json` lists these as 40 hazards, each at its line.

## 2. Modules

| part | specification | model checking | proofs |
|---|---|---|---|
| quota authority | `QuotaLedger` (abstract), `QuotaLease` (implements it) | `MCQuotaLease` | `QuotaLeaseProofs` |
| provider configuration | `ProviderVersions` | `MCProviderVersions` | `ProviderVersionsProofs` |
| egress pool | `AddressBook` (abstract), `EgressPool` (operations), `EgressBinding` (goroutines around it, implements `AddressBook`) | `MCEgressBinding` | `EgressBindingProofs`, `EgressHomeProofs` |
| key pool and health | `KeyHealth` (operations), `KeyPool` (goroutines around it) | `MCKeyPool` | `KeyPoolProofs`, `KeyScanProofs` |
| refresh prober | `Refresher` | `MCRefresher` | `RefresherProofs` |
| request path, usage writer, shutdown | `RequestLife` | `MCRequestLife` | `RequestLifeProofs` |

`EgressBinding` composes `EgressPool` with the requests, the operator and the
background tasks; `KeyPool` does the same with `KeyHealth`. The other parts are
connected by what one leaves to the other: the attempt inside `RequestLife`'s
step `Run` is what `KeyPool` (selection), `QuotaLease` (lease) and
`EgressBinding` (client and address) describe; the reset that `Refresher` issues is
`MarkRefreshed` of `QuotaLease`; the reload that `ProviderVersions` ends with is where
a handler of `Refresher` begins.

None of the modules uses RECURSIVE, so each can be proved about.

What could come next: the composition of `KeyPool` and `EgressBinding` over one
`upstream_keys` table (each has its own copy of the columns it needs).

## 3. The quota authority

### QuotaLedger

Per quota: `used`, `held` (reserved for outstanding requests) and `slack`. A
grant must satisfy `used + held <= Hard + slack`; settling books the consumption
in full and adds to the slack only what exceeds the reservation; repairs and
resets may add at most what is held; only a confirmed refresh lowers `used`. No
leases, clocks or messages.

### QuotaLease

| module | code |
|---|---|
| `used`, `prededuct` | fields of the quota hash of `quotaKey` |
| `live`, `req` | lease ZSET (score = expiry) and lease hashes; a lease is in `live` when its hash and ZSET entry exist, which the scripts change together |
| `att` | where the attempt is between `Manager.Acquire` and its settlement in `Server.attempt` |
| `ExecAcquire`, `ExecCommit`, `Release`, `ReapToday`, `ReapYesterday`, `Reconcile`, `MarkRefreshed` | one execution of the Lua script |
| `BeginAcquire` | the Go code before it: clock read once, for day and expiry |
| `ExecOrphan` | the separate HINCRBY of `Commit` when the lease was gone |
| `Resend` | go-redis sends the same command again after a broken connection (`main.go` leaves MaxRetries at its default) |
| `Abandon` | the process dies, or the call's deadline passes |
| `Expired`, `ReapBatches` | ZRANGEBYSCORE with LIMIT: the earliest expiries first |

Quota day: ticks are counted from a noon, so `QuotaDay` is a division. The sum of
the reservations of a set of leases is the cardinality of the set of their units
(`Units`), which keeps recursion out of the module.

Four history variables record what the code does not: `booked` (how often a
consumption was added), `phantom` (units reserved twice for one lease and not yet
reconciled), `uncovered` (the most a reset or reconciliation ever left without
a counter), `excess` (consumption beyond reservations). No action reads them.

Abstractions. The TTL of the Redis keys (end of day + 24 h) is longer than any
lease and left out. `Reconcile` handles all buckets of a provider in one step;
the code runs one script per bucket, and buckets share nothing, so the order
cannot be seen by a property of one bucket. `Reconcile`, the first half of `Reap`
and `MarkRefreshed` read the clock and run their script in one step (the second
half of `Reap` uses the instant read before the first). `Release` is idempotent,
so its retries are not separate steps. Reaping iterates over the providers of
the current snapshot only: a provider that is disabled with leases outstanding
is not reaped, and the module speaks about providers in service.

### Runs

* `quota_safety` (`QuotaLease.cfg`): two attempts of one bucket, amounts and
  consumptions to 2, watermark 3, leases of one tick, days of two ticks, three
  ticks, batch of one, one refresh, every command sent once. Two attempts
  suffice because the counters are sums: every known danger (a lease ended
  twice, a reset under a lease, a reservation of another lease taken away)
  involves one victim and one culprit. The day switch is crossed by leases that
  start at the last tick of a day; the batch of one makes a reap round leave
  work behind. The refinement of `QuotaLedger` is checked here, step by step.
* `quota_live` (`QuotaLeaseLive.cfg`): the liveness properties `LeasesEnd` and
  `CounterHeals`, without symmetry, with commands that run twice (`MaxSend` 2). What
  resends do to the safety properties is the subject of the theorems, which hold
  for every `MaxSend`.

Two buckets would only multiply the state space; the proofs cover any set.

Fairness. `lease_reap` and `reconcile` run periodically under `background.every`,
which starts the next round whatever the last one returned: weak fairness of
`ReapToday` and `Reconcile`. `ReapYesterday` has strong fairness, because a
round may fail between its two scripts (`ReapError`) again and again, and the
property needs only that Redis does not fail in every single round. The clock
advances. Nothing is assumed of attempts: each may stop anywhere for ever.
The bound `Horizon` ends the clock, after which lease days no longer change;
`LastStart` leaves enough ticks for every lease to expire before it.

### Proofs (`QuotaLeaseProofs`)

`IInv` conjoins `TypeOK`, the counter invariants `NoPhantomReservation`,
`ReservationsCovered`, `OverspendBounded`, `LiveStarted` (only attempts that began
have leases: the arguments of a lease never change under it) and
`AnsweredIsBooked`. The overspend bound is not inductive alone: a grant checks
`used + prededuct`, and only `ReservationsCovered` says that `prededuct` stands for
the live leases. The other invariants need that ending a set of leases subtracts
exactly its reservation, which is the lemma `ReservedMinus` on cardinalities.

Proved for every value of the constants: `TypeCorrect`, `PhantomFree`,
`LeasesCovered`, `SpendingBounded`, `SettlementBooked`, `BookingUnique`, the action
property `LeaseKept`, and `LedgerImplemented` (the refinement, step by step).
Assumption: `ConstantsAssumption` only (finitely many leases, a non-empty set of
buckets, natural numbers). Model-checked only: the two liveness properties.

## 4. Provider configuration

### ProviderVersions

| module | code |
|---|---|
| `row`, `history`, `audit` | `provider_configs`, `config_versions` (its ascending id is the position), `audit_logs` |
| `file` | the providers that the config file declares: any set, since `Load` accepts an explicit `providers: {}` and `Validate` does not look at them |
| `served` | the providers of the current `confsnap` snapshot, each with the version it was built from; `FromFile` for the config file |
| `req[a]` | one admin request: `read` (the handler has read the row), `written` (committed), `listed` (its reload has read the table) |
| `Create`, `Update`, `Delete`, `Rollback` | the transaction of `providers_write.go` / `providers_rollback.go` with its guards: optimistic lock under FOR UPDATE, quota kind, deletion |
| `Receive` | the handler's read before the transaction |
| `AuditAndList`, `ReceiveReload`, `Install` | audit entry, `ListProviderConfigs`, `confsnap.Build` and the swap |
| `GiveUp` | the request ends early: refused, cancelled, database error; what it committed stays |
| `EditFile` | the operator edits the file between two runs of the process |
| `Start`, `Seed`, `Boot`, `Stop` | `seedProviderConfigs` with its count and its refusal of an empty file, one transaction per provider; the snapshot of the file and the first reload; death |

A configuration is its content (a model value), quota kind and enabled flag. The
update of `UpdateProvider` undeletes, as the code does; the snapshot that
`RollbackProvider` writes takes its deleted flag from the row before, as the code
does. A name in the file without an adapter is seeded like any other and keeps
`Boot` from happening, as `NewHolderFromConfig` does.

History variables: `past` (the tables there have been, by the number of writes),
`settled` (the writes behind which no reload can fall any more: a list that has
seen them was swapped in while nobody held an older list) and `confirmed` (the
newest write was answered with `"reloaded": true`). No guard reads them.

Left out: the running number of the snapshot (shown by `/readyz` only; two
concurrent reloads may take the same one), listing and diffing of versions
(read-only), validation of contents.

### Runs

* `provider_versions`: two concurrent requests, a provider with and one without
  an adapter, every set of them as config file, two quota kinds, three
  writes, crashes and starts everywhere. Three writes are enough for create /
  write / rollback and for a write between another's read and its transaction.
  The enabled flag travels through the handlers as the content does, so one
  content is enough.
* `ServesOneTable` speaks in the two cases that are hard to test. A reload that
  swaps late (`provider_reload.go:57`) may bring an older table back, but a whole
  one, and none behind `settled`; a write whose reload is lost
  (`admin_provider_version.go:325`) leaves one earlier table in service, or the
  file. Without the condition on older lists in `SettledBy` TLC refutes it.
* `EmptyOnlyFromFile` leaves one way to a process that serves nothing: the file
  declares nothing and the table has rows of which none is in service.
* What comments claim and the code does not keep is stated in the module as
  `HeadSnapshotMatchesRow`, `ConfirmedIsServed` and `ServesSomething`; see section 9.

### Proofs (`ProviderVersionsProofs`)

`IInv` adds to `TypeOK` and `RowIsNewestVersion`: the row version a handler read is
not newer than the row; a request that has committed wrote over the version it
read whenever it used the optimistic lock, and so did everything in the audit
log; the list of a reload is the table of one moment and no older than what is
settled; what is in service was such a list, or is the file; a process that
runs has a file that declares something or a table that has had rows; only a
running process has requests. For the audit log the link is `AuditedOver`: the
handler reads outside the transaction, and it is the lock under FOR UPDATE that
makes the version it read the one it replaces. For the service it is
`ListedOnce`: `Install` may replace a newer table by an older one, and it is the
lists still under way that bound how old.

Proved for every value of the constants, from `ProviderAssumption` (there are
providers, contents and kinds; adapters are for providers; nothing about the
config file): `TypeCorrect`, `HistoryMatchesTable`, `AuditTruthful`,
`ServiceIsOneTable` (`ServesOneTable`) and `EmptyExplained` (`EmptyOnlyFromFile`).

## 5. The egress pool

### AddressBook

What the owner of a key is promised, without requests, tasks, clients, records or
locks: a book of the address of each key, the set of banned addresses, and the
addresses from which requests left. A key without a good address is assigned one that is
good and has room (`Assign`); before the process serves, a key may also get back
what it had, on a full address too (`Return`); a request leaves from the address in
the book (`Send`); addresses are banned and given back and keys lose theirs (`Disturb`), the end of the
process empties the book (`Crash`). A key to which something happened that may
change its address is `excused`, and the implementation must say what that is;
all other keys are never moved, never lose their address but to a crash, and get no address other
than the one they have sent from.

### EgressPool and EgressBinding

`EgressPool` has one operator per critical section of `internal/egress/egress.go`
in multi_ip mode. `EgressBinding` interleaves them as the goroutines of the
gateway do; an operation of the code that gives a lock back in the middle
(rebinding: unbind, then bind; `ClientForPool`: client map, `BindInPool`, client
map; `EvacuateIP`: mark, list, then one rebinding per key) takes several steps.

| module | code |
|---|---|
| `binding`, `client` | maps `bindings` and `clients` under `Pool.mu`; a client is the address its dialer pins |
| `state`, `streak`, `reputation`, `authFails` | fields of an `IP` under its own lock; the streak saturates at the ban threshold, the largest number it is compared with |
| `Hash(k, C)` | the FNV hash modulo the number of candidates: any set of proposals |
| `row` | `upstream_keys`: status, pool (tier), egress_ip |
| `entry`, `barred` | keys the scheduler has loaded; keys its health table refuses for good |
| `wk[w]` | a request between selection and the mark its answer leaves, through `detectEgressBan`; or a refresh probe |
| `adm` | the operator's handler: import, PATCH of pool or status, PUT ip, DELETE, cut at its database statements and critical sections |
| `rec` | `collectMetrics`: list, `ReleaseBindings`, then `reconcileEgressBindings` key by key |
| `KeyReload`, `Unban`, `Verify` | key_reload with `RetainClients`; `checkEgress` |
| `Start`, `RestoreKey`, `Serve`, `Stop` | `restoreBindings`; the process ends anywhere |

The marks of an answer go to the address the key is bound to when the answer
arrives, not to the one the request was sent from, as in the code. Every write
of `egress_ip` may fail and is then only logged.

History variables: `sentFrom` (the addresses each key's requests left from),
`moved` (keys for which one of the causes occurred that the code changes an
address for: its address was banned, the operator moved or deleted it, its
binding was released on a list older than the key, the process ended while the
record was not its address or of a tier the address does not serve), `dormant`
(keys that were banned when the process ended, which a start does not bind),
`adopted` (bindings that came from the database, which `Adopt` does not count
against the capacity). No guard reads them.

Assumed. One operator, who sends one request at a time; an import names neither
status nor address; a PATCH changes one field. No shards. `BindInPool` reads the
states of all addresses at one instant. `Lookup` takes the bound address and the
cached client in one step, `FailAuth` checks the state and marks in one,
`AdminRefresh` and `KeyReload` list and swap the key pool in one (their
interleaving is in `KeyPool`). An address is not unbanned during its own
evacuation: the back-off of a ban is two hours by default, an evacuation is a loop in memory.

### Properties and runs

* `egress_binding`: one worker, two requests, two keys, two addresses, one
  operation, one stop, every hash. `a1` serves hot keys and has room for both, `a2`
  is general and has room for one, so that a place can be missing. Requests run
  against the operator, `collectMetrics`, key_reload, the egress check and the
  restart at the same time. Checked: `CapacityRespected`, `LifelongAddress`,
  `EvacuationComplete`, and `ImplementsBook`, the refinement of `AddressBook`
  (`book` is `binding`, `sent` is `sentFrom`, `excused` is `moved` or `dormant`). `TypeOK` of
  this module is proved (`TypeCorrect`) and takes no run. Two keys are what a conflict over a place needs, two
  requests what a change of address needs; one stop separates before and after.
* `egress_live`: one key, two tiers, one failure of each kind and no stop.
  `RecordConverges` and `DeletedKeyReleased`.
* `LastEgressKept` (what the guard before a ban is for) fails with two workers,
  each judging another address; see section 9. With one worker it holds.

Fairness (`egress_live`): a handler or task that has begun goes on, since its
calls have deadlines; the periodic tasks run again (`background.every`), and a
supervisor starts the process. Nothing is assumed of the operator, of new
requests or of the egress check.

### Proofs (`EgressBindingProofs`, `EgressHomeProofs`)

For every set of keys, addresses and workers, every hash and every capacity,
from `PoolAssumption`, `HashAssumption` and `BindingAssumption`: `TypeCorrect`,
`CapacityHolds`, `EvacuationHolds`, `AddressForLife`, `BookImplemented`. The argument for the first three: every step but `Unban` and `Stop` is
`PoolSafe`, that is, it respects the capacity, ends no ban, and gives a banned
address no key (`BannedOnlyLose`). Hence the list an evacuation reads after its mark
stays an upper bound of the keys on the address, and a key leaves the list only
in the step that unbinds it. The inductive invariant adds, for each worker, that
it knows the key and the address it works with and that the address it evacuates
is banned (`WorkerOK`). Capacity needs that `BindInPool` counts all bindings except
that of the key itself: then the keys after the step are a subset of a set that
had room, plus one (`BindInPoolSafe`).

`AddressForLife` (`LifelongAddress`) is not inductive either: it says nothing of the
client a request is about to take or of the record a start will read. `HomeInv` adds
where the address of a key that is neither in `moved` nor in `dormant` is kept. While the
process serves it is the binding (`BoundHome`): what was sent, the cached client and
every request between its lookup and its sending agree with it; it is not banned;
the key is on no evacuation's list and in no rebinding order. While it does not
serve it is the record of an active row (`RecordedHome`), and between the start of
the restoration and its end the key is either still to be visited or bound to its record.
Each step of the serving process is `Steady` for the key: it leaves the binding,
or sets one that was empty to an address that is not banned; in the second case
nothing was sent, cached or under way, since all of it would agree with an empty
binding. A step that bans the address, or takes the key away, puts the key in
`moved`. Only two facts about the other goroutines are needed: before the process serves
none of them is at work and no address has a mark (`Quiet`), and an unbinding
by the operator comes from an order (`AdminOrders`). The invariant `HomeInv` was
checked by TLC on the instance of `egress_binding` before it was proved.

`BookImplemented` (`ImplementsBook`) shows the refinement step by step. It rests on
`HomeInv` and on one more fact, `Unrestored`: a start begins with an empty pool and
visits each key once, so what it adopts or assigns replaces nothing. A step of the
serving process is one `BindInPool`, one request sent, or changes bindings only by
losing some (`UpStepShape`). `BindInPool` is `Assign`, since a key that is not excused and has no good address
has none at all and has sent nothing (`BookBind`); the request leaves from the
binding because of `WorkerHome`; a key that loses its binding is excused, because one
that is not is `Steady`. At the start, a key that is not excused and has sent
something has an adoptable record, so only keys without a past are assigned an
address by hash (`BookRestore`).

Model-checked only: the two liveness properties.

### Observed, not checked

* A request that has bound its key creates the client afterwards, with the
  address it got; if the key is rebound in between, the client keeps the old
  address (`egress.go:683`).
* Between the two halves of a migration, a request that compares the binding
  with the one before may write an empty record; `collectMetrics` repairs it.
* A key that was banned while the process restarted does not return to its
  address when revived, although `background.go:398` wants that: the start adopts
  active keys only.
* A key that finds no place in an evacuation is left without binding; the comment
  in `proxy.go` says that it stays bound to the banned address.
* Reputation only falls, although the comment on `MarkSuccess` says it recovers.
* An import that changes the tier of an existing key does not migrate it.

## 6. The key pool

### KeyHealth and KeyPool

`KeyHealth` has the operations of `healthTable` as operators on one record.
`KeyPool` lets requests, the operator and key_reload loose on the rows of
`upstream_keys`, the scheduler's list and the health table, which have no common
lock.

| module | code |
|---|---|
| `row` | `upstream_keys`: status (`NoRow`: none), tier (pool), whether the shard is the one of this process |
| `cells`, `size` | the Go slice `Scheduler.keys`: the array and the length; the array may be longer |
| `health` | `healthTable`, by key; `None`: never seen |
| `wk[w]` | a request in `execute` / `attempt`: scanning, between the two halves of copying an entry, in flight, reading the body, waiting for the next attempt |
| `Request`, `ReadKey`, `Visit`, `Pick` | `Select`: the slice is taken under the lock and read without it; filters; choice by tier |
| `Answer`, `Body`, `Retry` | `reportFailure`, `MarkSuccess`, the loop of `execute` |
| `task[t]` | a handler of the operator, or key_reload, between two statements |
| `Patch`, `PatchTier`, `SetStatus`, `Import`, `ImportStatus`, `Delete`, `Assign` | the handlers: the statement first, then SetKeyStatus and RefreshKey, or Reload |
| `ReadRow`, `DropKey`, `SeedKey`, `PutKey` | `RefreshKey` with `removeKey` and `upsertKey` |
| `ListRows`, `SeedList`, `Swap` | `Reload` |
| `Started`, `Restart` | the first reload, before the server listens, which may fail |

The list is a slice: `Reload` installs a new array, `upsertKey` and `removeKey` write
into the one that scanning requests still hold. A scanning worker keeps its
`view`; while it shares the array (`shared`), `Reseen` shows it what was written.
`shifted` records that `removeKey` moved entries under a scan: such a scan may
miss a key, see one twice, or combine the key of one entry with the rest of the
next. `ScanWhole` says that nothing else does this.

Abstractions. Scores rank candidates; any candidate of the chosen tier may win
(`Pick`). The filters on the interval between uses, on watermarks, on working
hours and on yesterday's usage read clocks and tables outside of the module and
may drop any usable key. `Usable` asks the health table, which ends a cooldown that
is over, as the code does. The operator's status is never `cooldown` or `invalid`
in the runs (`PatchStatus`), the proofs allow any. Seeds of different keys commute
and are one step.

`drift` is the history of the recorded exceptions: a report that takes a record
out of a final status, two PATCHes whose SetKeyStatus run in the opposite order,
an import that sets a status without telling the health table.

### Runs

* `key_pool`: two keys, one request with two attempts, two operations of one
  operator, key_reload, every combination of rows at the start. A scan needs
  two entries to be torn; a stale list needs one operation between its reading
  and its installation, a repeated ban needs two.
* `key_live`: a sharded process, two tiers of which one has no share, a failed
  database read, a restart, two operations: `PoolConverges`.
* `key_banned`: see findings.

Fairness (`key_live`): key_reload starts again every five minutes
(`background.every`), and a handler or task that has begun goes on, since its
statements have deadlines. Failed reads are bounded by `MaxFaults`: a database that
fails for ever keeps the list stale for ever, in the code as well. Nothing is
assumed of requests or of the operator.

### Proofs (`KeyPoolProofs`, `KeyScanProofs`)

For every number of keys, workers and operators and any statuses:
`PoolHasNoTwins`, `BanObserved`, `RevivalNeedsCause`, `TypeCorrect`, `ScanFindsOnce`. The
inductive invariant of `KeyPoolProofs` (`IInv`) joins
to the types of the shared tables (`Tables`) what a goroutine carries from its read
to its write (`Carries`: a list without twins, a row that was active) and `BanKept`: a
key whose row is banned, with SetKeyStatus done and no recorded exception, is
either gone (not on the list, and nobody carries it there) or has a final
record. The disjunction is what makes it inductive: a process that starts after
the ban has no record of the key, one that ran before may still list it. The
lemmas on the list (`UpsertList`, `RemoveList`, `InstallList`) say what each write makes
of the set of keys and of distinctness. `Kept` reduces each step of an operator's
goroutine to what it does to one key. None of this needs to know where a request
is: nothing a request carries is written into list or rows.

`KeyScanProofs` adds where a request is (`SInv`). A worker that shares the array and
saw no shift reads a prefix of the list (`Follows`); then what it took has no key
twice, each candidate is the key of the entry it was found at, entries give one
candidate each, and the half of an entry that was copied is still that entry's
key (`Whole`). The last point is what a write in place might break between the two
reads of `Visit`: `upsertKey` may change the tier of the entry, never its key. The
lemma `ReseenStep` says it once for the three ways of writing in place, from two
facts: the array does not shrink, and without a shift the list's entries keep their keys;
`InstallReads` is the other case, a worker left alone with the old array. The bounds
of `TypeOK` and the type of what a worker carries (it asks the upstream about a
known key, it reads within its slice) are part of the same induction.
Model-checked only: `PoolConverges`, which is liveness.

## 7. The refresh prober

### Refresher

Providers share nothing but the map of handles, so the module follows one. The
upstream is part of it: it renews the quota of a key at some moment of the
window, serves a probe only if quota is left, and any probe may get no answer.

| module | code |
|---|---|
| `prober[i]` | a goroutine of `runRefresher` with its `Refresher`: context, states and last probe of each key, limits, where its round is |
| `handle`, `hand[h]` | `background.refreshers`; a handler of the admin API between the swap of the snapshot and its answer |
| `Begin`, `Consider`, `Probe`, `ResetToken`, `ResetCount`, `End`, `Exit` | one `Tick`: window, due keys (offset, interval), probe, `confirm` in two calls, `markUnconfirmedFailed`; `resetAfterWindow` |
| `Change`, `ReadSnapshot`, `Apply`, `Start`, `Answer` | write and swap; `reconcileRefreshers`: the snapshot is read, the handle is looked up (limits are updated, a prober is stopped), a prober is started and its handle stored; the end of the request and of its context |
| `count`, `limit` | the counters as `MarkRefreshed` and the requests (`Use`) leave them |
| `Renew`, `Use`, `Answers` | the upstream |

The map of handles has no lock. A handler that finds no handle (`Apply`) starts a
prober and stores its handle later (`Start`); two handlers may both find none, and
the handle stored first is lost while its prober runs on under the context of
its request. (Two accesses at the very same moment end a Go process with "concurrent map
writes": that is a `Restart`.)

`zeroed`, `excused`, `answered` and `overlap` are history. `excused` counts what is known
to repeat a reset: a reset whose success was not seen or forgotten with the prober or
the process (`Forgotten`). `overlap` says that two handlers have
reconciled at the same time since the process started. Left out: the ramp factor,
`State` and `Schedulable` (no caller in production), and `store.UpdateRefreshState`
(never called: a restart forgets which keys are confirmed, which is modelled).
What the counters mean to leases is in `QuotaLease`.

### Runs

* `refresher`: one key, days of four units with the window in the second and
  third, two limits, two handlers, at most two disturbances (a change of the
  configuration, a reset that fails or whose answer is lost, a restart). Two
  disturbances are what a second reset needs; two handlers are what a wrong
  order of reconciliation needs. The clock ends one unit after the window and
  before the second quota day ends. Each key has its own offset, state and
  counters; what they share is the order within a round, so that one key is
  enough here, and the violation runs use what they need.
* `prober_dies`, `prober_early`: see findings.

No liveness is claimed: the prober of a provider that was added by a reload is
gone (`prober_dies`), and one of a configured provider may find the upstream
silent for the whole window.

### Proofs (`RefresherProofs`)

For every set of keys and handlers and any limits: `TypeCorrect`, `LimitsConsistent`,
`ProbersAligned`, `RemovedProbersStop`. Needed besides: a prober between its two resets
wrote the first with the limit it keeps for the second (`Rounds`); a prober without
a handle runs under the context of a request (`Contexts`), which is why `RemovedStops`
holds in spite of the map without a lock; and while only one handler reconciles,
its snapshot is the current one (`Alone`).

`ResetAfterAnswer` and `ResetOncePerDay` prove `ResetNeedsAnswer` and `ResetOnce` for any
number of days, where the run has one window. They add the clock to the invariant: a
round stays in the quota day in which it began (`RoundTimed`), a reset follows an
answer of that day (`Asked`), and a prober that was through with a key in a window
does not come back to it before that window is over (`Done`, `Once`). The arithmetic
they need is division by the length of a day (`Division`, `Shift`, `SameDay`,
`WindowOfDay`).

Both have the hypothesis `WindowInDay`: from the opening of the window until its
end and the length of a round, no quota day begins. `internal/config/validate.go:137-147`
does not ask for this, since the hour 12 at which the quota day begins is fixed in
`internal/quota/quotaday.go` and the window is configured; the defaults
(12:00 to 14:00) satisfy it. Without it both properties are false: with a window
that straddles the hour TLC shows a key confirmed before the hour whose counter of the new
day is reset without an answer of that day, and one that is reset twice.
`ResetOnce` also has the premise `~overlap` in its statement, and needs it: TLC finds
two resets where two handlers started a prober each.

## 8. The life of a request

### RequestLife

All requests are of one user with one token; other tokens and users have cache
entries and buckets of their own.

| module | code |
|---|---|
| `gate`: `Enter`, `Leave`, `Signalled` | `requestGate`: flag and counter under one lock |
| `entry`, `call` | `authCache`: entry with its expiry, the lookup in flight |
| `Authenticate`, `Fetch`, `Close`, `Keep`, `Wake`, `Evict` | `authCache.authenticate`: hit, single flight; the three steps of the owner (read the row, publish, store), and those who wait; the emptying of a full cache |
| `op`: `Revoke`, `Clear` | the handler: the row, then the cache |
| `bucket`: `Limit`, `Refund` | `luaTokenBucket` with refill and the widening for a single large estimate; the refund; failing open |
| `pipe`: `Record`, `Send`, `Receive`, `Turn`, `Flush` | `usageWriter`: flag, channel, loop, batch |
| `life` | `main`: the server's Shutdown, the drain, the store, the writer, each wait with its limit |

The attempts are one step (`Run`): how they go is for the other modules.
The bucket of requests per minute is a rejection that may happen at any time.
The expiry of idle buckets is left out. A handler that sends to the closed
channel panics; `net/http` recovers it, so that only the record is lost.

`Shutdown` is the orderly end only: a signal, or the end of the metrics listener.
When the gateway's own listener fails, `run` returns at once (`main.go:368`) without
`Shutdown`, drain or `bg.stop`. That is a crash and not modelled here: `CleanExit`
and `DrainedMeansEmpty` say nothing of it.

History (`past`): `raced` (a lookup had read the row before the revocation and stores it
after the cache was cleared), `unpaid` (refunds of what was let in without Redis),
`cut` (a wait of the shutdown ran into its limit). No guard reads them.

### Runs

* `request_life`: two requests, a TTL of one, an estimate above the capacity, one
  place in the channel, batches of two, one failure, the end of the process
  at any moment. Two requests are owner and waiter of one lookup, two
  records for one place in the channel, and the last one in a closing gate.

`HitFresh`, `RevocationHolds` and `CleanExit` hold with the exceptions their
comments name; each exception is reachable.

### Proofs (`RequestLifeProofs`)

For every set of requests, TTL, capacity, rate, channel and batch: all seven
invariants of the run. Needed besides: the gate counts exactly the requests
inside (`GateCounts`), every record is in one place (`RecordsAccounted`, with
`WriterState` for the order of closing), the lookup in flight has its owner among
the requests (`LookupOwned`), what an owner has read was true at most `TTL` ago
(`LookupFresh`, `Revoked`), and what the bucket holds together with what was taken is
covered by capacity and refill (`BucketCovers`). The sums over requests are
cardinalities or counters, so no induction over data is needed.

## 9. Findings

Each is a run that TLC refutes, for a property that a comment states.

1. `prober_dies` (`HandleAlive`) - the handlers that reload the configuration
   reconcile the probers under the context of their request
   (`admin_provider_version.go:289`, `:325`, `background.go:737`): the prober of a provider
   that is added ends when the request is answered. Its handle stays, and later
   reconciliations only update its limits. `main.go:321` adds the call so that
   such providers do have a prober.
2. `prober_early` (`ZeroedIsRenewed`) - the probe takes any answer with status 200
   for a renewed quota (`main.go:773`). A key with quota left answers 200 before
   the upstream renews anything, and its counter is set to zero; `refresh.go:30` and
   `:57` rule that out.
3. `key_banned` (`TerminalIsFinal`) - the late 429 or quota failure of a request in
   flight puts a banned or invalid key into cooldown (`health.go:157`), from which it
   becomes active; `health.go:133` calls both statuses final.

### Known divergences without a run

Statements that comments or documents make and that fail when the definition is
named in the cfg of the run in brackets. They stand in the modules so that a
change of the code can be checked against them.

* `WatermarkAlwaysHolds` (`quota_safety`): `docs/overview.md:29` says
  `used + prededuct <= hard` always holds. `luaCommit` books the whole consumption,
  and the watermark was checked for the estimate. The bound that holds is
  `OverspendBounded`.
* `UnexpiredLeaseCovered` (`quota_safety`): the comment of `luaReconcile` rules out a
  deviation towards overspending. An expired lease that is not reaped yet is
  left out of the sum and subtracted later, from another lease's reservation;
  `ReservationsCovered` names the amount.
* `HeadSnapshotMatchesRow` (`provider_versions`): the snapshot of a rollback across a
  deletion carries the deleted flag of the row before.
* `ConfirmedIsServed` (`provider_versions`): a reload that read the table before a
  write may swap its snapshot in after the write was answered with
  `"reloaded": true`.
* `ServesSomething` (`provider_versions`): `load.go:56` says that `Validate` refuses an
  explicitly empty `providers` section; it does not. Seeding refuses an empty file
  only if the table has no row that is not deleted (`provider_seed.go:39`). With
  disabled rows only, the reload at boot refuses the empty set and the process
  serves the empty file, which `provider_seed.go:14` calls the costliest failure.
* `LastEgressKept` (`egress_binding` with two workers): the guard against banning the
  last usable address and the ban are two steps.

Observed while modelling, and part of the models where state is concerned:

* A start that dies half-way through seeding leaves a table that the next start
  takes for complete: `provider_seed.go:118` interrupts the start so as not to
  run with some of the providers, and the restart does.
* `PATCH` to cooldown sets no end of the cooldown (`health.go:222`): the key thaws at
  the next selection. An import with a status does not tell the health table.
* Two concurrent PATCHes may call SetKeyStatus in the other order than their
  UPDATEs. `removeKey` shifts the array under a running Select, and `RefreshKey` writes
  the history map (`scheduler.go:405`) while Select reads it unlocked.
* Scores and statuses of the health table are never persisted (`adapters.go:203`).
* `newProbe` keeps the snapshot it was started with; `main.go:705` says that a
  reconciliation rebuilds it. The comment at `background.go:60` calls accesses to the
  map of probers serial; handlers reconcile concurrently. A round that runs past
  the end of the window leaves keys pending or probing (`refresh.go:243`).
* A revocation whose database reply is lost answers 500 and does not clear the
  cache; the retry finds nothing to revoke. Only the TTL ends the access then.
* A refund after a request that was let in without Redis adds tokens that were
  never taken; a rejection by the token bucket does not give the request bucket
  its unit back.
* The comment at `server.go:487` has usage recorded when Shutdown returns; records
  are written asynchronously by the usage writer, which is closed later.
* A failed reload at start does not stop the process (`main.go:250`): it serves
  without keys until key_reload succeeds.

## 10. Limits

* Liveness under fairness is model-checked, on small instances; TLAPS has no
  ENABLED. Whether the proofs' constants are realistic is for the ASSUMEs to say.
* Nothing is defined with RECURSIVE, so that every module can be proved about;
  sums are cardinalities for the same reason.
* The clock of every run ends at a bound (`Horizon`, `MaxTime`), operations, requests,
  failures and restarts are counted against bounds named in the modules. The
  theorems hold for every value of these bounds.
* `DEADLOCK` is not checked where a process may rightly stop for ever: the clock at
  its bound, the operator finished, the process ended.

### Not modelled

* Provider adapters, persona, metrics, HTTP helpers, error bodies: data or
  formatting that no other part's state depends on. An estimate and a
  consumption are arbitrary numbers within bounds.
* Scores and weights of the selection: a choice among the candidates.
* Streaming and parsing of answers: an outcome of the attempt.
* The daily archive and the queries of the history, usage statistics, listings:
  single idempotent statements or read-only.
* Configuration file and environment (the constants of the modules, but for the
  providers that the file declares), egress
  discovery (I/O at start), the dashboard, the mock upstream, scripts and
  deployment.
* AES of secrets, the connection pool, migrations: cryptography and I/O.
