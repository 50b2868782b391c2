# A verification development for WcsTransfer

WcsTransfer is a gateway in Go that proxies OpenAI-, Anthropic- and
Gemini-style requests to upstream providers, spreads them over provider keys,
limits and bills its clients and watches its own books. This directory holds
TLA+ modules of the parts of `src/backend` that keep state while requests run
concurrently, TLC configurations that check them on small instances, and
TLAPS proofs of what matters most for every size of instance.

`PROJECT.json` lists the components, the runs, the source lines of every
definition (`map`), the seeded bugs that show each property can fail
(`mutants`), the hazards of the code and the theorems.

    tlc -workers 2 -config Billing.cfg MCBilling.tla      # a run
    tlapm Billing_proofs.tla                              # the proofs of a module

## The system

| component | state | operations | modelled in |
|---|---|---|---|
| Worker pool (`platform/worker.go`) | buffered channel, goroutines, context | `Submit`, worker loop, `runTask`, `Stop` | `BackgroundWorker` |
| Process (`app/server.go`, `platform/dependencies.go`, `cmd/server`) | HTTP server, open stores, pool | `Run`, `Shutdown`, `Close`, handlers' deferred submissions | `ServerLifecycle` |
| Wallets (`repository/postgres/store.go`, `middleware/public_api_auth.go`, `api/openai/handler.go`) | `tenant_users.wallet_balance`, `tenant_wallet_ledger`, `request_logs` | admission, reserve check, log write, usage debit, administrator credit and correction | `Billing`, `WalletAccount` |
| Reports (`GetUserBillingReconciliation`, `GetUserBillingDebitAnomalies`) | none of their own | queries over the wallet tables | `Reconciliation` |
| Key health (`service/keyhealth`) | `sync.Map` from key to end of penalty | `Current`, `Penalize`, `Clear`, `EnrichKeys` | `KeyHealth` |
| Routing (`orderedKeys`, `buildProxyAttempts`, attempt loops) | round robin counters, the request's attempt list and context | start, filter, attempt, fail over, retry, answer | `ProviderRouting` |
| Quotas (`service/clientquota`, `middleware/public_api_quota.go`) | Redis counters with a time to live | `ConsumeRequest`, `AddTokenUsage` | `ClientQuota` |
| Alerts (`service/*alert`, `service/reconciliation`, `service/alerting`) | a map of alerted subjects per service | ticker, query, `markAlerted`, webhook, `clearRecovered` | `Alerting` |
| Client keys and budgets (`AuthenticateClientAPIKey`, `UpdateClientAPIKey`, the portal's key handlers, model access, budgets) | users, key rows with their models, request logs, portal tokens | authenticate, decide, log; update in a transaction, create, disable, log in | `ClientKeys` |
| Figures and log lists (dashboard, portal, budget pressure, log pages, export) | none of their own; a reader between two pages | queries over keys and logs | `Reports` |
| Request outcome (`stream*UpstreamResponse`, `apply*Usage`, the handlers' `logState`) | the log state of one request, the stream's parser | estimate, refuse, read a chunk, extract usage, fail, finish | `RequestOutcome` |
| Catalog of providers, keys and models (`api/admin`, `ResolveModelRoute`) | three tables and the audit trail | create, update, record; resolve by two queries | `Catalog`, `AdminAction` |
| Vertex AI clients (`getVertexAIClient`) | map under an RW mutex | look up, lock, look again, create | `Catalog` |
| System API, configuration, schema, frontends, the plain lists and password pages of the admin API | none, or single rows | reading, pinging, wiring | not modelled |

How they interact. A proxy request passes `PublicAPIAuth` (key, user and
wallet balance, read once), `PublicAPIQuota` (Redis) and then its handler,
which resolves the model's route, orders and filters the provider keys by the
shared tracker, and tries them in a loop under one context. When the handler
returns, its deferred functions hand two tasks to the worker pool: the log
task, which writes `request_logs` and then debits the wallet in a second
transaction, and the token task, which adds to the day's Redis counter. The
alert services and the reports read the tables those tasks write. Administrators
and users change the catalog, the keys and the wallets meanwhile, by handlers
that commit a change, sometimes read it again, and then write an entry of the
audit trail. On shutdown the HTTP server drains, the pool stops and the stores
close, in this order.

What is hard. Everything after the answer is asynchronous and in memory:
queues fill, processes die, a second transaction fails after the first. The
balance and the token count a request is admitted on are snapshots, and what
the authentication reads mixes a snapshot with a row it may have waited for. A
route and a log page are two statements each. The key
tracker and the round robin counter are shared by all requests without a
common lock. Counters expire by Redis's clock while requests are held up. The
`hazards` list names each of these at its line, with the property that would
catch it going wrong or the reason why none does yet.

## Conventions

* An operator whose comment begins with "Seeded bug" is a plausible wrong
  version of the definition that follows it. It is used by no specification:
  `PROJECT.json` says which property fails when it takes that definition's
  place.
* "bound" in a comment marks a limit that only the model has; "history" marks
  a variable that the code does not keep and that only properties read.
* Values of data are abstract: an upstream answer is one of `unauthorized`
  (401, 403), `limited` (429), `server` (5xx), `rejected` (any other refusal),
  `ok` or a transport `error`; payloads, headers, wording and log lines are
  left out.

## The modules

**BackgroundWorker.** `taskChan` is the buffered channel, `alive` the
goroutines that have not returned, `current` what each runs, `stopCall` how far
`Stop` has got. `Submit` is the non-blocking select with its three outcomes:
queued, dropped, and the panic of a send on a closed channel. A worker's select
may choose either ready case, so `Return` is enabled as soon as the context is
cancelled even when tasks are buffered. A task ends well or panics; `runTask`
recovers. The synchronous mode (`isSync`), which only tests
use, is not modelled.

**ServerLifecycle** composes the pool with the process that uses it: handlers
arrive, defer the log task and then the token task, the process drains under its
timeout or fails to serve, and `Dependencies.Close` stops the pool, closes Redis
and closes Postgres. Handlers may arrive while the server drains, as they do on
connections already accepted. It extends `BackgroundWorker` with tasks that are
pairs of a request and its kind (`LifecycleAssumption`; `MCServerLifecycle` gives
`Tasks` that value), so that each step of the process says what the pool does in
it. A `Submit` that meets the closed channel panics in a deferred function; what
that costs, and that only a process which has not drained gets there, is
`PanicsExplained`.

**WalletAccount** is the abstract account: credits, corrections that may not
overdraw, charges that take what is there, each atomic, and each request charged
at most once. **Billing** is the code: admission compares `Covers` with the
balance read then, the log row and the debit are two transactions of a background
task, `tx[x]` is an open transaction, which holds the row lock of its user from
`SELECT ... FOR UPDATE` to its commit or rollback, and `Crash` loses all that is
in memory. Money is in units of the wallet column `NUMERIC(18,8)`; the ledger's
`NUMERIC(14,4)` columns hold `ToLedger`, rounded half up to multiples of
`LedgerUnit` wallet units, and the ledger's `CHECK (amount > 0)` is a guard of
`Commit`. `Reject` leaves out the log row of the rejection, which has no amount.
**Reconciliation** adds the two reports as functions of Billing's state.

**KeyHealth** is the tracker. `Current` is `Load` and, when the entry has run
out, `Delete`, with any other step between them. `Penalize` reads the clock and
stores in one step. Time is discrete, and the cooldowns of 10 s, 30 s and 10 min
are 1, 2 and 3 ticks: only their order matters. **ProviderRouting** uses the
tracker for whole requests: `Start` (route, active keys, rotation), `Check` per
key, `Build` (the last key is tried again), then `TryNext` or `Answer` per
attempt, with `CtxDone` between any two. The strategies `fixed` and `failover`
are the same code. The embeddings loop, which does not ask whether the retry of
the last key can help, is the endpoint `embeddings`; messages and Gemini have
the loop of `chat`. Debug requests that name a key are `StartPinned`.

**ClientQuota** keeps, for each counter and calendar window, the value and the
time at which Redis drops it. The clock of a request is read once, at `Begin`;
its up to three calls to Redis are separate steps; its tokens are added later by
a task that reads the clock again, in one step with its increment. A time to live
is cut to whole seconds on its way to Redis (`formatSec`, which is go-redis's), so
that a day's counter may be gone in the day's last second (`LastSecond`): the
properties say what holds before that second and what is left in it. A limit of
zero is no limit, and a failing Redis refuses the request.

**RequestOutcome** follows `logState`, the record a handler fills while it runs and
hands to the background tasks when it returns. The five handlers (`protocol`) share
their phases and differ where the code does: which usage report overwrites,
accumulates or computes its total (`Applied`), which read error takes the success back
(`BodyFails`), and Vertex AI's SDK, which meters before it writes. `StartEvent` and
`EndEvent` are a read that brings the first part of an event and one that brings the
rest; `parser` holds the event between them. `stream` is the line end of a stream: the
parsers look for an empty line between two LF only, so the events of a `crlf` stream
are passed on but never read. A report may leave out any of its numbers. `Owes` and
`Counts` are the conditions of the two tasks, which `Billing` and `ClientQuota` take
from there. The refusals before the estimate are one action, as they leave the same
log state.

**AdminAction** is the frame around every changing handler of the admin API: `Refuse`,
or `Commit` and `Record`, or `CommitThenReload`, `Reload` (which may fail after the
commit) and `Record`. `stage` is how far a call has got, where `error` is every answer
that is an error, before or after a commit; `told` is the row its store call returns,
`trail` the audit entry, `wrote` a history variable. It is instantiated by the two
modules that own rows.

**Catalog** has the three tables `providers`, `keys` and `models`, the
administrators' handlers that insert and overwrite rows, and the proxy requests
that resolve a name: `ReadModel` and `ReadKeys` are the two queries of
`ResolveModelRoute`, and any change can be committed between them. A request
whose provider is a Vertex AI project goes on with `getVertexAIClient`: `LookUp`
under the read lock, `Lock` with the second look, and `Create`, which ends with a
client or with an error and unlocks. `Crash` empties the client cache and keeps the
tables.

**ClientKeys** has the tables of users, client keys, their models and the request
logs. `UpdateClientAPIKey` is a transaction: `BeginUpdate` is the UPDATE that locks
the key's row and the DELETE of its models, `CommitUpdate` the INSERTs and the commit,
`RollBack` its failure. The authentication of a request is one statement with an
UPDATE inside: it starts from a snapshot (`Authenticate`, the snapshot is `seen`), may
have to wait while a transaction has the key's row, and then takes the row as it is
and the rest from the snapshot (`Decide`). `Verdict` is the decision of
`PublicAPIAuth` and the handler on that answer. `FormIn` puts a key's row and models
together as the administrator's form has them; `PortalForms` are what a user can ask
for, which is a name, here left out, and an expiry. `LogDebugRequest` is a debug
request of an administrator, whose log row has an amount and no client key.
**Reports** adds the queries that sum the logs, and the reader of the log list, whose
pages are a count and a selection each. `AnyKey` is a query without a condition on the
key. The days of `DailyStats` are the database session's, but its limits are midnights
of UTC, `ZoneTicks` later than the session's. A list cut off by LIMIT and OFFSET is
the set of those whose `Place` in the order falls into the `Slice`.

**Alerting** is the algorithm that five services share. `listing` says whether
the query returns the anomalous subjects only (missing debits, blocked wallets,
provider errors) or all subjects with their state (reconciliation,
dependencies). The world changes at any time; the service sees it in `Query`
only. A webhook call that fails changes nothing, since `markAlerted` comes first.
`told`, a history variable, is the number of the process that has last called the
webhook about a subject since a query found it well; a restart empties the map of
the alerted and leaves `told` alone.

## The runs

| run | configuration | what it shows |
|---|---|---|
| `worker_pool` | `BackgroundWorker.cfg` | with 4 tasks, 2 workers and a buffer of 2 (so that it fills and overtaking is possible): accepted tasks are delivered in order and exactly once, each of them starts, bursts that fit the buffer lose nothing, `Stop` returns and leaves nothing running |
| `worker_graceful` | `BackgroundWorkerGraceful.cfg` | violation: `Stop` abandons buffered tasks |
| `lifecycle` | `ServerLifecycle.cfg` | 2 requests with their 4 tasks, both ways of ending: tasks run on open stores only, a submission panics only after a shutdown that did not drain, shutdown ends |
| `billing` | `Billing.cfg` | 2 requests and 2 administrator calls on one wallet: ledger chain, charges against log rows, the reserve's race, both reports, refinement of `WalletAccount`, every log task concludes |
| `billing_tiny` | `BillingTiny.cfg` | violation: a charge below half a ledger unit is never debited |
| `routing` | `ProviderRouting.cfg` | 2 requests and an admin page, 2 keys, round robin and pinned keys, both loops: no early failure, no useless retry, penalties are earned, keys are chosen, skipped and pardoned for cause, rotation spreads, every routed request ends |
| `routing_race` | `RoutingRace.cfg` | violation: reading a health entry deletes a fresh cooldown |
| `quota` | `ClientQuota.cfg` | 3 requests over a day of 2 minutes of 2 ticks, and into the next day: limits per window, overshoot of tokens only by overlap, no token lost before the day's last second |
| `alerting` | `Alerting.cfg` | 3 subjects, both listings, 2 restarts: one alert of each process until recovery, lasting anomalies are told |
| `outcome` | `RequestOutcome.cfg` | one request of each protocol through every refusal, failure and cut of its stream: only whole answers are debited, successes carry the last usage reported and its price, unless their stream is in CRLF, the log row tells success from failure, what is billed is counted |
| `catalog` | `Catalog.cfg` | 2 administrators and 2 requests, one crash: a route is what one look would have found unless a change overtook it, one Vertex AI client per project, a true audit trail in which only changes with a failed reload are missing, and nobody waits for the client lock for ever |
| `client_keys` | `ClientKeys.cfg` | 2 administrators, a user, 2 keys, 2 requests, debug requests and a reader of the log: rights of two forms never mix, admission is what the tables entitle to unless overtaken, nobody waits for a key's row for ever, the reports agree with each other, the pages of the log leave out no row |

Bounds and why they suffice. *Billing*: two requests of one owner are the fewest that
can overspend a shared snapshot, two administrator calls the fewest that can lose an
update to each other; with `LedgerUnit = 4`, the billables 1, 3 and 6 round to 0, 1
and 2 ledger units (one refused, one rounded up, one half way), reserves 0 and 5 lie
on both sides of them, and the administrator amounts 4 and 8 let a wallet be too low
for one, both or neither of the charges. Different users share no row, so one user
shows all interleavings; the proofs are for any number. *Routing*: `MaxTime = 2` lets
the 10 s and the 30 s cooldown start, run out or be in force during a request; two
keys give rotation, failover and the retry of the last key. A transport `error` is
always possible; of the answers the run has `unauthorized`, the one failure whose
retry the loops decide differently, and `ok`. `limited` and `server` are failures like
`error` but for the length of their cooldown, `rejected` ends the loop like `ok`
without pardoning. `RoutingRace.cfg` has `limited`. *Quota*: requests equal the limit
plus one, the clock passes two minutes and midnight, the usage equals the token limit
so that one request can exhaust it; a second is 2 ticks, so that a time to live is cut
by less than one, and the last second is the second half of the day. That a day admits
no more than twice its limit in its last second takes more requests than the run has:
for that the proof stands. *Pool*: one task more than worker and buffer hold is
dropped, and two workers are the fewest that can overtake. *Alerting*: subjects are
independent but for the round they share, in which one can be first, one in the middle
and one last. *Outcome*: the estimate differs from the upstream's count of the prompt,
so that one taken for the other shows, and two completion tokens let a report be
followed by a larger one, which tells cumulative usage from increments. *Catalog*: two
administrators are the fewest of whom one changes what the other has just changed or
records a change that is no longer there; two requests race for one client. The
database starts with a provider, a key and, or not, a model; the second provider and
key can be created, and the addresses are one Vertex AI project and one ordinary host,
so that keys are needed, or not, and rows move from one provider to the other.
*ClientKeys*: the calls, requests, days and crashes that a behaviour begins are taken
from one allowance (`MaxWork = 3`): three of them, of any kind, are enough for two
transactions on a key with a request between them, or for a request overtaken by a
day, a change of its owner or another request's log row. The forms are a key with two
budgets and one that expires, with different models; a user's key ends at the start,
at the end or never. A month has two days of two ticks, and the logs at the start lie
in both of them and on both sides of a midnight of UTC (`ZoneTicks = 1`); one row has
no key. *Reports*: page, export and list lengths of 1 and 2 are all exceeded by the
log.

Fairness. Pool: goroutines are scheduled, and a task ends because `runTask`
gives it a context of 30 seconds; nobody must submit or call `Stop`. Lifecycle:
the shutdown timeout and `Close` are taken; handlers get none, since an upstream
call may outlast the timeout. Billing: an accepted task proceeds and open
transactions end, both under a deadline; requests, upstreams and administrators
get none. Routing: a handler proceeds, because an upstream call ends at the
latest with its context. Alerting: the ticker ticks, webhook calls end by their
client's timeout, and queries are assumed not to fail for ever. Catalog: while
there are requests in `getVertexAIClient` that can take a step, one of them takes
one (weak fairness of their disjunction: creating a client ends at the latest with
the request's context); administrators and crashes get none. ClientKeys: while
a transaction is open, some transaction is committed or rolled back, as each
statement runs under its request's context, and while an authentication can have
its row, some authentication gets it. The outcome of a
request needs none: its properties are of finished requests.
`CHECK_DEADLOCK FALSE` is set because every instance ends: tasks, requests and
clock ticks are finite.

## Where documentation and code differ

The violation runs and their traces are the evidence for the `findings`.
Further divergences are visible in the modules without a run:

* `fixed` fails over like `failover` (`handler.go:978`);
* a later and milder failure shortens a running cooldown (`tracker.go:46`);
* the limits are those of calendar minutes and days (`clientquota/service.go:46`),
  though `FEATURES.md:70` says "Redis 滑动窗口限流"; twice the limit gets
  through around the turn of a minute;
* a day's counters may end up to a second before the day (`clientquota/service.go:183`,
  whose time to live is sent in whole seconds);
* an alert is sent once per provider until it recovers, says `FEATURES.md:219`: once
  per process, as the map of the alerted is in memory (`provideralert/service.go`);
* the usage of a stream in CRLF is never read (`handler.go:1429`, `anthropic.go:506`,
  `gemini.go:603`), so that it is a success for nothing;
* `timeout_seconds` bounds all attempts of a request together
  (`handler.go:502`), which `FEATURES.md:119` calls that of a single upstream request;
* a stream that fails after a usage report is logged with the reported usage,
  one that fails before it with the estimate (`CHANGELOG.md:28` and
  `FEATURES.md:166` say that failures keep the estimate);
* an answer whose body cannot be read is logged with `success` true and status
  502 by embeddings, messages and Gemini (`handler.go:902`); chat takes the
  success back. Nothing is debited for it, since no usage was read;
* a 401 or 403 from the last key of a request imposes no cooldown
  (`handler.go:573`: only an attempt that is followed by another penalizes),
  though `FEATURES.md:108` says "上游 401 → 冷却 10min";
* the audit entry is written after the change, outside its transaction; the
  comment there (`admin/handler.go:1490`) wants no "confusing 500 after commit", but
  `UpdateClientAPIKey` and others read the row again after their commit, and
  when that fails the change has been made, an error is answered and nothing is
  recorded, and the answer is that of a refusal (`TrailIsTrue` leaves room for
  exactly that);
* the form of `UpdateClientAPIKey` replaces the whole row (`store.go:494`), so that
  it re-enables a key that its owner has disabled since the form was loaded;
* a disabled user's portal token stays good until it expires
  (`tenantauth/service.go`), as only `Login` looks at the status;
* `POST /admin/client-keys` (`FEATURES.md:185`, `README.md:59`) has no route:
  administrators change keys, users create them;
* day and month begin in the time zone of the database session
  (`date_trunc`, `store.go:1065`), while the portal's daily figures are limited by
  midnights of UTC (`tenant/handler.go:319-349`) and divided by the session's days
  (`store.go:2324-2338`): where the zones differ the first or last day of a range is not
  whole. The query casts its limits to dates as well, and PostgreSQL may take them
  for dates then; that is `ZoneTicks = 0`, which the proof covers;
* the dashboard sums the rows of debug requests too, which no portal and no key
  has (`store.go:1341-1354`);
* the total and the page of the log list are two statements
  (`store.go:1144-1230`): a row that is logged between those of the last page can push
  the oldest one off the end (`PagesCoverAll` excepts that case).

## The proofs

All theorems are proved for every value of the constants that satisfies the named
assumptions (`PoolAssumption`: the buffer holds at least one task and `NoTask` is no
task; `BillingAssumption`: types of the parameters, requests and administrator calls
are different, a ledger unit is positive; `OutcomeAssumption`: token counts and prices
are natural numbers, a prompt has a token and a token of it a price;
`CatalogAssumption` and `ClientKeysAssumption`: the database at the start has rows of
their types that refer to rows that are there, `NoRow` is no row, and, for
`ClientKeys`, the rights of a key at the start come from one form and the clock starts
after the log's rows; `ReportsAssumption`: there are finitely many keys and users, and
keys are numbers; `LifecycleAssumption`: each request has two tasks;
`AlertingAssumption`; `RoutingAssumption`: there are finitely many keys, each has a
rank of its own in the provider's order, and `MaxTime` is at least 1;
`QuotaAssumption`: limits and usages are natural numbers, some usage is the largest, a
minute and a day are positive).

Every safety invariant and action property that a passing run checks is stated
by a theorem, and so are the refinement of the account (`AccountSpec`)
and the type invariant of every component.

*DataLemmas* has what several of the proofs need and the library does not: how to
reason about sums, lists and other data without induction on an operator.
`SubsetInduction` is its base: among the subsets of a finite set the strict
inclusion is well-founded (a fact of the library), so a family of subsets each of
which contains a smaller one is empty. Applied to the sets of counterexamples it
gives least and greatest numbers, that `SumFunctionOnSet` is determined and sums
by one member after the other (`SumIsSums`), in any order (`SumRemove`), over
disjoint sets (`SumUnion`), and over the classes of a partition (`SumPartition`).
`Orders` is a strict total order as the sets of predecessors; `ShortListIsAll`
and `MissingIsBehind` say what the first n members of a finite set leave out:
nothing if they are fewer than n, and otherwise only what is behind all of them.
The functions are arguments of the lemmas, so that no operator has to be
instantiated.

*Process_proofs*, of the pool, the lifecycle and the alerts. `PoolTypeCorrect` and
`PoolFifoDelivery` are inductive as they stand. `PoolKeepsStrength` and
`PoolStoppedIsQuiet` follow from `WorkerInv`: a worker that runs a task is alive, all
are alive while the channel is open, and none is when `Stop` has returned.
`PoolOnePlace` needs `PlaceInv`: its own statement says nothing of a task that has
left the channel, so the invariant adds that what a worker runs is in `started`. With
`FifoDelivery` the head of the channel has not been started before (`HeadIsFresh`),
and so two workers never hold one task. `PoolDeliversInOrder` puts the two together
into the property of the run. `PoolBurstsFit` follows from `FifoDelivery`: when a task
is dropped the full channel's tasks have all been accepted.

`LifecycleInv` relates the phases of the process to
the pool: stores close only after `Stop` has returned, when no worker is left to
run a task; `Stop` has not begun while the process serves or drains; a drained
process has no handler in flight, and a submission is refused only after `Stop`
began without a drain. `SubmitsInv` adds the order of a handler's submissions: a
request whose log task was refused has its other task unsubmitted or refused too
(`LifecyclePanicsExplained`). `LifecycleUsesPool` shows each step to be a pool step
or a stutter, by the way the lifecycle is written, so that the pool's invariants
hold in it.

`AlertTypeCorrect` is inductive as it stands. `AlertsInv` makes
`AlertsOnceUntilRecovered` go through: what was told is in the map, and during a round
it is among the subjects that the query found; so a subject leaves the map only when
the query has not found it, and it has been forgotten as told then. Both are said of
what the present process has told (`thisProcess`): a restart makes all that is in
`told` an earlier process's.

*Billing_proofs.* Inductive invariants of three kinds of facts, and two of the
reports. `TypeInv` is `TypeOK` with `TxInv`: whoever is debiting or has an open
administrator call has a transaction with the right user, direction and amount, and
nobody else has one. `LockInv`: two actors with transactions have different users, and
the balance a transaction read is still the wallet's, which is what the row lock is
for and why `LedgerChain` and the refinement hold. `ChargeInv`: an entry written by a
request is the only one, is a debit of a settled request that is logged as a success,
of its owner and of its amount; a pending debit has its successful log row; a reserve
never exceeds the balance admitted on. `LedgerChain` follows from the lock because a
commit appends an entry that starts at the rounded present balance;
`BillingImplementsAccount` maps a commit to a credit, correction or charge and every
other step to a stutter. `DiffInv` carries the reconciliation: of each wallet, twice
the distance between the balance and what the ledger's entries and the written off
amounts add up to is at most a ledger unit per entry, which an appended entry keeps
because a sum over a sequence grows by its last member (`SumAppend`), its amount was
rounded by at most half a unit, and the lock makes its `before` the balance. `RowInv`
says which requests have a log row, `SettledInv` that a settled one was charged or had
nothing to be charged for; together with `ChargeInv` they make the missing debits
exactly the explained ones (`BillingReportsExplained`).

*RequestOutcome_proofs.* `OutcomeInv` has three parts beside the types and the
properties themselves. `PhaseInv` says what a handler's phase implies of flags
and status (nothing is a success before an answer, a stream or body in reading
has no error yet). `MeterInv` says that while an answer is read the log state has
been told what has arrived in full, as the protocol takes reports that leave a number
out, and its price (`Told`), or, if the stream's line ends are CRLF, nothing
(`Untold`). `Metered` is the lemma that one report keeps it, for each of the
three ways to apply usage; `Finished`, `Failed` and `FinishedExact` turn it into
the outcome of the step that ends the request. `OutcomeBilledIsCounted` has an
invariant of its own, `CountInv`: an amount in the log state comes with tokens to
count, or from a report of chat or embeddings without a total.

*ProviderRouting_proofs.* `TypeInv` adds to the types what a request's phase says of
its place in its lists of keys and of attempts. A penalty and the failure that earns
it are written in one step, and failures stay (`RoutingPenaltyIsEarned`). `SkipInv`:
each key that a request has looked at is among its attempts or had a penalty that
excuses it (`RoutingPassedOverForCause`). `WalkInv`: the attempts name each key once,
and the last may come a second time; those made so far are the first ones of the list,
and all but the present one failed in a way that lets the loop go on
(`RoutingExhaustsBeforeFailing`, `RoutingRetriesOnlyWhatMayPass`). `ChoiceInv`: a key
among the attempts was not cooling when the request began or has failed since, unless
all keys were cooling or the request names its key (`RoutingChosenWereFree`); so a
success clears only penalties that came since, or those of a last resort
(`RoutingPardonExplained`). What rotation does to the list is `RotatedFacts`: the same
keys in another order. `TurnInv` says that round robin requests hold different numbers
below the counter, and that the order of each is the list by rank, turned by its
number (`Turned`); the list by rank is determined by its members (`SpreadFacts`), so
that requests with the same keys have turned the same list, by amounts that differ
while the counter is no greater than its length (`RoutingRotationSpreads`).

*ClientQuota_proofs.* `RequestLimitsHold` is about requests that passed, while the
code only sees counters. `Bounded` joins the two for a minute's counter: while the
minute lasts its counter is at least the number of requests that have passed, which
never exceeds the limit; it needs that a counter's time to live, set at every
increment, ends no sooner than its minute, which is a whole number of seconds.
`DayBounded` is its like for a day, whose counter ends less than a second before the
day (`FormatFacts`, `DayTtlFacts`): in the last second it is still that of the day, or
gone, or begun anew and then lives longer than the day, so that it cannot be lost
twice. The lemma `WindowFacts` has the arithmetic of windows. `HistoryInv` reads the
history of checks and additions: each request is checked once and added once, in this
order. `TokensInv` is the sum: until its day's last second, a counter holds the tokens
of the requests that have been added to it, and in that second no more
(`QuotaTokensAreSummed`). `BudgetInv` says of every check before its day's last second
that the day had tokens left at that place in the history. Of the requests of a day
that has overshot, take the one that was added last: if none overlapped it, all came
that day and it was not checked in the last second, all others were added before it
was checked, so that they were below the limit then, and it has added the largest
usage at most (`QuotaOvershootNeedsOverlap`).

*Catalog_proofs.* `TablesOK` (rows of their types, referenced providers exist) is
the base of three invariants. `AdminInv` ties `stage`, `wrote` and `told` of a
call: until it is recorded, what its store call returns is what it wrote; this
needs that a model's reload takes its provider's name only. `LockInv` says that
the one request in `creating` is the holder of the lock, that its project has no
client yet, and that the count of clients created is the cache's content: the
second look makes the first true, the lock keeps it so. `HolderInv` adds the last
types (`CatalogTypeCorrect`). `RouteInv` says that a
request between its two queries that was not overtaken could still be resolved
to what it has read.

*ClientKeys_proofs.* `TablesInv` and `TxInv`: an open transaction has deleted the
models its key has at that very moment, and no other has the same key, which is what
the lock by the UPDATE before the DELETE is for. With it `RightsInv` is inductive:
a commit installs exactly its form, and a call that reads its key again reads one
form, if perhaps a later one. `AskInv` says that the snapshot of a waiting
request is still what a snapshot would be now, unless the request was overtaken;
its proof goes through every kind of change and shows that it either concerns
another key (`OthersEntries`: a log row of another key is in no sum of this one)
or sets `overtaken`. `VerdictIsEntitlement` then makes `KeysAdmissionIsCurrent`.

The theorems about `Reports` are of `ReportSpec`, which the run checks: a reader's
steps leave the keys alone (`ReadInv`), so that the invariants of the keys hold there
too (`KeysInvariant`), and with them the types (`KeysTypeCorrect`) and the rights and
admissions (`ReportsKeepRights`). `HistoryGrows` says what no step undoes: the log is
only appended to, a key's row and owner stay, time does not go back. The pages rest on
`ReaderInv`: a row that was there when the first page was asked for has been shown or
has at least as many rows of its list before it as the pages turned so far have shown;
new rows come in front, which only pushes it back, and the page that is selected next
shows exactly the next places. When the last page is as the total said, no row has
that many before it (`ReportsPagesCoverAll`). The figures of `StatsAgree` are one sum
over the log's rows, divided in different ways: by owner, by key or none, by model, by
day; the days need that a range with a day to spare at both ends holds every row of
the days between, wherever in the day its limits lie. `BilledByClass` is
`SumPartition` for `Billed`; each conjunct has a lemma that names its classes
(`DashboardAgrees`, `PortalAgrees`, `ModelsAgree`, `DaysAgree` with the arithmetic of
quotients, `ClientsAgree`), and the cut off lists follow from `Orders`
(`ExportAgrees`, `PressureAgrees`).

Only model-checked: the liveness properties (`StopReturns`, `AcceptedTaskStarts`,
`ShutdownCompletes`, `ChargeConcludes`, `RequestsEnd`, `LastingAnomalyIsTold`,
`ClientRequestsEnd`, `AuthenticationsEnd`), since fairness is about `ENABLED`, which the
provers do not reason about, and the counterexamples of the violation runs.

## Plan

Done: pool, lifecycle, billing, routing, quotas, alerts, request outcome,
catalog and client cache, client keys and reports, with the proofs above.

Left, in this order:

1. safety halves of the liveness properties, as theorems: while something has to
   happen, an action is possible that brings it nearer;
2. the Vertex AI attempt, which has one key and no failover, as a path of
   `ProviderRouting`;
3. `GetUsage` of the quota service;
4. the wallet ledger's pages with those of the log list in `Reports`.

## Not modelled

* The system and health API reads counters and pings the stores. Configuration and
  schema are constants and assumptions of the models. The frontends are clients
  of the APIs.
* Of the admin API: logging in, passwords, the debug tool (its pinned requests are
  `StartPinned` in `ProviderRouting`, its log rows `LogDebugRequest` in `ClientKeys`)
  and the lists that are one SELECT. Of the portal: the profile, the name of a key,
  the wallet ledger's pages, the debug chat and the list of models, which is that of
  all enabled models whatever a key may use.
* Tokens are stateless signatures: only their life is modelled (`HasSession`).
* `ClientQuota` leaves out `GetUsage`, which reads the counters for the lists.
