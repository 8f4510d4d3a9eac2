# shortn: models, checks and proofs

TLA+ modules for shortn, a URL shortener: several instances of a Go API
(`src/cmd/api`) over Postgres and Redis, a Kafka topic (Redpanda) of clicks, and
a consumer (`src/cmd/analytics`) that counts them. Every module is translated
from the source named in it; `PROJECT.json` maps each definition to its lines.

## The system

| part | source | state | operations |
| --- | --- | --- | --- |
| analytics consumer | `cmd/analytics/main.go`, `internal/store/analytics.go` | `click_events`, `kafka_offsets`, the client's position and its polled batch | join, `onAssigned`, poll, `process`, exit |
| event publisher | `internal/events/events.go`, `redirect` | the topic | `Publish`, `Close` |
| code generator | `internal/idgen/snowflake.go` | worker ID, `lastMs`, `sequence` | `Generate` |
| worker-ID lease | `internal/idgen/lease.go`, `cmd/api/main.go` | a Redis key per slot, a heartbeat | `AcquireWorkerID`, `heartbeat`, `Release` |
| link cache | `internal/cache` | a Redis key per code, a singleflight group per instance | `GetByCode`, `Delete`, `Invalidate` |
| link store | `internal/store/postgres.go` | the `links` table | `Create`, `GetByCode`, `List`, `Delete` |
| create and idempotency | `internal/http/links.go`, `internal/shortener`, `internal/idempotency` | a Redis key per Idempotency-Key | `createLink`, `Service.Create`, `respondWithCode` |
| circuit breaker and retries | `internal/resilience` | state, counts and generation of the breaker, per instance | `execute`, `retryRead` |
| rate limiter | `internal/ratelimit`, `internal/http/ratelimit.go` | a token bucket per client in Redis | the bucket script, the middleware |
| HTTP router and middleware | `internal/http` | request contexts | deadline, admin key, route tags |
| API life cycle | `cmd/api/main.go`, `NewOpsRouter` | open resources, deferred calls, servers, timeouts | start, `readyz`, SIGTERM, drain, `Release`, closes |
| configuration, observability, dashboard, deployment | `internal/config`, `internal/observability`, `web`, `deploy` | none of their own | |

How they interact. A redirect calls `Service.Resolve`, which reads the cache;
a miss goes through singleflight to the breaker, the retries and Postgres, and
fills the cache. After the answer a goroutine publishes the click. A create
looks its key up in Redis, asks the generator for a code, inserts the row
through cache and breaker, and records the key. A delete removes the row and
then the cache entry. Instances share Postgres and Redis; generator, breaker and
singleflight are per instance, and the worker ID that keeps generators apart is
leased from Redis. Consumers share the topic's partitions and Postgres. Kubernetes
routes to a pod while its `readyz` answers, and ends it with SIGTERM and, after
the grace period, SIGKILL.

What is hard here: rebalances while a batch is drained, and transactions whose
answer is lost; clocks that are skewed or stepped back; leases that expire under
a running pod; cache fills that overlap deletes; creates with one key that
overlap or are retried; results that reach the breaker after it has changed
state; rounding and expiry of the bucket; requests, publishes and deferred calls
that are under way when a process is told to stop. `PROJECT.json` lists these hazards at
their lines with the properties that cover them.

## Modules

| module | models | state and actions |
| --- | --- | --- |
| `ClickConsumer` | consumers, rebalances and the transactions in Postgres | `rows` is `click_events`, `offsets` is `kafka_offsets`, `fetchPos`, `next`, `end` are the client's position and batch, `poison` the malformed records, `dropped` remembers a poll that lost records; one action per way a loop iteration, an assignment or the process can go |
| `ClickLedger` | what the pipeline promises | a click is logged once and counted once, in order |
| `ClickStats` | `GetStats` | the number of the code's rows |
| `Snowflake` | `Generate` | a call is one step under the mutex, but the call that sleeps out an exhausted millisecond is three |
| `WorkerLease` | slots, scan, heartbeat, release | Redis commands and scripts are operators of their own; `emptied` remembers a restart of Redis, `lapsed` a lease whose key ends before the next renewal |
| `LeasedMint` | `WorkerLease` with the generators on its slots | `lead` is how far beyond the present a slot's milliseconds are used up, by pods whose clocks differ by `skew` |
| `LinkCache` | `CachingStore` for one code | a redirect is looking, missed, loading, filling or waiting; a delete removes the row, then the entry |
| `CreateLink` | `createLink`, `Service.Create`, `respondWithCode` | a request is in lookup, creating, recording, rereading or replaying |
| `CircuitBreaker` | `ResilientStore` and its breaker | calls in flight, those of the current generation in `fresh` |
| `DegradedApi` | the handlers over `CircuitBreaker` | the status of each handler by what its store call comes to; `burst` counts the 500s of an outage, those of singleflight's followers included, `trials` its half-open periods |
| `ApiLifecycle` | `main` of the API, probes, requests, publish goroutines | `deferred` is Go's stack of deferred calls, `timer` what `main` waits for, `grace` what Kubernetes does; `req` and `click` what became of each request and click |
| `RateLimiter` | the bucket script | tokens as multiples of `1/Scale`, a measuring window that may open at any time, and `losses`, how often Redis lost the key in it |
| `MCClickConsumer`, `MCCreateLink`, `MCDegradedApi`, `MCSnowflake` | instances for TLC | |
| `*Proofs` | theorems | |

Abstractions. A transaction of `process` is one step: its writes appear at its
commit, and row locks serialise writers of one row. Records of a batch may be
processed in any order of partitions, which includes the code's order
(one partition after the other). Event payloads, URLs, referrers and the hourly
buckets are left out; a link is known by the request that inserted its row.
`Pack` is the sum that shifting and OR compute while the fields fit. Codes are
independent in `LinkCache`, and clients in `RateLimiter`. The bucket script is
one step, because Redis runs a script as a whole; `RateBound` takes that from Redis
and does not show it. go-redis sends a command again when its answer is lost, so a
SET NX may meet its own record (`RecordRetried`). `CreateRefused` stands
for every refusal of `Service.Create` before its INSERT (URL rules, clock, sqids).
The broker, the group coordinator, Redis, Postgres, gobreaker, singleflight and
sqids are external and modelled by what the code uses of them, and so is
Kubernetes. In `LeasedMint` a serving pod may mint at any moment, so instead of
its codes the model keeps the end of the milliseconds it may have used. In
`ApiLifecycle` every step of the start may be refused for its configuration
(`bad`), a request may hang for ever, `Close` of the publisher may or may not get
a buffered record out, and worker IDs are leased or configured (`explicit`). The
ops server's `readyz` is not among the requests, but `pool.Close` waits for its
ping (`PingTimeout`), since the error of the ops server's `Shutdown` is ignored.

The mutated definitions beside the real ones (`InsertClickAlways`,
`RenewScriptAny`, ...) are plausible bugs; putting one in the place of the
original must break the property that `PROJECT.json` lists with it.

## Runs

| run | instance | shows |
| --- | --- | --- |
| `clicks` | 2 consumers, 2 partitions, 3 clicks (two on one link), 2 faults, of which a malformed record or a poll with records and an error may be one | `NothingSkipped`, `RecordedIsPrefix`, `CountedAtMostOnce`, `StatsExact`, `EventuallyCounted`, and `LedgerRefined`: the consumers implement `ClickLedger` |
| `clicks_mixed_loss` | the same, only safety | violates `NothingEverSkipped` (finding) |
| `snowflake` | 2 generators with skewed clocks, 2 sequence numbers a millisecond, 3 milliseconds, 2 faults | `UniqueCodes`, with clocks stepped back between calls, or with restarts |
| `snowflake_asleep` | the same, clocks stepped back during the sleep too | violates `UniqueCodes` (finding) |
| `lease` | `LeasedMint`: 2 pods, 2 slots, clocks that differ by up to 1 heartbeat, TTL of 3 heartbeats, up to 2 missed renewals in a row, 3 faults | `LeaseHeld`, `NoReuseAfterExpiry`, `OnlyOwnerTouches`, `EventuallyServes` |
| `cache` | 2 redirect slots on one instance or on two, 2 deletes, TTLs 2 and 1, deadline 1, 1 fault | `BoundedStaleness`, `AnswersRecent`, `StaysForgotten`, `EventuallyAnswered` |
| `cache_late_fill` | 2 redirects, 1 delete, no fault | violates `DeletedStopsResolving` (finding) |
| `create` | 2 requests with one key and 1 without, 3 codes, 2 attempts, 1 fault of the store and 1 of Redis, lost answers among them | `AnsweredOwnLink`, `SameKeySameLink`, `RetryMakesNoLink`, `EventuallyAnswered` |
| `create_retry` | 3 requests with one key, one after another, 1 fault of the store | violates `OneLinkPerKey` (finding) |
| `breaker` | `DegradedApi`: a redirect, a create and a replay at a time, 1 follower a flight, threshold 2, 1 probe, 2 outages of up to 2 trials, 2 departing clients | `ProbesBounded`, `OpensForCause`, `BurstBounded`, `Recovers` |
| `lifecycle` | 1 create, 2 redirects, units of 2.5 s (sleep 2, drain 4, release 1, ping 1, flush 2, grace 12), endpoints that lag up to 2, publishes of up to 3, 1 outage | `NoUseAfterClose`, `CleanStopFreesSlot`, `NoRequestDropped`, `EarlyClicksKept`, `GraceSuffices`, `Terminates` |
| `limiter` | burst 3, 2 tokens a second, 5 ticks a second, windows up to 16 ticks, a clock set back by up to 2, 1 loss of the bucket | `RateBound`, `RetryAfterHonest`, `ExpiryInvisible` |

Why the bounds are enough. Two consumers are what it takes for a former and a
new owner, and two faults for a rebalance and a crash, or a replay and a lost
answer; three clicks make a batch of two on one partition beside another
partition. Two faults are also a malformed record or a dropped poll together with
a crash. Two sequence numbers reach the exhausted millisecond with the third
call. The lease's constants keep the code's ratio 30 s : 10 s; the skew is the
largest for which `NoReuseAfterExpiry` holds. After one miss the key outlives a
holder that dies by at least one heartbeat (`LeaseTTL - Unrenewed(1)`), and a
second miss in a row is where the lease lapses. Three calls are one late call, one
that trips and one probe, and a flight with a follower is what it takes for two
requests to share one failure. Bursts of 12 do occur before the first trial of an
outage, where `BurstBounded` allows 18, and of 16 after two, where it allows 22: the
bound counts the replay's slot, which adds nothing to the burst.
The life cycle keeps the code's timeouts, rounded up to the unit, and
Kubernetes' default grace period (the manifests set none); a lag of 2 is as long as
`preStopDelay`, which `late` records. A publish may take 3 units where the code
gives it 4 (`RecordDeliveryTimeout`, 10 s): what matters is that it may take longer
than the sleep, so that clicks are lost when the publisher closes.
The limiter's numbers do not divide
each other, so that every rounding occurs, and a window of 16 ticks is longer
than the bucket's expiry. Where a bound might hide something (consumers, events,
faults, widths, TTLs, requests) the theorems below have none.

Deadlock is checked where the system never stops. It may stop when all clicks
are published and consumed (`clicks*`), when the bounded clock has run out
(`snowflake*`), when every request is answered (`create*`) and when the process
has ended (`lifecycle`).

Fairness. Consumers and pods are restarted by their Kubernetes Deployments (the
compose file has no restart policy: there a consumer that exited stays down, and
`EventuallyCounted` is up to whoever restarts it), the group coordinator assigns orphaned
partitions and tells former owners, and a running goroutine takes its next step;
time passes; for the breaker, Postgres comes back and requests keep coming; for
the life cycle `main` takes its next step, publishes return and endpoints are
updated, but requests may hang. All
of it is weak fairness of the steps named. Faults are bounded and never required.
A poison pill stops its partition for good, as the comment in `process` says:
`EventuallyCounted` is about the clicks that no pill blocks, those before it on
its partition.

## Findings

1. `clicks_mixed_loss`: the loop `continue`s when a poll has any error
   (`cmd/analytics/main.go:214`), and drops the records of the same poll, which
   the client's position has passed. The next record's transaction saves an
   offset beyond them. Comment and docs: "Never advance past a record that
   failed to write, or that click is lost forever".
2. `snowflake_asleep`: after its sleep `Generate` takes the clock as it is
   (`internal/idgen/snowflake.go:80`), even if it was stepped back. The docs:
   "Uniqueness holds in every case".
3. `cache_late_fill`: a load that read the row before a delete fills the cache
   after the delete's invalidation (`internal/cache/store.go:149`). The comment of
   `Delete`: "a deleted code stops resolving at once". What does hold is
   `BoundedStaleness`.
4. `create_retry`: an INSERT whose answer is lost leaves a link that its key does
   not know (`internal/http/links.go:115`), and the retry makes another. ADR 0009:
   "Sequential retries, the real use case, are exact". What does hold is
   `RetryMakesNoLink`, for a key that was answered.

Remarks that no run states. `SaveOffset` overwrites, so a former owner may set
an offset back and its records are processed again (`NothingSkipped` and
`CountedAtMostOnce` hold all the same), although
`docs/explanation/messaging-and-exactly-once.md:142` knows "no
recorded-but-not-advanced gap to replay". With a TTL of 30 s and renewals every 10 s
the key ends just when the third renewal is due, so a lease outlasts one miss in a
row, and "two missed renewals are tolerated" (`lease.go:24-25`) is not so: without
`~lapsed`, `LeaseHeld` is violated in the run's own instance by a key that expires
under a serving pod. A Redis that restarts empty gives a slot in use to a second
pod. That is why `LeaseHeld` and `NoReuseAfterExpiry` speak of the time until Redis
restarts or a lease lapses; the heartbeat only logs both, and the pod goes on
minting. A Redis that loses a bucket grants a fresh burst. The followers of a
failing flight share its 500, those of every half-open probe too, so that a
long outage costs more the more often the breaker tries Postgres (`trials`).
Cancelled requests count as failures of Postgres, and can open
the breaker by themselves; `OpensForCause` says how many it takes. A restart
together with a clock stepped back (`FaultModes = {{"step", "restart"}}`) may
repeat codes, since the new generator has forgotten `lastMs`.

A slot that was released, other than one that expired, may be taken at once by a
pod whose clock is behind, which then mints in used milliseconds (`reused`
contains "released"): ADR 0007:90-91 calls collisions "impossible without clock
regression or worker-ID collision"; here the unique constraint and the retry of
`Service.Create` are what is left. A malformed record may also keep other
partitions of its consumer from being processed, since the process exits in the
middle of the batch. `events.go:66-67` says that after `Close` "an in-flight event is
not lost", but a click whose redirect was answered after SIGTERM may be, for
nothing waits for its goroutine, and so may an earlier one whose publish takes 5 s
or more of its 10 s (`events.go:44`); `EarlyClicksKept` is what `preStopDelay` gives.
`respondWithCode` answers 500 for a blown deadline or an open breaker, which
`docs/reference/api.md:17` promises as 503, and before the breaker opens a refused
connection is a 500 on every route. An `os.Exit` after the lease was acquired
(`main.go:214-263`), or a SIGTERM before `signal.Notify`, leaves the slot taken
until its TTL.

## Proofs

All theorems hold for every value of the constants that satisfies the modules'
`ASSUME`s, and under the hypotheses below.

`ClickConsumerProofs`. No theorem has a hypothesis. `NoLoss`, `InOrder` and
`ImplementsLedger` speak of the time until a poll returns records along with an
error (`dropped`), which finding 1 shows to be necessary. `NothingSkipped` is not inductive: a
transaction saves the offset
behind the record it processes, so what lies below that record must be recorded
already. The inductive invariant adds, for every client, a former owner's
included, that what is below its `next` is recorded, and what is below its fetch
position is recorded or still in its batch. That each event is logged once, on
its own partition, gives the order; the refinement follows, for the only step
that changes `rows` records the first unrecorded record. `StatsAreExact` follows
from `CountedAtMostOnce` (the rows of a code are as many as its recorded events,
which are among the logged ones) and from `NothingSkipped` (once the offset has
caught up they are all of them); logs are finite even if `Events` is not.

`SnowflakeProofs`. `Uniqueness` assumes distinct worker IDs and `MildFaults` (no
step back during a sleep, no mode with both steps back and restarts). The
invariant: while a call sleeps its clock is not behind the millisecond it
exhausted, and once rested it is past it; every minted code comes from a slot
that its generator is past (an earlier millisecond, or the current one up to its
sequence number); and the set of codes grows with each return. That `Pack` is injective while the fields fit is a lemma.

`WorkerLeaseProofs`. No theorem has a hypothesis beyond the `ASSUME`s.
`LeaseSafety`, `WorkersExclusive` and `NoReuse` speak of the time until Redis
restarts empty or a lease lapses. The invariant says by how much the key of a
serving pod outlasts its next renewal, counting the misses so far: by what the TTL
has left after `Unrenewed` of them, which is positive until the lease lapses.
`NoReuse` adds that a key nobody released is there for as long as milliseconds of
its slot are used up (`KeyOutlivesCodes`); a pod that dies leaves its key for that
rest of the TTL at least, which `SkewAssumption` takes to cover the clocks'
difference, and from then on both run down together. `OnlyOwnersTouch` (a key is
given up or extended by its owner alone) holds after restarts of Redis and lapses
too. `MintRefinesLease` carries the theorems about leases over to the run, which is
of `LeasedMint`.

`LinkCacheProofs`. `Staleness`, `RecentAnswers` and `ForgottenForGood` need no
hypothesis. The invariant bounds the age of the row's last change by the time
that an outdated entry, or the request of an outdated load, has used up.

`CreateLinkProofs`. `OwnLink`, `OneAnswerPerKey` and `RetriesInsertNothing` need
no hypothesis. The invariant: a request past its INSERT holds a link made for it
or for its key, a record names such a link and, while Redis is reliable, is the
link of every 201 of its key; a request that came after one never leaves the
replay path.

`RateLimiterProofs`. No theorem has a hypothesis: burst, rate and resolution are
any positive numbers. `RateBound` is not inductive, for it does not say what the
bucket can still hand out; the invariant bounds the sum of what was admitted in
the window and what the bucket is worth (its tokens and the refill it has coming,
or a full bucket if there is no key), by the window's budget: a burst, one more for
each time Redis lost the key, and the rate. The invariant also says that a bucket holds
a token at the end of every wait that a client was told. The expiry is long
enough by a lemma about rounding up.

`DegradedApiProofs`. `ProbesBoundedHolds` and `OpensForCauseHolds` are about
`CircuitBreaker` by itself, and `ApiRefinesBreaker` carries them over to the
handlers. The invariant counts: the calls of a half-open generation are among its
requests, and until there is a cause the breaker is closed and the failures it
counted and those still to be returned are no more than the `errors` since it last
closed. `BurstBoundedHolds` assumes only that finitely many requests are in flight.
Its invariant is a budget: the 500s so far, and as many more as a flight has
requests for each flight that may still fail. For a closed breaker those are the
failures it has left, for each success that is on its way as many again less one (it
resets the count), and the calls in flight when it trips; for an open one the calls
of earlier generations; for a half-open one also the probes it has left, which each
trial adds to the budget. Attempting the proof corrected the bound:
`MaxConsecFails * Cardinality(Calls)` flights, which was here before, is exceeded by
the calls that are in flight when the breaker trips.

`ApiLifecycleProofs`. No theorem has a hypothesis beyond `LifecycleAssumption`,
which says only that the timeouts fit into the grace period together, as the code's
do in Kubernetes' 30 s; how long a publish may take is not bounded. The invariant:
the deferred calls are a prefix of the order in which `main` registers them, all of
it until `main` returns; the key is held from the lease to the release, and beyond
it only if Redis failed; requests run only in the stages that precede the closes; a
click of before SIGTERM that is still being published has the age of the signal at
least, and so of the whole sleep when that is over; and the grace period exceeds the
wait under way and those that the rest of the stack still owes.

Only model-checked: the liveness properties `EventuallyCounted`,
`EventuallyServes`, `EventuallyAnswered` (of `LinkCache` and of `CreateLink`),
`Recovers` and `Terminates`, since fairness is beyond the prover. Every invariant
and every action property of the passing runs is stated by a theorem.

## Not modelled

URL validation: `normalizeURL` and `isBlockedIP` keep no state and classify
strings, so that a model would begin with the classes they tell apart; what the
system makes of a refusal is `CreateRefused`. Listing and the hourly series are
reads without state. The admin key check compares two strings. Route tags,
headers, metrics and traces change nothing the properties speak of. `config.Load`
cannot fail and reads its variables once; what a bad value does is in
`ApiLifecycle`. The dashboard is a client without a protocol of its own, and the
deployment is where the external parts' behaviour was read.

## Plan

1. Abstract specifications for the parts that have none: a lock service for
   `WorkerLease` (a slot is granted to one pod at a time), a link that is
   eventually forgotten for `LinkCache`, and refinement theorems for them.
2. `UniqueCodes` for generators on leased slots: `LeasedMint` and `Snowflake`
   composed, with `NoReuse` in the place of `DistinctWorkers`.
3. The safety half of the liveness properties: what each step that fairness
   grants brings nearer, as action properties with theorems.
