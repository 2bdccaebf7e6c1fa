# incident-radar: a TLA+ verification project

incident-radar collects error reports over HTTP (`POST /errors`), counts them per
service in a sliding window, and sends a webhook alert when a service passes a
threshold, at most one per cooldown. It is built to keep alerting when Redis is
slow, down or has lost its data. This directory specifies that behaviour in TLA+,
model-checks it on small instances with TLC, and proves the safety properties for
all values of the constants with TLAPS.

Paths below are relative to `apps/backend/src/` unless they start otherwise.

## 1. Inventory

| Component | Code | State it keeps | Operations |
|---|---|---|---|
| Error intake | `errors/` | rows of `error_logs` | `POST /errors` (save, detect, answer), `GET /errors` |
| Detection and alert gate | `detector/detector.service.ts` | `localCooldownUntil`, a map in process memory | `check`, `tryAcquireLocal` |
| Cooldown lock | `cooldown/cooldown.service.ts` | Redis key `cooldown:<service>` | `tryAcquire` (SET NX EX), `getTtl` |
| Counting | `counter/` | Redis sorted set `count:<service>`; rows of `error_logs` | `record` on either, the selector's fallback |
| Alert delivery | `alerts/` | BullMQ jobs in Redis; rows of `alerts`, `alert_failures` | `enqueue`, `dispatch`, `dispatchDirect`, `recordFailure`, `onFailed` |
| Redis connection and health flag | `redis/` | the ioredis connection, `_healthy` | PING every 5 s, `error` events |
| Health endpoint | `health/` | none | `GET /health` |
| Dashboard read model | `dashboard/` | none (reads the tables and the lock) | `/stats`, `/status`, `/alerts` |
| API keys | `api-key/` | rows of `api_keys` | issue, list, revoke, validate |
| Login, sessions, roles | `auth/`, `session/` | rows of `users`, sessions in Redis | login, logout, me, guards, admin seed |
| Wiring | `app.module.ts`, `main.ts`, `config/`, `common/` | configuration, clock | |
| Schema | `db/` | | entities, migrations |
| Frontend | `apps/frontend/` | query caches, one UI store | polling, derivations, rendering |
| Shared schemas, API description, tools | `packages/shared/`, `openapi/`, `tools/` | | |

### How they interact

A `POST /errors` handler saves the row, then awaits `DetectorService.check`:

1. **count** the service's recent errors. `CounterSelector` asks Redis if the health
   flag is up, and falls back to the database if the flag is down or Redis fails;
2. below the threshold: answer. Above it and on Redis: **take the cooldown lock** by
   `SET NX EX`; refused means answer without an alert; granted means **put a job on
   the BullMQ queue** (not awaited) and answer;
3. if Redis was not used, or the lock or the queue fails: **degraded**, take the
   cooldown kept in process memory and call the webhook directly, not awaited.

The dashboard (`apps/frontend/`) polls `/stats`, `/status`, `/alerts` and `/health`. It writes
nothing, and reads the tables and the lock that the alert path writes. `POST /errors` is
behind API keys, every other route but `/health` and login behind a session in Redis, and
managing keys behind the session of an admin.

The queue's worker, in the same processes, runs `dispatch` (webhook, then a row in
`alerts`) with five attempts, and records an exhausted alert in `alert_failures`.
`RedisHealthService` drives the flag all of this starts from. One process is one
JavaScript event loop: handlers interleave at `await`s only, but several processes
share Redis and Postgres.

### What is hard

- **Commands that fail at the client and run on the server.** `commandTimeout` is
  500 ms: `SET NX`, the counting `MULTI`, the queue's add may have run, may run later,
  or never, after the client has gone the other way.
- **State read before an await and used after it**: the flag, `now`, the count.
- **Two cooldowns for one service**: a shared lock that may be lost, and one memory
  per process that dies with it.
- **Delivery in steps that fail one by one**: webhook, row, move of the job, record of
  a failure; a worker may die between any two.
- **Time**: key expiry, stale `now`s arriving out of order, a flag that lags.
- **Reads that take a while**: an answer of the dashboard is two queries, a journey and a cache;
  rows are committed, selections change, sessions end and locks expire meanwhile.
- **Copies**: a role in a session, a time to live in a cache, a key found valid before an UPDATE.

### What makes each component correct

- *Gate*: alerts of one cooldown domain are a cooldown apart; nobody is silenced
  unless an alert stands behind it; the answer never waits for the queue.
- *Counting*: a count is the window, however commands were ordered, delayed or
  executed for nobody; a burst that reaches the threshold is seen by somebody.
- *Delivery*: an accepted alert is settled in one of two tables, once, for good; the
  number of deliveries is bounded; queued alerts outlive processes.
- *Health flag*: wrong for a bounded time only, in both directions.
- *Health endpoint*: a call is answered within its timeout, one with a session cookie longer only while the session's
  Redis keeps it waiting, and about the flag as it is then.
- *Dashboard*: what it shows is what the tables and the lock said when it asked, nothing is
  missing but what is older, and a panel comes back after failures.
- *API keys, sessions, accounts*: a revoked key, an ended session stay so and let nobody in;
  concurrent requests spoil neither `last_used_at` nor the accounts.

## 2. Modules

| Module | Models | Composes |
|---|---|---|
| `Detector` | the alert gate, with the lock, the queue's add and the flag seen from it | |
| `SlidingWindow` | counting in Redis and in the database | |
| `AlertLedger` | the promise of delivery, abstract | |
| `AlertDelivery` | queue, worker, webhook, the two tables, direct dispatch | implements `AlertLedger` |
| `RedisHealth` | flag, PING timer, connection | |
| `AlertSystem` | the alert path from the request to the tables | `Detector` and `AlertDelivery`, implements both |
| `HealthEndpoint` | `GET /health`, calls at once | extends `RedisHealth` |
| `Access` | API keys, accounts, sessions, the guards | |
| `ReadModel` | what `/stats`, `/alerts`, `/status` compute, what the frontend derives | |
| `Dashboard` | a tab: queries, retries, answers, selection, session; the tables below it | extends `ReadModel` |
| `MC*` | instances for TLC | extend the above |
| `*Proofs` | theorems | extend the above |

The modules meet at narrow interfaces, and each takes the most the other side may do:
`Detector` lets a count above the threshold be any boolean, Redis execute a command at
any time, the flag fall at any time and rise only with Redis up; `RedisHealth`
says how long the flag may really lag; `SlidingWindow` says what the boolean means;
`AlertDelivery` begins where `Detector` ends with "queued" or "direct". `AlertSystem`
puts these two together.

### Detector

State: `lock` is the expiry of the Redis key; `local` is `localCooldownUntil`;
`healthy` is `_healthy`; `pc` is the `await` a request is at; `setCmd`, `addCmd` are its
two writing commands *seen from the server* (sent, executed with which result,
dropped). `sawUp` is the flag as `check` read it: `detector.service.ts` reads it and
the selector reads it again in the same synchronous stretch, so one read stands for
both. `errors.create` and the start of `check` are one action; nothing else reads the
row in this module.

Actions, from one await to the next: `StartCheck`; `RedisCounts`, `RedisCountFails`,
`DbCounts`, `DbCountFails` (with `Judge` for what `check` does next); `CooldownGranted`,
`CooldownDenied`, `CooldownFails`; `EnqueueResolves`, `EnqueueRejects`; and of the
server `ExecuteSet`, `ExecuteAdd`, `RedisDown` (drops what was in flight,
`autoResendUnfulfilledCommands: false`), `RedisBack` (with or without data); `FlagFalls`,
`FlagRises`; `Restart`. `CooldownFails` may happen whatever the server did or will do: that
is the timeout. `past` and `wiped` are history: requests of an earlier life of their
process, and requests whose lock went with Redis's data. Both exceptions are facts of
the design (memory and Redis are the only places a cooldown is kept) and the
properties say exactly where they apply.

### SlidingWindow

A count is the *set* of requests it counts, of which the code sees the size. `Execute`
is the MULTI (ZADD, ZREMRANGEBYSCORE, ZCARD, PEXPIRE), run by the server in any order
and possibly after its client gave up; `RowsInWindow` is the query of the database.
The trim is inclusive and the query exclusive, so an event exactly a window old is out of
both (`InWindow`). `log`, `before`, `ranAt` are history.

### AlertDelivery and AlertLedger

`stage` is where an alert is: the awaits of `dispatch` ("posting", "inserting"), the
move of its job in Redis ("acking", "failing"), the record of its failure
("recording"), a job in the queue with its backoff ("waiting"). An action is one
outside effect with the code up to the next one. An HTTP call, an INSERT or a move
may take place and look failed. `Die` is the end of a process with everything it had
under way; besides `Stop`, an `onFailed` that rejects ends it: BullMQ emits "failed" to an
async handler, nobody handles its rejection, and Node ends on an unhandled rejection.

BullMQ is not in the repository. Assumed of it, from the options the code passes and
the version it pins: concurrency 1 per worker; a job whose lock expires returns to the
queue and is failed, without being run, once it has stalled more than
`maxStalledCount` times; `removeOnFail` removes a job before the "failed" event; a live
handler does not outlive its job's lock; jobs in Redis are not lost with Redis's data.

`AlertLedger` is the promise without any of this: none → open → sent, failed or
dropped, dropped only in or after a mishap. `Status` and `Calm` are the refinement mapping.

### AlertSystem

`AlertSystem` extends `Detector` and instantiates `AlertDelivery`, whose workers are the same
processes. An alert is a request together with the way it leaves, "queue" or "direct": one
request can be behind both, when an add took place and its reply was lost. Steps that are one
piece of code or one event in both modules are one step here: `Answers` and `AddRejected`
(a handler that decides on a direct alert calls `dispatchDirect`), `AddExecuted` (an add that
Redis executes is a job), `ProcessDies` and `RecordEndsProcess` (all that a process had under way
ends together). `GateAlone` and `Runs` are steps of one side; a job cannot be fetched or moved without Redis.
`Over(r)` are the requests above the threshold, `Behind(r)` those that answer for r: itself, or
the request whose cooldown silenced it, or the one that silenced that one.

### RedisHealth

Time is in timers that run down; a due timer fires before time passes. The connection is
ioredis's: an offline queue, a retry of at most 2 s between attempts, PINGs that time out
after `commandTimeout` even while queued. `redis = "hung"` is a server that accepts and
never answers. `steady` counts for how long the server has been up, or not up. A host
that swallows the TCP handshake (only `connectTimeout` ends that) is not modelled.

### HealthEndpoint

The session middleware runs on every route (`session.module.ts:62-64`), so a call with a cookie, as the dashboard sends it
(`client.ts` has `credentials: "include"`), first waits for the GET of its session (`loading`), and its response
for the EXPIRE when there is one (`touching`, from `rolling`). Their client is node-redis without a command
timeout: a command waits in the offline queue while there is no connection, waits on a server that hangs, and
fails when its connection is lost (`ConnectionsLost`; a failed GET is a 500, a failed EXPIRE still ends the response).
`SessionRetry` is node-redis's longest pause before it connects again (2 s and up to 200 ms, the default of the
library). A call without a cookie, a load balancer's, skips both.

In between a call asks the database and sets a timer (`asking`); whichever ends first answers, and `finally` clears the
timer. The flag is read when the SELECT has answered, so a call spans steps of `RedisHealth`, which
it extends. `age` and `left` count a call's time in the same ticks. A SELECT that loses the race settles for
nobody. Calls begin once `RedisHealth` has made its first check and the session client has connected (`booted`), since Nest
listens after every `onModuleInit`.

### Access

A request is a slot with a route (`kind`) and the await it is at (`pc`); an answered slot is used
again, so runs do not end. `loading` is the middleware's GET of the session, after which
the guards decide at once; `touching` is the EXPIRE at the end of a response that has a session. Login is
verify, regenerate (DEL of the old session), save under a new id; logout is one DEL, whose error is
ignored. `validate` is two queries, and the second is split where it matters: `Stamp` takes its `now()`, `Stamped` is the
moment it has the row's lock. The seed commands are requests like others, run beside the server. Every write
may take effect and look failed. `late` is history: the request came when its key was
revoked or its session gone.

A token is identified with its hash, a password is right or wrong, the rate limits are a
refusal that may come at any time. Of session ids only those that some login was answered with are sent.

### ReadModel and Dashboard

`ReadModel` is operators only: `Stats` is the query (rows in range grouped by service and bucket,
`Floor`), `Merge` the two finds cut to the limit, `GetTtl` Redis's rounded seconds; `PivotStats`, `TotalErrors`,
`CooldownRemaining`, `HealthBanner`, `PanelState` are the frontend's functions of the same names. A table is a set of rows; an
answer keeps, beside what the code sends, what it was asked and what it was made from, for the properties
to compare with.

`Dashboard` is a tab. Each query has `status`, `error`, `data`, `fetch` as TanStack Query keeps them:
`Poll` starts a fetch (any time: `refetchInterval` and mounts), the `Server` answers in its steps
(`FindDispatched` and `FindFailed` are two, in either order, and rows may be committed between), `RequestFails` loses it,
`Retry` tries once more, `Arrive` stores the answer, `ArriveUnauthorized` goes to the login
page. A query is identified by its key, so an answer to a former selection is stored under that
selection. `Effect` is the alert table's `useEffect`, `DrawAgain` the countdown's interval.
Clocks of browser and server are one.

## 3. Runs

| Run | Instance | Shows |
|---|---|---|
| `detector_two_processes` | 3 requests, 2 processes, cooldown 2, time to 3 | `DirectAlertsSpaced`, `QueuedAlertsSpaced`, `SilenceTracesToAlert`, `LocalNeverShrinks`, types |
| `detector_faults` | 2 requests of 1 process, time to 4, plus restarts, data loss, database errors, `FairSpec` | the first three under every fault, and `ResponseSent` |
| `detector_timed_out_lock` | 2 requests | **violated**: `TimedOutLockStillAlerts` |
| `window_counts` | 3 requests, window 2, timeout 1, time to 6; a failing Redis and data loss until time 3 | `CountsTheWindow`, `BurstSeen`, types |
| `delivery_faults` | 2 alerts, 2 processes, 2 attempts, 2 mishaps, `FairSpec` | entries, deliveries, receipts, survival; `ImplementsLedger`, liveness included |
| `delivery_delivered_failure` | 1 alert | **violated**: `FailureMeansUndelivered` |
| `delivery_unrecorded` | 1 alert | **violated**: `ExhaustedIsRecorded` |
| `system_alert_path` | 2 requests of 1 process, 1 attempt, 1 mishap, time stands still, `SystemFairSpec` | `NoneVanishes`, `EveryIncidentIsEntered` |
| `system_held` | 2 requests, time to 2, no faults | **violated**: `HeldMeansSent` |
| `health_flag` | the code's own times in ticks of 500 ms, one caller after the other | the flag is wrong for at most 5.5 s and 6.5 s; a call of `GET /health` without a cookie ends within 1.5 s, one with a cookie later only while Redis is away or for at most 4 s (2.2 rounded up, and 1.5) after; it leaves no timer and tells of the flag as it is |
| `access` | 2 requests at once, any route, without end; 2 sessions, 1 key, 2 emails | `OneAccount`, `SessionsOnlyEnd`, `GoneIsRefused`, `ManagedByAdmins`, `LastUsedTracks`, types |
| `dashboard` | each panel with its tables, see below | `ChartShowsTheLog`, `LatestAlertsShown`, `CountdownHolds`, `BannerFollowsHealth`, `AnnouncesNews`, types; `PanelsHeal`, `NoSessionLeadsToLogin` |

### Bounds, and why they are enough

- `MaxTime` (Detector 3 and 4, window 3 and 6) stops the clock. With a cooldown of 2 a lock or a
  memory cooldown expires and is taken again; with a window of 2, `window_counts` runs past the expiry of the key
  (two windows after the last command). A behaviour in which a fault has left a trace goes on
  to `FaultsUntil` only: its question is what an outage takes from the set.
- Three requests: the longest chain in `SilenceTracesToAlert` has three (one refused in
  Redis, by one refused in memory, by one that alerted), and the shortest burst in which
  a late command can overtake and trim has three.
- One service: services share nothing but the flag and the server.
- `MaxAttempts` 2 tells the first, a further and the last attempt apart; `MaxStalls` is
  BullMQ's default 1 in `delivery_faults`; `MaxMishaps` 2 are the two stalls that
  make BullMQ give a job up.
- `system_alert_path` stays within one cooldown (`MaxTime` 1) and calls no webhook (`Webhook` FALSE, an
  INSERT that fails makes a dispatch fail just as well): one tick more is beyond what TLC can do in minutes.
  That cooldowns expire is in the runs of `Detector`, what the webhook does in those of
  `AlertDelivery`, and `NoneVanishes` is proved without these bounds.
- `Faults` names which faults a run allows. Redis being down, late or timing out is
  always allowed in `Detector`.
- `health_flag` uses the real constants; one tick is `commandTimeout`. Both limits are
  reached, one tick less is violated.
- Deadlock is not checked where a run's clock, requests or alerts are used up and the
  system has nothing left to do (`SlidingWindow`, `AlertDelivery`). In `Detector` and
  `RedisHealth` it is.

- `access`: two requests at once are the shortest of every race the code has (two seeds, revoke and
  validate, logout and touch); a slot that is used again makes the sequences as long as they may get.
  With two session ids one login can follow another. `Minute` 1 and time to 3 let `last_used_at`
  move twice and stay once. The run's VIEW drops of a request what no later step and no property reads (`MCAccess!Ahead`); its
  SYMMETRY is sound because all properties are safety properties.
- `dashboard`: each panel is open alone (`Pages`). Two queries share only the session, the page and the
  selection, and no property relates two panels; all four at once multiply to more than TLC can do. Per panel the
  run lets happen what the panel can tell: `stats` two rows of two services, two selections, time to 1 with buckets of 2
  and rows from the past; `status` a lock of 2 with a second of 2 units, time to 3, so it is asked for, expires and is
  drawn at half seconds; `alerts` three rows, limit 2, so both the finds and the merge cut; `health` three failures, so a
  fetch, its retry and another fetch can fail. `mishaps` also counts ends of sessions and logouts.

The theorems of section 5 do not depend on any of these bounds.

### Fairness

`Detector!FairSpec` asks for progress only of the awaits the answer depends on, per
request: a Redis command is settled by its reply or by `commandTimeout` (`redis.service.ts:18`),
a database query by its answer or an error. Nothing is assumed of the queue (BullMQ's own
connection has no such timeout), the flag or the server. `AlertDelivery!FairSpec` asks that
calls end (the webhook has a timeout of 5 s, the database answers or fails, a move reaches Redis
or the job's lock expires) and that a waiting job is fetched when a worker is free;
processes die finitely often, or nothing could be promised. `SystemFairSpec` takes both over and adds
that an add is executed or rejected in the end: BullMQ's ioredis connection gives a command up after
twenty failed reconnects. That Redis comes back for good is a premise of `EveryIncidentIsEntered`,
since a queued job cannot move without it.

`Dashboard!Spec` has weak fairness of the steps of one query that succeed, `Goes(k)`: the browser's timers fire (`refetchInterval`), the server
answers, the answer arrives. Failures are not fair and finitely many (`MaxMishaps`): `PanelsHeal` says
what is true once they are over. The other modules state safety only.

## 4. Where the code and its documents differ

- **A timed-out lock does not always alert** (`detector_timed_out_lock`).
  `docs/plans/2026-09-30-…benchmark.md:179` says that when `SET NX` took effect although the
  client saw a timeout, "the alert goes out in this case too". It does unless the memory
  cooldown is still held from an earlier degraded alert; then the request sends
  nothing and the orphaned lock silences the service for a whole new cooldown. What
  does hold is `SilenceTracesToAlert`: following who holds the cooldown leads, in at most two steps,
  to an alert that was sent, was queued, is still being made, or was lost with its process.
- **A delivered alert may be recorded as failed** (`delivery_delivered_failure`). The
  row's INSERT is inside the unit that is retried, so an alert the webhook accepted is
  delivered again and recorded in `alert_failures`, a table for "alerts whose sending failed".
- **An exhausted alert may leave no record** (`delivery_unrecorded`). `onFailed` runs after
  the job was removed, and a failing INSERT has no second chance; `README.md:88-90` says a record
  is left.

- **A held memory cooldown does not mean that an alert went out** (`system_held`). Decision 7 of
  `docs/plans/2026-09-30-…benchmark.md` (line 358) skips the alert of a rejected add when the memory cooldown is
  held, because then "an alert has already gone out". The cooldown is taken before the direct dispatch
  and kept when it fails, so both alerts may be missing. What does hold is `EveryIncidentIsEntered`: the failed
  one is a row of `alert_failures`.

Not runs of their own, seen in the models:

- `README.md:259` says that logout invalidates the session at once. `auth.controller.ts:49` answers 204 whatever
  became of the DEL, so with a Redis that does not answer the session stays (`Destroy` of `Access`, second branch).
- `alerts-table.tsx:16` announces a new first alert "except for the first load". After an *empty* list `prevTopId` is
  still undefined, so the first alert there ever is goes unannounced; `AnnouncesNews` is about lists that had one.
- `panel-state.ts:6` says an error is two failures in a row. A fetch nobody waits for is not
  retried (a filter is changed while it is under way), and then one is enough.
- The banner "db-down" and the error of a panel without data go away for the time of each refetch, since the query is "pending" again.
- The tile of the last day's alerts counts among the latest 100 (`stat-tiles.tsx:61`).
- `health.service.ts:9-13` says that with Redis down `/health` is still 200 "degraded". For a call without a cookie it is. A call with
  the cookie of a session waits at `session.module.ts:28` until Redis is back (`loading` of `HealthEndpoint`), and if the session
  was read before Redis went away, the end of the response waits there instead. A dashboard that is logged in is told "degraded" when
  Redis is back, or when the server closes the connection on which the EXPIRE is waiting.
- A server started while Redis is away does not listen: `session.module.ts:54-56` awaits a `connect()` that tries until it
  succeeds (`booted` of `HealthEndpoint`). `POST /errors`, which is to go on without Redis, goes on only in a server that was up before.
- `GET /errors` includes `to`, `/stats` excludes it (`errors.service.ts`, `dashboard.service.ts:59`).

A limit of the design rather than a divergence: a request counted in the database is never
added to the sorted set, so for a window after an outage Redis counts too little, and a burst
that straddles the switch may be seen in full by neither. `BurstSeen` therefore speaks of bursts
counted on one path.

## 5. Proofs

TLAPS checks every theorem, for all values of the constants that meet the module's ASSUME
(positive cooldown, window and attempts; functions from requests to processes and services; a
timeout shorter than the interval of PINGs; "no row" is not a row). Where a theorem needs more it says so itself:
a count of alerts a finite set of processes, a count of the window `Patience <= Window`.

- `DetectorProofs`: `TypeCorrect`, `DirectAlertsSpacing`, `QueuedAlertsSpacing`,
  `SilenceTracing`, `LocalMonotone`. None of the properties is inductive: that alerts
  are apart says nothing of what the next request finds. The invariant adds two books.
  `LocalBook`: the memory cooldown reaches past every direct alert of this process life
  and ends a cooldown after one of them. `LockBook`: the same of the Redis lock and the
  granted SETs. `Progress` ties the place of a handler to the commands it issued. From the spacing follow the limits the
  repository's README gives for degraded mode (lines 108-110): `AlertsPerCooldown`, at most one direct alert per process and one on the
  queue within any stretch of a cooldown, direct alerts of an earlier process life and queued ones whose lock Redis lost not counted (alerts of a stretch map to their processes one to one). `HandlersMoveOn` is the half
  of `ResponseSent` that needs no fairness: every await that settles leaves the request fewer, and nothing gives it more.
- `DeliveryProofs`: `TypeCorrect`, `AtMostOneEntry`, `BoundedDeliveries`,
  `ReceiptsForRows`, `QueueSurvival`, and `LedgerRefinement`, the safety part of the
  refinement. The invariant is a conjunction per alert (`AlertOK`) of accounts: which
  stage may have how many attempts, entries, receipts and deliveries. It is tighter in the stages
  before an effect than after it. `RetriesEnd` is the half of the ledger's liveness that needs no fairness: every step but a mishap
  lowers `Work` of one alert, the attempts and stages it has left, and that of no other; `Work` is bounded.
- `AlertSystemProofs`: `ImplementsGate` and `ImplementsDelivery` (every step of the composition is a step of each part
  or a stutter there), so all theorems above hold of the whole, `SystemSilence` among them; and
  `NothingVanishes`. Its invariant is `HandedOver`: what the gate decided for a request is what delivery holds
  for its two alerts. It needs the gate's own invariant (a request under way has decided nothing
  yet), which `ImplementsGate` brings along. `AlertsPerIncident` adds up both paths: of the alerts delivery has been handed for a
  service, those decided within one cooldown are at most the processes and one, direct alerts of an earlier process life
  not counted (a restart forgets the memory cooldown). One process and two requests reach the limit.
  `SystemKeepsPromises` and `SystemKeepsLedger` instantiate `DeliveryProofs`: entries, deliveries, receipts, survival and ledger hold
  of the whole as well.
- `WindowProofs`: `TypeCorrect`, `WindowOrExpired`, `WindowCounted`, `BurstIsSeen`. A member missing from the set was
  trimmed by a command a window later or went with the key (`Gone`); every command puts the expiry two windows ahead and runs
  within `Patience` of its time when its reply still counts. So, for any window, a count has nothing outside its window and
  misses only what is two windows less `Patience` older (`WindowOrExpired`); with `Patience <= Window`
  that is outside the window anyhow (`WindowCounted`). Nothing in the code enforces the latter: `config/env.schema.ts:13` only asks
  `ALERT_WINDOW_MS` to be positive. For the burst the invariant says of every subset what the property needs of the whole (`OneSawAll`): of any requests
  Redis executed one saw all the others, of any burst the database counted one counted all the others. This is
  the "last of them", without an induction over a finite set.
- `HealthProofs`: `TypeCorrect`, `DownNoticedInTime`, `UpNoticedInTime`, for every interval,
  shorter timeout and retry pause. The invariant relates the age of the outage or of the
  recovery to the timers: what is left of them plus that age never exceeds the limit.

- `EndpointProofs`: `ReadsTheFlag` (the endpoint refines to the flag alone, so the theorems of `HealthProofs` hold here),
  and the types, the deadline, the timers and the currency of the answer, for every number of callers and every
  timeout and pause. The invariant `CallOK` has the age of a call without a cookie and what is left of its timer make up the deadline;
  `WaitOK` says of a call with one, while Redis is up: either that is so of it too, or Redis has not been up for longer than the pause of
  the session client and the part of the timeout that is over. It needs the type of `steady`, which `ReadsTheFlag` brings along.
- `AccessProofs`: all six properties of `Access`, for every number of requests, sessions, keys and accounts. The invariant
  `AInv` says which routes come to which await (`PathOK`), that an admin's session or request belongs to an account that *is* an
  admin (`RoleOK`, `TablesOK`), and that a late request finds nothing (`LateOK`). All of it is stable under the steps of other
  requests because the tables only age (`Ages`): ids are never unused again, sessions end, keys stay revoked,
  admins stay admins. The last is a fact about the code: nothing takes the role away.
- `DashboardProofs`: about the operators, `ChartOfAllRows` (the pivot of an answer is exactly the rows in range per
  bucket and service), `TileOfAllRows` (the tile's sum is their number), `BucketHoldsItsRows`, `OnlyOlderAlertsMissing`; about the tab,
  `DashboardTypes`, `ChartIsTheLog`, `CountdownIsRight`, `BannerIsRight`, `LatestAlertsAreShown`, `AnnouncementsAreNews`. The sum is a fold over a
  set, of which only its recursion is known: a function that solves the recursion is unique on finite sets (of the sets on which two
  differ take one of the fewest elements), and the number of rows in a set of cells solves it. `ChartIsTheLog` needs that every answer and
  every cache entry is the statistics of a log the tables had, for the key it is kept under (`SInv`). The announcements
  need that a list asked for later has all of a list that was shown (`NInv`): what precedes it is new. The alert list rests on this: an alert that a find of `Limit`
  rows leaves out has `Limit` rows above it, rows are never deleted, and so it still has `Limit` above it in the
  merge, however much later the other table is read. The countdown needs what Redis's rounding can take and give,
  and that a lock is not taken anew while it is held.

Every safety invariant and action property of the runs is a theorem. Only model-checked is liveness: `ResponseSent`,
`EveryIncidentIsEntered`, `PanelsHeal`, `NoSessionLeadsToLogin` and the liveness of `ImplementsLedger`; fairness is out of the prover's
reach.

## 6. Not modelled, and what could follow

- `GET /errors`, the list of keys, `GET /auth/me` beyond their guards: reads without state.
- `windowCount` of `/status`: no panel draws it. Clamps and defaults of the inputs (`bucket`, `limit`), `to` of `/stats`, which the
  frontend never sends: parsing.
- `ServeStatus` reads the services and all locks at one moment, where the code reads them one after the other; the countdown is per
  service and cannot tell.
- The idempotency key `service:windowStart` of `dispatch`, and what a receiver makes of it; loss of the queue
  with Redis's data.
- The tiles' loading and error states, labels, dates, layout: rendering.
- Wiring, environment, API description: configuration and constants.
- Tools: the load generator and the webhook relay run beside the system and keep no state of it.

What could follow: two alerts of one incident that share an idempotency key; two panels at once with a shared session; a
bound on the entries of one incident in the two tables, over all its alerts.
