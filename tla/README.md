# Verification of gin-shared

TLA+ models of the concurrent, distributed and looping parts of gin-shared, model-checked with
TLC and, for most of their safety, proved with TLAPS. gin-shared is a Go library for
services: it brings a cluster-wide scheduler, in-process and redis messaging, lockers, caches, a
parquet writer, queries by pages and the wiring of a gin server. Paths below are relative to the
repository root.

## 1. Inventory

| Part | State | Operations | Talks to |
| --- | --- | --- | --- |
| `pkg/schedule/leader.go` | a redis key with a TTL; per process `isLeader`, a ticker, a context | `Start`, `Stop`, `elect` (SETNX, GET, EXPIRE), `IsLeader` | redis; `cron_redis.go` asks `IsLeader` |
| `cmd/schedule_pause.go` | the same key | `schedule-pause` (SET), `schedule-resume` (DEL) | redis only; processes notice in their next round |
| `pkg/schedule/cron_redis.go`, `cron.go`, `options.go`, `history.go` | registered jobs, `ScheduleDisabled`, cached schedules, job history in a hash | `CreateScheduledJob`, `Run`, `wrapFuncJob`, `SetJobhistory`, `UpsertJobSchedule` | cron, the election, `JobHistoryAdaptor`, the hash |
| `pkg/schedule/steps.go`, `cleanup.go` | results and joined errors; tables and batches | `RunStepsWithContext`, `RunStepsAsync`; `Cleanup` | database |
| `pkg/core/chanAdaptor.go` | sender channel, map of receivers, `Started`, duplicate map | `Push`, `Sub`, `Subscripter`, `Start`, `Stop` | event bus (start, stop), every consumer of events |
| `pkg/core/blockingQueue.go` | slice, `closed`, condition variable | `Push`, `Pop`, `Clear`, `Close` | event bus (close) |
| `pkg/core/eventbus.go`, `util.go`, `fileAppender.go`, `pkg/ginshared/gin.go` | registered handlers, `delay`, an open file, the HTTP server | `OnServiceStopping`, `CloseOnlyNotified`, `RootCtx`, `AppendToFile`, `ToAnyChan` | everything that is started and stopped |
| `pkg/messaging/redisStreaming.go` | stream, group position, pending entries | `Pub`, `Sub`, `handleMessage`, `ProcessPendings` | redis, the scheduler (sweep), `AbandonedChan` |
| `pkg/messaging/gorm*.go` | rows on either side, registered types | callbacks of writes, `PubEntitiesSince`, `ProcessGormObject` | the streams, the database |
| `pkg/locker`, `pkg/ginshared/requestlocker.go` | key with token and TTL; or a `sync.Map` of mutexes | `Lock`, `LockWithtimeout`, `WaitForLocker`, release | redis; HTTP requests |
| `pkg/parquet` | a batch, a context, files | `Start`, `drainRemaining`, `WriteMessages`, sanitizing | `ToAnyChan`, `AbandonedChan` |
| `pkg/cache` | redis keys with a legacy name and local copies; lists; hashes; rows | `Get`, `Set`, `Del`, `CacheFun`, `Append`, `GetAll`, `SetValues`, `SetTTL` | redis, database |
| `pkg/dedup` | a fingerprint per name | `CheckAndSave`, `Set`, `Get` | database |
| `pkg/mqttclient` | handlers per topic | `Sub`, `OnConnect` | broker |
| `pkg/query`, `pkg/orm/common.go` | none; a page of a table | `Query`, `PagingResult`, `Trigger` | database |
| `pkg/orm` else, `pkg/auth`, `pkg/keycloak`, `pkg/storage`, `pkg/notify`, the rest of `ginshared` and `core` | none of their own at run time | set-up, SQL, per-request checks, input and output | |

What is hard, in order of weight: time (leases against rounds, jobs and requests that outlive them;
the grace of a shutdown), partial failure of redis commands and file writes, several commands or
statements on one datum where one is meant, goroutines that share channels and flags without a
protocol for closing, acknowledgement of work that may have been done, half done or lost, and loops
that go on over data others change. `PROJECT.json` lists each hazard at its line with the properties
that cover it.

## 2. Modules

| Module | Models | Correspondence |
| --- | --- | --- |
| `LeaderElection` | `leader.go`, `schedule_pause.go` | `holder`/`lease` are the key and its TTL; `isLeader`, `mode`, `timer`, `due` (the tick buffered in `ticker.C`) and `pc` are each process. Each command of `elect` is an action, with an `...Error` action for its error path |
| `ScheduledJob` | `cron_redis.go` | EXTENDS the election; `trigger`, `passed`, `running` are the three points of `wrappedFn` |
| `JobControl` | `cron.go`, `options.go`, `history.go` | `scheduleDisabled`, `reg` and `cached` of `startCron`; `work` is a goroutine in `Run` or a firing, with its attempt; `store` the history record, which `Persist` replaces and `UpsertRead`/`UpsertWrite` rewrite |
| `Steps` | `steps.go` | `async` says which runner; `loopAt` the loop, `stepPc` and `wg` the goroutines, which store the result, append the error and tell the WaitGroup in three steps, `errs` the joined errors in order |
| `Cleanup` | `cleanup.go` | `rows` are live, `recent` or `old` soft deletes, or gone; `Use` is the application |
| `Broadcast` | abstract | every accepted message to every receiver, in order, nobody more than one ahead |
| `ChanAdaptor` | `chanAdaptor.go` | `accepted - taken` is the buffer; `pump`, `cur`, `todo`, `target` the goroutine in `Start`; `sub` the two halves of `Sub`; `fatal` a panic; `Liberties` what its callers do out of order |
| `BlockingQueue` | `blockingQueue.go` | a critical section is a step; `waiters` and `woken` are the two halves of `cond.Wait` |
| `Shutdown` | `util.go`, `eventbus.go`, `fileAppender.go`, `gin.go` | `order` the registered handlers, `at`/`until` the one that runs, `exitBy` how the process ends; `line` the channel and goroutine of `AppendToFile` |
| `RedisStream` | `redisStreaming.go` | `last`, `trimmed`, `delivered`, `pel` are the stream and the group; `batch`, `hand` the read loop; `sweep` ... `settle` the position of `ProcessPendings` |
| `EntitySync` | `gormCallback.go`, `gormSyncService.go`, `initTables.go` | `source` and `replica` the two tables, `txn` an open transaction, `inflight` the stream as its reader sees it, `sync` the position of `PubEntitiesSince` |
| `RedisLocker` | `redis.go`, `requestlocker.go` | `owner`/`lease` the key; `granted` (history) what each caller was promised |
| `LocalLocker` | `local.go` | `stored` is the map entry, `mine` the mutex a caller works with |
| `ParquetWriter` | `parquetPoolService.go` (`Start`, `drainRemaining`, `WriteMessages`), `util.go` (`ToAnyChan`) | `bridge` the feeding goroutine, `writer` the position of `Start`, `batch` what it has in hand |
| `Sanitize` | `parquetPoolService.go` (sanitizing) | a Go value is a tree of nodes, of a height; `Sanitized` is the recursion of `sanitizeValueByType`, `Rebuilt` one call of it |
| `CacheMigration` | `cache/redis.go`, `interface.go` | `redis` and `local` the copies under both names with their lifetimes, `op` the point a `Get`, `Set` or `Del` has come to |
| `ListCache` | `redisList.go`, `gormList.go`, `ramList.go` | `impl` says which; `append` the two halves of each `Append`. `ExpireFails` is an Append whose Expire failed and which returns nil all the same |
| `HashCache` | `hashex.go`, `redisHash.go`, `gormHash.go` | `store` and `kind` say which hash and which T; `entries` the fields or rows with the form and life they have; `literal` the strings that are JSON themselves, which `GetAll` decodes and `GetValues` does not |
| `GormCache` | `gormcache/gorm.go` | one row per key, with its `DeletedAt` |
| `Fingerprints` | `dedup.go` | `row`, `pending`, `holder` the row, its uncommitted state and its lock; `call` each transaction |
| `Subscriptions` | `mqtt.go` | `subs` the map, `resub` the goroutines of `OnConnect`, `broker` and `route` what the broker delivers and the client calls |
| `Paging` | `rawquery.go`, `orm/common.go` | `ask` the request with its own limit, offset and grouping, `paging` the statement it is at; rows come and go between statements; `Grouped` is "group by", which `Query` has and `CountedBySum` has not |
| `LeaderElection_proofs`, `ScheduledJob_proofs`, `RedisLocker_proofs`, `RedisStream_proofs`, `ChanAdaptor_proofs` | | theorems about the module of that name |
| `Loops_proofs` | | theorems about `BlockingQueue`, `Steps`, `Cleanup` and `ParquetWriter`, and about `MCLiveness` as a whole |
| `Process_proofs` | | theorems about `JobControl`, `Subscriptions`, `Shutdown` and `Sanitize`, and about `MCProcess` as a whole |
| `Data_proofs` | | theorems about `EntitySync`, `CacheMigration`, `Fingerprints`, `HashCache`, `ListCache` and `Paging`, and about `MCData` as a whole |

**Hosts.** `MCLiveness`, `MCData` and `MCProcess` bring together modules that share no variable. A
variable `part` says which of them a behaviour runs, and the others stay where they start, so the
states of a run are the sum of its parts' and not their product; every property of a part is a property
of the run. Which modules share a host depends on the kind of question: loops that must end under
fairness, data used by several processes, and the inside of one process. Their parts come to an end
(a pass is over, a process has exited, all runs were made), so these three do not check deadlock; all
other passing runs do. In `MCLeaderElection` a variable `regime` does the same for faults: "faults" has
redis errors, crashes and Stop, "operator" the CLI and crashes.

Operators whose comment begins with "Slip:" are not part of a model. Each is a definition next to it
written the way a plausible bug would write it; replacing the definition by it makes TLC find
the property named in `PROJECT.json` violated, so that property depends on that code.

**What the models abstract.** Messages are numbers in order of acceptance, times are ticks, rows
and cached values are versions, a leader ID or a lock token is its owner (`Gone`, `Orphan` for one
nobody knows any more). `Start` after `Stop` waits in the model for the round that was in progress,
whose context is cancelled. A process that asks `IsLeader` and goes on to run the job does both
within one tick. One sweep of pending messages runs at a time, as the scheduler runs it on the
leader. The message that `checkAndCreate` puts on an empty stream is not counted. The duplicate
filter of `ChanAdaptor.Push` is off. A statement of SQL and a redis command are atomic; `FOR UPDATE`
locks the rows it finds and no others; a row locked by another transaction makes a statement wait.
`EntitySync` takes from `RedisStream` what that module shows of the stream: any order, any number of
times, until acknowledged or abandoned.

## 3. Runs

| Run | Bounds | Shows |
| --- | --- | --- |
| `MCJobSafe` | 3 processes, interval 3, TTL 8, rounds up to 1, period 4; crashes | `AtMostOneLeader`, `LeaderHoldsKey`, `RenewsOwnKeyOnly`, `OncePerFiring`, `OnlyLeaderExecutes` |
| `MCLeaderHeals` | 2 processes, interval 3, TTL 10, rounds up to 2, pause 20; all faults; fairness | `PauseStopsLeader` (within `Interval + MaxDelay`), `Failover`, `SplitBrainHeals` |
| `MCStream` | 2 consumers, 3 messages, MAXLEN 2; crashes, lost replies, failed XACK; fairness | `NothingForgotten`, `LaterPendingsSettle` |
| `MCLocker` | 3 callers, TTL 3, 1 retry; redis errors, crashes; fairness | `LeaseExclusive`, `OrphanExpires`, `WaitEnds` |
| `MCLiveness` | 3 steps, one without a function; 2 tables of 2 rows, batches of 1; buffer 2, 4 messages; 3 Pops, 4 items; 2 receivers, 2 producers, buffer 2, 4 messages; fairness | `StepsAccounted`, `CleanupExact`, `ParquetExact`, `NoLostWakeup`, `NoPanic`, `LoopsEnd`, `CloseReleasesAll`, `ImplementsBroadcast`, `CloseEndsHandlers` |
| `MCData` | 2 rows, pages of 1, 2 writes, 3 messages; 2 processes, lifetimes 2, 2 versions; 2 Appends; 2 fields, 3 calls; 3 callers, 2 contents; 5 rows, 2 columns, pages of 2 and 3, groupings by each column and both, limits and offsets of -1, 0 and 1 | `SyncHeals`, `StaleBounded`, `ListHolds`, `HashReads`, `CheckedOnce`, `PagesExact` |
| `MCProcess` | 1 job, 2 workers, 2 runs, 1 retry, a starting process; 2 receivers, 2 producers, 2 Starts, any order of calls; 5 handlers in every order, grace 5, delay 1; 2 topics, 3 callers, 3 connections; messages of height 7, with pointers, interfaces, slices, arrays and maps | `HandedOnce`, `SwitchRestored`, `HistoryTrue`, `SanitizedClean`, `ShutdownOrderly`, `LinesKept`, `Resubscribed` |
| `MCLeaderSplitBrain` | 2 processes; redis errors | violated: `AtMostOneLeader` |
| `MCQueueClear` | 2 Pops, 3 items; fairness | violated: `ClearReleasesPop` |
| `MCStreamStuck` | 1 consumer, 2 messages; fairness, nothing fails but processors | violated: `PendingsSettle` |
| `MCLocalRace` | 2 callers | violated: `Exclusive` |
| `MCGormCache` | 2 processes, 2 keys, 2 values | violated: `SetIsRead` |

**Why the bounds are enough.** The default interval of 3 s and TTL of 10 s are kept where the arithmetic
matters (3 and 10 ticks; 3 and 8 in the larger job model): a lease outlives two missed rounds and not a
third. Three processes are a leader, a rival and a bystander. Three Pops are a waiter, one that was
woken and one that takes its item. Four messages fill a buffer of two, the pump's hand and a blocked
producer, and are two full batches of the parquet writer or one and a rest. Three messages over a MAXLEN
of two trim one that may be pending. Two rows and pages of one make a row change pages; three messages are
a callback's, a pass's and a repetition. Lifetimes of 2 let a copy age once on each stage of the way from
a local copy to redis to a local copy. Three callers of `CheckAndSave` are one that holds the row, one that waits
and a `Set`. Five handlers are two that sleep for the grace, the server, the file's, and one that is quick:
enough for the second sleeper to use the delay up and for the third to be cut off. Three connections
are the one a `Sub` fails on, the next, and one that is lost while `OnConnect` is at work.

**Fairness.** Time passes, and a goroutine that can take its next step does: the Go scheduler and the
redis client give that. A round that was cancelled by `Stop` ends with an error. Handlers, steps, writes and
message processors return. A goroutine woken from `cond.Wait` gets the mutex. A closed channel is always ready,
so a select cannot prefer its timeout for ever (strong fairness of `Buffered` with `ok == false`). Nobody owes a
`Push`, a `Close`, a cancel, a crash, or an operator's command; failures are never fair, and `Failover`, `SplitBrainHeals`
and `LaterPendingsSettle` are conditional on their coming to an end.

**History variables.** `pause`, `ran`, `got`, `caught`, `done`/`abandoned`, `granted`/`forced`, `begun`, `dropped`/`filtered`,
`healing`, `quiet`/`how`, `raced`, `life` of an Append, `lastSet`/`ends`, `log`, `shown`/`moved`, `outcome`/`latest`/`torn`/`overlapped`,
`sent`/`written`/`swallowed`, `failed` record what happened for the properties; no guard of an action reads them
but for the bounds on how many calls are made.

**Conditions in the properties.** Several properties are conditional because the code promises no more, and
each names its condition. What happens without them is in section 5.

| Property | Holds | Says nothing of |
| --- | --- | --- |
| `OnlyLeaderExecutes`, `OncePerFiring`, `AtMostOneLeader`, ... of `MCJobSafe` | with crashes as the only fault | redis errors, `Stop` and the CLI, with which leadership may end while the job runs |
| `SwitchRestored` | for manual runs that do not overlap | overlapping ones (`overlapped`) |
| `HistoryTrue` | for records of one writer at a time | records two writers tore (`torn`) |
| `CleanupExact` | for positive batches | `Batch` 0 |
| `NoPanic` | of callers that keep to the order | late pushes, second closes and second pumps; `HandedOnce` holds with them |
| `NothingForgotten` | up to MAXLEN | a trimmed message, which counts as settled |
| `LeaseExclusive` | until a forced DEL hits another's key | what follows it (`forced`) |
| `ParquetExact`, `LinesKept` | with what is lost counted | a batch whose file cannot be written (`dropped`) and the line the stopping handler receives (`swallowed`) are accounted for, not prevented |
| `SyncHeals` | of a pass nobody writes into (`healing`) | the replica before such a pass ends: a skipped row, an older version, a message of a transaction that was rolled back |
| `ListHolds` | of redis and the table; of memory without overlapping `Append`s | items of an `Append` whose `Expire` failed beyond what was left to the list |
| `HashReads` | of redis and of a table with the unique index | a table that appends; the value `GetAll` returns for a string that is JSON of a string or null; a call of `GetValues` that fails, as all do for a form that cannot be read |
| `PagesExact` | of a table that stands still | a request with a limit or an offset of its own, or with a page size and no sum; of a grouped query it says that the total is no less than the rows, not that it is their number |
| `Resubscribed` | without a failed attempt on the same connection | the topic of that attempt |

## 4. Proofs

The theorems hold for every value of the constants that satisfies the `ASSUME`s of the modules: sizes and times that
are natural numbers (positive where the code divides or counts by them), marker values that are none of the real ones
(`NoKey`, `Gone`, `NoPrint`, `Replaced`, ...), finite sets of consumers, producers, handlers, rows and columns where the model
counts or orders them, at least one row, connection and tick where something is said of them, and for `Sanitize` that
`strings.ToValidUTF8` returns valid strings and leaves those as they are. TLC evaluates these assumptions in the runs. A part that
a host runs has a specification of its own (`StepsSpec`, `CacheSpec`, ...) and the theorems about it are about that; `LiveParts`,
`DataParts` and `ProcessParts` prove that the specification of each host implies those of all its parts. Four theorems
assume more, and say so:

- `LeaseRegime` (election, scheduled job): redis answers, nobody calls Stop or the CLI, a round ends before the next
  tick, and the lease outlives an interval and a round. It holds of the defaults with rounds under 3 s; `MCLeaderSplitBrain` shows
  what happens without its first part.
- `PauseRegime` (pause): redis answers, nobody calls Stop on a live process, and a round ends before the next tick. The lease does not
  matter.
- `Liberties = {}` (fan-out): callers keep to one Start, one close, no Push during or after it, and every receiver joins before the
  Start. `MCProcess` runs the model with every liberty; in it `NoPanic` does not hold.

Each invariant below is inductive; what is in it besides the property is why the property cannot stand alone.

| Theorem | Property | What carries it |
| --- | --- | --- |
| `SingleLeader`, `LeaderHolds`, `RenewsOwn` | `AtMostOneLeader`, `LeaderHoldsKey`, `RenewsOwnKeyOnly` | Nothing in the property says why a rival's SETNX fails. A process that leads or is about to (`pc` is `win` or `expire`) holds the key, and the lease covers what is left of its interval plus a round, counted from the tick its ticker last fired. A tick takes one from both sides, a renewal resets the left, a crash turns the key over to nobody |
| `PauseStops` | `PauseStopsLeader` | While the CLI holds the key, a leader has either not ticked since the pause, or is in the first round after it, the one that will see the key (`PauseNoticed`) |
| `JobImplementsElection`, `LeaderOnly`, `AtMostOncePerFiring` | `OnlyLeaderExecutes`, `OncePerFiring` | Each step of the job is one of the election or leaves it alone, so the election's invariant carries over; whoever passed the check, runs or ran for the latest firing is the leader or has died |
| `LockExcludes` | `LeaseExclusive` | Whoever is within its grant is inside (`GrantedInside`) and its token is in the key for at least as long (`GrantedOwns`), unless a DEL was forced |
| `AtLeastOnce`, `AcksSettledOnly` | `NothingForgotten` | A hand or a sweep that is about to acknowledge has a message that was processed or abandoned (`HandsDone`, `SettleSettled`); so XACK takes nothing out of the pending list that is not settled |
| `NoWakeupLost`, `ClosedForAll`, `FirstInFirstOut` | `NoLostWakeup` | The signals that are on their way are counted against the items, by cardinalities of the waiting and the woken; Close empties the queue and wakes all |
| `NothingTwice` | `HandedOnce` | The pump's list of receivers still to visit holds none that has the message already (`ToVisitLacks`), each has one hand (`OneHandEach`); for any liberties |
| `OrderlyNeverPanics` | `NoPanic` | `Orderly`: every send of a producer or pump happens before the close of its channel |
| `FanOutIsBroadcast` | `Broadcast!BSafe` | The steps of `ChanAdaptor` map to steps of the abstract broadcast or stutter, under `Orderly`. The fairness half of `ImplementsBroadcast` stays with TLC |
| `SwitchIsRestored`, `HistoryIsTrue` | `SwitchRestored`, `HistoryTrue` | What a manual run saved is the setting from before it (`SavedSetting`); what a worker writes it has judged by its own attempt (`Judged`) |
| `EveryStepAccounted` | `StepsAccounted` | The loop position bounds the steps begun, the wait group counts those that have not told it that they are done, and a step tells it after its error is appended; the errors are those of the failed steps, in order and one each |
| `CleanupIsExact` | `CleanupExact` | Old rows are among those old at the beginning, and a table the loop has left has none |
| `TopicsResubscribed` | `Resubscribed` | A recorded topic the broker does not deliver has a caller or a goroutine of `OnConnect` at work (`Attended`), which subscribes with the recorded handler |
| `LinesAreKept` | `LinesKept` | The handler of the file has begun where a line was taken or the channel closed, and begins once because the order has it once |
| `ShutsDownInTime` | `ShutdownOrderly` | `Timely`: the handler that is next began, or will, when those before it have lasted (`Spent`, their partial sums, which do not fall: `SumsGrow`); the clock never passes its end, nor the grace before the select, nor the grace and the delay before the exit |
| `NothingLostBetweenBatches` | `ParquetExact` | `WriterInv`: the batch in hand is in order and behind everything stored, and is empty at the top of the loop, so that neither a new file nor a new batch drops or repeats anything; `FilteredIs` says what the filter lets through |
| `StaleIsBounded` | `StaleBounded` | Every old copy, in redis or local, under either name, in hand of a `Get` or not, has an end counted from the last change, and a copy is given no more life than its source's end allows (`AllFade`) |
| `CheckedOnlyOnce` | `CheckedOnce` | The row says what the last storing entry of the log says (`RowIsLast`), and the transaction with the lock has read the row as it still is (`Answered`) |
| `HashesAreRead` | `HashReads` | One entry per field at most (`OneEach`), so that every query reads that one; its set is the last one and its life what `SetTTL` gave the field. What comes out of `GetAll` is that entry decoded (`DecodedIs`) |
| `ListsHold` | `ListHolds` | The items are the promised ones in order of their `Append`, with life left until the promise ends (`ListGood`); in redis all items have one life, which a failed `Expire` leaves as it is (`ExpireFailsKeeps`) |
| `PagesAreExact` | `PagesExact` | `Walking`: on a table that stands still (`StandsStill`), what was shown is the beginning of the wanted rows, grouped, in order, up to the page, the rows in hand are those of this page, and a total is the number of the rows or of what they were grouped from, which is no less: the walk never ends too early, and pages beyond the last are empty. The order is the ranking of a finite set, each rank taken once (`InOrderIs`), so pages are consecutive pieces of one sequence; that the last page is the one at which the count ends is division (`Pages`) |
| `SanitizesAll` | `SanitizedClean` | For values of any height, over any strings: `CleanTo`, what sanitizing does to the values of a height, holds one height up (`OneHigher`). An entry of a map goes only where its key became another one's, which takes two strings that differ in their invalid bytes; keys of what is left differ (`LastOfEachKeyIs`), so the result is a proper value again and sanitizing it changes nothing |
| `LiveTypeCorrect`, `DataTypeCorrect`, `ProcessTypeCorrect` | `PartsTypeOK` of each host | The types of every part with the bounds on what is counted. A few bounds need to know of a call on its way: a line is counted before it is sent (`LinesCounted`), there is an `OnConnect` for each connection at most (`ConnectionsCounted`) |
| `SyncRepairs` | `SyncHeals` | `HealsInv`: the pages so far are exactly the earliest rows of the window (`Covered`), each row of them is right in the replica, on its way or still on the page, and every message on its way tells its row as it is. That consecutive pages are neither gap nor overlap rests on two beginnings of equal size of the same strict order being equal (`SameBeginning`) |

Type correctness is proved where it says something of its own: `TypeCorrect`, `JobTypeCorrect`, `LockerTypeCorrect`,
`StreamTypeCorrect`, `QueueTypeCorrect`, `JobControlTypeCorrect`, `StepsTypeCorrect`, `CleanupTypeCorrect`, `ParquetTypeCorrect`,
`ShutdownTypeCorrect`, `SubscriptionsTypeCorrect`, `EntitySyncTypeCorrect`, `PagingTypeCorrect`, and for the hosts as a whole. In the others the types
are part of the invariant.

The prover cannot instantiate the library's induction rules. `LeastNumber` (a set of naturals that is not empty has a least
element, from the well-foundedness of `<`) stands in for them: what holds at 1 and passes from each element to the next is
shown by looking at the least one where it fails. In the same way `PartialSums`, `FilterRuns` and `Recursions` show that the recursions of
`Spent`, of `Filtered` and of `Sanitize` have a solution, which the prover needs before it can use them. That is why `Sanitize` recurs over the
height of a value: a recursion over values themselves would have to be an operator, of which nothing can be proved here.

**Only model-checked.** Liveness (`Failover`, `SplitBrainHeals`, `LaterPendingsSettle`, `OrphanExpires`, `WaitEnds`, `LoopsEnd`,
`CloseReleasesAll`, `CloseEndsHandlers`, and the fairness of `ImplementsBroadcast`) is beyond the prover.
Every safety property of a passing run is stated by a theorem, and every host's types. The runs that find a violation have none,
of course.

## 5. Divergences met

With a run (see `findings`): two leaders when redis commands fail; `Clear` does not release `Pop`; the lowest
pending message of a consumer is never retried; two first callers of the local locker both get in; a key of
the gorm cache that was deleted once is never read again.

Without a run, each visible in a model by dropping one condition of a property or changing one constant:
- `schedule-resume` deletes the key of a sitting leader, and two processes lead until the next round
  (`Faults = {"cli"}`, `AtMostOneLeader`).
- EXPIRE after the CLI's SET cuts a long pause to the TTL of the lease (`leader.go:124`).
- A firing while no process leads is run by nobody, although `pkg/schedule/README.md:8` says "exactly once".
- Overlapping manual runs can leave all jobs disabled (`cron.go:83`), and "@every" with a duration that does not parse
  panics in `time.NewTicker` where the log says that cron takes over (`cron.go:167`).
- A history record read with an error is rewritten without the last result (`history.go:86`).
- The forced DEL of `locker/redis.go:67` may delete the lock of another caller (`LeaseExclusive` without `~forced`).
- `RequestLocker` holds its lock for 100 ms whatever the request takes (`requestlocker.go:26`).
- A cleanup request with Batch 0 does not end (`cleanup.go:82`).
- Callbacks publish rows before the transaction commits, and a rollback withdraws nothing (`gormCallback.go:30`).
  `GormCallbackEnabled` is read in the package's `init`, before an importer can change it.
- Two stopping handlers that sleep for the grace use up all the time there is: the third registered after them
  is not called (`eventbus.go:60`, `chanAdaptor.go:55`).
- The handler of `AppendToFile` can swallow a line and leave the channel open (`fileAppender.go:25`).
- `Set` never removes the legacy key of the redis cache, so an old value under it outlives one more TTL; a redis
  error in `Exists` counts as absence; an unset `LocalItems` turns the local cache off although the log says "enabled"
  (`redis.go:144`).
- `hashKey` does not return its error, so requests that cannot be hashed share a key (`interface.go`).
- `HashEx` of a struct over the gorm hash cannot be read back: `%v` of JSON bytes is a list of numbers
  (`gormHash.go:88`); a bool over redis cannot either, since it is stored as 1. The upsert's conflict target has no unique index in
  `HashEntry`, and it keeps an `expires_at` that is past, so a field set again after its time stays hidden.
- `Append` to a redis list returns nil when its `Expire` failed (`redisList.go:57`): a new list then stays for ever, and what joined an
  older list goes with it, before its time. Two Appends in memory lose one's items.
- `HashEx[string].GetAll` decodes a string that happens to be JSON (`"x"` in quotes comes back without them, `null` comes back
  empty, `hashex.go:97`), while `GetValues` returns it as it was set (`hashex.go:35`).
- The total of a grouped query counts the rows and not the groups, since `sum` has no group by (`rawquery.go:148`), although
  `pkg/query/README.md:37` calls it "Total record count": more pages are announced than there are.
- A request with its own `offset` ("Override offset", `pkg/query/README.md:70`) gets the same rows on every page.
- A fingerprint that was soft-deleted makes every `CheckAndSave` of its name fail (`dedup.go:95`).
- A `Sub` that failed is taken for a duplicate when it is repeated (`mqtt.go:60`).
- `LeaderElection.Stop` neither releases the key nor clears `isLeader` (`leader.go:92`; it has no caller in the repository), and a
  configured TTL below the interval is accepted (`leader.go:41`), which `LeaseRegime` assumes away.
- A handler that does not return blocks the pump of its adaptor and every producer behind it (`chanAdaptor.go:147`), and the sweep
  blocks on `AbandonedChan` when nobody reads it (`redisStreaming.go:171`): fairness assumes that they do.
- `ChanAdaptor.Push` enters a message in its duplicate map before it sends it (`chanAdaptor.go:80`), so the repetition of one
  whose send panicked is dropped.
- `RawQuery` with a `limit` next to a page size obeys neither, and without a sum it has no page count.

## 6. Not modelled, and what is left

Set-up of databases, SQL text, formatting, authentication of single requests and file or mail transport keep no
state that steps of several actors share; they stay out. Left out of modelled parts: the duplicate filter of
`ChanAdaptor`, `Keys` of the cache providers and the stubs behind the tag `gorm_cache`, `Pub` and the heartbeat of the MQTT
client, `message2Chan.go`, file names and acknowledgement files of the parquet writer, the jobs of `dbcronjob.go` (they register
a function like any other), the deprecated `Withhistory`, queries from the configuration.

Nothing that a passing run checks as safety is left to prove. Beyond what is modelled, the next steps would be the duplicate filter of
`ChanAdaptor`, which can drop a message whose send panicked, and a model of `EntitySync` on top of `RedisStream` itself in place
of what it shows of it.
