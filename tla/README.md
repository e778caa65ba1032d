# A TLA+ verification of ScholarNet

ScholarNet (`src/cmd`) is a set of Go services around a publishing platform:
users, verification codes and SMS, articles, interaction counters, rankings,
comments, follows, feeds, tags, search, payment, reward and account, behind a
web front end (`bff`).  They share the packages under `src/cmd/pkg`: Kafka
consumer loops, a live data migration, a double-write connection pool, gRPC
balancers and interceptors, rate limiting.  Services talk over gRPC and Kafka
and keep state in MySQL, Redis and process memory.

This directory holds TLA+ models of the parts where several goroutines,
processes or stores interact, the TLC configurations that check them on small
instances, and TLAPS proofs of the core properties for every value of the
constants.  Section 1 is the inventory, 2 the models, 3 the runs, 4 the proofs,
5 what the code does otherwise than its own text says, 6 what is left out, and
7 the plan.

To repeat the results, in this directory:

    tlc -workers 4 -config async_batch.cfg AsyncBatch
    tlapm AsyncBatchProofs.tla

## 1. Inventory

Paths are below `src/cmd`.  "Modelled" names the module.

| Component | State it keeps | Operations | Talks to | What is hard | What makes it correct | Modelled |
|---|---|---|---|---|---|---|
| `pkg/saramax` | buffers and channels of a consumer loop; sarama's mark | receive, decode, call the business function, retry, mark, return | sarama; every Kafka consumer of the services | worker pool, bounded channels, rebalance, crash, a mark that is a high-water mark | nothing falls between goroutines; a mark skips nothing unsettled; the loop goes on and returns | `AsyncBatch`, `ClaimHandlers` over `SaramaSession`, against `ClaimConsumer` |
| `sms/service/async` with its repository and DAO | table `async_sms` (status, `retry_cnt`, `utime`) | `Send`, and a loop: preempt, send, report | SMS providers, Redis limiter | several instances, timeouts, lost reports, crashes | one holder per row; outcomes earned and final; an accepted request is handled | `SmsAsync` |
| `pkg/gormx/connpool` | the pattern; open transactions in two databases | begin, statements, commit, rollback, change the pattern | gorm, two MySQL databases | a transaction spans two stores and commits in them one after the other; a rollback that commits; the pattern changes under traffic | an acknowledged write is in every store of its pattern; the target is never ahead; no deadlock across patterns | `DoubleWritePool` |
| `pkg/migrator` | a running validation; events in Kafka | switch pattern, start/stop validations, compare, report, fix | both databases, Kafka, the pool | stale reads race transactions; independent auto-increment ids; restarts | repeated validation makes the target equal, and never overtakes | `Migrator` (full validation) |
| `interactive` | counters and like/collect rows; Redis counters | read, like, collect, get; a batch consumer | MySQL through the pool, Redis, Kafka | at-least-once events are not idempotent; refill races increment; a batch half done | counters follow the records and the events; the cache catches up | `Interactive` |
| `article` | author and published tables; first page, author's copy, readers' copy in Redis | save, publish, withdraw, list, read | MySQL, Redis, Kafka, `interactive` | two tables; cache calls made after the answer, by goroutines that cross | the tables agree; no draft reaches a reader; every copy is in the end that of its table | `Article` |
| `ranking` | a sorted set in Redis, a lock, a local top-N of three atomics per node | periodic job under a lock; refresh; peers updated over Kafka | `article`, `interactive`, Redis, Kafka | a lost lease, two rankers, dropped updates, crossing writers of the local cache | one node ranks; a ranking is never half of another; nodes end up with the last one | `RankingJob`, `RankingLocal` |
| `payment` | payments by order number | prepay, WeChat callback, reconciliation, event | WeChat, Kafka | callback against reconciliation, late and repeated notifications | a status never goes back; every paid order is announced | no: does not build |
| `reward` | rewards; a cached code URL | pre-reward, payment event, query | `payment`, `account`, Redis | repeated events, slow-path query, expired cache entry | a paid reward is credited once | no: driven by `payment` |
| `account` | balances and an activity log | credit | MySQL | a repeated credit | balance equals the log | no: called by `reward` only |
| `code` | a code and its attempts | send, verify | Redis (Lua), `sms` | attempts, expiry | at most three attempts | no: one script each |
| `sms/service/failover` | two atomics | pick a provider, count timeouts | providers | the pair is not atomic | switch after N timeouts in a row | no: constructed by nothing |
| `internal` (monolith) | cron jobs | preempt, refresh, release | MySQL | a late release, a lost refresh | one holder per job | no: used by nothing |
| `pkg/grpcx` | weights of connections | weighted round robin, breaker | gRPC | failing connections | picks follow the weights | no: sequential, under a mutex |
| `pkg/ratelimit` | a sorted set per key | one Lua script | Redis | window boundaries | at most `rate` requests in a window | no: one script |
| `user` | one table with unique telephone, open id and e-mail; cached profiles | sign up, find or create, profile, edit | MySQL, Redis | two first logins cross; an insert fails or loses its answer; a refill crosses an edit | whoever logs in with a name gets its one user; a stale profile does not last | `User` |
| `comment`, `follow`, `feed`, `tag`, `search` | one or two tables, some with a cache | CRUD, fan-out, indexing | MySQL, Redis, Elasticsearch | little that works (section 6) | | no |
| `bff`, `api`, wiring, `pkg/ginx`, `logger`, ... | sessions in Redis | HTTP handlers, generated code, construction | all services | none of their own | | no |

How the modelled components interact.  The services' consumers (`interactive`,
`feed`, `search`, `reward`, `ranking`, and the migration's fixer) run their
business functions inside a `saramax` handler, so the fate of every event is
that of a message in `AsyncBatch` or `ClaimHandlers`.  `interactive` is wired
with the double-write pool (`interactive/ioc/db.go`); its writes are the
transactions of `DoubleWritePool`, and its HTTP admin routes are the
scheduler of `Migrator`.  `ranking` reads articles and counters (a ranking of
`RankingJob` is one state of both), and what `RankingJob` promises of Redis
is the premise of what `RankingLocal` promises of a node.  The fixer of `Migrator` is a `saramax.Handler`
consumer: its three tries per message and its at-least-once redelivery are
taken over from there.  `sms` stands alone: instances meet only in a table.

The facts about MySQL, sarama and Kafka that the models rely on (row locks,
`ON DUPLICATE KEY UPDATE`, auto-increment, the high-water mark, a closed
`Messages()` channel after a rebalance) are named where they are used and
marked external in `PROJECT.json` where a definition stands for nothing else.

## 2. The models

### `ClaimConsumer`: the contract

What a Kafka consumer promises about one partition: a message is settled once
nobody will hand it to the business function again; the mark is a high-water
mark; a restart resumes after the stored mark.  A handler that marks
`inOrder` marks a message only if everything up to it is settled (at-least-once
delivery); for any other, only the marked message must be settled.  `Handler` and
`AsyncHandler` implement the strong contract, `BatchHandler` and
`AsyncBatchHandler` only the weak one (`ImplementsConsumer` in `ClaimHandlers`
and `AsyncBatch`): the properties `MarksInOrder` and `CrashLossBounded` say by
how much these two miss the strong one.

### `AsyncBatch`: `AsyncBatchHandler`

One call of `ConsumeClaim` on one partition.  Main and the workers are control
states (`mainPc`, `wpc`); every blocking point of a goroutine is a state, and
the statements between two of them are one action.

| Code (`pkg/saramax/async_batch_consumer_handler.go`) | Model |
|---|---|
| main's `select` over ctx, claim and ackCh | `MainCtxDone`, `MainFetch`, `MainClaimClosed`, `MainAck` |
| `taskCh <- task` | `MainSend`, enabled while there is room |
| the "fast drain" after `ctx.Done()` | `MainSpinAck` in state "spin", which has no exit |
| `close(taskCh)`, `wg.Wait()`, final drain, return | `MainClaimClosed`, `MainWaitDone`, `MainDrainAck`, `MainReturn` |
| a worker's `select` | `WorkerQuit`, `TimerFlush`, `Receive`, `DrainClosed` |
| undecodable message: ack, then append anyway | `AckUndecodable` |
| `flush`: call, back off, give up, abort | `BeginFlush`, `FnSucceeds`, `FnFails`, `BackoffExpires`, `BackoffAborted` |
| acknowledge the batch, reset the buffer | `AckNext` |

Timers (flush interval, backoff) only decide when something may happen, so a
timer is a step that is always allowed.  `Rebalance` and `CloseClaim` are the
environment; `CloseClaim` may cut what has not been delivered.

### `SaramaSession` and `ClaimHandlers`: the other three handlers

`SaramaSession` is sarama around a handler: delivery, the session's mark,
background commits, orderly ends, crashes and new sessions.  `ClaimHandlers`
composes it with `Handler` (one message, three tries), `BatchHandler` (gather
for a second, one call) and `AsyncHandler` (a goroutine per message, then
wait).  A goroutine of `AsyncHandler` can outlive its session, so `tasks` holds
the number of the session that started it.

### `SmsAsync`

`Send` is three steps of a request (`Add`, `NeedAsync`, `SendNow`), with the
insert that fails unnoticed.  An instance's loop is `Take` (the transaction of
`GetWaitingSMS`), `SendAnswered` or `SendTimesOut`, and `Report` or
`ReportLost`; `TakeLost` is a commit whose answer is lost, `Crash` and
`Restart` are the instance's.  Time is one bit per row: `fresh[s]` means that
`utime` is less than 30 seconds old.  `Elapse` waits for the holder because a
loop has one second for the provider and the report together
(`service.go`, `context.WithTimeout`); this is the module's only timing
assumption, and `Crash` frees the row of it.  The two sliding windows behind
`needAsync` are a free choice.

### `DoubleWritePool`

A writer is a goroutine that runs one gorm transaction over a range of rows in
ascending order, as `dao.Interactive` does.  The table is a counter per unique
key; `n` counts the increments a database has absorbed and `id` is the primary
key, which each database hands out on its own.

| Code (`pkg/gormx/connpool/double_write_pool.go`) | Model |
|---|---|
| `BeginTx` by pattern | `Behind` (which database ends up in which field), `Begin` |
| `ExecContext` | `ExecFirst`, `ExecSecond`, `ExecFirstFails`, `ExecSecondFails` |
| `Commit`, `Rollback` | `EndFirst`, `EndSecond`; `EndFirstFails` is a commit with an error, taken effect or not |
| `UpdatePattern` | `UpdatePattern` |
| a nil `dst` or a nil logger | `ExecPanics`, `Crash` |

Four facts of the code shape the model.  (1) `BeginTx` of `DST_FIRST` stores
the transactions crosswise, so the database that is written first
is the source in every pattern.  (2) An error of either database's statement is
returned, the second's too, whatever the comment beside it says; gorm then calls
`Rollback`, and `Rollback` of `DST_FIRST` calls `Commit` on both: what was
written up to the error stays, in the source a statement more than in the
target, and nobody is answered "done".  (3) When the first commit fails, nobody ends the second
transaction; it keeps its row locks until its context is cancelled (`LeakEnds`).
(4) The transaction of `DST_ONLY` has a nil `dst`: its first statement panics,
nothing recovers, and the process restarts with the pattern of its
configuration.  Row locks are the fields `wrote`: an uncommitted row is locked
against every other writer and against the fixer.

### `Migrator`

Extends `DoubleWritePool` (its `Pool` action lifts the pool's steps) with the
scheduler's `Switch`, `StartFull`, `StopFull`, the validator's scan
(`ReadBase` and `Compare`, two queries with anything between them), the events
in Kafka, and one fixer per partition (`FixRead`, `FixWrite`, two queries as
well).  `FixWrite` is MySQL's upsert by the source's id: a row with the id
takes the key over, a row with the key keeps its own id, and a key and an id in
two different rows are a duplicate key (`Clash`).  The validator's base is the
source under every pattern, as the scheduler builds it; the scan in the
other direction uses a query without a table and never reports anything.  A crash
of the process (`Restart`) ends the scan and redelivers the events in hand, and
any others whose mark had not been committed.

### `Interactive`

The counters of one resource, over `SaramaSession` for its consumer.

| Code (`interactive`) | Model |
|---|---|
| `InsertLikeInfo`, `DeleteLikeInfo`, `InsertCollectionBiz`, `incrReadCnt` | `IncrLike`, `DecrLike`, `AddCollectionItem`, `IncrReadCnt`: one transaction each |
| the `...IfPresent` calls after them, one Lua script | `IncrIfPresent`, a step of its own, of the call's `job` |
| `Get`, its goroutine, `RedisInteractiveCache.Set` | `Get`, `Load`, `SetHash`, `Expire`; `KeyExpires` is Redis |
| an error or a cancelled context anywhere in a call | `GiveUp` |
| `InteractiveReadEventConsumer` in a `saramax.Handler` | `Take`, `ConsumeTx`, `ConsumeIncr`, with the three tries |

The transactions of MySQL are atomic: each takes the lock of the user's record
or of the row first and keeps it to its end.  The goroutine that fills the hash
runs under the context of the gRPC request, which is cancelled once the answer is
sent, so its commands may fail without any fault of Redis: `GiveUp` is always
possible, and a hash written before it and not given its time to live is what
`orphaned` remembers.  An error of the script makes `Consume` fail, and its
repetition runs the transaction again (`Consume` says of itself that it is not
idempotent).  The errors the consumer meets are counted (`faults`), for the
properties bound repetitions and losses by them; those of other calls need no
count.

### `Article`

The state is the two tables, the three kinds of copies in Redis, and `todo`: a
slot per handler or goroutine, with the calls it has still to make.

| Code (`article`) | Model |
|---|---|
| `Save`, `Publish`, `Withdraw` down to `GORMArticleDAO` | `Save`, `Publish` (`Sync`), `Withdraw` (`SyncStatus`): one transaction each, its answer may be lost |
| the calls that `Create`, `Update` and the goroutine of `Sync` make afterwards | `AfterSync`, `DelFirstPage`, in a slot |
| `List`, its two branches, `preCache` | `ListHit`, `ListMiss`, `DoReadPage`, `PreCache`, then `DoSetFirstPage` and `DoSet` in either order |
| `GetPublishedById`, `ListPub` | `GetPublishedById`, `DoReadPub`, `ListPub`, then `DoSetPub` |
| an error of Redis or of the database | `DoFails`; an error of a cache read is a miss |
| times to live | `ExpireFirstPage`, `ExpireDetail`, `ExpirePub` |

A read and the store of what it read are two steps with anything between them,
which is where stale copies come from.  A new article is cached under id 0 by
`Sync`, which nothing reads: `AfterSync` leaves this call out.  A cached
text is whole or cut: `SetFirstPage` gives every article of the page its abstract
(`Abstracts`), in place, so the goroutine that marshals the first article beside it
may cache either or a part of both (`DoReadPage`), and a hit of the first page
caches the abstract as the author's copy (`ListHit`).  `blamed` is a history variable: the first page is
stale because a delete failed, an answer was lost, the article was withdrawn, or
a late read stored it.

### `RankingJob`

`Run` on each node: `Acquire` (or `AcquireLost`, a lease whose answer did not
arrive), or `RunWithLock` when `j.lock` is set; `Compute` (`rankTopN`);
`StoreTemp` and `Rename`, the two transactions of `RedisRankingCache.Set` on
two keys that all nodes share.  The lease is the library's: `refresh` is its
`AutoRefresh` goroutine, which ends with an error or when another node has the
key, and then `ClearLock` needs the mutex that a run holds.  Until it has it, the
node ranks without a lease.  A ranking is the number of the state of the
articles, so a sorted set is a set of such numbers and a mixture of two
rankings would show.  Faults (failed calls, lost leases, crashes) are counted,
for bounds and for `OverlapNeedsFault`.

Two things that go wrong in `rankTopN` are no faults, for they are decided by the
articles and recur in every run on every node.  A page without any counters
(`NoData`: an empty last page, after none or a multiple of the batch size, or
articles nobody has read yet) is an error.  An article without counters among
others that have them (`Uncounted`) is a nil dereference; nothing recovers it, so
the process dies with the lease in its name.  In such a state nothing is ever
published and the last ranking expires; once the articles change to one that
can be ranked, the lock and the ranking must recover (`RankingConverges`).

### `RankingLocal`

One node's cache: `topN`, `ddl` and `hash` are atomics that `Set` and
`UpdateFromMessage` store in this order (`StoreDdl`, `StoreTopN`, `StoreHash`),
by the job, by fetches and by the consumer at once.  `CompareHash` is the test
that skips a list whose hash is stored already, and the cool-down of ten seconds
drops events.  What the other nodes do to Redis and send is `RedisChanges` and
`StartEvent`.  The job stores its whole list, Redis gives out the first
hundred, so the same ranking has two hashes.

### `User`

The users table, in the order of its ids, a cached copy per id, and a slot per
handler at work.

| Code (`user`) | Model |
|---|---|
| `Signup` | `Signup`: one insert, which the unique index may refuse |
| `FindOrCreate`, `FindOrCreateByWechat` | `FindByName`, `Create`, `FindAgain`: three statements without a transaction; `Refused` is where the two differ |
| `Profile`, `CachedUserRepository.FindById` | `Profile`, `Load`, `Fill`; a hit changes nothing |
| `UpdateNonSensitiveInfo` | `Edit` (the row), then `Delete` (the copy) |
| the fifteen minutes of a copy | `Expire` |

A row is the name it was registered under and the number of the edit that wrote
it.  Every statement can fail, and a write can commit with its answer lost.  The
histories: `given` is who was answered which user, `misled` who was told that
there is none, and `refused` the open ids whose insert failed.

## 3. The runs

| Run | Module, spec | What it shows |
|---|---|---|
| `async_batch` | `AsyncBatch`, `FairSpec` | `NothingLost`, `NoReplay`, `CleanExit`, `CrashLossBounded`, and the weak contract, with two workers, batches of two, an undecodable message, cancellation and claim errors at any point; `Drains`: a closed claim ends in a return with everything marked, when the acknowledgements fit in `ackCh` |
| `async_batch_stuck` | `AsyncBatch`, `FairSpec` | violation of `AckEventuallyMarked` (finding 1) |
| `claim_handlers` | `ClaimHandlers`, `FairSpec` | `MarksInOrder`, `DuplicatesBounded`, the contract of each (`BatchHandler` the weak one), `Progress`, for the three handlers over sessions that end twice |
| `sms_async` | `SmsAsync`, `FairSpec` | `OneHolder`, `RetriesAccounted`, `OutcomeEarned`, `SettledForGood`, `EverySmsSettles` |
| `sms_async_lost` | `SmsAsync`, `Spec` | violation of `AcceptedIsStored` (finding 2) |
| `double_write` | `DoubleWritePool`, `PoolFairSpec` | `AckedEverywhere`, `TxEnds` under all four patterns, changing at any time, with failed statements and commits of either database |
| `migrator` | `Migrator`, `FairSpec` | `DstNeverAhead` with fixes of stale rows; `Converges` |
| `interactive` | `Interactive`, `FairSpec` | `CountsMatchRecords`, `RepeatsHaveCause`, `LossNeedsThreeErrors`; `CacheConverges` |
| `article` | `Article`, `FairSpec` | `TablesAgree`, `NoDraftServed`, `StalePageHasCause`; `ViewsConverge`: each copy has in the end the version and status of its table; the first page is the first one unless other pages are listed again and again |
| `ranking_job` | `RankingJob`, `FairSpec` | `RankingWhole`, `OverlapNeedsFault`; `RankingConverges`, through states of the articles on which every run fails or panics |
| `ranking_local` | `RankingLocal`, `FairSpec` | `ServedConverges`: a node serves the ranking of Redis for good once that is settled |
| `user` | `User`, `FairSpec` | `LoginsAgree`; `ProfilesConverge` |

The runs also check the type invariants of their modules, but for
`DoubleWritePool`, whose type correctness is proved and not run, and the two
modules that state none (`Migrator`, `RankingLocal`).  `DstNeverAhead` is
checked where it is hardest to keep, beside the fixers, and proved for the pool
alone.

### Bounds, and why they are enough

* `async_batch`: four messages and two workers with batches of two.  Two batches
  are in flight at once, a batch can be partial, a worker can hold the
  undecodable message while the other marks above it, and both channels
  (capacity 4) can fill up.  A claim that closes after all four messages has five
  acknowledgements, one too many for `ackCh`; a claim that closes earlier is
  within the condition of `Drains`.
* `claim_handlers`: four messages in batches of three leave a partial batch
  behind a full one; the undecodable message is the last of the first batch;
  two ended sessions allow a crash after a crash.
* `sms_async`: two rows so that `First` chooses, two instances so that they
  compete, two retries so that the last differs from the others, one lost
  round for each row.  Lost rounds are bounded because a provider that always
  times out is retried for ever.
* `double_write`: two writers with one or two rows each and two transactions;
  two transactions are what a lock order or a crossed pattern needs.  Two faults
  combine, for example, the failed statement of the second database with a failed
  commit in the rollback.
* `migrator`: as above with one fault and one fixer, and the patterns
  `SRC_ONLY` and `DST_FIRST`; `SRC_FIRST` differs from `DST_FIRST` only in
  `Rollback`, and `double_write` covers it.
* `interactive`: two users so that a like of one is not the other's, two writes
  so that a like can be repeated or cancelled, one call at a time beside the
  consumer (a fill races with the consumer's increments, and the consumer's
  script with a call's transaction), three errors so that an event can be given
  up after three tries, one session that ends, by a rebalance or a crash.
* `article`: pages of one article, so that a page past the first one exists with
  one article already (it is empty); two writes, of which the second makes
  copies of the first stale, and withdrawals; two slots, so that a
  read that began before a write can end after it while the write's own
  goroutine is at work.  Slots are taken from the lowest free one.
* `ranking_job`: three nodes, so that a third one can hold the lease while two
  stale runs cross; four states of the articles, of which the second fails every run
  and the third makes it panic, with one that can be ranked before and after;
  three faults, enough for a lost lease, a failed refresh and a crash in one
  behaviour.
* `ranking_local`: two rankings, two things from outside (an event, a change of
  Redis), two fetches beside the job and the consumer.
* `user`: a name of each kind, so that rows are registered in every order, one
  edit, two handlers: two first logins with one name cross, and a reader that
  began before the edit ends after its delete.

### Fairness, and why the code justifies it

* A goroutine that is not blocked runs: weak fairness of `MainStep` and of each
  `WorkerStep` (`AsyncBatch`), of `Work`, `Task` and `Timeout`
  (`ClaimHandlers`), of each writer, the scan and each fixer
  (`DoubleWritePool`, `Migrator`).  The business function and the databases are
  assumed to answer, with an error if need be.
* `ClaimHandlers` assumes `SF` of `Collect`: a waiting message is received before
  the one-second context expires, again and again.  No session has to end and
  none to start.
* `SmsAsync`: the loop is a `for` without a `break`, an instance that dies is
  replaced, time passes, and finitely many crashes happen.  Callers and faults
  have no fairness.
* `Migrator`: `SF` of `FixRead` for each row, because a partition is read in
  order and an event does not wait behind later ones for ever; `WF` of
  `StartFull` is not the code's doing but a condition of `Converges`: the
  operator validates again.  The fixer's consumer is assumed to be consumed
  again after a rebalance; the code calls `Consume` once (a hazard on the list).
* `Interactive`: a call goes on or gives up, and Redis deletes a key whose time
  is up.  The consumer has no fairness.
* `Article`: started goroutines make their calls, which may fail, and every key
  has a time to live.  Nobody has to call.
* `RankingJob`: cron calls `Run` again and again, a run has a timeout and a lease
  an end.  `ClearLock` has strong fairness: the goroutine waits for a
  mutex that runs take over and over, and `sync.Mutex` hands itself to a waiter
  that has starved for a millisecond.
* `RankingLocal`: a writer that has begun goes on, and the deadline passes.  That
  Redis settles is the premise of `ServedConverges`, and what
  `RankingConverges` says; no refresh and no event has to come.
* `User`: a handler's calls end, with an answer or an error, and a copy has
  fifteen minutes to live.  Nobody has to log in, read or edit.
* No fairness is assumed for rebalances, claim errors, faults, new transactions,
  pattern changes or crashes.

Deadlock is checked except where the system really may stop: a consumer at the
end of its partition, or with no message to wait for, and an SMS table in which
every request is settled.

## 4. The proofs

`AsyncBatchProofs`, `ClaimHandlersProofs`, `MigratorProofs` (with the theorems
about the pool), `InteractiveProofs`, `SmsAsyncProofs`, `ArticleProofs`,
`RankingJobProofs` and `UserProofs` hold theorems for every value of the
constants that the modules' assumptions allow: any finite set of workers or
writers, any batch size, any partition, any number of sessions, rows,
transactions, faults, fixers, instances, articles, goroutines, nodes and names.

| Theorem | Says |
|---|---|
| `AsyncBatchProofs!TypeCorrect` | `Spec => []TypeOK` |
| `AsyncBatchProofs!NoMessageLost` | `Spec => []NothingLost` |
| `AsyncBatchProofs!ReturnsClean` | `Spec => []CleanExit` |
| `AsyncBatchProofs!Refinement` | `Spec => Consumer!Spec`, the weak contract |
| `AsyncBatchProofs!NothingReplayed` | `Spec => []NoReplay` |
| `AsyncBatchProofs!CrashesLoseLittle` | `Spec => []CrashLossBounded` |
| `ClaimHandlersProofs!TypeCorrect` | `Spec => []TypeOK` |
| `ClaimHandlersProofs!MarksKeepOrder` | `Spec => []MarksInOrder` |
| `ClaimHandlersProofs!DuplicatesAreBounded` | `Spec => []DuplicatesBounded` |
| `ClaimHandlersProofs!Refinement` | `Spec => Consumer!Spec`, the weak contract for `BatchHandler`, the strong one for the others |
| `ClaimHandlersProofs!AtLeastOnceDelivery` | `Consumer!Spec => []Consumer!AtLeastOnce`: whoever marks in order skips no message at a restart |
| `ClaimHandlersProofs!HandlersDeliverAtLeastOnce` | `Spec => []Consumer!AtLeastOnce`, from the two before |
| `MigratorProofs!PoolTypeCorrect` | `PoolSpec => []PoolTypeOK` |
| `MigratorProofs!AckedWritesKept` | `PoolSpec => []AckedEverywhere` |
| `MigratorProofs!TargetNeverAhead` | `PoolSpec => []DstNeverAhead` |
| `MigratorProofs!FixesNeverOvertake` | `Spec => []DstNeverAhead`, fixes included |
| `MigratorProofs!MigrationKeepsAckedWrites` | `Spec => []NoAckedWriteLost`, the part of `AckedEverywhere` for the source, migration included |
| `MigratorProofs!RepairedStays` | a row that the databases agree on is lost only to a transaction that writes it |
| `InteractiveProofs!TypeCorrect` | `Spec => []TypeOK` |
| `InteractiveProofs!CountsCorrect` | `Spec => []CountsMatchRecords` |
| `InteractiveProofs!RepeatsCorrect` | `Spec => []RepeatsHaveCause` |
| `InteractiveProofs!LossCorrect` | `Spec => []LossNeedsThreeErrors` |
| `InteractiveProofs!HashStaysInStep` | a hash that agrees with the row is lost only to a write |
| `SmsAsyncProofs!TypeCorrect` | `Spec => []TypeOK` |
| `SmsAsyncProofs!HolderIsAlone` | `Spec => []OneHolder` |
| `SmsAsyncProofs!RetriesAreAccounted` | `Spec => []RetriesAccounted` |
| `SmsAsyncProofs!OutcomeIsEarned` | `Spec => []OutcomeEarned` |
| `SmsAsyncProofs!SettledIsFinal` | `Spec => SettledForGood`, an action property |
| `ArticleProofs!TypeCorrect` | `Spec => []TypeOK` |
| `ArticleProofs!TablesCorrect` | `Spec => []TablesAgree` |
| `ArticleProofs!DraftsCorrect` | `Spec => []NoDraftServed` |
| `ArticleProofs!StalePagesHaveCause` | `Spec => []StalePageHasCause` |
| `ArticleProofs!FreshViewsStay` | copies that agree with the tables are lost only to a write of the tables or, the first page, to the listing of another one |
| `RankingJobProofs!TypeCorrect` | `Spec => []TypeOK` |
| `RankingJobProofs!RankingIsWhole` | `Spec => []RankingWhole` |
| `RankingJobProofs!OverlapIsFault` | `Spec => []OverlapNeedsFault` |
| `RankingJobProofs!SettledStays` | a settled ranking is lost only to its expiry or a change of the articles |
| `UserProofs!TypeCorrect` | `Spec => []TypeOK` |
| `UserProofs!FirstLoginsAgree` | `Spec => []LoginsAgree` |
| `UserProofs!FreshProfilesStay` | cached profiles that agree with the rows are lost only to an edit |

**`AsyncBatch`.**  `CleanExit` is not inductive: that main has returned says
nothing of what was on its way when it stopped.  `IInv` adds what each goroutine
holds at each of its control states (`ControlInv`), that nothing but delivered
messages travels through the channels (`FetchedInv`), that only settled messages
are acknowledged (`SettledInv`), and what a goroutine that is gone has left
behind (`ExitInv`: without a cancellation a worker exits only when `taskCh` is
closed, empty, and its buffer flushed).  With `NothingLost` these give
`CleanExit`: at the return there is no hand, channel or buffer left in which an
unmarked message could be.  The refinement follows from the same invariant, each
step mapping to a step of `ClaimConsumer` or a stutter.

`NoReplay` and `CrashLossBounded` rest on a second invariant, `PlaceInv`, which
is proved on top of `IInv`.  `FifoInv`: `taskCh` is in the order of the
offsets, above everything a worker has taken, and main's hand is above both;
so a message below the mark is in no channel but in a worker's hands.  `OwnInv`: a
message has one owner at most, and outside "ack" the owner's messages have not
been dealt with.  `RoomInv`: while the session lives a buffer has `BatchSize`
places, and for each settled message there is a worker that holds little below
it, the one that acknowledged it.  The number of messages the
other workers hold is bounded without induction: a map from pairs of a worker
and a place onto the messages (`FS_Surjection`, `FS_Product`).

**`ClaimHandlers`.**  A batch is the interval of offsets that ends with the last
message delivered (`BatchInv`), which is what makes a high-water mark mean
something.  `MarksInOrder` speaks of the session's mark alone and is lost at the
first restart, for the next session starts from the broker's: `OrderInv` states
it for both marks, with the place of every delivered message that is not settled
(in the batch, or, for `AsyncHandler`, with a goroutine of this session; a
goroutine of an earlier one is of no use to it).  For `DuplicatesBounded`,
`DupInv` bounds acceptances by sessions: what a session of `Handler` or
`BatchHandler` has not marked was accepted at most once per crash (`FreshInv`),
because an orderly end leaves nothing that fn has accepted unmarked; a session
of `AsyncHandler` starts one goroutine per message, and the sessions whose
goroutine may still run are counted with those that have accepted
(`SessionsInv`).  The refinement maps `fetched` to `next - 1` and `inOrder` to `kind # "batch"`.

**`DoubleWritePool`.**  `AckedEverywhere` and `DstNeverAhead` are not inductive
either: between the two commits of a transaction the source has its increments,
the caller has no answer, and the target does not have them.  `PoolInv` counts
these: `AckCovered` says that acknowledged plus owed increments are at most what
the source has, where `Owed(r)` is the set of transactions that have
committed `r` in the source and not answered; `DstCovered` says that where such a
transaction has a row to commit in the target, the target is strictly behind.
For the target's part of `AckedEverywhere`, `DstAcked` says that what was
acknowledged is there, and `Copied` that a transaction which gets as far as its
commits has written all its rows in both, because an error of a copied
statement ends it.  `DstAcked` is proved of the pool alone: in `Migrator` a late
fix may set the target back to an older number until the next fix.
`Shape` and `Progress` say which rows a transaction has written at each control
state (the source before the target, and none of the target without the
source), and `Exclusive`, which the row locks give, keeps two transactions from
counting on the same gap.

**`Migrator`.**  A fix writes a number the source had earlier.  The source's
numbers only grow (`SourceGrows`), so a fixer's copy is never too high
(`FixBehind`), and a row on which a transaction counts is locked against it.

**`Interactive`.**  Two invariants that share no variable but the time they
hold.  `CountInv`: the counts of the row and the cardinalities behind them; the
floor in the decrement is never needed, because a like that is taken back is
counted.  `ConsInv`: a repetition shows only when the mark is known, so
`RepeatInv` says that an event above the mark has been counted for errors and
crashes alone, but for the one whose transaction has just committed; `LossInv`
adds the failed tries of the event at hand to three for each lost event.

**`SmsAsync`.**  `OneHolder` rests on what a loop does not write: its row is
waiting and inside its 30 seconds (`HolderInv`), so no SELECT finds it, and
a row that is found is in nobody's hands (`PreemptedIsFree`).  `RetryInv`
strengthens `RetriesAccounted` by one: a waiting row that nobody holds has a
retry left, lost rounds aside, because the report of its last round would have
settled it.  `SettledForGood` follows step by step from the same invariant.

**`Article`.**  `TablesAgree` needs that no row is newer than the clock and that
a private author's row is private for the readers as well.  For
`NoDraftServed`, what the slots carry is part of the invariant (`Clean`): a call
that will fill the readers' cache has a row that was released when it was read,
and releases are never taken back.  `StalePageHasCause` excuses a stale page
by a delete that is still to come; `StaleInv` adds that such a delete is the
first call of its slot, so that no other call of the slot can end with
it (`DeleteIsFirst`).

**`RankingJob`.**  `RankingWhole` is a statement on cardinalities; `Whole` says
that each sorted set is empty or a singleton of a ranking.  `LockInv` is the
exclusion up to the first fault: `j.lock` is set only on the node that has the
lease, its refresh runs, and no other node is in a run.  The converse fails: a
run that panicked leaves a lease without a `j.lock`.

**`User`.**  A row is never deleted and keeps its name, so what a handler has
learned stays true between its statements (`HeldInv`): the row whose profile it
reads is there; before the second look-up there is a row with the name, whoever
inserted it, or the name is an open id whose insert has failed.  With the unique
index (`Unique`) the row that `First` picks is the only one, today
and when the next handler asks.  That there are no more rows than names, which
bounds the ids, is an injection from the rows to the names.

**What has converged stays so.**  `Converges`, `CacheConverges`, `ViewsConverge`,
`RankingConverges` and `ProfilesConverge` say that stores come to agree and then
stay so.  That they come to agree needs fairness and is left to TLC; that they
stay so is an action property, and proved:
`[][Agree /\ no write => Agree']_vars`.  It does not hold of the stores alone,
because a call that has read an old value and not stored it yet would undo the
agreement.  So what each goroutine, call or fixer carries is part of the
statement (`Repaired`, `InStep`, `ViewsFresh`, `Settled`, `ProfilesFresh`), which
is the answer to how late a stale read may strike: never, once those in flight
are over.

* `RepairedStays` needs more than `PoolInv`: the target's upsert goes by id as well
  as by key, so a fix of one row may take another one's row over.  It does not
  when the ids agree, because the source gives an id to one row only, and
  that includes ids of inserts that are not committed (`IdsInv`), and because a
  fixer holds the id that its row has for good (`ReportsInv`).
* `HashStaysInStep`: `InStep` asks that no increment of the hash is still to come.
  A cancel with nothing to cancel increments the hash and not the row, so "no
  write" is said of the calls (`writes`), not of the row alone.
* `FreshViewsStay` lets any slot that is empty start any read, and any copy expire.
  It is about version and status: a hit may replace the author's whole text by its
  abstract with no write at all, and a listing of another page
  (`OtherPageListed`) is excluded with the writes.
* `SettledStays` includes parallel runs after a lost lease: both have the same
  ranking in hand.
* `FreshProfilesStay` needs that an id which is not given out has no copy
  (`CachedInv`), for a new row comes without an edit.

TLC checked the five statements on the instances of the runs before they were
proved; each has reachable states in which its premise holds.

The proofs assume the named assumptions of the modules and nothing else.  TLC
checked `IInv`, `PoolInv` and `IdsInv` as invariants before they were proved.

Only model-checked: every liveness property (`Drains`, `Progress`,
`EverySmsSettles`, `TxEnds`, `Converges`, `CacheConverges`, `ViewsConverge`,
`RankingConverges`, `ServedConverges`, `ProfilesConverge`), for liveness under
fairness is out of the prover's reach, and with it the one property of
`RankingLocal`.  Of the five that speak of convergence the safety half is proved,
as above.  Every invariant and action property that a run checks is proved.

## 5. Findings

1. `async_batch_stuck`.  Main blocks on a full `taskCh` while every worker blocks
   on a full `ackCh`; handled messages are never marked.  The comment at the
   blocking send promises that they are.
2. `sms_async_lost`.  The error of the insert is never read: a request can be
   answered as accepted for asynchronous sending with no row to send.

`PROJECT.json` has the lines of the code and the quoted texts.

Seen while modelling, and not the subject of a run:

* `async_batch_consumer_handler.go`: the drain loop after a cancellation has an
  empty `default` and no exit; the comment says that main exits directly.
* `sms/service/async/service.go`: only a report ends a row, and the report reuses
  the context that the provider call has exhausted, so a row may be preempted
  beyond `RetryMax` (`RetriesAccounted` says by how much).
* `migrator/fixer/fix.go`: two concurrent first increments can get their ids in
  opposite orders in the two databases; the upsert by the source's id is
  then refused each time, and the row is never repaired (the exception in
  `Converges`).
* `gormx/connpool/double_write_pool.go:126-127` and `:142-143`: the comments say
  that a failed write of the second database is no failure ("dst 写失败，不被认为是失败").
  The error is in the variable that is returned, so gorm rolls back; under
  `DST_FIRST` that commits both sides, half written.  `ExecSecondFails` is the
  code; the comment's version is its mutant, and breaks `AckedEverywhere`.
  Likewise `:48` and `:61` ("依旧算你成功"): the logger is nil, so a failed second
  commit panics.
* `article/repository/article.go:122` and `cache/article.go:16` say that only the
  first page is cached; `List` stores whatever page it has read as the first one.
  While other pages are listed the first one may never be right, which is the
  exception in `ViewsConverge`; the ten minutes of the key bound it otherwise.
* `article/repository/article.go:125-131`: the hit of a first page caches its first
  article, whose content `cache/article.go:113-116` has made an abstract, as the
  author's copy: for a minute the author gets the abstract as the article.  The
  repository's README.md:126 says that the first article is cached whole.  On a
  miss the two are a data race.  `Sync` caches a
  new article under id 0.  `SyncStatus` deletes no copy: readers may get a
  withdrawn article for half an hour.
* `article/service/article.go`: the read event carries the article's id as
  the user's.
* `ranking/service/ranking.go:111-113` and `:117-118`: no ranking is published, and
  the last one expires, as long as the last page is empty (no article at all, or
  a multiple of 100 of which the last is less than a week old) or an article has no
  interaction row, for every run fails or panics; README.md:148 says that a page which is not full is
  dealt with.  `RankingConverges` excepts these states.
* `ranking/service/ranking.go`: with fewer than 10000 articles the list ends in zero articles,
  which reach Redis; the score of an article without likes is negative.
* `ranking`: all nodes are in one consumer group, so an event reaches one of
  them; the others depend on the refresh from Redis (`ServedConverges` does not
  need the events).
* `ranking/repository/cache/rank_local.go`: the hash of one list can stay beside
  another list, and equal hashes do not renew the deadline; the next deadline
  repairs it.
* `user/service/user.go`: `FindOrCreateByWechat` does not look at the error of its
  insert, so a failed insert is answered "not found" (`LoginsAgree` excepts it).
* `tag/repository/cache`: the expiration is never set, and `EXPIRE` with 0 removes
  the set that was filled by the same pipeline.
* `reward` and `follow`: `UpdateStatus` (in `follow` the counts, too) names no
  table, so it always fails.
* `code/service/code.go` pads a code with blanks (`%6d`).

## 6. What is not modelled, and why

* Contents of messages, texts, templates, tokens, logging, metrics: no property
  depends on them.
* Reads through the pool: they change nothing.  What they may return under
  `DST_FIRST` is a consequence of `Converges`.
* The pool's own `ExecContext`: gorm opens a transaction for every write, so
  the code of these models never reaches it.
* Validations started while one is running are a stop followed by a start.
* Rows are never deleted in the tables that are migrated here.
* Incremental validation orders by `utime` with an offset, so rows that are touched
  during the scan are missed; a comment at the query admits it, nothing makes
  up for it, and there is no true property of it to state.  The scan from target
  to source names no table and always fails; the other `Fixer` variants
  are constructed by nobody.
* `payment` does not build: three of its files import
  `cmd/ranking/events/events`, which is not in the repository.  `reward` is
  driven by its events, and `account` is called by `reward`: a protocol of the
  three would be one of our making, and as `reward` never stores a status,
  nothing would ever be credited.
* The job table of `internal` and the failover services of `sms` are constructed
  by nothing; `code` and `pkg/ratelimit` are single Lua scripts, one step of
  Redis each; the weighted round robin works under one mutex.
* `comment` and `search`: statements on one store without a protocol.  `follow`: its
  status updates and counts always fail, so what is left is an upsert and two
  counters in Redis.  `tag`: what it caches is gone at once.  `feed` does not
  build (it imports a `repository/cache` that is not there), and the
  `GetFollower` that its fan-out calls is not implemented by `follow`.
* The login by e-mail of `user`, which reads and compares, `FindByIdV1`, which
  nothing calls, and the downgrade flag, which nothing sets.
* `PublishV1`, `SyncV1`, `SyncV2`, the MongoDB and S3 DAOs and the binlog consumer of
  `article`, which nothing constructs; its read event, which changes no state
  of `article`.
* The paging of `rankTopN`, the scores, and `RankingJob.Close`, which nothing calls.
  `ranking`'s `main` does not build as it stands: `wire_gen.go:27` calls
  `NewRankingLocalCache` without the two arguments of `rank_local.go:28`; and it
  ends as soon as cron is started.  The packages below it do not import what
  is missing, as those of `payment` and `feed` do, and are modelled with a
  process that lives.
* `GetTopN`'s answer from an expired local copy when Redis fails
  (`ranking/repository/ranking.go:49-53`): `RankingLocal` has a Redis that answers,
  and the fallback stores nothing.
* Most lines of the repository are generated (protobuf, wire, mocks); the models
  stand for the control of the services with state, not for those.
* Kafka's own replication; brokers keep what they have stored.
* `BatchIncrReadCnt` and the batch consumer of `interactive`, which nothing
  constructs (it runs its increments outside the transaction it opens and returns
  nil whatever happens, so a failure in the middle leaves the rest of a batch
  uncounted), and `DecrCollectCnt`, which nothing calls.
* Generated code, HTTP handlers, construction of the services.

## 7. Plan

What is left and would add something:

1. `payment`, `reward` and `account` as one protocol ("an order is paid, then
   credited once"), as soon as `payment` builds.
2. The refill races of `follow` and `tag`, once their statements and caches work.
3. The safety halves of `Drains`, `Progress` and `ServedConverges` as theorems.
