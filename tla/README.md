# Metrics server and agent: a TLA+ model

The repository holds a metrics **agent**, which polls runtime counters and sends
them over HTTP or gRPC, and a **server**, which keeps them in memory (with a file
as backup) or in PostgreSQL and writes an audit trail. This directory models the
server from its configuration and middleware to its handlers, storage in memory and in
PostgreSQL, file persistence and audit queue, and the agent from its collectors to the
requests it makes; the sections "Not modelled" and "Plan" say what else there is.

Paths in this text are relative to `src/`.

## Inventory

| Component | State | Operations | Interacts with | Hard because |
|---|---|---|---|---|
| In-memory storage, `internal/storage/storage.go` | two maps, an RWMutex | UpdateGauge, UpdateCounter, BatchUpdate, GetGauge, GetCounter, GetAllMetrics | handlers, savers, gRPC | readers copy two maps in two loops; a batch can stop half way |
| Server process, `cmd/server/main.go` | file, temp files, `syncStorage.mu`, ctx | save after each write or on a ticker, final save, restore, shutdown | storage, handlers, audit | saves race each other, the shutdown and crashes |
| Audit, `internal/audit/audit.go` | buffered channel, dispatch goroutine, observers | Notify, dispatch, Close | handlers, `run()` | bounded queue, slow observers, Close against late handlers |
| PostgreSQL storage, `internal/storage/postgresql.go` | two tables, a pool | the same interface, transactions, retries | server, handlers | retries after an unknown commit, lock order, swallowed errors |
| Handlers, `internal/handler/handlers.go` | none | update, batch, value, list, ping, hash check | storage, audit | update then get; audit between store and reply |
| Middleware, `internal/httpmw` | per-request gzip writer | subnet check, decrypt, gzip, logging | handlers | deferred close against panics |
| gRPC server, `internal/grpcserver` | none | UpdateMetrics, subnet check | storage | validates the whole batch before the store; not awaited at shutdown |
| Agent process, `cmd/agent/main.go` | jobs channel, two contexts, wait group | collect, report, send, drain, stop | collector, senders | deadlines, abandoned sends, order of deliveries |
| Collector, `internal/agent/collector.go` | gauges, counters, buffer, a mutex | UpdateMetrics, GetAllMetrics, AddMetric, sendBatch | agent, server | network calls under the mutex, buffer cleared on some failures |
| Senders, `internal/agent/sender.go`, `grpcsender.go`, `util.go` | none | SendMetric, SendBatch with retries | agent, server | a lost answer means the delta is counted twice |
| Configuration, `internal/config` | none | flags, environment, JSON, defaults | both programs | a zero that is given looks like one that is not |
| Crypto, pool, reset generator, linter, logging | none or trivial | | | sequential, one-pass code |

What makes each modelled component correct: a reader of the storage sees states
the storage was in, and no writer waits for ever; the file is always such a
state, does not go backwards, and keeps what clients were told is saved; every
accepted audit event reaches every observer in order, without holding handlers
up, and before the process ends; a metric the agent takes from its collector is
sent or knowingly given up, never forgotten, and a signal ends the agent. A status
tells what became of the update, a reply is not older than its request, and the
middleware keeps out whom the configuration says, and no agent that is set up alike.

## Modules

| Module | Models | Role |
|---|---|---|
| `Metrics` | `internal/model/metrics.go`, the loop body of `BatchUpdate` | metrics, contents of a storage, int64 wrap-around; constants and their assumptions |
| `StoreSpec` | the `Storage` interface as the in-memory code keeps it | abstract storage: one step per call, which is isolation; a refused batch keeps what came before its unknown type |
| `MemStorage` | `internal/storage/storage.go` | RWMutex, one step per map access; implements `StoreSpec` |
| `Persistence` | `cmd/server/main.go`, file storage | extends `MemStorage` with handlers, saves, ticker, signals, crashes, restarts; implements `DurableSpec` |
| `DurableSpec` | what `run()` promises with file storage | abstract server: one step per call, saves that are atomic copies put in the file at once, a death that spares the file and what clients were told |
| `Audit` | `internal/audit/audit.go` with `notifyAudit` and the deferred calls of `run()` | queue, dispatcher, observers, shutdown |
| `Agent` | `cmd/agent/main.go`, with the collector's snapshots, `Sender.SendMetric`, `retryOnConnErr` and `GRPCSender.SendBatch` | collectors, reporter, job queue and workers or batches by RPC, an unreliable network, shutdown |
| `Collector` | the buffer of `internal/agent/collector.go` | AddMetric, flusher, sendBatch and its retries around one mutex |
| `Postgres` | updates of `internal/storage/postgresql.go`, the tables of `migrations` | transactions, retries, broken connections, the pool |
| `Config` | `internal/config` | operators: both programs' options out of environment, flags, JSON file and defaults, and the documented order as a reference |
| `Transport` | `Sender.post`, `internal/httpmw`, `NewSHA256CheckMiddleware`, the gRPC interceptor, what `internal/crypto` seals | operators: what an agent puts on the wire and what each middleware makes of it |
| `Handlers` | `internal/handler/handlers.go`, `internal/grpcserver`, `run()` of the server | configuration, start, routes, statuses, audit events, reads, shutdown; composes `Config` and `Transport` |
| `MetricsProofs`, `MemStorageProofs`, `PersistenceProofs`, `AuditProofs`, `AgentProofs`, `CollectorProofs`, `PostgresProofs`, `HandlersProofs` | | theorems |
| `MCMemStorage`, `MCPersistence`, `MCAudit`, `MCAgent`, `MCCollector`, `MCPostgres`, `MCHandlers` | | values of the constants for TLC |

### How the model corresponds to the code

*Contents.* `g` and `c` are the maps `gauges` and `counters`, with `Nil` for an
absent key. `done` is a history component that no code reads: how many metrics of
each request the contents include. `Accounted(k)` ties it to the data: every
counter is the wrapped sum of the deltas that `done` counts and every gauge one of
the values. So a property about `done` is a property about the data.

*Storage calls.* `AnnounceWriter`, `BeginUpdate`, `ApplyNext`, `EndUpdate` are
`mu.Lock` (in the two stages of Go's RWMutex: announce, which holds new readers
back, then wait for the readers inside), one turn of the loop of `BatchUpdate`, and
its end with `Unlock`. `UpdateGauge` and `UpdateCounter` are the same with one metric.
`CopyGauges` and `CopyCounters` are the two loops of `GetAllMetrics`, the first with
`RLock`, the second with `RUnlock`.

*Requests.* `call[r]` follows one update request: `new`, `open` (in its handler),
`waiting`/`writing` (in the storage), `ok`/`err` (returned), `saving`/`saved` (sync
mode), `replied`, or `killed` by the end of the process. A client that retries makes
another request. The storage call that sends a request's metrics is a batch; the
validation that comes before it is in `Handlers`. The requests of `ByRPC` come in by
gRPC: `run()` does not wait for `GracefulStop`, so `Accept` takes them after the
HTTP listener is closed too.

*Saves.* `save[p]` is the place of goroutine `p` in `saveMetrics`: `read`
(GetAllMetrics), `encode` (Marshal, CreateTemp), `write`, `rename`, `done`. A temp
file is `Torn` until it is written. `SaveFails` is every error return; NaN always
fails at `encode`, the rest as `IOFails` allows. A failed restore is `"load"` in
`IOFails`.

*The promise.* In `DurableSpec` an update is one step (`Apply`), and so is the copy a save
makes (`TakeCopy`); the copy then replaces the file (`Publish`) or is dropped (`GiveUp`). In
sync mode one handler at a time has a copy, and only an update whose copy was made and
is done with is answered 200 (`Tell`). `GoDown` loses the storage, the copies and every call
that was not answered, `Boot` starts from the file. In `Promise`, the mapping of
`Persistence`, an update takes effect when it gets `mu`, a copy is taken when `GetAllMetrics`
returns, and the rename publishes it.

*Process.* `phase` goes `down`, `running`, `signalled` (ctx done), `closed` (listener
closed, `ListenAndServe` has returned), `exited`; a crash leads back to `down` from
anywhere. Only the file and the history variables outlive the process.

*Audit.* `ch`, `closed` and `worker` are the channel and the dispatch goroutine, `cur`
and `nxt` its place in the loop over the observers; `main` is `run()` from the
signal through its deferred calls.

*Agent.* `held[n]` says how often the collector has set metric `n`, which is the value
of PollCount and the age of a gauge. Each section of `UpdateMetrics` and
`UpdateGopsutilMetrics` under the mutex is a step, so a snapshot may fall between
the two sections of the latter. `Collect` is `GetAllMetrics`: it appends to `snap` and
starts a loop over what it returned, in any order. A job is a snapshot's number and
a name. `reporter` is the third goroutine: `ReportTick` and `ReportStop` are the branches
of its outer select, `Enqueue` and `ReporterReturns` those of the inner one, both
enabled when the queue has room and the context is done, as in Go. `Closed` is the
deferred `close(jobs)`.

A worker takes a job, chooses `ctx` or `drainCtx` for the whole send and posts, all
in one step, since nothing can come between that the choice would notice. A metric
that cannot be marshalled or encrypted ends there without a request, or at a later attempt
(`Unmade`, `EncryptFails`). A post
ends with an answer, a refusal (a status that is not 200) or a connection
error; only the waits between the posts look at the context. `wire` holds requests
the server may still handle, those of workers that have given up included; `served`
those whose metric it has added to its storage. With `Database` the server keeps its metrics in
PostgreSQL and may answer 200 without adding (`Serve`; `UpdateGauge` and `UpdateCounter` drop
the error); `lost` is the history of the jobs answered so. `fate[j]` records how each job ended.

Time appears only as the order of `ctxDone`, `drainDone` and `overdue`: both timeouts
are 30 s, the first counts from the start, the second from the signal. A kill
without a signal is not a step of its own: nothing of the agent outlives it.

In gRPC mode (`Transports` says which modes a run starts in) there are no workers, and
the reporter is `ticking`, `calling` (SendBatch with `ctx`) or in its `lastCall`
(with `flushCtx`). The requests of one RPC are handled together (`ServeBatch`); their attempt
number is 0, because nothing retries an RPC. `ctx` has no deadline, so a server that
takes an RPC and never answers stops the reports until the signal, which ends the RPC
and, unlike in the middle of an HTTP dispatch, is followed by the last flush. The 30 s of
`flushCtx` start with that flush; they are over with those of `shutdownTimeout`.

*Collector's buffer.* `AddMetric`, a tick of the flusher and each `sendBatch` run under
`mu`. A sendBatch keeps it while it posts, so `sender` says who has it: nobody, or a
goroutine in its `first` post or in a `retry`; all else of the collector waits. `waiting`
counts the goroutines of sendBatch that have not got it yet. `sending` is what the post
holds, `sendBuffer` in a retry: after an answer of 200 the buffer is emptied before it is
copied, so the retries then post an empty batch. A status below 500 counts as success.
`answered` and `accepted` are histories of what the agent was told. The order of the buffer
is left out: it is always sent and emptied as a whole. A metric that cannot be encoded
(`NaNs`) keeps the buffer from ever being sent again. The agent program itself
sends snapshots through its queue and never calls AddMetric or StartFlusher.

*PostgreSQL.* Each call of `fn` in `withRetry` has a transaction `<<request, attempt>>`
of its own, because a transaction may outlive the attempt: when a connection breaks
(`broken`) the server goes on until it notices (`Discard`), and commits what it was
told to commit (`Commit`, `LateStatement`), perhaps after the next attempt has
committed. `draft[t]` holds the rows a transaction has written and keeps locked;
`db` the committed ones. `Exec` waits for the row and writes it; for
`UpdateGauge` and `UpdateCounter` the statement is the transaction. Errors end in
`Fails`, of class 08 or not, after the deferred Rollback (`RolledBack`) if the connection is
intact. A done context is a broken connection while a statement runs, and
`CtxDone` while `withRetry` waits. `log` is the history of commits. The database, the
migrations' column types and the pool are external: they are modelled by what this code
relies on (READ COMMITTED upserts, row locks to the end of the transaction, deadlock
detection, BIGINT overflow as an error).

*Configuration.* A source of configuration is a record of what the environment, the
arguments in their order, and JSON files give. `Parse` follows the code: JSON file, `Merge`
with the defaults (mergo fills what is zero), flags with the merged values as
defaults, environment. `Documented` is the order `internal/config/config.go:3` states,
option by option, with no exception. The code differs from it when the JSON file sets an option to a
zero value over a default that is not zero, `"0s"` and `"500ms"` (cut to 0 seconds) included: the
default then wins. `ZeroInFile` names those options of a source; `asked`, what the documented order asks for, leaves
them out, and `ConfigAsDocumented` is the equality of the two in all others.

*Transport.* A body is known by its layers: gzip, and encryption for one key pair around
it. `Post` is what an agent with a configuration sends, `Middleware` what the chain of
`cmd/server/main.go:166-185` does to a message, `Compatible` when agent and server are
set up alike.

*Handlers.* `phase` is `run()`: `starting`, `configured`, `serving`, `stopping` (listener
closed), `closing` (audit subject closed), `ended` or `failed`. `at[r]` is the place of the
handler of `r` between its calls: `admitted`, `updated` (JSON reads the metric
back), `told` (about to notify), `half` (between the two queries of `GetAllMetrics`), `replied`.
The storage is `log`, the updates it has taken in, in order; that either storage is such a log is
what `Linearizable` and `Serializable` are for. `since[r]` and `seen[r]` say how much of
`log` there was when `r` was admitted, and how much its answer is from. `unseen`
holds the requests of which a database error reached nobody but the log file:
`UpdateFails` (answered 200 and audited all the same), `ReadBackFails` (0 is answered),
`ValueFails` (404), the queries of the page. A panic of `Notify` on a closed queue
unwinds through the deferred close of the gzip writer, which sends 200 before Recoverer
can send 500: `PanicStatus`.

## Runs

| Run | Bounds | Shows |
|---|---|---|
| `batch_is_atomic` | 2 requests, one refused at its third metric | **violated**: the first two metrics of the refused batch stay in the storage |
| `sync_mode` | 3 requests (batch by gRPC, wrapping counter, NaN gauge), 2 process lifetimes | counters keep their width, no copy has half a batch, the process implements `DurableSpec`; `SyncDurability`, file never goes back, accepted updates are answered, a signal ends the process |
| `periodic_mode` | 2 requests (a batch by gRPC that is refused at its end, a NaN gauge), 2 lifetimes, every file operation may fail | file is a snapshot, catches up with memory if saves can succeed, and the saver's reads keep no handler waiting for ever |
| `final_snapshot_complete` | sync mode | **violated**: the final save races handlers still at work |
| `audit` | 4 events, queue of 2, file and failing URL | conservation, drained before exit, no handler waits for the queue, Close returns |
| `audit_in_flight` | the same | **violated**: an update under way at Close panics and loses its event |
| `postgres` | 3 requests (two batches that lock two rows in opposite orders, one of them with an unknown type at its end; one single update), 1 retry, a pool of 2 | the tables are a serial result, answers are true, counted once unless a commit was cut off, refused batches leave nothing, nothing leaks, somebody can always go on, every call returns |
| `agent` | 1 worker with a queue of 2, or gRPC; 2 reports and the last flush of 1 metric, 1 retry, a server with a database | jobs are in one place, a nil error means served or lost by the database, a metric is counted again only for a further attempt, older snapshots go first, nothing is given up for a context before the signal, a graceful stop is complete, a signal ends the agent, every job is settled |
| `collector_buffer` | 4 metrics (one cannot be encoded), batches of 2, 2 waiting senders from the flusher, 1 retry, 4 failing posts | no metric leaves the buffer unanswered, none that was accepted is sent again, AddMetric returns, all is answered for unless the buffer is stuck |
| `agent_drain` | HTTP, 1 worker, 2 snapshots | **violated**: a send is given up before 30 s have passed since the signal |
| `lost_update` | one request at a time of those of `http` | **violated**: a single update the database did not take is answered 200 and offered to the observers |
| `http` | 11 requests to choose from, 3 at a time: two agents by HTTP and one by gRPC, other clients of every route with the right HMAC, a wrong one or none; 134 sources of configuration | the configuration is the documented one but for a zero in the file, admits whom it should and understands agents set up alike; statuses and audit events are true of batches and, in memory, of every update, replies are not stale, everyone is answered |

What the code does otherwise than its comments say. Each of the five violation runs shows one such
thing. Two of them are about updates: a batch refused in the middle leaves what came before
(`internal/storage/storage.go:28` and `internal/handler/handlers.go:163` say "atomically"; the
PostgreSQL storage does roll back, `RefusedIsRolledBack`), and a single update that PostgreSQL did not take is
answered 200 and audited (`handlers.go:247` "true on success", `internal/audit/audit.go:15-16`
"after a successful metric update"). Further ones are in the models and in no run:

* A zero in the JSON file counts as absent (`internal/config/config.go:137`), although the order at
  `config.go:3` and `agent.go:70` has no such case: `store_interval` `"0s"` does not give sync mode.
* PollCount is cumulative, each report sends the total (`internal/agent/collector.go:73`) and the server adds
  it to what it has: two polls, reported twice, make it count 4. `internal/handler/handlers_test.go:192` takes
  PollCount=1 for what the agent sends.
* In sync mode an update is answered 200 although its save failed (`cmd/server/main.go:51`), which one NaN
  gauge is enough for: `SyncDurability` speaks of updates whose save succeeded.
* In periodic mode the ticker's last save may rename its older copy over the final snapshot
  (`final_snapshot_complete` reaches the file through the other race).
* A file that cannot be read at the start is overwritten by the next save (`cmd/server/main.go:111`).
* A signal in the middle of a dispatch makes the reporter return without the final flush, which the comment
  at `cmd/agent/main.go:181` describes for the other branch only.
* An update whose `Notify` panics in a shutdown is answered 200 with an empty body, not 500
  (`internal/httpmw/gzip.go:72`).

Why the bounds are enough. Three requests give two concurrent saves and a third
party whose update one of them lacks; two lifetimes give one restore of a file
that concurrent saves wrote, and another crash after it. A counter range of 4
or 8 values makes the sums wrap. A queue of 2 with 4 events is empty, partly full,
full and overflowing. In the agent a queue has twice the number of workers, so one
worker and three jobs make the reporter wait in the middle of a flush. That a later
snapshot overtakes an earlier one takes two workers, and a request handled when nobody
waits for it any more takes `MaxLate` > 0: all the safety invariants of that run are theorems,
where both are arbitrary. In gRPC mode late RPCs are not bounded. That run has a server with a
database, which can do all that one in memory can and lose metrics besides; that one in memory
never does is the other half of `SentMeansServed`. One retry against
the code's three gives a first, a repeated and a last attempt; `Retries` is a
constant of the theorems. The same holds for `Postgres`, where a second attempt can
meet the first one's transaction in every state; a pool of 2 for 3 calls makes one
wait for a connection, and `HalfRange` = 4 makes repeated deltas run out of range. In
`Collector`, 4 metrics and batches of 2 give a full batch, one that grows while
senders wait, a last incomplete one and a stuck one; 4 failures are two senders that
fail in every post. In `http`, three requests at a time, out of every combination of routes
and senders, are one that reads, one that writes and one that comes between, or two
that update while a third is audited in a shutdown; the sources of configuration vary all
four layers of a string option and of a number, with a zero in each of them, and set the
boolean, the path of the file, unusable values and superfluous arguments once each. A
server with a database has no gRPC listener there. Bounds are named: `MaxEpoch`, `Cap`, `HalfRange`, `MaxPolls`,
`MaxReports`, `MaxLate`, `MaxConns`, `MaxWaiting`, `MaxFailures`, `MaxReceived`, `Retries`, and the sets of requests, names, events and workers.

`sync_mode` runs with `IOFails = {}`, so the NaN gauge is the only failing save there; in
`periodic_mode` reading, creating, writing and renaming the file may all fail. `PeriodicSaves` has two premises
for that: `SavesGetThrough`, that a step which is possible again and again does not
fail every time (without it a full disk is a counterexample), and that no gauge is NaN, which stops the saves of all metrics until
another value takes its place. Nothing in the code ensures either, a failing save is logged and no more. The theorem
`Durability` lets creating, writing and renaming fail at will.

Fairness. Goroutines that can run do (weak fairness per handler, for the
ticker, for `run()`, for the dispatcher, for the agent's reporter and each of its
workers). Nothing makes requests, signals, crashes, starts, answers or the forced
exit happen. `UpdatesAnswered` needs no strong fairness, although the saver of `periodic_mode`
reads the storage again and again, because the RWMutex holds new
readers back for a waiting writer, and that is in the model. That observers return
in `audit` is the 5 s timeout of `URLObserver`'s client; that a post returns in `Agent` the
10 s timeout of its client. The one strong fairness is `GopsutilStops`: the goroutine
is back at its select again and again, and a select whose Done branch is ready each
time takes it one day because it chooses at random. In `Collector` a
post ends by the client's timeout, the senders as a whole go on (weak fairness), and callers
and the flusher, whose lock attempts `mu` turns down again and again, have strong fairness,
which is sync.Mutex's starvation mode; only a metric that cannot be encoded need never come; `MaxFailures` is the server that answers
in the end. In `Postgres` calls
that can go on do, and the server answers and notices dead clients; nothing makes
a connection break, so a call that waits for a row is not rescued by an error. `NotifyNeverBlocks` is an invariant
about ENABLED, so it assumes no fairness at all of the dispatcher. In `Handlers` each handler
goes on by itself, since none of its calls waits for another request. In gRPC mode an RPC ends
with its context: `FlushTimes` lets the 30 s of a last call pass, and nothing ends an RPC
before the signal, which is why `JobsSettle` asks of an RPC under way only that it is
settled once the signal has come.

## Theorems

All are checked by TLAPS for arbitrary constants under the named assumptions of
`Metrics`, `MemStorage`, `Persistence`, `Audit`, `Agent`, `Collector`, `Postgres` and `Handlers` (payloads are well formed, `Nil` and
the other special values are not ordinary ones, `NoFile` is not `Torn`, bounds are natural numbers).

*Sums.* `Accounted` and `Replay` are folds, and a fold of the community modules is a
recursive function on subsets, which says what one step does and not what the whole
returns. `MetricsProofs` gets from one to the other without induction over data: of
the subsets, or numbers, on which a claim fails it takes a smallest one
(`SmallestSubset`, `SmallestNumber`), whose predecessor satisfies the claim, and one
step contradicts it. This gives that the recursive function exists and is unique
(`FoldExists`, `FoldUnique`), that a sum does not depend on the order (`SumAnyOrder`) and
may be wrapped to int64 at each addition or at the end (`WrapAdd`), and that each turn of
`BatchUpdate`'s loop adds its metric to the account and leaves the others' alone
(`SoundTurn`).

* `StorageTypeCorrect`: types, with counters in the int64 range (`WrapRange`).
* `BatchIsolation`: `NoHalfBatch`. Its invariant is about the lock: a call
  inside its loop excludes readers (`LockInv`), so outside of loops each request is
  whole in the storage, and a reader between its two loops still has the storage's
  history (`HalfInv`).
* `StorageAccounts`: each counter of the storage and of each reader's copy is the wrapped
  sum of the deltas that were applied, each gauge a value some request sent. The invariant
  `SoundInv` is that both are sound contents (`Sound`), which a loop step (`SoundTurn`) and
  a copied half (`CopyIsStorage`) keep.
* `StorageLinearizes`: `Linearizable`, the refinement of `StoreSpec`, which no run checks: `sync_mode` and
  `periodic_mode` run the storage as part of the process. In the mapping
  (`Store`, `Answer`) a request takes effect whole when it gets the lock: until its loop has
  ended the abstract storage has the rest of the loop applied, which each turn leaves as
  it is (`RestOfTurn`), and the answer is the one the loop will come to. So getting the
  lock maps to the update, copying the second map to the read, and every other step to a stutter
  (`MappedStep`). That the turns in a row are the batch up to its first unknown type is
  `BatchTurns` and `ValidPrefixIs`; that nobody writes in between, the lock (`RefinementInv`).
* `WritersAreServed`: no set of callers is ever stuck at the RWMutex (`StorageNeverStuck`), and from
  the announcement of a writer on readers only leave (`ReadersOnlyLeave`), so that it waits for no
  reader that comes later. `WriterInv` says that the announced writer is at work with the lock.
* `TypeCorrect`: types of the server process.
* `SnapshotInFile`: `FileIsSnapshot`. `SnapshotInv` adds to the file what is on its way there:
  the storage and the copies are sound and whole, and a temp file that is to be renamed is its
  saver's copy; a restore goes into empty maps and gives back what was saved
  (`LoadIntoEmpty`). `ServerAccounts` takes `StorageAccounted` and `NoHalfBatch` over to the
  server with its saves, crashes and restarts.
* `Durability`: `SyncDurability`. Not inductive alone; the strengthening `IInv` adds who
  may be in `saveMetrics` and when (`ProcessInv`), that a handler saves only what the
  storage already has (`UpdateInv`), and that all that is between `GetAllMetrics` and
  `Rename` already contains what was saved before (`KeepInv`). The last is where
  `syncStorage.mu` is needed: without it a second handler would hold an older copy.
* `FileOnlyGrows`: `FileNeverRegresses`, for both modes, given `Restore` and a file that can be
  read. Its invariant `OrderInv` says that a copy on its way to the file has nothing the
  storage lacks and, until a signal, all that is in the file; a rename keeps that for the
  other copies because there are none (`OneSaveAtATime`): the mutex leaves one handler in
  `saveMetrics`, in periodic mode only the ticker saves, and the final save comes later.
* `PromiseKept`: `KeepsItsPromise`, the refinement of `DurableSpec`. `PromisedStep` lists the
  abstract steps in the names of the mapping, and each step of the process is one of them
  or a stutter: `HandlerPromised` for the handlers, where `BeginUpdate` is the update and `Reply`
  the answer, `SavePromised` for saves, where the last step of `GetAllMetrics` is the copy, because no
  update is in its loop then (`LockInv`, `CopyIsStorage`), and `Rename` and the errors are its end,
  `StartPromised` and `DownPromised` for restarts and deaths. The invariant `PromiseInv` joins those
  of the other theorems, and `AckInv`, that only answered requests are acknowledged.
* `ServerNeverStuck`: while a handler is at work, a save is under way or `run()` is on its way
  out, one of them can go on. `HoldersInv` says that who has `mu` or `syncStorage.mu` is at work with
  it; a save takes `mu` while it holds the other mutex, and nobody does it the other way round.
* `AuditTypeCorrect`, `EventsConserved` (`Conservation` is inductive with the types),
  `CloseDrainsQueue` (with `CloseInv`: a finished worker leaves the channel closed and
  empty). `NotifiedIsDelivered` joins them to the handlers: `NotifiedInv` says that the
  accepted events are those whose `Notify` took the send, each once, so that these, and no
  dropped or panicked ones, are what each observer has when the server is down.
* `CloseDrainsSteadily`: while `Close` waits the dispatch goroutine has ended or can go on without any
  handler (`CloseNeverStuck`), nothing comes into the closed channel, and each of the goroutine's steps leaves
  fewer events, or as many and one observer less to notify (`WorkShrinks`).
* `AgentTypeCorrect`, `JobsAreConserved`, `SentMeansServed`, `GracefulStop`,
  `NothingGivenUpEarly`, for both modes. The first needs to
  know what the reporter and the workers hold in each of their places (`ReporterInv`,
  `WorkerInv`: an idle worker has no job, a posted one has an attempt within bounds); with
  that `JobsConserved` is inductive. `CountsFollowAttempts` says that the server never has a metric before
  it left the queue nor more requests of it than its worker made attempts; with `JobsConserved` its invariant
  `FreshInv` follows, that a job in the loop or the queue has no request, handled or on
  the way, and one in a worker's hands none of a later attempt: what is posted is
  new. It is what makes a set of requests, `served`, enough to count with. `SentMeansServed` is about two kinds of
  server: in memory a nil error means that the metric is in `served`, over a database that it is there or in
  `lost`, answered 200 and gone. `DeliveryInv` says that the request of an answered
  worker is in `served` unless a database lost it, `StopInv` that a worker which is gone found the queue closed
  and empty, and that whoever is gone stays so. `NoLossBeforeSignal` needs to know that before
  the signal no send has drainCtx and the reporter is in neither flush (`Undisturbed`).
* `SnapshotsInOrder`: `OldestFirst`, what order there is between the snapshots of a gauge. The
  invariant `OrderInv` says that the queue is sorted by snapshot, that the loop has metrics of the latest
  one only, and that all a worker has or has posted is no later than what is in either. With one worker the order
  is kept up to the post; with more it is lost among what they have in hand.
* `PoolNeverStuck`: while a metric is not settled a worker or the reporter can go on, and after the
  signal that holds until every goroutine is gone: a full queue has a worker that will take from it
  (`QueueIsServed`), since none leaves before the queue is closed and empty (`StopInv`), and only the
  reporter closes it (`LoopIsServed`).
* `TypeCorrect` of `CollectorProofs`, `BufferIsKept`, `NothingIsResent`. The invariant
  (`HeldInv`) is that a goroutine with `mu` sends exactly the buffer, because nobody adds to it
  meanwhile: emptying it removes nothing that the answer was not about. `MuIsGivenBack`: each step of
  a sender that has `mu` is one more post or gives `mu` back, and there are at most `Retries` + 2.
* `PgTypeCorrect`, `AnswersAreTrue`, `RetriesCountOnce`, `NoLeak`. One invariant serves them:
  what the server has of a call's transaction in each place of the call (`CallInv`);
  attempts to come have no transaction, and only a call in its loop or commit uses a
  connection (`TxInv`); a committed transaction is known to its call or cut off
  (`LogInv`). `RefusedLeavesNothing` adds that what a loop has passed is of known type
  (`KnownInv`).
* `CommitsSerialize`: `Serializable`. Replaying the log gives the tables because of what locking
  a row to the end buys (`DraftInv`): a row has one transaction that writes it (`LockedOnce`),
  what a transaction has written so far is its first metrics applied to the tables as they
  are now, not as they were when it began (`Drafting`), one that is to be committed has written its
  whole batch (`Finished`), and a statement on its own nothing before it runs (`NotYet`). So a commit adds to the tables what replaying its
  whole batch at the end of the log adds, and leaves the drafts of others as they are.
* `CallsNeverStuck`: `NeverStuck`. If no call could go on, each would wait, for a
  row or for a connection. A full pool has a call on every connection (`FullPool`), a row
  that is not free belongs to another transaction (`LockedByOther`), whose call waits for a row in its turn;
  the smallest set of calls closed under waiting is a cycle (`CycleExists`), all its members hold rows and
  are therefore batches (`CycleOfBatches`), so it is one the deadlock detector breaks.
* `StepsAdvance`: every step takes a call or a transaction forward (`StepAdvances`) on a road whose length
  `RoadEnds` bounds, and takes none back: retries, broken connections and late commits cannot make
  the calls go on for ever.

* Of `HandlersProofs`: `Configured` (the four layers of `Parse` are the documented order where the file has
  no zero over a default, `UsedAreDocumented`, by cases of the first layer that gives an option), `PostIsUnderstood` (each middleware in turn
  undoes or matches one layer of what `Post` made), and with one invariant, `AnswersTheTruth`,
  `FreshReplies`, `AuditedUpdates`, `OnlyTheAdmitted`, `AgentsAreUnderstood` and `TypeCorrect`. The statuses and
  events these speak of are those of batches and, in memory, of single updates; a single update over a
  database is the subject of `lost_update`. That
  invariant, `Mine(r)` for each request, adds to the properties what a handler has behind
  it at each of its places: nothing stored before `admitted`, an update taken in, or lost by
  the database, at `updated` and `told`, no status before `replied` (`Stage`), and that no
  answer is from a part of the log that is not there yet (`Seen`). Since `log` only grows and
  each request only changes its own entries, a step of one leaves the others' as they are.

Only model-checked: the liveness properties, and `NotifyNeverBlocks`, which is about
ENABLED; both are out of the prover's reach. Every other property of a passing run is a
theorem. What makes the liveness properties true is in part a safety matter, and that part is
proved: `CallsNeverStuck` and `StepsAdvance` for `CallsReturn` (somebody can go on, and nobody can for
ever), `ServerNeverStuck` for `UpdatesAnswered` and `SignalStops`, `PoolNeverStuck` for `SignalStops` of the
agent and `JobsSettle`, `MuIsGivenBack` for `AddReturns`, `WritersAreServed` for `UpdatesAnswered` in periodic mode,
`CloseDrainsSteadily` for `CloseReturns`. That a call which can go on does is the fairness, and
stays with TLC, as does the step from "can go on" to ENABLED, which the definitions of these properties
spell out guard by guard. The type invariants of `Persistence`, `Audit`, `Agent`, `Collector`, `Postgres` and
`Handlers` are proved and in no run. The runs that expect a violation show what the code does on one instance, which
is all a counterexample needs.

## Not modelled

PROJECT.json lists each component with its status. Within the modelled ones: start-up
errors but for their outcome, the ping, the replies' compression and signature, temp files
left behind by a crash (they cost disk space, nothing reads them), file names that are not
valid UTF-8, power loss (the code does not fsync), `dirOf` for a file in the root directory,
`SendBatch`, `SendGauges` and `SendCounters` over HTTP, which the agent does not call, and
tickers of an interval of 0, which panic.

Not at all: the object pool, a typed `sync.Pool` nothing uses; the generator of `Reset`
methods and the linter, one-pass tools over source text whose results the program does not
call; logging, build information, generated protobuf code and the unused server wrapper,
which keep no state.

## Plan

Done: all the modules above with their theorems. What is left, in this order:

1. `Collector` with `Agent` composed, should the program come to use the buffer.
2. The generated `Reset` of `AuditEvent`, should the program come to pool events.
