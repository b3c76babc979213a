# Verification of SkillPass

TLA+ models of the SkillPass backend, checked with TLC on small instances and,
where a theorem is stated, proved with TLAPS for every value of the constants.
Paths are relative to `src/`.

## The system

An administrator issues soulbound certificates through a contract. The
*indexer* copies them into Postgres, serves them over gRPC, publishes them to
live subscribers and records a webhook for each. The *gateway* exposes this to
browsers over HTTP and SSE, *notify* delivers the webhooks, and a web front end
issues and lists certificates.

| Part | State | Operations | Talks to |
|---|---|---|---|
| contract (`contracts/src/SkillPassCertificate.sol`) | token counter, certificates | issueCertificate, getCertificate; transfer and approval locked | the chain |
| event source (`adapter/chain/eventsource.go`) | none | HeadBlock, BlockHash, IssuedLogs, GetCertificate | node RPC |
| worker (`usecase/worker.go`) | `w.next` | Run, initNext, poll, reconcile, processLog, enqueueWebhook | event source, read model, broadcaster, task queue |
| read model (`adapter/postgres`, `db/queries.sql`, `migrations`) | certificates, indexer_state, webhook_outbox | Upsert, DeleteFromBlock, GetState, SaveState, InsertWebhookOutbox, MarkWebhookOutboxEnqueued, list and trend queries | Postgres |
| background jobs (`adapter/asynqjobs`, `cmd/indexer/main.go`) | tasks in Redis | EnqueueUnique, trend:refresh, webhook:sweep, two cron entries | read model, trend service |
| webhook delivery (`services/notify`) | none | ProcessTask: sign and POST | the same asynq queue, one endpoint |
| trend (`usecase/trend.go`, `adapter/cache`) | cached series with a TTL | GetTrend (read-through), RefreshCache | read model, Redis |
| broadcaster (`platform/broadcast`) | set of buffered channels | Subscribe, unsubscribe, Publish | worker, gRPC streams |
| gRPC server (`adapter/grpc`) | none | get, list, status, trend, stream | read model, broadcaster |
| gateway (`services/gateway`) | one goroutine and two channels per stream | REST handlers, SSE bridge | gRPC |
| processes (`cmd/*/main.go`, `config`, `platform/db/migrate.go`) | an errgroup each | Load, Migrate, runConcurrently, graceful stop | signals, one another through open streams |
| front end (`apps/web`) | hook state | issue, list, verify | wallet, gateway, chain |

What is hard in it: the chain is reorganised under the worker, between polls
and during one; a poll is a sequence of separate statements, any of which may
fail or be the last one before the process stops; the checkpoint exists twice
(table and `w.next`); the outbox, the queue and the endpoint are three systems
without a common transaction; one task queue is consumed by two different
services; a live event passes five buffers and four goroutines of two
processes, and the stream ends from either side; readers follow pages, caches
and counters that the worker changes under them; three processes stop while
they wait for one another's streams.

Correctness, per part:

- worker and read model: no certificate below a canonical checkpoint is
  missing, no row there is made up, no certificate is passed before it was
  announced, the worker catches up after every reorganisation;
- outbox, sweep, notify: every certificate's webhook is attempted, a row is
  marked only after its task exists;
- broadcaster and streams: the feed keeps the order and delivers at most once,
  publishing never waits and never sends on a closed channel, nothing is left
  behind by a browser that goes;
- lists: a client that follows the cursor sees each certificate at most once
  and none is skipped that was there all the time; the status never flatters;
- trend: every bucket of the range once with its exact count, a stale series
  does not stay in the cache;
- processes: they end when told to, after serving their clients, and the exit
  code tells whether they were told.

## Modules

| Module | Models | |
|---|---|---|
| `Chain` | the node and the contract as the indexer uses them | external except for the calls and the token numbering |
| `ReadModel` | the three tables and the statements on them | extends Chain |
| `Worker` | the poll loop, its faults, the specifications and the properties | extends ReadModel |
| `WorkerProofs` | theorems about Worker | extends Worker, TLAPS |
| `MirrorProofs` | theorems about Worker without faults | extends WorkerProofs |
| `MCWorker` | symmetry for TLC | extends Worker |
| `Delivery` | enqueueWebhook's calls, webhook:sweep, the task queue, notify | on its own: the outbox is a range of row ids |
| `DeliveryProofs` | theorems about Delivery | extends Delivery, TLAPS |
| `MCDelivery` | symmetry for TLC | extends Delivery |
| `Feed` | abstract specification: what the live feed promises a session | on its own |
| `Stream` | broadcaster, the indexer's streaming call, the gRPC stream, the gateway's SSE bridge | instantiates Feed |
| `StreamProofs` | theorems about Stream | extends Stream, TLAPS |
| `FeedProofs` | Stream implements Feed | extends StreamProofs |
| `MCStream` | one session with an owner filter | extends Stream |
| `Pages` | list, lookup and status calls against a table that changes | on its own |
| `PagesProofs` | theorems about Pages | extends Pages, TLAPS |
| `MCPages` | two owners, five requests | extends Pages |
| `Trend` | the time series, its cache and the refresh jobs | on its own |
| `TrendProofs` | theorems about Trend | extends Trend, TLAPS |
| `MCTrend` | a small calendar | extends Trend |
| `Lifecycle` | start, failure and stop of the three processes | on its own, also the module of its runs |
| `LifecycleProofs` | theorems about Lifecycle | extends Lifecycle, TLAPS |

`ReadModel`, `Worker` and `Chain` are one composition. The other modules take
from the worker what they depend on: `Delivery` its outbox calls, `Stream` its
Publish, `Pages` and `Trend` its inserts and rollbacks, `Lifecycle` the
goroutine it runs in.

### Chain

`chain` maps block numbers to blocks; `head` is the latest number. A block
holds the logs of the certificates issued in it and the contract's counter
after it. A hash commits to a block and its ancestors, so `BlockHash(n)` *is*
the prefix of the chain up to `n`, which makes it injective and nothing else.
`Reorg` cuts the chain back, never below `final`; `Mine` extends it. Every
block carries the number of reorganisations before it (`forks`), so a new
branch never repeats a block of an old one.

`final` is `Anchor` at first and then stays `ReorgDepth` behind the highest
head: blocks up to it are not replaced.

Transactions are mined in any order, and a new branch may mine others. They all
come from the contract's single owner, whose nonces fix the order of those that
stay unchanged; a transaction that is replaced (same nonce, another certificate)
lets the branches differ in content and order just the same.

### ReadModel

Each operation is one SQL statement and is atomic. A row has the log's columns
and `data`, the transaction whose certificate the contract returned; a correct
row has `data = tx`. A row is replaced by token (`ON CONFLICT (token_id)`);
`UniqueViolation` is the other constraint, `UNIQUE (chain_id, tx_hash,
log_index)`, which the upsert does not resolve. Reading is by the variables.

### Worker

One action is one write together with the chain reads before it. Between such
a read and its write only the chain can move, and a reorganisation there leads
to the same state as one right after the write. Results kept for later writes
(`to`, the logs in `todo`) are read in steps of their own.

| Code | Action |
|---|---|
| `initNext` | `InitNext` |
| `reconcile`: no hash, or hash as stored | `NoReorg` |
| `reconcile`: DeleteFromBlock | `RollBack` |
| `reconcile`: BlockHash, SaveState, `w.next` | `SaveRewound` |
| `poll`: HeadBlock, nothing new / compute `to` | `NothingToDo` / `HeadBlock` |
| `poll`: IssuedLogs | `FetchLogs` |
| `processLog`: GetCertificate, Upsert | `ProcessLog` |
| `processLog`: Publish, trend task | `PublishCertificate` |
| `processLog`: Validate or constraint error | `Reject` |
| `poll`: BlockHash(to), SaveState, `w.next` | `Checkpoint` |
| `enqueueWebhook`: insert / enqueue / mark | `RecordWebhook` / `EnqueueWebhook` / `MarkWebhook` |
| enqueue or mark fails, logged | `WebhookStepFails` |
| any other call returns an error | `PollFails` |
| `poll`: SaveState commits, its answer is lost | `CheckpointUnanswered` |
| process stops | `Crash` |

The loss of the answer to `reconcile`'s SaveState is not modelled, see the limits
below. The loss of another answer needs no action of its own. After DeleteFromBlock
and Upsert the poll ends: the write followed by `PollFails`. Upsert and Publish are
separate steps for this reason, as a row may be stored and not published. After
the insert into the outbox the poll ends without an enqueue: `WebhookStepFails`,
then `PollFails`. After an enqueue the error is logged and the mark left out:
`EnqueueWebhook`, then `WebhookStepFails`. After a mark nothing is left to do.

An error before the first write of a poll changes nothing and is a stuttering
step. `NoReorg` and `RollBack` are both disabled while the node does not know
the checkpoint's block (the head is shorter than the checkpoint): BlockHash
returns an error and the poll ends.

Specifications:

- `Spec`: no call fails, the chain is reorganised only between polls;
- `FaultySpec`: any call may fail, a write other than SaveState also after it
  has committed, and the process may stop at any step;
- `UnansweredSpec`: `FaultySpec` in which a batch's checkpoint may also commit
  without an answer;
- `RacingSpec`: a reorganisation may also strike during a poll;
- `TransientSpec`: `Spec` in which a call may fail now and then, with the same
  fairness.

### Delivery

`Worker` follows a webhook until its task is in the queue; `Delivery` follows
it from the outbox row to the endpoint. What the row is about no longer
matters, so rows are the ids `1..last`. `marked` are the rows with
`enqueued_at` set, `task` and `retried` the queue's view of the row's task,
`worker` and `sweep` where the fast path and each sweep are in their code, and
`posts` how often the endpoint saw the event (2 stands for more than once).

| Code | Action |
|---|---|
| `enqueueWebhook`: the row is new | `Record` |
| `enqueueWebhook`: EnqueueUnique / mark | `WorkerEnqueue` / `WorkerMark` |
| either fails, logged | `WorkerCallFails` |
| `WebhookSweepHandler.ProcessTask`: the list | `SweepStart` |
| its loop: EnqueueUnique / mark | `SweepEnqueue` / `SweepMark` |
| either fails, logged, next row | `SweepCallFails` |
| the indexer process stops | `IndexerCrash` |
| notify's `ProcessTask`: 2xx | `Delivered` |
| notify: other status, late answer, stop before reporting | `Refused` |
| notify: no connection | `Unreachable` |
| the indexer's server takes the task | `NoHandler` |

A sweep works on the list it read at its start, whatever happens to the rows
meanwhile. Several sweeps may overlap: a tick enqueues a task whether or not
the last one is done, and the server runs tasks concurrently.

The queue is external (asynq). Taken from how the code uses it: a task id is
refused while its task is pending, running, waiting for a retry or archived,
and both conflict errors count as success; a task that succeeds is gone, and
its id is free; a failing task is retried `MaxRetry` times, then archived; a
type without a handler is a failure like any other. An attempt is one step: an
enqueue during it is refused as one just before it would be.

`Spec` has all of this. `ReachableSpec` leaves out faults and an endpoint that
refuses or is down.

### Feed and Stream

`Stream` follows publications, numbered in the order of the Publish calls, from
the worker to the browser. A session is one browser that opens
`GET /certificates/stream` once. One step is one operation on a lock, a
channel, the gRPC stream or the connection to the browser.

| Code | Action |
|---|---|
| `Publish`: lock / one send or drop / unlock | `PublishLock` / `PublishSend` / `PublishUnlock` |
| `Subscribe`, and unsubscribe's delete / close | `Subscribe`, `Unsubscribe` / `CloseChannel` |
| indexer's `StreamCertificateEvents`: event / Send / context done | `TakeEvent` / `Send` / `StreamOver` |
| gateway's `StreamCertificateEvents`: open | `OpenStream`, `OpenFails` |
| its select | `SeeCancelled`, `SeeError`, `HandOver`, `Heartbeat` |
| `writeSSEEvent`, a ping | `WriteEnds` |
| `recvLoop`: Recv, its error, give up | `RecvEvent`, `RecvError`, `GiveUp` |
| the browser closes; cancellation arrives; the connection breaks | `BrowserLeaves`; `CancelArrives`; `Break` |

`HandOver` is the rendezvous on the unbuffered `events` channel. A write to a
browser that does not read does not end, so a stalled browser is one whose
`gw` stays at "write". `Window` stands for gRPC's flow control.

A session ends from three sides. When the browser leaves, `NothingLeaks` asks
that recvLoop, the gateway's handler and the indexer's handler all end and that
the subscription is gone. When the connection between the services breaks, it
asks that the indexer's handler unsubscribes and ends whatever the browser does,
and that the gateway's side ends too, with one exception the code has: a handler
that is writing to a browser which stays and does not read waits in that write.

`Feed` says what a session may expect: publications after the one it joined at
are offered in order, and each is accepted or, only when `Capacity` others
wait, dropped; what the session asked for is delivered in order; the end of a
session keeps at most a first part of what waits. The mapping: `pending` is the
concatenation of what the gateway writes, what recvLoop holds, the wire, what
the indexer sends and the subscriber's channel; `open` are the subscribers whose
stream is intact; a session is offered publication `published` when Publish has
passed it (`LastOffered`). A cut stream keeps what has passed the indexer, a
cancelled one nothing.

### Pages

One client makes one list request and follows `next_cursor` to the end, then
opens what it was shown; a monitor calls GetIndexerStatus; the worker indexes,
rolls back and the head moves between any two requests. A SQL statement is a
set operator on the table (`ListCertificates`, `ListCertificatesByOwner`,
`SearchCertificates`, `SearchCertificatesByOwner`, `GetCertificateByTokenID`);
`ParsePageSize` (gateway), `ResolveLimit`, `Dispatch` and `BuildPage`
(repository) are operators of their own. `steady` records which matching
certificates stayed in the table unchanged since the first page, which is what
"not skipped" can be promised for. Every block carries one certificate, so
token and block numbers coincide; the search text is a Boolean of the row.

### Trend

Times are units of a day on a calendar given by `MonthStarts`. The Go code's
truncation and advance (`TruncateToBucket`, `AdvanceBucket`, `AlignedBuckets`)
is translated; `DateTrunc` states what Postgres does without reference to it.
Three processes compute and write the cache entry: a request that misses, the
`trend:refresh` task with the fixed id, and the task the scheduler enqueues
every 15 minutes. Each reads the clock, queries, reads the clock again and
writes, in separate steps. One cache key is followed, chosen in the initial
state, as keys share nothing. Inserts enqueue the task (`EnqueueUnique`,
absorbed while a task with the id exists, an archived one included), deletions
by reconcile enqueue nothing. The table is empty at first; the worker stores
certificates of any early date of `EarlyDates` (it catches up with old blocks) or
of about now, as new rows or over a row that is there. The task goes through the
keys and stops at the first that fails: it may be pending or archived although
the followed key was written. Calls may fail, entries expire, the process may
restart.

### Lifecycle

Each process is a phase (`proc`), the states of its goroutines (`gor`) and the
errgroup's first error (`err`). `Cancelled` is the derived context of the
group; the closer goroutine waits for it and calls the stop functions, which
wait until `Drained`: GracefulStop for the open calls, the HTTP server's
Shutdown for its handlers or ten seconds (`ShutdownTimeout`). asynq's Run
listens for signals itself, so `signal` tells whether every Run had begun to
listen ("all") or not ("heard"). A browser's stream is a handler in the gateway
(`sse`) and a call at the indexer (`rpc`). Processes are started again after
any exit, signalled and killed at any time.

## Runs

| Run | Specification | Checks | Shows |
|---|---|---|---|
| mirror | Worker's Spec | TypeOK, Mirror, Converges | between polls the table is an exact copy of the chain up to the checkpoint; after the last reorganisation the read model catches up, with a task per certificate |
| faults | UnansweredSpec | Complete, MarkedAfterEnqueue, IInv, NeverWithdrawn, NeverRecedes, AnnouncedFirst | no fault of UnansweredSpec (the lost answer to a rollback's checkpoint is none of them) makes a canonical checkpoint cover a missing certificate; what a checkpoint vouches for stays in the table as it is; a canonical checkpoint never moves back; it passes no certificate this process has not published, although the row may have been stored by a poll that came no further |
| phantom | FaultySpec | NoPhantom | violated, see below |
| racing | RacingSpec | Complete | violated |
| stuck | TransientSpec | Recovers | violated |
| delivery | Delivery's Spec | TypeOK, NoneForgotten, DeliveryInv, Settles | a marked row has a task or reached the endpoint, however the worker, the sweep and the servers interleave; every recorded webhook is delivered or archived |
| shared_queue | ReachableSpec | BudgetForEndpoint | violated |
| stream | Stream's Spec | TypeOK, NoSendOnClosed, ImplementsFeed, PublishEnds, NothingLeaks, Flows | the pipeline implements `Feed`; Publish ends whatever the browsers do; a browser that leaves leaves nothing behind, nor does a broken connection unless the browser stalls; what waits is delivered unless the browser stalls or the session ends |
| pages | Pages' Spec | TypeOK, Descending, NoneSkipped, Openable, StatusHonest, ReachesTheEnd | a client that follows the cursor under concurrent changes sees nothing twice, misses nothing that stayed and comes to the end; the status never understates the lag |
| trend | Trend's Spec | TypeOK, SeriesExact, CacheCatchesUp | Go's and Postgres' buckets agree at the ends of days, weeks and months, also when the clock passes one between query and zero filling; the cache ends empty or current |
| lifecycle | Lifecycle's Spec | TypeOK, ZeroMeansSignalled, DrainedAtExit, StopsTogether, StopsWhenIdle | exit code 0 means a stop that was asked for with all clients served; gateway and notify stop on a signal, the indexer when its streams end or the gateway stops too |
| shutdown | Lifecycle's Spec | Shutdown | violated |

What the violations say of the code:

- **phantom.** Rows are committed one by one, the checkpoint after the batch.
  A batch that fails half way leaves rows above the checkpoint; if their block
  is then replaced and the checkpoint's is not, `reconcile` has nothing to
  notice and the rows stay.
- **racing.** The checkpoint's hash is read after the logs. When the chain
  moves in between, the hash belongs to a branch whose logs were never read.
- **stuck.** Rows left above the checkpoint by a failed batch keep their
  `(tx_hash, log_index)`. When the same transactions are mined in another
  order, the upsert meets the UNIQUE constraint at every poll.
- **shared_queue.** Indexer and notify read the same default queue. The
  indexer has no handler for `webhook:deliver`, and each task it takes uses up
  a retry: a task can be archived with the endpoint up and no POST sent.
- **shutdown.** GracefulStop waits without a timeout and does not end the
  contexts of streams, and the streaming call returns only when the gateway
  drops it. One browser that stays keeps a signalled indexer from stopping;
  the asynq server and the scheduler are not shut down by the closer either.

Limits that no run is about:

- with `BatchSize` 0 (a `BATCH_SIZE` that does not parse) every poll ends just
  below where it started; safety holds, the worker does not advance;
- a sweep that lists a row between the worker's enqueue and its mark enqueues a
  second delivery if notify was quick, the task id being free again;
- a transaction mined again after another one gets another token id, and with
  it a second outbox row and a second webhook;
- a certificate the contract accepts and `Validate` rejects (an empty title)
  is retried at every tick and holds back what comes after it: `Converges` is
  checked for chains without one;
- `Complete` needs a chain that does not return to a branch it has left:
  otherwise a rollback that deleted rows and failed to save is not repeated;
- `reconcile` lowers the stored checkpoint and then `w.next`, and returns in
  between when SaveState reports an error. If the statement committed and only
  the answer was lost, `w.next` stays above the deleted range while the rewound
  checkpoint is canonical: nothing is noticed, and the poll goes on past blocks
  it never read, unless the process is restarted first. The same loss at the end
  of a batch is harmless (`LostAnswersSkipNothing`): there `w.next` stays *below*
  the checkpoint;
- a `BatchSize` so large that the end of a batch wraps around moves the
  checkpoint back; `Complete` holds nevertheless as long as no answer is lost.

### Bounds

Chains of up to `MaxHead` blocks (4, or 5 with two certificates per block and
two reorganisations in the larger run), two or three transactions, `ReorgDepth
= ReorgWindow` of 2 or 3 instead of 12, batches of two blocks. This is enough
for a batch that spans blocks, a rollback that ends above the start block and
one that ends at it, a transaction mined again under another token and in
another block, a second reorganisation while the first rollback is unfinished,
and a restart at every point of it. `Word` is 2^64 scaled to 16: it is above
every block number, so the sum in `BatchEnd` wraps only where 2^64 would.
Transactions with valid certificates are interchangeable (symmetry); the
liveness runs use no symmetry.

Delivery: three rows, lists of two rows, one retry, two faults and one sweep at
a time (the proof is for any number). The
worker and the sweep can then hold the same row at different points while its
task is delivered, archived or enqueued again, a sweep goes on after a row it
could not handle, and the limit leaves a row for the next sweep. The run does
not check for deadlock: with every row marked and every task delivered or
archived there is nothing left to do.

Stream: one session with an owner filter, a channel for two events, a window of
one message, seven publications of alternating owners. That is more than every
buffer on the way can hold, so drops, a stalled pipeline and a break with
messages under way all happen. Sessions meet only in the lock of the
broadcaster, and `PublishIsSafe` is for any number of them. It does not check
for deadlock: when all is published and the browser gone nothing is left to do.

Pages: three tokens, two owners, three kinds of certificates and five requests
that reach every query, every branch of the page size rules (absent, zero, too
large for the repository, too large for the gateway) and a filter that is no
address; pages of one or two. A page boundary falls on every position, and a
token can be deleted and issued again between pages. No deadlock check: the
chain, the worker and the client may all be done.

Trend: half days, months that begin on days 0, 5 and 14, presets of eight days.
The one tick of the clock ends a day, a week and a month at once, the range
begins inside a bucket of each kind, and the early issue date is its first
moment and falls out of it with the tick. A certificate of that date arrives
like any other. Two changes of the table and one failing call are enough for a slow computation to overwrite a newer one, for a
refresh to be absorbed by an active or archived task and for a deletion without
a refresh. No deadlock check: a quiet system may stop changing its cache.

Lifecycle: indexer and gateway with two browsers, or notify by itself, with
which they share no stream. There is no bound on restarts: the state space is
finite. No deadlock check, as processes may stay down.

### Fairness

`Spec` assumes weak fairness of `WorkerNext`: `Run` polls at every tick, and a
poll runs to its end. It also assumes weak fairness of `MineStep`: the chain
keeps producing blocks up to the bound. Without the second the chain might stop
below the checkpoint after a reorganisation and every poll would fail for good.

Delivery's `Spec` assumes weak fairness of the worker's calls, of each sweep
(the cron entry fires every tick, so some webhook:sweep task reaches the
indexer and runs to its end) and of `Serve` for each row (some server takes
every task). It assumes nothing of the outcome of an attempt.

Stream assumes that goroutines which can go on do (weak fairness of Publish's
steps, the indexer's handler and recvLoop) and that a cancellation arrives. The
gateway's select chooses at random among the ready cases, so a case that is
ready again and again is chosen at some time, heartbeats notwithstanding: strong
fairness. Nothing makes the worker publish or a browser come, read or leave;
only a write to a browser that has left ends.

Pages assumes only that a client goes on once it has begun. Trend assumes that
computations go on and that the scheduler keeps firing; requests, the worker's
task and the expiry are not relied on. Lifecycle assumes that a process and the
runtime do what they do by themselves (launch, begin, return, exit, the ten
seconds); starts, signals, failures, kills and browsers are free, and so is the
return of asynq's Run after a Shutdown from another goroutine.

## Proofs

Eight modules hold theorems. Every theorem is about all values of the constants
that satisfy the named assumptions of its component's module; three further
assumptions on the worker's constants are named in the theorems that need them.
Every inductive invariant was checked by TLC on the bounds of the component's
run before it was proved. In the proofs there is one lemma per action or group
of like actions, and under it one step per conjunct the action can disturb.

### The worker: WorkerProofs and MirrorProofs

| Theorem | States | Assumes |
|---|---|---|
| `TypeCorrect` | `FaultySpec => []TypeOK` | |
| `WorkerInvariant` | `FaultySpec => []IInv` | `FinalityWithinWindow` |
| `NothingSkipped` | `FaultySpec => []Complete` | `FinalityWithinWindow` |
| `MarkedRowsHaveTasks` | `FaultySpec => []MarkedAfterEnqueue` | `FinalityWithinWindow` |
| `LostAnswersSkipNothing` | `UnansweredSpec => [](Complete /\ MarkedAfterEnqueue)` | `FinalityWithinWindow`, `FitsWord` |
| `NothingWithdrawn` | `UnansweredSpec => NeverWithdrawn` | `FinalityWithinWindow`, `FitsWord` |
| `ProgressIsKept` | `UnansweredSpec => NeverRecedes` | `FinalityWithinWindow`, `FitsWord` |
| `NothingUnannounced` | `UnansweredSpec => AnnouncedFirst` | `FinalityWithinWindow`, `FitsWord` |
| `TableMirrorsChain` | `Spec => []Mirror` | `Undisturbed` |
| `NoPhantomWithoutFaults` | `Spec => []NoPhantom` | `Undisturbed` |

`FinalityWithinWindow` says that no reorganisation is deeper than
`reorgWindow`, and that the start block is final. The second part is needed
because a rollback never goes below `StartBlock`, and does not delete the rows
of that block. Nothing is assumed of the certificates `Validate` rejects, nor,
for `FaultySpec`, of `BatchSize` and `Word`.

`Complete` is not inductive: it says nothing while the checkpoint is not
canonical, nor of a batch in progress. `IInv` adds

- `ChainOK`: the counter grows along the chain, so tokens are unique on it;
- `HashOK`: where the chain differs from the stored hash, the hash has a block
  of an older branch, so no later block can make them equal again; what was
  final when the checkpoint was saved is still there;
- `RowsOK`: everything up to the rollback target is stored even while the
  checkpoint is not canonical, and everything up to the checkpoint while it is;
- `NextOK`: `w.next` leaves no gap after the checkpoint;
- `PhaseOK`, `BatchOK`: what a poll has established so far, and that each log
  of the batch is still to come or stored.

The heart of the proof is that `Mine` cannot make a stale checkpoint canonical
(`HashOK`), that `RollBack` removes only what lies above its target, and that
an `Upsert` never replaces a row of another canonical certificate, tokens being
unique.

With lost answers `w.next` may stay below the checkpoint, and `IInv` no longer
suffices: a batch must not end below where it begins. `PositionOK` says so, and
that the checkpoint is at most as far ahead of `w.next` as one batch reaches,
which is why a batch processed again never ends below the checkpoint
(`ProgressIsKept`, an action property). It needs `FitsWord`, `MaxHead +
BatchSize < Word`: with an end of batch that wraps around, the checkpoint would
be saved below `w.next`, and a lost answer would leave the gap between them. 2^64
is above the sum for every real chain and every `BatchSize` not close to 2^64.
`NothingUnannounced` adds `FeedOK`: while a batch is worked on, each of its
certificates is still to come or published, and after Upsert the one at hand is
the next to be. The batch begins no later than the block after the checkpoint
(`NextOK`), so it holds everything the checkpoint newly covers.
`NothingWithdrawn`, the third action property, follows from `IInv` alone: a
rollback starts only from a stale checkpoint and deletes above its target, and
an upsert replaces the row of a token that is unique on the chain, with what
the chain has for it.

`Mirror` is the other direction as well: no row is there that the chain does
not have. It is about `Spec`, in which calls succeed and reorganisations come
between polls; the run `phantom` shows that it fails with faults. It also
depends on two things that `Undisturbed` names: no certificate of the chain is
one that `Validate` rejects (a rejected one ends the poll early, just like a
fault), and `MaxHead + BatchSize <= Word` (an end of batch that wraps around
leaves `w.next` and the checkpoint apart). With the code's `Word` of 2^64 and
`BatchSize` in the thousands, the second holds of every real chain.

The rows of a stale checkpoint are not on the chain, so `Mirror` needs an
invariant that says where they come from: `MirrorInv` adds to `IInv`

- `Truthful`: every row comes from a block that the checkpoint's hash commits
  to, or from the batch in progress; during a rollback only from a block below
  its target;
- `HashLogs`: that hash commits to logs that carry their block's number;
- `Aligned`: `w.next` and the stored checkpoint are one position;
- `TxOnce`: no transaction is on the chain twice, so an insert never meets the
  constraint on `(tx_hash, log_index)` (`NeverRejected`).

`NoPhantomWithoutFaults` says the same at every moment of a poll: what the run
`phantom` finds needs a poll that ends early.

### Delivery: DeliveryProofs

`DeliveryTypeCorrect` (`Spec => []TypeOK`), `DeliveryInvariant`
(`Spec => []DeliveryInv`) and `NothingForgotten` (`Spec => []NoneForgotten`),
for any number of rows, retries, sweeps and faults (`DeliveryAssumption` only
says they are natural numbers).

`NoneForgotten` is about marked rows only. `DeliveryInv` adds that the row the
worker or a sweep is about to mark has been handed to the queue (`Handed`):
there is a task or a POST. `Handed` is stable, because a task leaves the queue
without being archived only when a POST succeeded, so it survives whatever the
other processes do between a process's enqueue and its mark.

### The live feed: StreamProofs and FeedProofs

`PublishIsSafe` (`Spec => []NoSendOnClosed`), `StreamTypeCorrect`
(`Spec => []TypeOK`), `PipelineIsFeed` (`Spec => ImplementsFeed`) and
`BrowserReadsInOrder` (`Spec => []ReadInOrder`), for any number of sessions,
filters, buffer sizes, windows and publications.

`NoSendOnClosed` relates the channels Publish still has to send to and those
that are closed. `Registered` follows each handler: it is in the map only
between Subscribe and Unsubscribe, its channel is closed only after it has left
the map, and what Publish has left to do is a part of the map as long as it
holds the lock, and nothing otherwise. Subscribe and Unsubscribe wait for the
lock, so the map does not change under Publish.

The refinement needs more, which `StreamInv` collects: a goroutine holds a
publication exactly while it is sending or writing it (`Holding`), who has
ended and why (`Ending`), and what passed the owner filter is what the session
asked for (`Filtered`). The mapping takes a session to be open while it is
subscribed and its stream neither cut nor cancelled, and what waits for it to
be the concatenation of what is between Publish and the browser: the line being
written, the message received, the window, the message being sent and the
channel. `FeedInit` maps the initial state. `FeedStep` has one lemma per step
of the pipeline: Subscribe is the feed's `Join`, a send of Publish its `Offer`,
an event the filter drops its `Skip`, a write that reaches the browser its
`Deliver`; a broken or cancelled stream is its `Cut`; whatever moves a
publication from one place to the next leaves the concatenation as it is. The
lemmas on sequences at the head of `FeedProofs` are what those steps need.

`BrowserReadsInOrder` rests on an invariant of its own, `FeedOrdered`: what was
read, then what is under way, is increasing, and no session that is served has
seen anything later than its last offer.

### The read side: PagesProofs

`PagesTypeCorrect`, `NothingShownTwice` (`Descending`), `NoPageGap`
(`NoneSkipped`), `ShownCanBeOpened` (`Openable`) and `StatusNeverFlatters`
(`StatusHonest`), each `Spec => []...`, for every page size, limit, filter and
number of certificates.

`PagesInv` adds to the properties that the token is a key of a finite table
(`TableOK`), that a steady token is one whose row is there and matches
(`SteadyOK`), that the cursor of a client that goes on is below everything it
was shown (`CursorOK`), and that the checkpoint has not fallen since the first
read of a status call that no rollback met (`CallOK`). The
lemmas on the query (the rows within a limit are those with the largest tokens)
lead to `PageComplete`: what matches and lies above the next cursor is on the
page.

### The processes: LifecycleProofs

`LifecycleTypeCorrect`, `NoFailureHidden` (`Spec => []ZeroMeansSignalled`) and
`ExitsDrained` (`Spec => DrainedAtExit`, an action property), for any set of
processes and any number of browsers.

`LifecycleInv` adds what a group's first error can be (`Accounted`: it is the
context's error or `ErrServerStopped` only after a signal, because whatever
returns these waits for a cancelled context, and without a signal a context is
cancelled by an error that is there already) and that a closer which returned
without a timeout left nothing open (`Closed`).

### The trend: TrendProofs

| Theorem | States |
|---|---|
| `CalendarsAgree` | trend.go and Postgres truncate every time to the same bucket start |
| `PointsCount` | each point of a series counts exactly the certificates of the range in its bucket, whatever buckets it is asked for |
| `TrendTypeCorrect` | `Spec => []TypeOK` |
| `SeriesIsExact` | `Spec => []SeriesExact` |

They hold for every calendar `TrendAssumption` admits: days of any length, any
set of first days of months that includes day 0, any presets. The assumption
also says that no preset reaches back beyond day 0 of the calendar: the clock
of the code is half a century past the epoch, its longest preset is a matter of
months.

`SeriesExact` depends on what the loop of `AlignedBuckets` visits, for every
range. The loop is a recursive function, and the library's induction theorems
cannot be used, so the argument is made with the least number principle
(`LeastExists`, from the well-foundedness of the natural numbers):

- `LoopDefined`: the recursive definition has a solution. It is read off the
  smallest set of pairs closed under the loop's step; that a time has exactly
  one value there is shown at the time closest to the end that would not have.
  This needs `AdvanceGrows`: every step of the loop moves forward.
- `AdvanceIsNext`: from a bucket start the loop's step leads to the next bucket
  start and skips none, for days, weeks and months.
- `LoopVisits`: so the loop collects all bucket starts between the two ends, by
  a least counterexample.
- `TruncateIsLast`, `BucketsOfRange`: the ends are the last starts before the
  range's ends, so these are the buckets of the moments of the range.

The inductive invariant `TrendInv` adds to the types that the clock never runs
below its start and that the table has grown by at most the changes so far.

### Only model-checked

- Liveness, which is outside the prover's reach: `Converges`, `Settles`,
  `PublishEnds`, `NothingLeaks`, `Flows`, `ReachesTheEnd`, `CacheCatchesUp`,
  `StopsTogether`, `StopsWhenIdle`.
- The properties of the runs that expect a violation: they are false.

Every invariant and every action property that a passing run checks is a
theorem, and so is the refinement.

## Plan

The modules went from the core outwards: worker and read model first, then the
delivery, the live feed with its abstract specification, the read side, the
trend and the processes; for each the runs first, then the theorems. What is
left to do:

1. `reconcile`'s SaveState with a lost answer as an action and a run of its own,
   which expects `Complete` to be violated;
2. the bound on repeated deliveries: how many POSTs one outbox row can cause as
   a function of the sweeps and retries;
3. several indexer processes on one database, should they ever be deployed: the
   worker keeps `w.next` in memory and takes no lock on `indexer_state`.

## Not modelled

The contract binding and the proto code, which are generated encoding and
transport; the statistics, health and metadata handlers beyond the call they
forward; routing, CORS, layout, formatting and logging; address and token
syntax; TLS, signatures and metrics; the deployment scripts. The front end
keeps its state in the query and wallet libraries and derives what it shows
from them. The contract's access control and its transfer and approval locks
are guards of transactions the backend never sends.

A single chain id and a single indexer process are assumed, as deployed.
