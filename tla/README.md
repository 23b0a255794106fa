# Sugar Glider: TLA+ models and proofs

Sugar Glider is a sidecar between services and Redis Streams. Clients publish
and subscribe over gRPC or HTTP; the sidecar batches publishes into Redis
pipelines, keeps a local write-ahead log (WAL) for the time Redis is away, fans
one consumer-group reader out to many subscribers, and moves entries that keep
failing to a dead-letter stream. This directory models the parts with state and
concurrency, checks them with TLC and proves their safety properties, for every
size of the system, with TLAPS.

    tlc -config WAL_log.cfg MC_WAL           # any run of the table below
    tlapm WAL_proofs.tla                     # the proofs, one module per component

## 1. Inventory

| Part | State | Operations | Interacts with |
|---|---|---|---|
| WAL, `internal/wal/wal.go` | a file of JSON lines, `mu`, the atomic `depth` | `Append`, `Replay` + `rewrite`, `New` + `countFileLines`, `Depth`, `Bytes` | the publish path appends; the replay loop and successful publishes replay |
| Publish path, `service.go`, `grpc.go` | `replayMu`, per-call contexts | `Publish`, `PublishBatch`, HTTP `publish`, `publishInternal`, `publishToRedis`, `publishBatchToRedis`, `replayWAL` | pipeline, Redis, WAL |
| Publish pipeline, `publish_pipeline.go` | `queue`, `stopCh`, `doneCh`, run's buffer, one result channel per job | `Publish`, `PublishMany`, `run`, `flushBatch`, `Close` | callers through channels, Redis through `Exec` |
| Dispatchers, `dispatcher.go` | manager map and `closed`; per dispatcher `ctx`, `subscribers`, `dropCounts`, ack queue | `getOrCreate`, `subscribe`, `removeSubscriber`, `removeIfSame`, `stop`, `Close`, `runReadLoop`, `fanOut`, `queueAck`, `runAckLoop` | the Subscribe and Ack RPCs, XREADGROUP, XACK |
| Consumer groups, `consume.go` | cache of ensured groups | `ensureConsumerGroup`, `consumeGroupOnce`, `ackEntriesInternal` | Redis |
| Dead letters, `service.go`, `dlq_replay.go` | Redis pending lists | `scanAndMoveToDLQ`, `movePendingEntryToDLQ`, `replayDLQInternal` | Redis, consumers that acknowledge |
| Readiness, `service.go` | none of its own | `readyz`, `readinessSnapshot` | WAL depth, Redis |
| Configuration, `internal/config` | read once | `Load`, DLQ policy | all |
| Metrics, `internal/metrics` | counters | increments | one gauge steers adaptive publishing |

What is hard here: goroutines that meet on channels while the pipeline or a
dispatcher is stopping; a context that ends while its job is in Redis; a batch
that fails in the middle; a process that dies between publishing a WAL entry and
rewriting the log; writes that fail half-way; limits that two scanners apply
differently; acknowledgements that are accepted while the ack loop ends; a cache of
what Redis held before it lost it; decisions on an answer of XPENDING that is old by
the time the entry is moved. `PROJECT.json` lists each of these at its line.

What makes each part correct:

* WAL: what `Append` promised is delivered or still there to be delivered, in
  order; limits hold for the file; the counter is the file's.
* Publish path: an RPC never answers for a message that is neither in Redis nor
  in the WAL; it does not publish twice without need; it returns; `Close` drains.
* Dispatchers: no channel is closed twice; a Subscribe finds a dispatcher that
  runs; a dispatcher outside the map gets stopped; a listener is served, or told.
* Acknowledgements: an id that was accepted is kept until Redis has it, and the
  loop does not end before it is sent; the counters say what happened.
* Consumer groups: a group that Redis lost is made again, and skips nothing.
* Dead letters: a message that was delivered is pending, handled, in the dead-letter
  stream or back in the stream, unless MAXLEN has pushed it out; it is moved only after
  enough deliveries, once but for failures, and keeps the id it was published with.
* Readiness: a backlog that has drained, or a log in use, keeps nobody out for good.

## 2. Modules

| Module | Models | Notes |
|---|---|---|
| `DurableQueue` | abstract: what the WAL promises | no files, locks, processes |
| `WAL` | `wal.go` | implements `DurableQueue` (`IsDurableQueue`) |
| `PublishPath` | publish RPCs, pipeline, fallbacks, replay | the WAL is a queue here, as `WAL` shows it to be |
| `Dispatcher` | one key's dispatchers and Subscribe RPCs | |
| `AckLoop` | Ack RPC, ack queue and loop of one dispatcher, direct XACK, shutdown | chunks and spans as functions of the pending set |
| `ConsumerGroup` | cache of ensured groups, `consumeGroupOnce`, the read loop's group calls | one group, a Redis that loses it |
| `DeadLetter` | scanner, move and replay, several sidecars, consumers | one stream and one group |
| `Slices` | members of a Go slice, the loop that copies a slice without some of them | used by `PublishPath`, `AckLoop` |
| `*_proofs` | | TLAPS proofs about the module of that name |
| `DataLemmas` | | facts about sets of naturals and slices that the proofs share |
| `MC_*` | instances for TLC | |

Operators whose comment begins with *Mutant* are not part of the model. Each
is a plausible mistake in the definition that follows it, kept to show that the
property it breaks is sensitive to the code.

### WAL

`file` is a sequence of lines. A line knows the message it decodes to (or
`Corrupt`), the messages whose complete text lies in it, whether its newline is
there, and its length. `AppendWrites` and `AppendReturns` are the two halves of a
successful `Append`, so that a crash can fall between the write and
`depth.Add(1)`; a failing `Append` is one step, because it holds `mu` throughout
and leaves nothing to see but its result. `AppendTorn` is `f.Write` failing after
k bytes; `WriteLine` glues the next line to what it left. `Replay` is a step per
line (`ReplayKeeps`, `ReplayPublishes`, `ReplayPublishFails`), then `WriteTmp`,
`Rename` and `ReplayReturns`, with an error exit at each system call. A failing
XADD may have been executed. `Crash` keeps what `write(2)` took and drops the rest;
`New` counts the lines again, if its scanner can.

### PublishPath

`call[c]` is the program counter of an RPC's goroutine: `decide` is
`publishToRedis`, `enqueue` and `wait` the two selects of the pipeline, `direct`
the XADD outside it, `append` the WAL, `sync` the end of a successful publish.
`mode` says whether a `PublishBatch` is still at its first attempt (`many`) or in
its one-by-one fallback (`each`). A job is a message and an attempt, because the
first attempt's jobs stay in the pipeline when the call goes on without them.
Channels are sequences; a `select` with several ready cases takes any. `dead` are
the jobs whose context is over, by the three seconds of `publishRedisContext` (which for
a batch's first attempt go on during its fallback) or by a deferred `cancel`. `run` is one goroutine: it receives and drains job by job, since
callers can enqueue in between, and its byte threshold is a choice. `replays` counts
the entries of a Replay pass; they leave `wal` when the pass rewrites the log, and
stay if the rewrite fails. `unsure` and `early` are history variables for the
properties.

### Dispatcher

One (stream, group) key. `cur` is its map entry; dispatchers are numbered in the
order they are made. `stop[d]` splits `stop()` at the point where it waits for
`subscribersMu`. The read loop is at the top of the loop, in XREADGROUP, waiting
for the lock in `fanOut`, or in `fanOut`, one step per event, because subscribers take
events off their channels meanwhile. `rd[d].evict[s]` counts how often `s` is in
`removeSubscribers`. `panic` records a close of a closed channel or a send to one.

### AckLoop

Entry ids are numbers, `Parts` what `parseStreamIDParts` makes of them. `call[c]` is an
Ack RPC: it looks the dispatcher up (`found`), queues its ids or is turned away, or goes
to Redis directly. The loop stands in its select, in one of the three drains (after a
receive, a tick, the cancel) or in a flush; a flush sends `FlushConcurrency` chunks per
`Exec`, and `pending` loses a chunk only when the whole `Exec` succeeded. `Refused` are the
ids for which Redis rejects an XACK: go-redis returns a command's error from `Exec`, so the
loop over the commands behind it never sees one. `closing` is `Sidecar.Close` and `main`,
which do not wait for the loop. `early`, `failed` and `repeats` are history.

What the model shows the code does not do, and the properties except:

* a call that found the dispatcher may queue after the loop's last drain; its client is
  told the ids were acknowledged, and nobody sends them;
* a last flush that fails, or that finds the Redis client closed, is not repeated, and
  after a failing server `main` exits without `Close`;
* one malformed id stays in `pending` and makes every later flush fail at its chunk;
* after a flush that failed half-way the duplicates counter is too high.

In each case the ids stay pending in the group: they are delivered again to a consumer
that claims them, or become dead letters.

### ConsumerGroup

`group` is Redis' side: whether the group exists and the last entry it handed out. `ensured`
is the sidecar's cache. A reader is `consumeGroupOnce` (HTTP read, stateless Subscribe) or a
dispatcher's loop; it looks into the cache, creates, remembers, reads and forgets in steps
of their own, since each takes the lock or calls Redis. `Lose` removes the group, alone or
with the stream. `noise` collects what excuses a failing call: a failure of Redis, a loss
during the call, or a `rememberConsumerGroup` by another reader. The last one is needed: a
reader whose XGROUP CREATE was before the loss can put the key back between another
reader's `forgetEnsuredConsumerGroup` and its second `ensureConsumerGroup`, and the single
retry fails; TLC finds that behaviour when the clause is dropped. An XREADGROUP that was
executed and whose answer was lost, or that returns after the last subscriber has left,
leaves its entries pending with a delivery count of 1. The sidecar never claims entries, so
such an entry waits for another consumer of the group, and the dead-letter scanner,
which wants more deliveries, does not take it either.

### DeadLetter

`log` and `dlog` are the stream and its dead-letter stream, `pel`, `count` and `idle` what
XPENDING reports. A scanner goes page by page, and through a page entry by entry: XRANGE,
XADD, XACK are steps, each may fail, executed or not, and everything after XPENDING relies
on its answer. Two scanners are two sidecars. `OriginalID` and `Requeued` are the rules for
the `dlq_` fields: a replay drops them all but `dlq_original_id`, a move writes the
message's own fields over its own. Consumers claim and acknowledge at any time, others
publish and add dead letters of their own. Every XADD, to either stream, has
`MAXLEN ~ MaxStreamLen`: it may remove the oldest entries, as many as Redis likes, as long
as `MaxStreamLen` are left (`Trimmed`). What the code accepts and the properties allow for:

* the XADD of a dead letter may push out the oldest ones, replayed or not: a message that
  nobody replays in time is lost once `MaxStreamLen` newer dead letters are there. In the
  same way a requeued entry can be pushed out of the stream before anyone reads it.
  `NotLost` says that nothing else loses a message (`InDLQ`, `InStream`);
* an entry acknowledged or moved between XPENDING and XADD is copied all the same, at
  most once per sidecar;
* a failing XACK after XADD, and a replay without delete or with a failing XDEL, leave a
  second copy;
* a pending entry that was trimmed cannot be read, is not acknowledged, and stays pending:
  nobody will move it;
* a per-stream `max_retries` of 0 moves everything that is pending, while the global 0
  turns the scanner off for all streams;
* an empty list of streams allows every stream but tracks none, so that a stream that is
  allowed only because the list is empty is never scanned (`trackedStreamsForDLQ`).

## 3. Runs

| Run | Result | Shows |
|---|---|---|
| `WAL_log` | pass | `AtLeastOnce`, `DepthExact`, `EntriesBounded`, the refinement of `DurableQueue`, `Drained` |
| `WAL_torn` | pass | `Retained` and `BytesBounded` with torn writes |
| `WAL_torn_loss` | violation of `AtLeastOnce` | finding 1 |
| `WAL_restart` | violation of `Drained` | finding 2 |
| `Publish_single` | pass | `Honest`, `NoNeedlessCopy`, `CloseDrains`, `Answered`, `QueuedReachesRedis`, `ReadyAgain`, with and without a pipeline; ticker, sync replay |
| `Publish_batch` | pass | `Honest` for `PublishBatch`, with and without a pipeline, with adaptive direct publish in its fallback |
| `Dispatcher` | pass | `NoPanic`, `CurrentRuns`, `NoLeak`, `Shutdown`, `Served` |
| `Dispatcher_orphan` | violation of `Told` | finding 3 |
| `Dispatcher_stall` | violation of `FastServed` | finding 4 |
| `Ack` | pass | `AcceptedKept`, `StopFlushes`, `FlushCovers`, the counters (`CountSound`, `DuplicatesExact`, `SpansExact`), `Acknowledged` |
| `Groups` | pass | `NoSkip`, `RetryHeals`, `Delivered` |
| `DeadLetter` | pass | `NotLost`, `CopiesBounded`, `OnlyOverRetried`, `Lineage`, `StuckLeaves` |

**Bounds.** *WAL*: four messages against a limit of three entries and a replay batch of
two, so that the limit is met and a full log is replayed in two passes; with torn
writes three messages with lines of two and three bytes and a limit of six, so that a
fragment decides whether the next line fits, and two crashes, so that one can fall
into the recovery from the other. The scanners take six (four with torn writes) and
eight bytes in place of 64 KiB and 4 MiB. *Publish*: two calls, or a batch of two, and a
queue of one, so that the queue is full, empty and refilled after the last drain;
`MaxCopies` bounds the failed replays that did store their entry; `readyz` has a limit of
one WAL entry, and none for the queue. *Dispatcher*: two dispatchers (a third repeats the
second), two subscribers, a buffer of one, eviction at the first drop, and as many events
per read as there are; with three events a subscriber is listed for removal more than
once. The code's 8 drops and large buffers need more events for the same situations. The
case of a third client, that takes the next dispatcher for the key while the last client
of the old one is in `removeIfSame`, is covered by the theorems, for every `Sub`.
*Ack*: three calls and a queue of one, so that the backlog is full; chunks of two, so that
a flush has a full and a partial chunk in two pipelines; ids that are contiguous, of
another millisecond, repeated in and across calls, malformed and blank. *Groups*: one
direct reader and one loop, two entries, two losses, so that the group is lost again
while a reader heals the first loss. *DeadLetter*: two sidecars, one
entry and up to two more from publishes and replays, and a page of one, so that a page is
full and is not the last; a `MaxStreamLen` of one, so that each XADD may trim what is not
its own, and unreplayed dead letters, requeued and pending entries are pushed out; replays
of up to two letters; policy of two deliveries; `MaxTrouble = 2` allows any two of: a
replay, a publish, a dead letter of others (which has no target), a scan that overlaps the
other sidecar's, a failure that leaves an entry to be
copied again. Deadlock checking is off where the system may stop: calls end, clients
leave, and a closed sidecar is meant to stop.

**Fairness.** A goroutine that can run does (weak fairness of its steps). The replay
ticker keeps firing, and a crashed sidecar is started again by its supervisor. For
delivery, Redis and the disk at some time stop failing (`<>[][~Outage]_vars`,
`RecoverySpec`); before that they may fail any number of times. A Redis call returns,
since its context has a deadline. XREADGROUP is strongly fair: it may come back empty or
fail, but not each time when there are events. The select of the ack loop chooses among
ready cases at random, so that a tick or the cancel, ready again and again, is taken in
the end (strong fairness). Direct readers poll. The scan timer keeps firing. Clients are
not fair, except in the runs that say so (`ReadingSpec`, `OneReadsSpec`).

### Findings

1. *A torn write loses the next message.* `Append` leaves the fragment of a failed
   `f.Write` in the file; the next `Append` goes on behind it and returns nil for an
   entry that no Replay can decode. Only its text stays on the disk (`Retained`).
2. *A long line prevents the restart.* `countFileLines` has the default limit of
   64 KiB, and `New` fails on a line that `Append` and `Replay` take. A line beyond
   Replay's own 4 MiB is worse: `Replay` then returns at `scanner.Err()`, before the
   rewrite, so what is before the line is published again in every pass, and what is
   behind it never (the same instance with a line of nine bytes shows it).
3. *A subscriber of a stopped dispatcher.* Between `getOrCreate` and `subscribe` the
   last other client may leave and stop the dispatcher. `subscribe` then registers a
   channel nobody fills or closes.
4. *Backpressure prevents eviction.* A subscriber that stops reading pauses the read
   loop, and only `fanOut`, which the loop no longer calls, evicts.

## 4. Proofs

All theorems hold for every value of the constants that the modules' assumptions
allow; TLC evaluates these in every run. The assumptions say no more than what the code
fixes: limits, sizes and counts are naturals, and positive where `config.Load` makes them
so (`Loaded`); `WALAssumption` adds that a line has at least two bytes,
`PublishAssumption` that each request of each call is a message of its own (a client
that tries again makes another message) and that a call which is no batch has one,
`AckAssumption` that ids are finitely many, that Redis refuses blank ones, and that a
sequence number is below `SeqModulus`, `DeadLetterAssumption` that the scanner is on and
comes to the stream, that a replay's other targets are streams the sidecar may not publish
to, and that an entry can be delivered at least once. Bounds on
failures, losses, copies and crashes may have any value. Each inductive invariant below was
first checked with TLC on the instance of the component's run.

**Induction over data.** The provers cannot instantiate the library's induction
schemes. `DataLemmas` states induction for *sets* instead (`Induction`: a set that
contains 0 and the successor of each of its members up to m contains `0..m`), from the
fact that a set of naturals has a least member (`LeastMember`). A recursive function is
unfolded by building, with that lemma, a function that satisfies its equation, so that
the CHOOSE behind the definition does too (`BytesUnfold`, `WithoutElems`, `ScanCounts`).

**`WAL_proofs`.** `TypeCorrect`, with the bound of a pass, holds unconditionally.
`AtLeastOnce`, `DepthExact`, `EntriesBounded` and the refinement assume
`TornWrites = FALSE`; finding 1 is why. `AtLeastOnce` is not inductive: the step that could break it is `Rename`, which replaces the file by `remaining`.
`IInv` therefore says what `remaining` is at every point of a scan (`ScanInv`): the lines
before `pos` are `replayed` delivered ones followed by exactly `remaining`. That
needs every line to be a terminated entry (`CleanInv`), the lock to be held by one
party (`LockInv`), and, for the window between the write and the return of `Append`,
`StoredInv`, which is about written messages and not only acknowledged ones.
`DepthInv` gives the counter's value also where it lags behind the file. From `IInv`
(`Inductive`) follow `AtLeastOnceHolds`, `DepthExactHolds`, `EntriesBoundedHolds`, and
`Refinement`: every step of the log is a step of `DurableQueue`, or none.
`RetainedHolds` and `BytesBoundedHolds` hold with torn writes as well. Their invariant
`TornInv` has two parts beside `LockInv`. `HoldInv`: the texts of all scanned lines are
in Redis or in `remaining`, which needs that a line which decodes holds only its own
text (`Decodes`), or publishing it would drop another. `SizeInv`: the file has room not
only for its bytes but for the newline that rewrite adds to an unterminated last line
(`Gap`), and no other line lacks one. Without that byte the bound is not inductive: a
fragment that fills the log would grow past the limit at the next rewrite; it cannot,
because a torn write is at least one byte short of the line that was let in.

**`PublishPath_proofs`.** `CloseDrainsHolds` rests on `DrainInv`: a job that was queued
before the stop has its result or is in the queue, the buffer or the flight, and in the
queue only as long as the final drain lasts; the buffer is empty when `run` ends. `HonestHolds` on `HonestInv`: a result
`ok` means the message is in Redis (`Told`), so does a WAL entry that the current replay
is done with (`Passed`, which lets the rewrite drop entries), and at each program
counter the call knows of its finished messages that they are kept (`Knows`).
`NoNeedlessCopyHolds`, about calls with one message, needs that its job and its WAL
entry are each in one place only (`JobOnce`, `EntryOnce`), and counts (`Copies`): while the
sidecar may still publish the message, all copies are ones it was not told of.

**`Dispatcher_proofs`.** `TypeCorrect` includes that no channel exceeds its buffer.
`MapInv` adds to `CurrentRuns` and `NoLeak` that whoever stops a dispatcher has taken it
out of the map before (`UnlinkedInv`), that a closed manager has none (`ClosedInv`),
and that numbers beyond `made` are unused (`MadeInv`). `ChannelInv` adds to `NoPanic`
that a registered subscriber has an open channel and belongs to that dispatcher alone
(`RegInv`), which makes the four places that close channels compatible.

**`AckLoop_proofs`.** `FlushCoversHolds` is where the chunks come in: `ChunksCover` shows
that the ranks of the ids, divided by the batch size, put each id in one chunk.
`AcceptedKept` is inductive with the types. `StopFlushes` needs `LastInv`: the loop stops
only after the cancel, in its last flush what was accepted before the cancel and is not yet
acknowledged is in `pending` (the queue holds late calls only), and it ends with `pending`
empty, unless that flush fails.
`CountSound` follows from the cardinalities of what XACK takes off (`XackCounts`).
`DuplicatesExact` needs `inputs >= Distinct` (`DupInv`), so that the subtraction in
`ObserveDispatcherAckCompression` is not cut off at 0. `SpansExactHolds` is a theorem about
the loop of `countContiguousAckSpans` for any set of ids: sorted pairs have increasing keys
and none is left out (`SortedFacts`), a pair then continues a span exactly if its
predecessor is in the set, the one that wraps to sequence number 0 excluded
(`ContinuesExact`), and the loop counts those positions (`ScanCounts`).

**`ConsumerGroup_proofs`.** `NoSkip` is inductive with the types and with `GroupInv`, that
a group Redis does not have has no position; `NextEntriesContiguous` shows that a read
leaves no gap. `RetryHeals` needs `SecondTry`: a reader at its second try that met none of
the excuses does not find the key in the cache, and finds the group when it reads.

**`DeadLetter_proofs`.** `TypeInv` strengthens the types with what the scanners and
replays hold: entries the group has handed out, delivered often enough (`MayMove`), and
dead letters that exist (`MayReplay`). Deliveries never decrease, which gives
`OnlyOverRetriedHolds`. `NotLostHolds` needs `MovedInv`, that a scanner before its XACK has
its copy and a replay before its XDEL has requeued, and `KeptInv`, that only newer entries
push an entry out of the stream; the latter rests on `TrimmedFacts`, that of n entries XADD removes
none that has fewer than `MaxStreamLen` behind it. `LineageHolds` needs `LinkInv`, that
each copy carries the original id of what it copies, and is older than what it became;
the chain of moves and replays is then followed by induction. `CopiesBoundedHolds` counts
(`CopyInv`): while an entry is pending, each of its copies is one scanner at its XACK or
one failure; when it no longer is, only the scanners that still list it can copy it.

**Only model-checked.** Liveness (`Drained`, `Answered`, `QueuedReachesRedis`,
`ReadyAgain`, `Shutdown`, `Served`, `Acknowledged`, `Delivered`, `StuckLeaves`), because
the prover has no support for fairness. Every other property of a passing run has a
theorem.

## 5. Not modelled

* Redis itself, beyond what its calls return; go-redis retries.
* Power failure: neither `Append` nor `rewrite` calls fsync, and nothing in the code
  promises more than surviving a process crash.
* Messages Redis refuses for good: an XADD that fails for its own contents would keep the
  head of the WAL and block what is behind it. The models let every failure of XADD end.
* The contents of messages, HTTP and gRPC encoding, logging, and the counters and gauges
  that nothing but the metrics endpoints reads.
* Parsing of environment variables and listen addresses, listeners, signal handling and
  the grace period of the servers, the smoke and benchmark clients, generated code.
* Of `readinessSnapshot` the ping of Redis and the case that the log's file cannot be
  examined (`wal_stat_failed`): both pass with the failure behind them.
* A MAXLEN other than the sidecars': a program that adds to the dead-letter stream does so
  with `MaxStreamLen` too.
* Claiming of pending entries: the sidecar has none; consumers do it in `DeadLetter`.

## 6. Plan

Done: all components with state of their own, and a theorem for each of their safety
properties. What may follow:

1. Simplify the longest proofs (`PublishPath_proofs`, `DeadLetter_proofs`), whose steps
   repeat the same frame argument for many actions.
2. The parts of the liveness arguments that are safety: for each leads-to property, that
   the measure it rests on never grows.
3. `PublishPath` uses the WAL as a queue. A theorem that its `wal` steps are those of
   `DurableQueue` would join the two modules by proof.
