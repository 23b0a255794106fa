------------------------------- MODULE AckLoop -------------------------------
(***************************************************************************)
(* Acknowledgements: the Ack RPC of internal/service/grpc.go, the ack      *)
(* queue and ack loop of one dispatcher, the direct XACK of consume.go for *)
(* calls that find no dispatcher, and the shutdown of the sidecar.         *)
(*                                                                         *)
(* An entry id is a number; the order of the numbers is the order of the   *)
(* strings.  A step ends where a goroutine may be overtaken: at a channel  *)
(* operation, a Redis call, a lock.                                        *)
(***************************************************************************)
EXTENDS Slices, FiniteSets

CONSTANTS
    Call,             \* Ack RPCs
    Reqs,             \* Reqs[c]: the entry ids of call c, in order
    Id,               \* entry ids clients may name
    Parts,            \* Parts[i]: what parseStreamIDParts makes of i, <<>> if it fails
    SeqModulus,       \* 2^64: sequence numbers are uint64
    Refused,          \* ids XACK rejects, and the whole command with them
    Blank,            \* ids that are empty once trimmed
    QueueSize,        \* DispatcherAckQueueSize
    BatchSize,        \* DispatcherAckBatchSize
    FlushConcurrency  \* DispatcherAckFlushConcurrency

\* The limits of the ack loop that config.Load lets through.
Loaded == {QueueSize, BatchSize, FlushConcurrency} \subseteq Nat \ {0}

ASSUME AckAssumption ==
    /\ Id \subseteq Nat /\ IsFiniteSet(Id) /\ Blank \subseteq Refused /\ Refused \subseteq Id
    /\ Reqs \in [Call -> Seq(Id)] /\ \A c \in Call : Reqs[c] # <<>>
    /\ Parts \in [Id -> (Nat \X (0..SeqModulus - 1)) \cup {<<>>}]
    /\ Loaded /\ SeqModulus \in Nat \ {0}

VARIABLES
    call,        \* call[c]: where the RPC stands, or how it was answered
    queue,       \* ackQueue
    lpc,         \* where runAckLoop stands
    pending,     \* the keys of the map pending
    inputs,      \* pendingInputEntries
    chunks,      \* the chunks a flush has still to send
    sent,        \* len(entryIDs) of the flush
    linked,      \* "map" while the dispatcher is in the manager's map, else who took it out
    cancelled,   \* d.ctx is done
    closing,     \* where Sidecar.Close stands
    pel,         \* ids pending in Redis for the group
    counted,     \* the counter AckedEntries
    duplicates,  \* the counter of duplicate entries
    early,       \* history: calls queued before the cancel
    failed,      \* history: "some" flush failed, or the "last" one
    repeats      \* history: ids that came while they were pending

loopVars == <<lpc, pending, inputs, chunks, sent>>
lifeVars == <<linked, cancelled, closing>>
statVars == <<counted, duplicates>>
histVars == <<early, failed, repeats>>
vars == <<call, queue, loopVars, lifeVars, pel, statVars, histVars>>

Init ==
    /\ call = [c \in Call |-> "start"]
    /\ queue = <<>> /\ lpc = "select" /\ pending = {} /\ inputs = 0 /\ chunks = <<>> /\ sent = 0
    /\ linked = "map" /\ cancelled = FALSE /\ closing = "no"
    /\ pel = Id \ Refused
    /\ counted = 0 /\ duplicates = 0
    /\ early = {} /\ failed = "none" /\ repeats = 0

RedisOpen == closing \in {"no", "manager"}

-----------------------------------------------------------------------------
(* The Ack RPC.                                                            *)

Answer(c, how) == call' = [call EXCEPT ![c] = how]

\* QueueAck looks the dispatcher up under m.mu.  Only "not found" leads to the
\* direct path.
QueueAck(c) ==
    /\ call[c] = "start"
    /\ Answer(c, IF linked = "map" THEN "found" ELSE "direct")
    /\ UNCHANGED <<queue, loopVars, lifeVars, pel, statVars, histVars>>

\* The HTTP handler, and the RPC in stateless mode, know no dispatcher.
ackEntries(c) ==
    /\ call[c] = "start"
    /\ Answer(c, "direct")
    /\ UNCHANGED <<queue, loopVars, lifeVars, pel, statVars, histVars>>

\* A request that lacks a field, or names a stream that is not allowed.
Reject(c) ==
    /\ call[c] = "start"
    /\ Answer(c, "error")
    /\ UNCHANGED <<queue, loopVars, lifeVars, pel, statVars, histVars>>

\* Mutant: blank ids are queued.
CleanedNot(c) == Reqs[c]

Cleaned(c) == Without(Reqs[c], Blank)

\* The send is a ready case of the select, also when ctx is done.
queueAck(c) ==
    /\ call[c] = "found" /\ Cleaned(c) # <<>> /\ Len(queue) < QueueSize
    /\ queue' = Append(queue, Cleaned(c))
    /\ early' = IF cancelled THEN early ELSE early \cup {c}
    /\ Answer(c, "queued")
    /\ UNCHANGED <<loopVars, lifeVars, pel, statVars, failed, repeats>>

\* Nothing left of the ids, errDispatcherClosed or errDispatcherAckBacklog.
queueAckFails(c) ==
    /\ call[c] = "found"
    /\ Cleaned(c) = <<>> \/ cancelled \/ Len(queue) = QueueSize
    /\ Answer(c, "error")
    /\ UNCHANGED <<queue, loopVars, lifeVars, pel, statVars, histVars>>

\* XACK by ackEntriesInternal, with the ids as they came.
ackEntriesInternal(c) ==
    /\ call[c] = "direct" /\ RedisOpen
    /\ Elems(Reqs[c]) \cap Refused = {}
    /\ counted' = counted + Cardinality(pel \cap Elems(Reqs[c]))
    /\ pel' = pel \ Elems(Reqs[c])
    /\ Answer(c, "acked")
    /\ UNCHANGED <<queue, loopVars, lifeVars, duplicates, histVars>>

\* XACK fails, executed or not.
ackEntriesFails(c) ==
    /\ call[c] = "direct"
    /\ \/ pel' = pel
       \/ RedisOpen /\ Elems(Reqs[c]) \cap Refused = {} /\ pel' = pel \ Elems(Reqs[c])
    /\ Answer(c, "error")
    /\ UNCHANGED <<queue, loopVars, lifeVars, statVars, histVars>>

Ack(c) == QueueAck(c) \/ queueAck(c) \/ queueAckFails(c) \/ ackEntriesInternal(c) \/ ackEntriesFails(c)

-----------------------------------------------------------------------------
(* What a flush computes.                                                  *)

Rank(S, i) == Cardinality({k \in S : k <= i})

\* Mutant: the last chunk is sent only if it is full.
ChunksFull(S) ==
    [n \in 1..(Cardinality(S) \div BatchSize) |->
        {i \in S : (Rank(S, i) - 1) \div BatchSize = n - 1}]

\* chunkStringSlice of the sorted ids.
chunkStringSlice(S) ==
    [n \in 1..((Cardinality(S) + BatchSize - 1) \div BatchSize) |->
        {i \in S : (Rank(S, i) - 1) \div BatchSize = n - 1}]

Parsed(S) == {i \in S : Parts[i] # <<>>}

\* The order of sort.Slice, made total.
Before(i, k) ==
    LET p == Parts[i]
        q == Parts[k]
    IN  p[1] < q[1] \/ (p[1] = q[1] /\ (p[2] < q[2] \/ (p[2] = q[2] /\ i < k)))

Sorted(S) ==
    [n \in 1..Cardinality(Parsed(S)) |->
        Parts[CHOOSE i \in Parsed(S) : Cardinality({k \in Parsed(S) : Before(k, i)}) = n - 1]]

\* Mutant: the milliseconds are not compared.
ContiguousSeq(p, q) == q[2] = (p[2] + 1) % SeqModulus

Contiguous(p, q) == q[1] = p[1] /\ q[2] = (p[2] + 1) % SeqModulus

\* The loop over the sorted parts; len is currentSpanLength.
countContiguousAckSpans(S) ==
    LET p == Sorted(S)
        n == Len(p)
        scan[k \in 1..n] ==
            IF k = 1 THEN [spans |-> 1, len |-> 1, saved |-> 0]
            ELSE IF Contiguous(p[k - 1], p[k])
            THEN [scan[k - 1] EXCEPT !.len = @ + 1]
            ELSE [spans |-> scan[k - 1].spans + 1, len |-> 1,
                  saved |-> scan[k - 1].saved + scan[k - 1].len - 1]
    IN  IF n = 0 THEN <<0, 0>>
        ELSE <<scan[n].spans, scan[n].saved + scan[n].len - 1>>

-----------------------------------------------------------------------------
(* runAckLoop.                                                             *)

Receives ==
    /\ queue # <<>>
    /\ LET ids == Elems(Head(queue))
       IN  /\ pending' = pending \cup ids
           /\ repeats' = repeats + Len(Head(queue)) - Cardinality(ids \ pending)
    /\ inputs' = inputs + Len(Head(queue))
    /\ queue' = Tail(queue)
    /\ UNCHANGED <<call, chunks, sent, lifeVars, pel, statVars, early, failed>>

LoopReceives == lpc = "select" /\ Receives /\ lpc' = "drain"

LoopTicks ==
    /\ lpc = "select"
    /\ lpc' = "tickdrain"
    /\ UNCHANGED <<call, queue, pending, inputs, chunks, sent, lifeVars, pel, statVars, histVars>>

\* Mutant: the queue is not drained on cancel.
LoopStopsUndrained ==
    /\ lpc = "select" /\ cancelled
    /\ lpc' = IF pending = {} THEN "exit" ELSE "lastflush"
    /\ chunks' = chunkStringSlice(pending) /\ sent' = Cardinality(pending)
    /\ UNCHANGED <<call, queue, pending, inputs, lifeVars, pel, statVars, histVars>>

LoopStops ==
    /\ lpc = "select" /\ cancelled
    /\ lpc' = "stopdrain"
    /\ UNCHANGED <<call, queue, pending, inputs, chunks, sent, lifeVars, pel, statVars, histVars>>

Drain == lpc \in {"drain", "tickdrain", "stopdrain"} /\ Receives /\ UNCHANGED lpc

\* Mutant: a tick flushes full batches only.
FlushDueFull == lpc = "stopdrain" \/ Cardinality(pending) >= BatchSize

FlushDue == lpc # "drain" \/ Cardinality(pending) >= BatchSize

\* The queue is empty: flush, unless there is nothing to send or, after a
\* receive, less than a batch.
Drained ==
    /\ lpc \in {"drain", "tickdrain", "stopdrain"} /\ queue = <<>>
    /\ IF FlushDue /\ pending # {}
       THEN /\ lpc' = IF lpc = "stopdrain" THEN "lastflush" ELSE "flush"
            /\ chunks' = chunkStringSlice(pending) /\ sent' = Cardinality(pending)
       ELSE /\ lpc' = IF lpc = "stopdrain" THEN "exit" ELSE "select"
            /\ UNCHANGED <<chunks, sent>>
    /\ UNCHANGED <<call, queue, pending, inputs, lifeVars, pel, statVars, histVars>>

InFlush == lpc \in {"flush", "lastflush"}
FlushReturns == lpc' = IF lpc = "lastflush" THEN "exit" ELSE "select"

\* The chunks of one pipeline, and those that Redis does not reject.
Now == {chunks[n] : n \in {k \in DOMAIN chunks : k <= FlushConcurrency}}
Good == {ch \in Now : ch \cap Refused = {}}

\* Mutant: every id that was sent is counted.
AckedOf(ids) == Cardinality(ids)

\* What XACK returns: the entries it took off the pending list.
Acked(ids) == Cardinality(pel \cap ids)

\* Exec succeeds for every chunk of the pipeline.
flushAckChunkBatch ==
    /\ InFlush /\ chunks # <<>> /\ RedisOpen /\ Now = Good
    /\ pel' = pel \ UNION Now
    /\ counted' = counted + Acked(UNION Now)
    /\ pending' = pending \ UNION Now
    /\ chunks' = SubSeq(chunks, FlushConcurrency + 1, Len(chunks))
    /\ UNCHANGED <<call, queue, lpc, inputs, sent, lifeVars, duplicates, histVars>>

\* Mutant: the ids of a failed pipeline are dropped.
ExecForgets(done) ==
    /\ InFlush /\ chunks # <<>>
    /\ pel' = pel \ UNION done
    /\ failed' = IF lpc = "lastflush" THEN "last" ELSE "some"
    /\ pending' = pending \ UNION Now
    /\ chunks' = <<>> /\ sent' = 0 /\ FlushReturns
    /\ UNCHANGED <<call, queue, inputs, lifeVars, statVars, early, repeats>>

\* Exec returns an error, the flush returns, and pending keeps everything that
\* was in the pipeline, whatever done Redis executed.
ExecReturnsError(done) ==
    /\ InFlush /\ chunks # <<>>
    /\ pel' = pel \ UNION done
    /\ failed' = IF lpc = "lastflush" THEN "last" ELSE "some"
    /\ chunks' = <<>> /\ sent' = 0 /\ FlushReturns
    /\ UNCHANGED <<call, queue, pending, inputs, lifeVars, statVars, early, repeats>>

\* Redis answers, and rejects a chunk for an id in it.
ExecRejected == RedisOpen /\ Now # Good /\ ExecReturnsError(Good)

ExecFails == \E done \in (IF RedisOpen THEN SUBSET Good ELSE {{}}) : ExecReturnsError(done)

\* What the counter of duplicates gets.
ObserveDispatcherAckCompression(in, deduped) == IF in > deduped THEN in - deduped ELSE 0

\* Mutant: pendingInputEntries is not set back.
FlushEndsUnset ==
    /\ InFlush /\ chunks = <<>>
    /\ duplicates' = duplicates + ObserveDispatcherAckCompression(inputs, sent)
    /\ sent' = 0 /\ FlushReturns
    /\ UNCHANGED <<call, queue, pending, inputs, chunks, lifeVars, pel, counted, histVars>>

\* The last pipeline is through: observeDispatcherAckCompression compares what
\* came in with the distinct ids that were sent.
FlushEnds ==
    /\ InFlush /\ chunks = <<>>
    /\ duplicates' = duplicates + ObserveDispatcherAckCompression(inputs, sent)
    /\ inputs' = Cardinality(pending)
    /\ sent' = 0 /\ FlushReturns
    /\ UNCHANGED <<call, queue, pending, chunks, lifeVars, pel, counted, histVars>>

AckLoopStep ==
    \/ LoopReceives \/ LoopTicks \/ LoopStops \/ Drain \/ Drained
    \/ flushAckChunkBatch \/ ExecRejected \/ ExecFails \/ FlushEnds

-----------------------------------------------------------------------------
(* The end of the dispatcher, and of the sidecar.                          *)

\* removeIfSame: the last subscriber has left.
removeIfSame ==
    /\ linked = "map"
    /\ linked' = "client"
    /\ UNCHANGED <<call, queue, loopVars, cancelled, closing, pel, statVars, histVars>>

\* stop, by whoever took the dispatcher out of the map.
StopCancels ==
    /\ linked # "map" /\ ~cancelled
    /\ cancelled' = TRUE
    /\ UNCHANGED <<call, queue, loopVars, linked, closing, pel, statVars, histVars>>

\* Sidecar.Close: the manager's map is emptied, its dispatchers are stopped
\* one by one, and the Redis client is closed.  Nobody waits for the ack loop.
CloseManager ==
    /\ closing = "no"
    /\ closing' = "manager"
    /\ linked' = IF linked = "map" THEN "close" ELSE linked
    /\ UNCHANGED <<call, queue, loopVars, cancelled, pel, statVars, histVars>>

CloseRedis ==
    /\ closing = "manager" /\ (linked = "close" => cancelled)
    /\ closing' = "redis"
    /\ UNCHANGED <<call, queue, loopVars, linked, cancelled, pel, statVars, histVars>>

\* main returns.  After a failure of a server it exits at once, and the deferred
\* Close does not run.
Exit ==
    /\ closing \in {"no", "redis"}
    /\ closing' = "exit"
    /\ UNCHANGED <<call, queue, loopVars, linked, cancelled, pel, statVars, histVars>>

Next ==
    /\ closing # "exit"
    /\ \/ \E c \in Call : Reject(c) \/ ackEntries(c) \/ Ack(c)
       \/ AckLoopStep
       \/ removeIfSame \/ StopCancels \/ CloseManager \/ CloseRedis \/ Exit

Spec == Init /\ [][Next]_vars

\* The goroutines run, and a select that comes back to the same ready case takes
\* it in the end, which Go's random choice gives: so the ticker and the cancel
\* get their turn.
Fairness ==
    /\ \A c \in Call : WF_vars(closing # "exit" /\ Ack(c))
    /\ WF_vars(closing # "exit" /\ AckLoopStep)
    /\ SF_vars(closing # "exit" /\ LoopTicks) /\ SF_vars(closing # "exit" /\ LoopStops)

\* At some time Redis stops failing; it may still reject ids.
RecoverySpec == Spec /\ Fairness /\ <>[][~ExecFails]_vars

-----------------------------------------------------------------------------
TypeOK ==
    /\ call \in [Call -> {"start", "found", "direct", "queued", "acked", "error"}]
    /\ queue \in Seq(Seq(Id \ Blank)) /\ Len(queue) <= QueueSize
    /\ lpc \in {"select", "drain", "tickdrain", "stopdrain", "flush", "lastflush", "exit"}
    /\ pending \subseteq Id \ Blank /\ inputs \in Nat /\ sent \in Nat
    /\ chunks \in Seq(SUBSET Id)
    /\ linked \in {"map", "client", "close"} /\ cancelled \in BOOLEAN
    /\ closing \in {"no", "manager", "redis", "exit"}
    /\ pel \subseteq Id /\ counted \in Nat /\ duplicates \in Nat
    /\ early \subseteq Call /\ failed \in {"none", "some", "last"} /\ repeats \in Nat

Queued == UNION {Elems(queue[n]) : n \in DOMAIN queue}

\* An entry id that was accepted while the dispatcher ran is off the group's
\* pending list, or the loop still has it: a flush that fails half-way, or is
\* rejected for another id, forgets none.
AcceptedKept ==
    \A c \in early : \A i \in Elems(Cleaned(c)) :
        i \in pel => i \in pending \cup Queued

\* The loop ends with nothing left to send of what was accepted before the
\* cancel, in whatever order it sees the cancel, the queue and the ticker.
\* A last flush that fails is the only excuse.
StopFlushes ==
    lpc = "exit" /\ failed # "last" => \A c \in early : Elems(Cleaned(c)) \cap pel = {}

\* The chunks of a flush hold the pending ids, each once: a flush that comes to
\* its end has sent everything, and pendingInputEntries starts again at 0.
FlushCovers ==
    /\ InFlush => UNION Elems(chunks) = pending
    /\ \A n, k \in DOMAIN chunks : n # k => chunks[n] \cap chunks[k] = {}

\* The metric of acknowledged entries never exceeds the entries that left the
\* pending list, whoever sends an id a second time and whatever failed.
CountSound == counted + Cardinality(pel) <= Cardinality(Id \ Refused)

\* As long as no flush failed, the duplicates counted are those that the map
\* removed.
DuplicatesExact ==
    failed = "none" => duplicates + inputs = repeats + (IF InFlush THEN sent ELSE Cardinality(pending))

\* The spans and saved entries of a flush are those of the set: an id begins a
\* span unless its predecessor is there, and is saved if it is.  Ids that
\* parse alike count as one place.
SpansExact ==
    LET P == {Parts[i] : i \in Parsed(pending)}
        saved == {p \in P : <<p[1], p[2] - 1>> \in P}
    IN  Cardinality(P) = Cardinality(Parsed(pending)) =>
            countContiguousAckSpans(pending) = <<Cardinality(P \ saved), Cardinality(saved)>>

\* An accepted id is acknowledged once Redis is back, while the dispatcher and
\* the sidecar run and no id that Redis rejects is pending: a queue that never fills a batch is
\* flushed by the ticker, and a failed flush is repeated.
Acknowledged ==
    \A i \in Id : (\E c \in early : i \in Elems(Cleaned(c))) ~>
        i \notin pel \/ linked # "map" \/ closing = "exit" \/ pending \cap Refused # {}
=============================================================================
