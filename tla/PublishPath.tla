----------------------------- MODULE PublishPath -----------------------------
(***************************************************************************)
(* The publish path of internal/service: Publish and PublishBatch,         *)
(* publishInternal, publishToRedis, publishBatchToRedis, the publish       *)
(* pipeline and its goroutine, the direct fallback, the WAL fallback and   *)
(* the WAL replay by the timer loop or on a successful publish.            *)
(*                                                                         *)
(* The WAL is the queue that module WAL implements.  A step ends where a   *)
(* goroutine may be overtaken: at a channel operation, a Redis call, a     *)
(* lock.  A select with several ready cases takes any of them.             *)
(***************************************************************************)
EXTENDS Slices, FiniteSets

CONSTANTS
    Call,         \* publish RPCs
    Reqs,         \* Reqs[c]: the messages of call c, in order
    Batch,        \* the calls that are PublishBatch RPCs
    Enabled,      \* the values of PublishPipelineEnabled to look at
    QueueSize,    \* capacity of the pipeline's channel
    MaxBatch,     \* PublishPipelineMaxBatch
    Ticker,       \* flushInterval > 0
    Adaptive,     \* PublishPipelineAdaptiveEnabled
    MinBatch,     \* PublishPipelineMinBatch
    SyncReplay,   \* WALReplayMode = sync_on_success
    ReplayBatch,  \* WALReplayBatch, > 0
    ReadyMaxWALDepth, ReadyMaxPublishQueueDepth,  \* limits of readyz, 0: none
    MaxCopies     \* bound on the XADDs of one message that fail but execute

Msg == UNION {{Reqs[c][i] : i \in DOMAIN Reqs[c]} : c \in Call}

\* The settings of the publish path that config.Load lets through.
Loaded ==
    /\ {Ticker, Adaptive, SyncReplay} \subseteq BOOLEAN
    /\ {QueueSize, MaxBatch, MinBatch} \subseteq Nat \ {0}
    /\ {ReplayBatch, ReadyMaxWALDepth, ReadyMaxPublishQueueDepth} \subseteq Nat

\* A message is one request of one RPC, also where two have the same content.
ASSUME PublishAssumption ==
    /\ \A c \in Call : /\ Reqs[c] \in Seq(Msg) /\ Reqs[c] # <<>>
                       /\ c \notin Batch => Len(Reqs[c]) = 1
    /\ \A c, d \in Call : \A i \in DOMAIN Reqs[c], k \in DOMAIN Reqs[d] :
        Reqs[c][i] = Reqs[d][k] => c = d /\ i = k
    /\ Batch \subseteq Call /\ "free" \notin Call /\ "loop" \notin Call
    /\ Enabled \subseteq BOOLEAN /\ Enabled # {}
    /\ Loaded /\ ReplayBatch > 0
    /\ MaxCopies \in Nat

VARIABLES
    queue, buffer, flight,   \* pipeline: channel, run's buffer, batch in Exec
    ppc,                     \* where run stands; "done" is a closed doneCh, "off" no pipeline
    stop,                    \* stopCh is closed
    result,                  \* result[j]: what job j's resultCh holds
    dead,                    \* jobs whose context is done
    call,                    \* call[c]: where the RPC's goroutine stands
    gone,                    \* calls whose client gave up
    reply,                   \* reply[m]: what the RPC will say of m
    wal,                     \* messages in the WAL, oldest first
    replayMu, replays,       \* holder of replayMu, entries of this pass
    stream,                  \* stream[m]: copies of m in Redis
    unsure,                  \* history: copies whose success nobody learned
    early                    \* history: jobs queued before stopCh was closed

pipeVars == <<queue, buffer, flight, ppc, stop, result>>
walVars  == <<wal, replayMu, replays>>
vars == <<pipeVars, dead, call, gone, reply, walVars, stream, unsure, early>>

\* Attempt 1 is the batch as a whole, attempt 2 a publishInternal.
Job == Msg \X {1, 2}
Jobs(c) == {<<Reqs[c][i], k>> : i \in DOMAIN Reqs[c], k \in {1, 2}}

Cur(c) == Reqs[c][call[c].idx]
CurJob(c) == <<Cur(c), IF call[c].mode = "many" THEN 1 ELSE 2>>
Last(c) == call[c].idx = Len(Reqs[c])

\* publishPipeline is not nil.
Pipeline == ppc # "off"

\* The call is in PublishMany or in the loop that replaces it.
ViaMany(c) == call[c].mode = "many" /\ Pipeline /\ Len(Reqs[c]) > 1

Init ==
    /\ queue = <<>> /\ buffer = <<>> /\ flight = <<>>
    /\ ppc \in {IF e THEN "select" ELSE "off" : e \in Enabled} /\ stop = FALSE
    /\ result = [j \in Job |-> "none"]
    /\ dead = {} /\ gone = {} /\ early = {}
    /\ call = [c \in Call |-> [pc |-> "start", idx |-> 1, out |-> "none",
                               mode |-> IF c \in Batch THEN "many" ELSE "each"]]
    /\ reply = [m \in Msg |-> "none"]
    /\ wal = <<>> /\ replayMu = "free" /\ replays = 0
    /\ stream = [m \in Msg |-> 0] /\ unsure = [m \in Msg |-> 0]

-----------------------------------------------------------------------------
(* What a goroutine does next.                                             *)

At(c, pc) == [call[c] EXCEPT !.pc = pc]
Return(c, out) == [call[c] EXCEPT !.pc = "return", !.out = out]

\* publishInternal returned without an error: the next message, or the reply.
NextMsg(c) ==
    IF Last(c) THEN Return(c, "answer") ELSE [At(c, "decide") EXCEPT !.idx = @ + 1]

\* publishToRedis succeeded, or one round of the loop over direct publishes.
Succeeded(c) ==
    IF call[c].mode = "each" \/ Last(c) THEN At(c, "sync")
    ELSE IF ViaMany(c) THEN [call[c] EXCEPT !.idx = @ + 1]
    ELSE [At(c, "decide") EXCEPT !.idx = @ + 1]

shouldSkipWALForPublishError(c, err) == c \in gone /\ err = "deadline"

\* The publish failed with ids entry ids in hand.
Failed(c, err, ids) ==
    IF (call[c].mode = "many" /\ ids > 0) \/ shouldSkipWALForPublishError(c, err)
    THEN Return(c, "error")
    ELSE IF call[c].mode = "many" THEN [At(c, "decide") EXCEPT !.mode = "each", !.idx = 1]
    ELSE At(c, "append")

\* errPublishPipelineQueueFull, errPublishPipelineStopped: publish directly.
Fallback(c) == [At(c, "direct") EXCEPT !.idx = IF ViaMany(c) THEN 1 ELSE @]

\* A deferred cancel() ends the context of a publishInternal or of the call.
Cancelled(c, next) ==
    CASE next.pc = "return" -> Jobs(c)
      [] call[c].mode = "each" /\ call[c].pc # "start" /\ next.pc = "decide" -> {CurJob(c)}
      [] OTHER -> {}

Go(c, next) ==
    /\ call' = [call EXCEPT ![c] = next]
    /\ dead' = dead \cup Cancelled(c, next)

Add(f, S) == [m \in Msg |-> IF m \in S THEN f[m] + 1 ELSE f[m]]

-----------------------------------------------------------------------------
(* The RPC's goroutine.                                                    *)

Start(c) ==
    /\ call[c].pc = "start"
    /\ Go(c, At(c, IF ViaMany(c) THEN "enqueue" ELSE "decide"))
    /\ UNCHANGED <<pipeVars, gone, reply, walVars, stream, unsure, early>>

\* normalizePublishRequest rejects the request, or a request of the batch.
Reject(c) ==
    /\ call[c].pc = "start"
    /\ Go(c, Return(c, "error"))
    /\ UNCHANGED <<pipeVars, gone, reply, walVars, stream, unsure, early>>

InPublishToRedis(c) == call[c].pc \in {"enqueue", "wait", "direct"} /\ ~ViaMany(c)

shouldUseAdaptiveDirectPublish(c) ==
    /\ Adaptive
    /\ 1 + Cardinality({d \in Call \ {c} : InPublishToRedis(d)}) < MinBatch
    /\ Len(queue) + 1 < MinBatch

publishToRedis(c) ==
    /\ call[c].pc = "decide"
    /\ Go(c, At(c, IF ~Pipeline \/ shouldUseAdaptiveDirectPublish(c) THEN "direct" ELSE "enqueue"))
    /\ UNCHANGED <<pipeVars, gone, reply, walVars, stream, unsure, early>>

Enqueue(c) ==
    /\ call[c].pc = "enqueue" /\ Len(queue) < QueueSize
    /\ queue' = Append(queue, CurJob(c))
    /\ early' = IF stop THEN early ELSE early \cup {CurJob(c)}
    /\ Go(c, IF ViaMany(c)
             THEN IF Last(c) THEN [At(c, "wait") EXCEPT !.idx = 1]
                             ELSE [call[c] EXCEPT !.idx = @ + 1]
             ELSE At(c, "wait"))
    /\ UNCHANGED <<buffer, flight, ppc, stop, result, gone, reply, walVars, stream, unsure>>

\* The select's default needs every other case not ready.
EnqueueFallsBack(c) ==
    /\ call[c].pc = "enqueue"
    /\ ppc = "done" \/ (Len(queue) = QueueSize /\ CurJob(c) \notin dead)
    /\ Go(c, Fallback(c))
    /\ UNCHANGED <<pipeVars, gone, reply, walVars, stream, unsure, early>>

\* ctx.Done() while queueing or waiting.  A copy whose result was there, or is
\* still to come, is one that nobody learns of.
ContextDone(c) ==
    /\ call[c].pc \in {"enqueue", "wait"} /\ CurJob(c) \in dead
    /\ Go(c, Failed(c, "deadline", 0))
    /\ unsure' = IF call[c].pc = "wait" /\ result[CurJob(c)] = "ok"
                 THEN Add(unsure, {Cur(c)}) ELSE unsure
    /\ UNCHANGED <<pipeVars, gone, reply, walVars, stream, early>>

\* Mutant: only the last result is looked at.
ReceiveLast(c) ==
    IF Last(c)
    THEN IF result[CurJob(c)] = "ok" THEN Succeeded(c) ELSE Failed(c, result[CurJob(c)], 0)
    ELSE [call[c] EXCEPT !.idx = @ + 1]

\* A result of PublishMany is looked at once all results are there.
ReceiveMany(c) ==
    IF Last(c)
    THEN LET bad == {i \in DOMAIN Reqs[c] : result[<<Reqs[c][i], 1>>] # "ok"}
             f   == CHOOSE i \in bad : \A k \in bad : i <= k
         IN  IF bad = {} THEN Succeeded(c)
                         ELSE Failed(c, result[<<Reqs[c][f], 1>>], f - 1)
    ELSE [call[c] EXCEPT !.idx = @ + 1]

Receive(c) ==
    /\ call[c].pc = "wait" /\ result[CurJob(c)] # "none"
    /\ Go(c, IF ViaMany(c) THEN ReceiveMany(c)
             ELSE IF result[CurJob(c)] = "ok" THEN Succeeded(c)
             ELSE Failed(c, result[CurJob(c)], call[c].idx - 1))
    /\ UNCHANGED <<pipeVars, gone, reply, walVars, stream, unsure, early>>

\* Mutant: no second look for the result.
WaitFallsBackAtOnce(c) ==
    /\ call[c].pc = "wait" /\ ppc = "done"
    /\ Go(c, Fallback(c))
    /\ UNCHANGED <<pipeVars, gone, reply, walVars, stream, unsure, early>>

\* Mutant: the wait does not watch doneCh.
WaitIgnoresDone(c) == FALSE /\ UNCHANGED vars

\* doneCh is closed and the second look finds no result.
WaitFallsBack(c) ==
    /\ call[c].pc = "wait" /\ ppc = "done" /\ result[CurJob(c)] = "none"
    /\ Go(c, Fallback(c))
    /\ UNCHANGED <<pipeVars, gone, reply, walVars, stream, unsure, early>>

DirectPublish(c) ==
    /\ call[c].pc = "direct"
    /\ stream' = Add(stream, {Cur(c)})
    /\ Go(c, Succeeded(c))
    /\ UNCHANGED <<pipeVars, gone, reply, walVars, unsure, early>>

\* After an error Redis may have executed the XADD all the same.
DirectFails(c) ==
    /\ call[c].pc = "direct"
    /\ \E err \in {"deadline", "other"}, done \in {{}, {Cur(c)}} :
        /\ stream' = Add(stream, done)
        /\ unsure' = Add(unsure, done)
        /\ Go(c, Failed(c, err, call[c].idx - 1))
    /\ UNCHANGED <<pipeVars, gone, reply, walVars, early>>

\* wal.Append waits for a Replay, which holds the log's mutex.
AppendWAL(c) ==
    /\ call[c].pc = "append" /\ replayMu = "free"
    /\ wal' = Append(wal, Cur(c))
    /\ reply' = [reply EXCEPT ![Cur(c)] = "queued"]
    /\ Go(c, NextMsg(c))
    /\ UNCHANGED <<pipeVars, gone, replayMu, replays, stream, unsure, early>>

\* Mutant: the error of Append is ignored.
AppendErrorIgnored(c) ==
    /\ call[c].pc = "append" /\ replayMu = "free"
    /\ reply' = [reply EXCEPT ![Cur(c)] = "queued"]
    /\ Go(c, NextMsg(c))
    /\ UNCHANGED <<pipeVars, gone, walVars, stream, unsure, early>>

AppendFails(c) ==
    /\ call[c].pc = "append" /\ replayMu = "free"
    /\ Go(c, Return(c, "error"))
    /\ UNCHANGED <<pipeVars, gone, reply, walVars, stream, unsure, early>>

\* The publish succeeded.  Under sync_on_success the call replays the WAL
\* first, unless a replay is running.
Published(c) ==
    IF call[c].mode = "many" THEN {Reqs[c][i] : i \in DOMAIN Reqs[c]} ELSE {Cur(c)}

AfterSync(c) == IF call[c].mode = "many" THEN Return(c, "answer") ELSE NextMsg(c)

Sync(c) ==
    /\ call[c].pc = "sync"
    /\ reply' = [m \in Msg |-> IF m \in Published(c) THEN "stored" ELSE reply[m]]
    /\ IF SyncReplay /\ replayMu = "free"
       THEN replayMu' = c /\ replays' = 0 /\ Go(c, At(c, "replay"))
       ELSE Go(c, AfterSync(c)) /\ UNCHANGED <<replayMu, replays>>
    /\ UNCHANGED <<pipeVars, gone, wal, stream, unsure, early>>

Caller(c) ==
    \/ Start(c) \/ publishToRedis(c) \/ Enqueue(c) \/ EnqueueFallsBack(c)
    \/ ContextDone(c) \/ Receive(c) \/ WaitFallsBack(c)
    \/ DirectPublish(c) \/ DirectFails(c) \/ AppendWAL(c) \/ AppendFails(c) \/ Sync(c)

-----------------------------------------------------------------------------
(* replayWAL, by the timer loop or by a call.                              *)

ReplayBegins ==
    /\ replayMu = "free" /\ wal # <<>>
    /\ replayMu' = "loop" /\ replays' = 0
    /\ UNCHANGED <<pipeVars, dead, call, gone, reply, wal, stream, unsure, early>>

\* Mutant: one entry more than the batch.
ReplayingLonger == replayMu # "free" /\ replays < Len(wal) /\ replays <= ReplayBatch

Replaying == replayMu # "free" /\ replays < Len(wal) /\ replays < ReplayBatch

Replayed == {wal[i] : i \in 1..replays}

\* Mutant: the entries behind the batch are not written back.
RestLost == <<>>

Rest == SubSeq(wal, replays + 1, Len(wal))

\* The log is left with the entries of kept; Redis may get those of again once
\* more.
ReplayReturns(kept, again) ==
    /\ \A m \in again : unsure[m] < MaxCopies
    /\ wal' = kept /\ replayMu' = "free"
    /\ unsure' = Add(unsure, again)
    /\ IF replayMu \in Call THEN Go(replayMu, AfterSync(replayMu)) ELSE UNCHANGED <<call, dead>>

ReplayPublishes ==
    /\ Replaying
    /\ stream' = Add(stream, {wal[replays + 1]})
    /\ replays' = replays + 1
    /\ UNCHANGED <<pipeVars, dead, call, gone, reply, wal, replayMu, unsure, early>>

\* XADD fails, executed or not, and the rest is kept, or with a failing rewrite
\* everything.
ReplayFails ==
    /\ Replaying
    /\ \E done \in {{}, {wal[replays + 1]}} :
        /\ stream' = Add(stream, done)
        /\ ReplayReturns(Rest, done) \/ ReplayReturns(wal, done \cup Replayed)
    /\ UNCHANGED <<pipeVars, gone, reply, replays, early>>

ReplayEnds ==
    /\ replayMu # "free" /\ ~Replaying
    /\ ReplayReturns(Rest, {})
    /\ UNCHANGED <<pipeVars, gone, reply, replays, stream, early>>

\* Reading or rewriting the log fails: the file stays as it is.
RewriteFails ==
    /\ replayMu # "free"
    /\ ReplayReturns(wal, Replayed)
    /\ UNCHANGED <<pipeVars, gone, reply, replays, stream, early>>

-----------------------------------------------------------------------------
(* The pipeline's goroutine run, and flushBatch.                           *)

callVars == <<call, gone, reply, walVars>>

\* flushBatch answers the jobs whose context is done and executes the others.
Flush(after) ==
    LET live == Without(buffer, dead)
        skip == Elems(buffer) \cap dead
    IN  /\ buffer' = <<>>
        /\ flight' = live
        /\ result' = [j \in Job |-> IF j \in skip THEN "deadline" ELSE result[j]]
        /\ ppc' = IF live = <<>> THEN after ELSE IF after = "done" THEN "stopexec" ELSE "exec"

RunTick ==
    /\ ppc = "select" /\ Ticker /\ buffer # <<>>
    /\ Flush("select")
    /\ UNCHANGED <<queue, stop, dead, callVars, stream, unsure, early>>

Receives ==
    /\ queue # <<>>
    /\ buffer' = Append(buffer, Head(queue))
    /\ queue' = Tail(queue)
    /\ UNCHANGED <<flight, stop, result, dead, callVars, stream, unsure, early>>

RunJob == ppc = "select" /\ Receives /\ ppc' = "drain"

\* Mutant: the queue is not drained on stop.
RunStopUndrained ==
    /\ ppc = "select" /\ stop
    /\ Flush("done")
    /\ UNCHANGED <<queue, stop, dead, callVars, stream, unsure, early>>

RunStop ==
    /\ ppc = "select" /\ stop
    /\ ppc' = "stopdrain"
    /\ UNCHANGED <<queue, buffer, flight, stop, result, dead, callVars, stream, unsure, early>>

Drain == ppc \in {"drain", "stopdrain"} /\ Receives /\ UNCHANGED ppc

\* Any number of jobs may reach the byte threshold.
DrainedFlush ==
    /\ ppc = "drain" /\ queue = <<>>
    /\ Flush("select")
    /\ UNCHANGED <<queue, stop, dead, callVars, stream, unsure, early>>

DrainedKeep ==
    /\ ppc = "drain" /\ queue = <<>>
    /\ Ticker /\ Len(buffer) < MaxBatch
    /\ ppc' = "select"
    /\ UNCHANGED <<queue, buffer, flight, stop, result, dead, callVars, stream, unsure, early>>

StopFlush ==
    /\ ppc = "stopdrain" /\ queue = <<>>
    /\ Flush("done")
    /\ UNCHANGED <<queue, stop, dead, callVars, stream, unsure, early>>

\* Exec returns.  All its jobs get the same error when one of them fails.
ExecReturns(res, done) ==
    /\ ppc \in {"exec", "stopexec"}
    /\ result' = [j \in Job |-> IF j \in Elems(flight) THEN res ELSE result[j]]
    /\ stream' = Add(stream, {j[1] : j \in done})
    /\ flight' = <<>>
    /\ ppc' = IF ppc = "exec" THEN "select" ELSE "done"
    /\ UNCHANGED <<queue, buffer, stop, dead, callVars, early>>

Awaited(j) == \E c \in Call : call[c].pc = "wait" /\ CurJob(c) = j

ExecSucceeds ==
    /\ ExecReturns("ok", Elems(flight))
    /\ unsure' = Add(unsure, {j[1] : j \in {i \in Elems(flight) : ~Awaited(i)}})

ExecFails ==
    \E err \in {"deadline", "other"}, done \in SUBSET Elems(flight) :
        /\ ExecReturns(err, done)
        /\ unsure' = Add(unsure, {j[1] : j \in done})

Run ==
    \/ RunTick \/ RunJob \/ RunStop \/ Drain \/ DrainedFlush \/ DrainedKeep \/ StopFlush
    \/ ExecSucceeds \/ ExecFails

-----------------------------------------------------------------------------
(* Timeouts, clients and shutdown.                                         *)

\* The three seconds of publishRedisContext are over: for a batch as a whole,
\* also once it is published one by one, or for a publishInternal.
Expire(c) ==
    /\ \/ /\ c \in Batch /\ call[c].pc \notin {"start", "return"}
          /\ dead' = dead \cup {j \in Jobs(c) : j[2] = 1}
       \/ /\ call[c].mode = "each" /\ call[c].pc \in {"enqueue", "wait"}
          /\ dead' = dead \cup {CurJob(c)}
    /\ UNCHANGED <<pipeVars, callVars, stream, unsure, early>>

GiveUp(c) ==
    /\ call[c].pc # "return"
    /\ gone' = gone \cup {c}
    /\ UNCHANGED <<pipeVars, dead, call, reply, walVars, stream, unsure, early>>

Close ==
    /\ Pipeline
    /\ stop' = TRUE
    /\ UNCHANGED <<queue, buffer, flight, ppc, result, dead, callVars, stream, unsure, early>>

Next ==
    \/ \E c \in Call : Reject(c) \/ Caller(c) \/ Expire(c) \/ GiveUp(c)
    \/ ReplayBegins \/ ReplayPublishes \/ ReplayFails \/ ReplayEnds \/ RewriteFails
    \/ Run
    \/ Close

Spec == Init /\ [][Next]_vars

\* Goroutines keep running and Redis calls return; no context need expire.
Fairness ==
    /\ \A c \in Call : WF_vars(Caller(c))
    /\ WF_vars(ReplayBegins) /\ WF_vars(ReplayPublishes \/ ReplayFails \/ ReplayEnds)
    /\ WF_vars(Run)

FairSpec == Spec /\ Fairness

\* At some time Redis and the disk stop failing replays.
RecoverySpec == FairSpec /\ <>[][~(ReplayFails \/ RewriteFails)]_vars

-----------------------------------------------------------------------------
\* Mutant: a limit of 0 is a limit.
BelowAlways(depth, limit) == depth < limit

Below(depth, limit) == limit > 0 => depth < limit

\* What readyz would say with Redis answering.  It waits for the log's mutex,
\* which a Replay holds.
readinessSnapshot ==
    /\ replayMu = "free"
    /\ Below(Len(wal), ReadyMaxWALDepth)
    /\ Below(Len(queue), ReadyMaxPublishQueueDepth)

-----------------------------------------------------------------------------
TypeOK ==
    /\ {queue, buffer, flight} \subseteq Seq(Job)
    /\ Len(queue) <= QueueSize
    /\ ppc \in {"off", "select", "drain", "stopdrain", "exec", "stopexec", "done"}
    /\ stop \in BOOLEAN
    /\ result \in [Job -> {"none", "ok", "deadline", "other"}]
    /\ dead \subseteq Job /\ early \subseteq Job /\ gone \subseteq Call
    /\ call \in [Call -> [pc : {"start", "decide", "enqueue", "wait", "direct", "append", "sync",
                               "replay", "return"},
                         idx : Nat, out : {"none", "answer", "error"}, mode : {"many", "each"}]]
    /\ \A c \in Call : call[c].idx \in DOMAIN Reqs[c]
    /\ reply \in [Msg -> {"none", "stored", "queued"}]
    /\ wal \in Seq(Msg)
    /\ replayMu \in {"free", "loop"} \cup Call /\ replays \in 0..ReplayBatch
    /\ stream \in [Msg -> Nat] /\ unsure \in [Msg -> Nat]

\* A message an RPC answers for is in Redis if the answer has its entry id,
\* and in Redis or in the WAL if the answer says queued: neither a full or a
\* stopped pipeline, nor a timeout that crosses a flush, nor a batch that
\* fails half-way makes the sidecar answer for a message it does not have.
Honest ==
    \A c \in Call : call[c].out = "answer" =>
        \A i \in DOMAIN Reqs[c] : LET m == Reqs[c][i] IN
            /\ reply[m] # "none"
            /\ stream[m] > 0 \/ (reply[m] = "queued" /\ m \in Elems(wal))

\* A single publish leaves a second copy in Redis only where an XADD was
\* executed and the sidecar was told it failed or stopped waiting for it: the
\* fallback from a full or stopped pipeline never repeats a job that ran.
NoNeedlessCopy ==
    \A c \in Call \ Batch : stream[Cur(c)] <= 1 + unsure[Cur(c)]

\* Close loses no accepted job: when run has ended, every job queued before
\* the stop has its result.
CloseDrains == ppc = "done" => \A j \in early : result[j] # "none"

\* Every RPC that starts returns, also one that queues a job while the pipeline
\* stops and one that waits for a replay to release the log.  A call that has
\* returned stays so, which makes this the same as leading from start to return.
Answered == <>[](\A c \in Call : call[c].pc \in {"start", "return"})

\* A message answered as queued reaches Redis once replays succeed.
QueuedReachesRedis == <>[](\A m \in Msg : reply[m] = "queued" => stream[m] > 0)

\* Until the sidecar is closed, readyz says ready again and again once replays
\* succeed: no backlog, and no replay that holds the log, keeps the service out
\* for good, and a limit of 0 never does.
ReadyAgain == []<>(stop \/ readinessSnapshot)
=============================================================================
