------------------------- MODULE PublishPath_proofs -------------------------
(***************************************************************************)
(* Proofs about the publish path, for any number of calls and messages,    *)
(* every size of queue and batch, and any number of failures.              *)
(***************************************************************************)
EXTENDS PublishPath, DataLemmas

-----------------------------------------------------------------------------
(* Where a call goes next.                                                 *)

PC == {"start", "decide", "enqueue", "wait", "direct", "append", "sync", "replay", "return"}
Out == {"none", "answer", "error"}
Mode == {"many", "each"}
CallState == [pc : PC, idx : Nat, out : Out, mode : Mode]

\* The state of a call, field by field.
Is(k, pc, idx, out, mode) ==
    k \in CallState /\ k.pc = pc /\ k.idx = idx /\ k.out = out /\ k.mode = mode

\* A call is at one of its messages.
LEMMA CallFacts ==
    ASSUME TypeOK, NEW c \in Call
    PROVE  /\ call[c] \in CallState /\ call[c].idx \in 1..Len(Reqs[c]) /\ call[c].idx \in Nat
           /\ DOMAIN Reqs[c] = 1..Len(Reqs[c]) /\ Len(Reqs[c]) \in Nat \ {0}
           /\ 1 \in DOMAIN Reqs[c]
           /\ Cur(c) \in Msg /\ CurJob(c) \in Job /\ CurJob(c)[1] = Cur(c)
           /\ \A i \in DOMAIN Reqs[c] : Reqs[c][i] \in Msg /\ i \in Nat
           /\ ~Last(c) => call[c].idx + 1 \in DOMAIN Reqs[c]
<1>1. Reqs[c] \in Seq(Msg) /\ Reqs[c] # <<>>
  BY PublishAssumption
<1>2. Len(Reqs[c]) \in Nat /\ DOMAIN Reqs[c] = 1..Len(Reqs[c])
      /\ \A i \in DOMAIN Reqs[c] : i \in Nat \ {0} /\ Reqs[c][i] \in Msg
  BY <1>1, SliceFacts
<1>3. Len(Reqs[c]) # 0
  BY <1>1
<1>4. call[c] \in CallState /\ call[c].idx \in DOMAIN Reqs[c]
  BY DEF TypeOK, CallState, PC, Out, Mode
<1>5. Cur(c) \in Msg /\ CurJob(c) \in Job /\ CurJob(c)[1] = Cur(c)
  BY <1>2, <1>4 DEF Cur, CurJob, Job
<1>6. 1 \in DOMAIN Reqs[c] /\ (~Last(c) => call[c].idx + 1 \in DOMAIN Reqs[c])
  <2>1. call[c].idx \in 1..Len(Reqs[c]) /\ Len(Reqs[c]) \in Nat
    BY <1>2, <1>4
  <2>2. 1 \in 1..Len(Reqs[c]) /\ (call[c].idx # Len(Reqs[c]) => call[c].idx + 1 \in 1..Len(Reqs[c]))
    BY <1>2, <1>3, <2>1
  <2> QED BY <1>2, <2>2 DEF Last
<1> QED BY <1>2, <1>3, <1>4, <1>5, <1>6

\* A change of pc, and a return.
LEMMA AtIs ==
    ASSUME TypeOK, NEW c \in Call
    PROVE  /\ \A pc \in PC : Is(At(c, pc), pc, call[c].idx, call[c].out, call[c].mode)
           /\ \A out \in Out : Is(Return(c, out), "return", call[c].idx, out, call[c].mode)
BY CallFacts DEF At, Return, Is, CallState, PC

\* The message after this one, in the same place or at the next decision.
LEMMA StepsOn ==
    ASSUME TypeOK, NEW c \in Call
    PROVE  /\ Is([call[c] EXCEPT !.idx = @ + 1],
                 call[c].pc, call[c].idx + 1, call[c].out, call[c].mode)
           /\ Is([At(c, "decide") EXCEPT !.idx = @ + 1],
                 "decide", call[c].idx + 1, call[c].out, call[c].mode)
BY CallFacts, AtIs DEF Is, CallState, PC

\* publishInternal returned.
LEMMA NextMsgIs ==
    ASSUME TypeOK, NEW c \in Call
    PROVE  /\ Last(c) => Is(NextMsg(c), "return", call[c].idx, "answer", call[c].mode)
           /\ ~Last(c) => Is(NextMsg(c), "decide", call[c].idx + 1, call[c].out, call[c].mode)
BY AtIs, StepsOn DEF NextMsg, Out

\* The publish of a message succeeded.
LEMMA SucceededIs ==
    ASSUME TypeOK, NEW c \in Call
    PROVE  \/ /\ call[c].mode = "each" \/ Last(c)
              /\ Is(Succeeded(c), "sync", call[c].idx, call[c].out, call[c].mode)
           \/ /\ call[c].mode = "many" /\ ~Last(c) /\ ViaMany(c)
              /\ Is(Succeeded(c), call[c].pc, call[c].idx + 1, call[c].out, call[c].mode)
           \/ /\ call[c].mode = "many" /\ ~Last(c) /\ ~ViaMany(c)
              /\ Is(Succeeded(c), "decide", call[c].idx + 1, call[c].out, call[c].mode)
<1>1. call[c].mode \in {"each", "many"}
  BY CallFacts DEF CallState, Mode
<1>2. CASE call[c].mode = "each" \/ Last(c)
  BY <1>2, AtIs DEF Succeeded, PC
<1>3. CASE ~(call[c].mode = "each" \/ Last(c)) /\ ViaMany(c)
  BY <1>1, <1>3, StepsOn DEF Succeeded
<1>4. CASE ~(call[c].mode = "each" \/ Last(c)) /\ ~ViaMany(c)
  BY <1>1, <1>4, StepsOn DEF Succeeded
<1> QED BY <1>2, <1>3, <1>4

\* The publish of a message or of a batch failed.
LEMMA FailedIs ==
    ASSUME TypeOK, NEW c \in Call, NEW err, NEW ids \in Nat
    PROVE  \/ Is(Failed(c, err, ids), "return", call[c].idx, "error", call[c].mode)
           \/ call[c].mode = "many" /\ Is(Failed(c, err, ids), "decide", 1, call[c].out, "each")
           \/ call[c].mode = "each"
              /\ Is(Failed(c, err, ids), "append", call[c].idx, call[c].out, "each")
<1>1. call[c].mode \in {"each", "many"}
  BY CallFacts DEF CallState, Mode
<1>2. Is([At(c, "decide") EXCEPT !.mode = "each", !.idx = 1], "decide", 1, call[c].out, "each")
  <2>1. At(c, "decide") \in CallState /\ At(c, "decide").pc = "decide"
        /\ At(c, "decide").out = call[c].out
    BY AtIs DEF Is, PC
  <2> QED BY <2>1 DEF Is, CallState, Mode
<1>3. Is(At(c, "append"), "append", call[c].idx, call[c].out, call[c].mode)
      /\ Is(Return(c, "error"), "return", call[c].idx, "error", call[c].mode)
  BY AtIs DEF PC, Out
<1> QED BY <1>1, <1>2, <1>3 DEF Failed

\* The fallback to a direct publish.
LEMMA FallbackIs ==
    ASSUME TypeOK, NEW c \in Call
    PROVE  Is(Fallback(c), "direct", IF ViaMany(c) THEN 1 ELSE call[c].idx,
              call[c].out, call[c].mode)
BY CallFacts, AtIs DEF Fallback, Is, CallState, PC

\* A result of PublishMany.
LEMMA ReceiveManyIs ==
    ASSUME TypeOK, NEW c \in Call
    PROVE  \/ ~Last(c) /\ ReceiveMany(c) = [call[c] EXCEPT !.idx = @ + 1]
           \/ /\ Last(c) /\ ReceiveMany(c) = Succeeded(c)
              /\ \A i \in DOMAIN Reqs[c] : result[<<Reqs[c][i], 1>>] = "ok"
           \/ Last(c) /\ \E err : \E ids \in Nat : ReceiveMany(c) = Failed(c, err, ids)
<1> DEFINE bad == {i \in DOMAIN Reqs[c] : result[<<Reqs[c][i], 1>>] # "ok"}
           f   == CHOOSE i \in bad : \A k \in bad : i <= k
<1>1. CASE ~Last(c)
  BY <1>1 DEF ReceiveMany
<1>2. CASE Last(c) /\ bad = {}
  BY <1>2 DEF ReceiveMany
<1>3. CASE Last(c) /\ bad # {}
  <2>1. \A i \in DOMAIN Reqs[c] : i \in Nat \ {0}
    BY CallFacts
  <2>2. bad \subseteq Nat
    BY <2>1
  <2>3. \E i \in bad : \A k \in bad : i <= k
    BY <1>3, <2>2, LeastMember
  <2>4. f \in bad
    BY <2>3
  <2>5. f - 1 \in Nat
    BY <2>1, <2>4
  <2>6. ReceiveMany(c) = Failed(c, result[<<Reqs[c][f], 1>>], f - 1)
    BY <1>3 DEF ReceiveMany
  <2> QED BY <1>3, <2>5, <2>6
<1> QED BY <1>1, <1>2, <1>3

-----------------------------------------------------------------------------
(* Types.                                                                  *)

\* A state that call c may be in.
Valid(c, k) == k \in CallState /\ k.idx \in DOMAIN Reqs[c]

\* A call only goes to states it may be in.
LEMMA Valids ==
    ASSUME TypeOK, NEW c \in Call
    PROVE  /\ \A pc \in PC : Valid(c, At(c, pc))
           /\ \A out \in Out : Valid(c, Return(c, out))
           /\ Valid(c, NextMsg(c)) /\ Valid(c, Succeeded(c)) /\ Valid(c, Fallback(c))
           /\ \A err : \A ids \in Nat : Valid(c, Failed(c, err, ids))
           /\ Valid(c, ReceiveMany(c)) /\ Valid(c, AfterSync(c))
           /\ ~Last(c) => Valid(c, [call[c] EXCEPT !.idx = @ + 1])
           /\ Valid(c, [At(c, "wait") EXCEPT !.idx = 1])
<1>1. call[c].idx \in DOMAIN Reqs[c] /\ 1 \in DOMAIN Reqs[c]
      /\ (~Last(c) => call[c].idx + 1 \in DOMAIN Reqs[c])
  BY CallFacts
<1>2. \A pc \in PC : Valid(c, At(c, pc))
  BY <1>1, AtIs DEF Valid, Is
<1>3. \A out \in Out : Valid(c, Return(c, out))
  BY <1>1, AtIs DEF Valid, Is
<1>4. Valid(c, NextMsg(c))
  BY <1>1, NextMsgIs DEF Valid, Is
<1>5. Valid(c, Succeeded(c))
  BY <1>1, SucceededIs DEF Valid, Is
<1>6. Valid(c, Fallback(c))
  BY <1>1, FallbackIs DEF Valid, Is
<1>7. ASSUME NEW err, NEW ids \in Nat PROVE Valid(c, Failed(c, err, ids))
  BY <1>1, FailedIs DEF Valid, Is
<1>8. ~Last(c) => Valid(c, [call[c] EXCEPT !.idx = @ + 1])
  BY <1>1, StepsOn DEF Valid, Is
<1>9. Valid(c, ReceiveMany(c))
  BY <1>5, <1>7, <1>8, ReceiveManyIs
<1>10. Valid(c, AfterSync(c))
  BY <1>3, <1>4 DEF AfterSync, Out
<1>11. Valid(c, [At(c, "wait") EXCEPT !.idx = 1])
  <2>1. At(c, "wait") \in CallState
    BY AtIs DEF Is, PC
  <2> QED BY <1>1, <2>1 DEF Valid, CallState
<1> QED BY <1>2, <1>3, <1>4, <1>5, <1>6, <1>7, <1>8, <1>9, <1>10, <1>11

\* The jobs whose context a step ends are jobs.
LEMMA CancelledJobs ==
    ASSUME TypeOK, NEW c \in Call, NEW next
    PROVE  Cancelled(c, next) \subseteq Job
<1>1. Jobs(c) \subseteq Job
  BY CallFacts DEF Jobs, Job
<1>2. {CurJob(c)} \subseteq Job
  BY CallFacts
<1> QED BY <1>1, <1>2 DEF Cancelled

\* A step of one call moves this call only.
LEMMA GoFacts ==
    ASSUME TypeOK, NEW c \in Call, NEW next, Valid(c, next), Go(c, next)
    PROVE  /\ call' \in [Call -> CallState] /\ \A d \in Call : call'[d].idx \in DOMAIN Reqs[d]
           /\ dead' \subseteq Job /\ dead \subseteq dead'
           /\ call'[c] = next /\ \A d \in Call : d # c => call'[d] = call[d]
<1>1. call \in [Call -> CallState] /\ dead \subseteq Job /\ \A d \in Call : call[d].idx \in DOMAIN Reqs[d]
  BY DEF TypeOK, CallState, PC, Out, Mode
<1>2. call' \in [Call -> CallState] /\ call'[c] = next /\ \A d \in Call : d # c => call'[d] = call[d]
  BY <1>1 DEF Go, Valid
<1>3. \A d \in Call : call'[d].idx \in DOMAIN Reqs[d]
  BY <1>1, <1>2 DEF Valid
<1>4. dead' \subseteq Job /\ dead \subseteq dead'
  BY <1>1, CancelledJobs DEF Go
<1> QED BY <1>2, <1>3, <1>4

\* One more copy of some messages.
LEMMA AddFacts ==
    ASSUME NEW f \in [Msg -> Nat], NEW S
    PROVE  /\ Add(f, S) \in [Msg -> Nat]
           /\ \A m \in Msg : Add(f, S)[m] = IF m \in S THEN f[m] + 1 ELSE f[m]
BY DEF Add

\* The state but for the calls has its types.
PipeType ==
    /\ {queue, buffer, flight} \subseteq Seq(Job)
    /\ Len(queue) <= QueueSize
    /\ ppc \in {"off", "select", "drain", "stopdrain", "exec", "stopexec", "done"}
    /\ stop \in BOOLEAN
    /\ result \in [Job -> {"none", "ok", "deadline", "other"}]
    /\ early \subseteq Job
CallType ==
    /\ call \in [Call -> CallState] /\ \A c \in Call : call[c].idx \in DOMAIN Reqs[c]
    /\ dead \subseteq Job
LogType ==
    /\ wal \in Seq(Msg)
    /\ replayMu \in {"free", "loop"} \cup Call /\ replays \in 0..ReplayBatch
CopyType ==
    /\ gone \subseteq Call
    /\ reply \in [Msg -> {"none", "stored", "queued"}]
    /\ stream \in [Msg -> Nat] /\ unsure \in [Msg -> Nat]

\* The parts make TypeOK.
LEMMA TypeParts == TypeOK <=> PipeType /\ CallType /\ LogType /\ CopyType
BY DEF TypeOK, PipeType, CallType, LogType, CopyType, CallState, PC, Out, Mode

\* The parts after a step make TypeOK after it.
LEMMA TypePartsNext == PipeType' /\ CallType' /\ LogType' /\ CopyType' => TypeOK'
BY DEF TypeOK, PipeType, CallType, LogType, CopyType, CallState, PC, Out, Mode

\* The sidecar starts with the types of TypeOK.
LEMMA TypeInit == Init => TypeOK
<1> SUFFICES ASSUME Init PROVE TypeOK
  OBVIOUS
<1>1. <<>> \in Seq(Job) /\ <<>> \in Seq(Msg) /\ Len(<<>>) = 0
  OBVIOUS
<1>2. QueueSize \in Nat /\ ReplayBatch \in Nat /\ Enabled \subseteq BOOLEAN
  BY PublishAssumption DEF Loaded
<1>3. PipeType
  <2>1. ppc \in {"off", "select"}
    BY <1>2 DEF Init
  <2>2. {queue, buffer, flight} \subseteq Seq(Job) /\ Len(queue) <= QueueSize
    BY <1>1, <1>2 DEF Init
  <2> QED BY <2>1, <2>2 DEF Init, PipeType
<1>4. CallType
  <2>1. \A c \in Call : 1 \in DOMAIN Reqs[c]
    <3> SUFFICES ASSUME NEW c \in Call PROVE 1 \in DOMAIN Reqs[c]
      OBVIOUS
    <3>1. Reqs[c] \in Seq(Msg) /\ Reqs[c] # <<>>
      BY PublishAssumption
    <3> QED BY <3>1
  <2>2. ASSUME NEW c \in Call
        PROVE  [pc |-> "start", idx |-> 1, out |-> "none",
                mode |-> IF c \in Batch THEN "many" ELSE "each"] \in CallState
    BY DEF CallState, PC, Out, Mode
  <2> QED BY <2>1, <2>2 DEF Init, CallType
<1>5. LogType
  BY <1>1, <1>2 DEF Init, LogType
<1>6. CopyType
  BY DEF Init, CopyType
<1> QED BY <1>3, <1>4, <1>5, <1>6, TypeParts

\* A caller's step keeps the types.
LEMMA CallerType ==
    ASSUME TypeOK, NEW c \in Call, Reject(c) \/ Caller(c) \/ Expire(c) \/ GiveUp(c)
    PROVE  TypeOK'
<1>0. PipeType /\ CallType /\ LogType /\ CopyType
  BY TypeParts
<1>1. ASSUME NEW next, Valid(c, next), Go(c, next) PROVE CallType'
  BY <1>1, GoFacts DEF CallType
<1>2. call[c].idx - 1 \in Nat /\ 0 \in Nat /\ Cur(c) \in Msg /\ CurJob(c) \in Job
  BY CallFacts
<1>3. CASE Reject(c) \/ Start(c) \/ publishToRedis(c) \/ EnqueueFallsBack(c) \/ Receive(c)
           \/ WaitFallsBack(c) \/ AppendFails(c)
  <2>1. UNCHANGED <<pipeVars, gone, reply, walVars, stream, unsure, early>>
    BY <1>3 DEF Reject, Start, publishToRedis, EnqueueFallsBack, Receive, WaitFallsBack, AppendFails
  <2>2. \E next : Valid(c, next) /\ Go(c, next)
    <3>1. CASE Reject(c) \/ AppendFails(c)
      BY <3>1, Valids DEF Reject, AppendFails, Out
    <3>2. CASE Start(c) \/ publishToRedis(c)
      BY <3>2, Valids DEF Start, publishToRedis, PC
    <3>3. CASE EnqueueFallsBack(c) \/ WaitFallsBack(c)
      BY <3>3, Valids DEF EnqueueFallsBack, WaitFallsBack
    <3>4. CASE Receive(c)
      BY <3>4, <1>2, Valids DEF Receive
    <3> QED BY <1>3, <3>1, <3>2, <3>3, <3>4
  <2>3. CallType'
    BY <1>1, <2>2
  <2>4. PipeType' /\ LogType' /\ CopyType'
    BY <1>0, <2>1 DEF PipeType, LogType, CopyType, pipeVars, walVars
  <2> QED BY <2>3, <2>4, TypePartsNext
<1>4. CASE Enqueue(c)
  <2>1. queue \in Seq(Job) /\ QueueSize \in Nat
    BY <1>0, PublishAssumption DEF PipeType, Loaded
  <2>2. queue' \in Seq(Job) /\ Len(queue') = Len(queue) + 1 /\ Len(queue) \in Nat
    BY <1>2, <1>4, <2>1, AppendFacts DEF Enqueue
  <2>3. Len(queue') <= QueueSize
    BY <1>4, <2>1, <2>2 DEF Enqueue
  <2>4. early' \subseteq Job
    BY <1>0, <1>2, <1>4 DEF PipeType, Enqueue
  <2>5. PipeType'
    BY <1>0, <1>4, <2>2, <2>3, <2>4 DEF PipeType, Enqueue
  <2>6. CallType'
    <3>1. \E next : Valid(c, next) /\ Go(c, next)
      BY <1>4, Valids DEF Enqueue, PC
    <3> QED BY <1>1, <3>1
  <2>7. LogType' /\ CopyType'
    BY <1>0, <1>4 DEF LogType, CopyType, Enqueue, walVars
  <2> QED BY <2>5, <2>6, <2>7, TypePartsNext
<1>5. CASE ContextDone(c)
  <2>1. CallType'
    BY <1>1, <1>2, <1>5, Valids DEF ContextDone
  <2>2. unsure' \in [Msg -> Nat]
    BY <1>0, <1>5, AddFacts DEF ContextDone, CopyType
  <2>3. PipeType' /\ LogType' /\ CopyType'
    BY <1>0, <1>5, <2>2 DEF PipeType, LogType, CopyType, ContextDone, pipeVars, walVars
  <2> QED BY <2>1, <2>3, TypePartsNext
<1>6. CASE DirectPublish(c)
  <2>1. CallType'
    BY <1>1, <1>6, Valids DEF DirectPublish
  <2>2. stream' \in [Msg -> Nat]
    BY <1>0, <1>6, AddFacts DEF DirectPublish, CopyType
  <2>3. PipeType' /\ LogType' /\ CopyType'
    BY <1>0, <1>6, <2>2 DEF PipeType, LogType, CopyType, DirectPublish, pipeVars, walVars
  <2> QED BY <2>1, <2>3, TypePartsNext
<1>7. CASE DirectFails(c)
  <2>1. PICK err \in {"deadline", "other"}, done \in {{}, {Cur(c)}} :
            /\ stream' = Add(stream, done)
            /\ unsure' = Add(unsure, done)
            /\ Go(c, Failed(c, err, call[c].idx - 1))
    BY <1>7 DEF DirectFails
  <2>2. CallType'
    BY <1>1, <1>2, <2>1, Valids
  <2>3. stream' \in [Msg -> Nat] /\ unsure' \in [Msg -> Nat]
    BY <1>0, <2>1, AddFacts DEF CopyType
  <2>4. PipeType' /\ LogType' /\ CopyType'
    BY <1>0, <1>7, <2>3 DEF PipeType, LogType, CopyType, DirectFails, pipeVars, walVars
  <2> QED BY <2>2, <2>4, TypePartsNext
<1>8. CASE AppendWAL(c)
  <2>1. CallType'
    BY <1>1, <1>8, Valids DEF AppendWAL
  <2>2. wal' \in Seq(Msg)
    BY <1>0, <1>2, <1>8, AppendFacts DEF AppendWAL, LogType
  <2>3. reply' \in [Msg -> {"none", "stored", "queued"}]
    BY <1>0, <1>2, <1>8 DEF AppendWAL, CopyType
  <2>4. PipeType' /\ LogType' /\ CopyType'
    BY <1>0, <1>8, <2>2, <2>3 DEF PipeType, LogType, CopyType, AppendWAL, pipeVars
  <2> QED BY <2>1, <2>4, TypePartsNext
<1>9. CASE Sync(c)
  <2>1. CallType'
    <3>1. Go(c, At(c, "replay")) \/ Go(c, AfterSync(c))
      BY <1>9 DEF Sync
    <3> QED BY <1>1, <3>1, Valids DEF PC
  <2>2. reply' \in [Msg -> {"none", "stored", "queued"}]
    BY <1>0, <1>9 DEF Sync, CopyType
  <2>3. replayMu' \in {"free", "loop"} \cup Call /\ replays' \in 0..ReplayBatch
    <3>1. ReplayBatch \in Nat
      BY PublishAssumption DEF Loaded
    <3> QED BY <1>0, <1>9, <3>1 DEF Sync, LogType
  <2>4. PipeType' /\ LogType' /\ CopyType'
    BY <1>0, <1>9, <2>2, <2>3 DEF PipeType, LogType, CopyType, Sync, pipeVars
  <2> QED BY <2>1, <2>4, TypePartsNext
<1>10. CASE Expire(c)
  <2>1. dead' \subseteq Job
    <3>1. Jobs(c) \subseteq Job
      BY CallFacts DEF Jobs, Job
    <3> QED BY <1>0, <1>2, <1>10, <3>1 DEF Expire, CallType
  <2>2. PipeType' /\ CallType' /\ LogType' /\ CopyType'
    BY <1>0, <1>10, <2>1
       DEF PipeType, CallType, LogType, CopyType, Expire, pipeVars, callVars, walVars
  <2> QED BY <2>2, TypePartsNext
<1>11. CASE GiveUp(c)
  <2>1. PipeType' /\ CallType' /\ LogType' /\ CopyType'
    BY <1>0, <1>11
       DEF PipeType, CallType, LogType, CopyType, GiveUp, pipeVars, walVars
  <2> QED BY <2>1, TypePartsNext
<1> QED BY <1>3, <1>4, <1>5, <1>6, <1>7, <1>8, <1>9, <1>10, <1>11 DEF Caller

\* A replay returns with the types of TypeOK.
LEMMA ReplayReturnsType ==
    ASSUME TypeOK, NEW kept \in Seq(Msg), NEW again, ReplayReturns(kept, again)
    PROVE  CallType' /\ wal' \in Seq(Msg) /\ replayMu' = "free" /\ unsure' \in [Msg -> Nat]
<1>0. CallType /\ CopyType
  BY TypeParts
<1>1. wal' = kept /\ replayMu' = "free" /\ unsure' = Add(unsure, again)
  BY DEF ReplayReturns
<1>2. CASE replayMu \in Call
  <2>1. Go(replayMu, AfterSync(replayMu))
    BY <1>2 DEF ReplayReturns
  <2> QED BY <1>0, <1>1, <1>2, <2>1, Valids, GoFacts, AddFacts DEF CallType, CopyType
<1>3. CASE replayMu \notin Call
  <2>1. UNCHANGED <<call, dead>>
    BY <1>3 DEF ReplayReturns
  <2> QED BY <1>0, <1>1, <2>1, AddFacts DEF CallType, CopyType
<1> QED BY <1>2, <1>3

\* The entries a replay keeps.
LEMMA RestFacts ==
    ASSUME TypeOK, replays <= Len(wal)
    PROVE  /\ Rest \in Seq(Msg) /\ Len(Rest) = Len(wal) - replays /\ replays \in Nat
           /\ \A i \in 1..(Len(wal) - replays) : Rest[i] = wal[replays + i]
<1>1. wal \in Seq(Msg) /\ replays \in Nat
  BY DEF TypeOK
<1> QED BY <1>1 DEF Rest

\* A replay keeps the types.
LEMMA ReplayType ==
    ASSUME TypeOK,
           ReplayBegins \/ ReplayPublishes \/ ReplayFails \/ ReplayEnds \/ RewriteFails
    PROVE  TypeOK'
<1>0. PipeType /\ CallType /\ LogType /\ CopyType
  BY TypeParts
<1>1. ReplayBatch \in Nat /\ replays \in 0..ReplayBatch /\ wal \in Seq(Msg)
  BY <1>0, PublishAssumption DEF LogType, Loaded
<1>2. Rest \in Seq(Msg)
  <2>1. CASE replays <= Len(wal)
    BY <2>1, RestFacts
  <2>2. CASE ~(replays <= Len(wal))
    <3>1. Len(wal) \in Nat /\ replays \in Nat
      BY <1>1
    <3>2. Rest = <<>>
      BY <1>1, <2>2, <3>1 DEF Rest
    <3> QED BY <3>2
  <2> QED BY <2>1, <2>2
<1>3. CASE ReplayBegins
  <2>1. PipeType' /\ CallType' /\ LogType' /\ CopyType'
    BY <1>0, <1>1, <1>3
       DEF PipeType, CallType, LogType, CopyType, ReplayBegins, pipeVars
  <2> QED BY <2>1, TypePartsNext
<1>4. CASE ReplayPublishes
  <2>1. replays' \in 0..ReplayBatch
    BY <1>1, <1>4 DEF ReplayPublishes, Replaying
  <2>2. stream' \in [Msg -> Nat]
    BY <1>0, <1>4, AddFacts DEF ReplayPublishes, CopyType
  <2>3. PipeType' /\ CallType' /\ LogType' /\ CopyType'
    BY <1>0, <1>4, <2>1, <2>2
       DEF PipeType, CallType, LogType, CopyType, ReplayPublishes, pipeVars
  <2> QED BY <2>3, TypePartsNext
<1>5. CASE ReplayFails
  <2>1. PICK done : /\ stream' = Add(stream, done)
                    /\ ReplayReturns(Rest, done) \/ ReplayReturns(wal, done \cup Replayed)
    BY <1>5 DEF ReplayFails
  <2>2. CallType' /\ wal' \in Seq(Msg) /\ replayMu' = "free" /\ unsure' \in [Msg -> Nat]
    BY <1>1, <1>2, <2>1, ReplayReturnsType
  <2>3. stream' \in [Msg -> Nat]
    BY <1>0, <2>1, AddFacts DEF CopyType
  <2>4. PipeType' /\ LogType' /\ CopyType'
    BY <1>0, <1>5, <2>2, <2>3 DEF PipeType, LogType, CopyType, ReplayFails, pipeVars
  <2> QED BY <2>2, <2>4, TypePartsNext
<1>6. CASE ReplayEnds \/ RewriteFails
  <2>1. ReplayReturns(Rest, {}) \/ ReplayReturns(wal, Replayed)
    BY <1>6 DEF ReplayEnds, RewriteFails
  <2>2. CallType' /\ wal' \in Seq(Msg) /\ replayMu' = "free" /\ unsure' \in [Msg -> Nat]
    BY <1>1, <1>2, <2>1, ReplayReturnsType
  <2>3. UNCHANGED <<pipeVars, gone, reply, replays, stream, early>>
    BY <1>6 DEF ReplayEnds, RewriteFails
  <2>4. PipeType' /\ LogType' /\ CopyType'
    BY <1>0, <2>2, <2>3 DEF PipeType, LogType, CopyType, pipeVars
  <2> QED BY <2>2, <2>4, TypePartsNext
<1> QED BY <1>3, <1>4, <1>5, <1>6

\* What a flush of the buffer does.
LEMMA FlushFacts ==
    ASSUME TypeOK, NEW after, Flush(after)
    PROVE  /\ buffer' = <<>> /\ flight' \in Seq(Job)
           /\ Elems(flight') = Elems(buffer) \ dead
           /\ flight' \in Seq(Job \ dead)
           /\ result' \in [Job -> {"none", "ok", "deadline", "other"}]
           /\ \A j \in Job : result'[j] = IF j \in Elems(buffer) \cap dead THEN "deadline" ELSE result[j]
           /\ \/ flight' = <<>> /\ ppc' = after
              \/ flight' # <<>> /\ ppc' = IF after = "done" THEN "stopexec" ELSE "exec"
<1>1. buffer \in Seq(Job) /\ result \in [Job -> {"none", "ok", "deadline", "other"}]
  BY DEF TypeOK
<1>2. flight' = Without(buffer, dead) /\ buffer' = <<>>
      /\ result' = [j \in Job |-> IF j \in Elems(buffer) \cap dead THEN "deadline" ELSE result[j]]
      /\ ppc' = IF flight' = <<>> THEN after ELSE IF after = "done" THEN "stopexec" ELSE "exec"
  BY DEF Flush
<1>3. flight' \in Seq(Job \ dead) /\ Elems(flight') = Elems(buffer) \ dead
  BY <1>1, <1>2, WithoutElems
<1>4. flight' \in Seq(Job)
  <2>1. \A i \in DOMAIN flight' : flight'[i] \in Job
    BY <1>3, SliceFacts
  <2> QED BY <1>3, <2>1, SliceOf
<1>5. result' \in [Job -> {"none", "ok", "deadline", "other"}]
      /\ \A j \in Job : result'[j] = IF j \in Elems(buffer) \cap dead THEN "deadline" ELSE result[j]
  BY <1>1, <1>2
<1> QED BY <1>2, <1>3, <1>4, <1>5

\* run receives a job.
LEMMA ReceivesFacts ==
    ASSUME TypeOK, Receives
    PROVE  /\ queue' \in Seq(Job) /\ buffer' \in Seq(Job) /\ Len(queue') <= QueueSize
           /\ Head(queue) \in Job
           /\ Elems(buffer') = Elems(buffer) \cup {Head(queue)}
           /\ Elems(queue) = Elems(queue') \cup {Head(queue)}
           /\ Len(queue') = Len(queue) - 1 /\ Len(queue) \in Nat \ {0}
           /\ \A i \in 1..(Len(queue) - 1) : queue'[i] = queue[i + 1]
<1>1. queue \in Seq(Job) /\ buffer \in Seq(Job) /\ Len(queue) <= QueueSize /\ queue # <<>>
      /\ queue' = Tail(queue) /\ buffer' = Append(buffer, Head(queue))
  BY DEF TypeOK, Receives
<1>2. /\ Head(queue) \in Job /\ queue' \in Seq(Job)
      /\ Elems(queue) = Elems(queue') \cup {Head(queue)}
      /\ Len(queue') = Len(queue) - 1 /\ Len(queue) \in Nat \ {0}
      /\ \A i \in 1..(Len(queue) - 1) : queue'[i] = queue[i + 1]
  BY <1>1, ElemsHeadTail
<1>3. buffer' \in Seq(Job) /\ Elems(buffer') = Elems(buffer) \cup {Head(queue)}
  BY <1>1, <1>2, ElemsAppend, AppendFacts
<1>4. Len(queue') <= QueueSize
  <2>1. QueueSize \in Nat
    BY PublishAssumption DEF Loaded
  <2> QED BY <1>1, <1>2, <2>1
<1> QED BY <1>2, <1>3, <1>4

\* The pipeline's goroutine keeps the types.
LEMMA RunType ==
    ASSUME TypeOK, Run \/ Close
    PROVE  TypeOK'
<1>0. PipeType /\ CallType /\ LogType /\ CopyType
  BY TypeParts
<1>1. CASE RunTick \/ DrainedFlush \/ StopFlush
  <2>1. \E after \in {"select", "done"} : Flush(after)
    BY <1>1 DEF RunTick, DrainedFlush, StopFlush
  <2>2. UNCHANGED <<queue, stop, dead, callVars, stream, unsure, early>>
    BY <1>1 DEF RunTick, DrainedFlush, StopFlush
  <2>3. buffer' = <<>> /\ flight' \in Seq(Job) /\ ppc' \in {"select", "done", "exec", "stopexec"}
        /\ result' \in [Job -> {"none", "ok", "deadline", "other"}]
    BY <2>1, FlushFacts
  <2>4. PipeType' /\ CallType' /\ LogType' /\ CopyType'
    BY <1>0, <2>2, <2>3 DEF PipeType, CallType, LogType, CopyType, callVars, walVars
  <2> QED BY <2>4, TypePartsNext
<1>2. CASE RunJob \/ Drain
  <2>1. Receives /\ ppc' \in {"drain", ppc}
    BY <1>2 DEF RunJob, Drain
  <2>2. UNCHANGED <<flight, stop, result, dead, callVars, stream, unsure, early>>
    BY <2>1 DEF Receives
  <2>3. queue' \in Seq(Job) /\ buffer' \in Seq(Job) /\ Len(queue') <= QueueSize
    BY <2>1, ReceivesFacts
  <2>4. PipeType' /\ CallType' /\ LogType' /\ CopyType'
    BY <1>0, <2>1, <2>2, <2>3 DEF PipeType, CallType, LogType, CopyType, callVars, walVars
  <2> QED BY <2>4, TypePartsNext
<1>3. CASE RunStop \/ DrainedKeep
  <2>1. PipeType' /\ CallType' /\ LogType' /\ CopyType'
    BY <1>0, <1>3
       DEF PipeType, CallType, LogType, CopyType, callVars, walVars, RunStop, DrainedKeep
  <2> QED BY <2>1, TypePartsNext
<1>4. CASE ExecSucceeds \/ ExecFails
  <2>1. PICK res, done, lost :
            /\ res \in {"ok", "deadline", "other"} /\ ExecReturns(res, done)
            /\ unsure' = Add(unsure, lost)
    BY <1>4 DEF ExecSucceeds, ExecFails
  <2>2. stream' \in [Msg -> Nat] /\ unsure' \in [Msg -> Nat]
    BY <1>0, <2>1, AddFacts DEF ExecReturns, CopyType
  <2>3. result' \in [Job -> {"none", "ok", "deadline", "other"}]
    BY <1>0, <2>1 DEF ExecReturns, PipeType
  <2>4. PipeType' /\ CallType' /\ LogType' /\ CopyType'
    <3>1. flight' = <<>> /\ ppc' \in {"select", "done"}
          /\ UNCHANGED <<queue, buffer, stop, dead, callVars, early>>
      BY <2>1 DEF ExecReturns
    <3> QED BY <1>0, <2>2, <2>3, <3>1
            DEF PipeType, CallType, LogType, CopyType, callVars, walVars
  <2> QED BY <2>4, TypePartsNext
<1>5. CASE Close
  <2>1. PipeType' /\ CallType' /\ LogType' /\ CopyType'
    BY <1>0, <1>5 DEF PipeType, CallType, LogType, CopyType, callVars, walVars, Close
  <2> QED BY <2>1, TypePartsNext
<1> QED BY <1>1, <1>2, <1>3, <1>4, <1>5 DEF Run

\* Every step keeps the types.
LEMMA TypeNext == TypeOK /\ [Next]_vars => TypeOK'
<1> SUFFICES ASSUME TypeOK, [Next]_vars PROVE TypeOK'
  OBVIOUS
<1>1. CASE \E c \in Call : Reject(c) \/ Caller(c) \/ Expire(c) \/ GiveUp(c)
  BY <1>1, CallerType
<1>2. CASE ReplayBegins \/ ReplayPublishes \/ ReplayFails \/ ReplayEnds \/ RewriteFails
  BY <1>2, ReplayType
<1>3. CASE Run \/ Close
  BY <1>3, RunType
<1>4. CASE UNCHANGED vars
  BY <1>4 DEF TypeOK, vars, pipeVars, walVars
<1> QED BY <1>1, <1>2, <1>3, <1>4 DEF Next

\* The publish path keeps its types: a call is always at one of its messages
\* and a replay never goes beyond its batch.
THEOREM TypeCorrect == Spec => []TypeOK
BY TypeInit, TypeNext, PTL DEF Spec

-----------------------------------------------------------------------------
(* Closing the pipeline.                                                   *)

\* Every job that was queued in time has its result or is still in the hands of
\* run, which only ends with nothing in its buffer.
DrainInv ==
    /\ ppc \in {"stopdrain", "stopexec", "done"} => stop
    /\ flight # <<>> => ppc \in {"exec", "stopexec"}
    /\ ppc \in {"exec", "stopexec", "done"} => buffer = <<>>
    /\ \A j \in early :
        \/ result[j] # "none"
        \/ j \in Elems(buffer) \cup Elems(flight)
        \/ j \in Elems(queue) /\ ppc \notin {"stopexec", "done"}

\* Nothing is in an empty slice.
LEMMA ElemsEmpty == Elems(<<>>) = {}
<1>1. DOMAIN <<>> = {}
  OBVIOUS
<1> QED BY <1>1 DEF Elems

\* A call queues its job.
LEMMA EnqueueFacts ==
    ASSUME TypeOK, NEW c \in Call, Enqueue(c)
    PROVE  /\ Elems(queue') = Elems(queue) \cup {CurJob(c)} /\ CurJob(c) \in Job
           /\ DOMAIN queue = 1..Len(queue) /\ DOMAIN queue' = 1..(Len(queue) + 1)
           /\ \A i \in 1..Len(queue) : queue'[i] = queue[i]
           /\ queue'[Len(queue) + 1] = CurJob(c) /\ Len(queue) \in Nat
<1>1. queue \in Seq(Job) /\ CurJob(c) \in Job /\ queue' = Append(queue, CurJob(c))
  BY CallFacts DEF TypeOK, Enqueue
<1> QED BY <1>1, ElemsAppend, AppendFacts

\* The steps that move jobs.
LEMMA PipeSteps ==
    ASSUME [Next]_vars
    PROVE  UNCHANGED <<pipeVars, early>> \/ (\E c \in Call : Enqueue(c)) \/ Run \/ Close
<1>1. ASSUME NEW c \in Call, Reject(c) \/ Caller(c) \/ Expire(c) \/ GiveUp(c), ~Enqueue(c)
      PROVE  UNCHANGED <<pipeVars, early>>
  BY <1>1 DEF Reject, Caller, Expire, GiveUp, Start, publishToRedis, EnqueueFallsBack,
              ContextDone, Receive, WaitFallsBack, DirectPublish, DirectFails, AppendWAL,
              AppendFails, Sync
<1>2. CASE ReplayBegins \/ ReplayPublishes \/ ReplayFails \/ ReplayEnds \/ RewriteFails
  BY <1>2 DEF ReplayBegins, ReplayPublishes, ReplayFails, ReplayEnds, RewriteFails
<1>3. CASE UNCHANGED vars
  BY <1>3 DEF vars
<1> QED BY <1>1, <1>2, <1>3 DEF Next

\* Every step keeps DrainInv.
LEMMA DrainNext == TypeOK /\ DrainInv /\ [Next]_vars => DrainInv'
<1> SUFFICES ASSUME TypeOK, DrainInv, [Next]_vars PROVE DrainInv'
  OBVIOUS
<1>0. early \subseteq Job
  BY DEF TypeOK
<1>1. CASE UNCHANGED <<pipeVars, early>>
  BY <1>1 DEF DrainInv, pipeVars
<1>2. ASSUME NEW c \in Call, Enqueue(c) PROVE DrainInv'
  <2>1. Elems(queue') = Elems(queue) \cup {CurJob(c)}
    BY <1>2, EnqueueFacts
  <2>2. UNCHANGED <<buffer, flight, ppc, stop, result>>
        /\ early' = IF stop THEN early ELSE early \cup {CurJob(c)}
    BY <1>2 DEF Enqueue
  <2> QED BY <2>1, <2>2 DEF DrainInv
<1>3. CASE RunTick \/ DrainedFlush \/ StopFlush
  <2>1. PICK after \in {"select", "done"} :
            Flush(after) /\ (after = "done" => ppc = "stopdrain" /\ queue = <<>>)
    BY <1>3 DEF RunTick, DrainedFlush, StopFlush
  <2>2. UNCHANGED <<queue, stop, early>> /\ ppc \in {"select", "drain", "stopdrain"}
    BY <1>3 DEF RunTick, DrainedFlush, StopFlush
  <2>3. flight = <<>>
    BY <2>2 DEF DrainInv
  <2>4. /\ buffer' = <<>>
        /\ Elems(flight') = Elems(buffer) \ dead
        /\ \A j \in Job : result'[j] = IF j \in Elems(buffer) \cap dead THEN "deadline" ELSE result[j]
        /\ \/ flight' = <<>> /\ ppc' = after
           \/ flight' # <<>> /\ ppc' = IF after = "done" THEN "stopexec" ELSE "exec"
    BY <2>1, FlushFacts
  <2>5. ASSUME NEW j \in early
        PROVE  \/ result'[j] # "none"
               \/ j \in Elems(buffer') \cup Elems(flight')
               \/ j \in Elems(queue') /\ ppc' \notin {"stopexec", "done"}
    <3>1. \/ result[j] # "none"
          \/ j \in Elems(buffer)
          \/ j \in Elems(queue)
      BY <2>3, ElemsEmpty DEF DrainInv
    <3>2. CASE result[j] # "none"
      BY <1>0, <2>4, <3>2
    <3>3. CASE j \in Elems(buffer)
      BY <1>0, <2>4, <3>3
    <3>4. CASE j \in Elems(queue)
      <4>1. queue # <<>> /\ after = "select"
        BY <2>1, <3>4, ElemsEmpty
      <4> QED BY <2>2, <2>4, <3>4, <4>1
    <3> QED BY <3>1, <3>2, <3>3, <3>4
  <2>6. ppc' \in {"stopexec", "done"} => after = "done"
    BY <2>1, <2>4
  <2>7. (ppc' \in {"stopdrain", "stopexec", "done"} => stop')
        /\ (flight' # <<>> => ppc' \in {"exec", "stopexec"})
    BY <2>1, <2>2, <2>4, <2>6 DEF DrainInv
  <2> QED BY <2>2, <2>4, <2>5, <2>7 DEF DrainInv
<1>4. CASE RunJob \/ Drain
  <2>1. Receives /\ ppc \in {"select", "drain", "stopdrain"} /\ ppc' \in {"drain", ppc}
    BY <1>4 DEF RunJob, Drain
  <2>2. Elems(buffer') = Elems(buffer) \cup {Head(queue)}
        /\ Elems(queue) = Elems(queue') \cup {Head(queue)}
    BY <2>1, ReceivesFacts
  <2>3. UNCHANGED <<flight, stop, result, early>>
    BY <2>1 DEF Receives
  <2> QED BY <2>1, <2>2, <2>3 DEF DrainInv
<1>5. CASE RunStop \/ DrainedKeep
  BY <1>5 DEF RunStop, DrainedKeep, DrainInv
<1>6. CASE ExecSucceeds \/ ExecFails
  <2>1. PICK res, done : res \in {"ok", "deadline", "other"} /\ ExecReturns(res, done)
    <3>1. CASE ExecSucceeds
      BY <3>1 DEF ExecSucceeds
    <3>2. CASE ExecFails
      BY <3>2 DEF ExecFails
    <3> QED BY <1>6, <3>1, <3>2
  <2>2. /\ ppc \in {"exec", "stopexec"} /\ flight' = <<>>
        /\ ppc' = IF ppc = "exec" THEN "select" ELSE "done"
        /\ UNCHANGED <<queue, buffer, stop, early>>
        /\ \A j \in Job : result'[j] = IF j \in Elems(flight) THEN res ELSE result[j]
    BY <2>1 DEF ExecReturns
  <2>3. ASSUME NEW j \in early
        PROVE  \/ result'[j] # "none"
               \/ j \in Elems(buffer') \cup Elems(flight')
               \/ j \in Elems(queue') /\ ppc' \notin {"stopexec", "done"}
    BY <1>0, <2>1, <2>2 DEF DrainInv
  <2>4. /\ ppc' \in {"stopdrain", "stopexec", "done"} => stop'
        /\ flight' # <<>> => ppc' \in {"exec", "stopexec"}
        /\ ppc' \in {"exec", "stopexec", "done"} => buffer' = <<>>
    BY <2>2 DEF DrainInv
  <2> QED BY <2>2, <2>3, <2>4 DEF DrainInv
<1>7. CASE Close
  BY <1>7 DEF Close, DrainInv
<1> QED BY <1>1, <1>2, <1>3, <1>4, <1>5, <1>6, <1>7, PipeSteps DEF Run

\* Nothing is queued at first.
LEMMA DrainInit == Init => DrainInv
BY DEF Init, DrainInv

\* Close loses no accepted job, for any number of jobs and any timing of the
\* stop: when run has ended, every job queued before the stop has its result.
THEOREM CloseDrainsHolds == Spec => []CloseDrains
<1>1. DrainInv => CloseDrains
  BY ElemsEmpty DEF DrainInv, CloseDrains
<1> QED BY <1>1, DrainInit, TypeInit, TypeNext, DrainNext, PTL DEF Spec

-----------------------------------------------------------------------------
(* What an answer promises.                                                *)

\* What Honest asks for a message that an answer speaks of.
Kept(m) == reply[m] # "none" /\ (stream[m] > 0 \/ (reply[m] = "queued" /\ m \in Elems(wal)))

\* The call has queued jobs whose fate it does not know, or returned.
InMany(c) == ViaMany(c) /\ call[c].pc \in {"enqueue", "wait", "return"}

\* What a call knows of its messages.
Knows(c) ==
    /\ call[c].mode = "each" => \A i \in 1..(call[c].idx - 1) : Kept(Reqs[c][i])
    /\ call[c].mode = "many" /\ ~InMany(c) => \A i \in 1..(call[c].idx - 1) : stream[Reqs[c][i]] > 0
    /\ call[c].pc = "append" => call[c].mode = "each"
    /\ call[c].pc \in {"sync", "replay"} => \A m \in Published(c) : stream[m] > 0
    /\ call[c].pc = "replay" => \A m \in Published(c) : reply[m] # "none"
    /\ call[c].out = "answer" => \A i \in DOMAIN Reqs[c] : Kept(Reqs[c][i])

\* A result that says ok, and an entry that a replay is done with, are in Redis.
Told == \A j \in Job : result[j] = "ok" => stream[j[1]] > 0

Passed ==
    /\ replayMu # "free" => replays <= Len(wal) /\ \A i \in 1..replays : stream[wal[i]] > 0
    /\ replayMu \in Call => call[replayMu].pc = "replay"

HonestInv == Told /\ Passed /\ \A c \in Call : Knows(c)

\* Redis forgets no copy, and jobs count only upwards.
LEMMA CopiesGrow ==
    ASSUME TypeOK, [Next]_vars
    PROVE  (\E S : stream' = Add(stream, S)) \/ stream' = stream
<1>1. ASSUME NEW c \in Call, Reject(c) \/ Caller(c) \/ Expire(c) \/ GiveUp(c)
      PROVE  (\E S : stream' = Add(stream, S)) \/ stream' = stream
  <2>1. CASE DirectPublish(c)
    BY <2>1 DEF DirectPublish
  <2>2. CASE DirectFails(c)
    BY <2>2 DEF DirectFails
  <2>3. CASE ~DirectPublish(c) /\ ~DirectFails(c)
    BY <1>1, <2>3
       DEF Reject, Caller, Expire, GiveUp, Start, publishToRedis, Enqueue, EnqueueFallsBack,
           ContextDone, Receive, WaitFallsBack, AppendWAL, AppendFails, Sync
  <2> QED BY <2>1, <2>2, <2>3
<1>2. CASE ReplayFails
  BY <1>2 DEF ReplayFails
<1>3. CASE ReplayPublishes
  BY <1>3 DEF ReplayPublishes
<1>4. CASE ReplayBegins \/ ReplayEnds \/ RewriteFails \/ Close \/ UNCHANGED vars
  BY <1>4 DEF ReplayBegins, ReplayEnds, RewriteFails, Close, vars
<1>5. CASE ExecSucceeds
  BY <1>5 DEF ExecSucceeds, ExecReturns
<1>6. CASE ExecFails
  BY <1>6 DEF ExecFails, ExecReturns
<1>7. CASE Run /\ ~ExecSucceeds /\ ~ExecFails
  BY <1>7 DEF Run, RunTick, RunJob, RunStop, Drain, DrainedFlush, DrainedKeep, StopFlush, Receives
<1> QED BY <1>1, <1>2, <1>3, <1>4, <1>5, <1>6, <1>7 DEF Next

\* What the log loses in a step, a replay has published.
LEMMA LogKeeps ==
    ASSUME TypeOK, Passed, [Next]_vars
    PROVE  \A m \in Elems(wal) : m \in Elems(wal') \/ stream[m] > 0
<1>0. wal \in Seq(Msg) /\ DOMAIN wal = 1..Len(wal) /\ Len(wal) \in Nat
  BY DEF TypeOK
<1>1. CASE wal' = wal
  BY <1>1
<1>2. ASSUME NEW x \in Msg, wal' = Append(wal, x) PROVE Elems(wal) \subseteq Elems(wal')
  BY <1>0, <1>2, ElemsAppend
<1>3. CASE replayMu # "free" /\ wal' = Rest
  <2> SUFFICES ASSUME NEW m \in Elems(wal), m \notin Elems(wal') PROVE stream[m] > 0
    OBVIOUS
  <2>1. PICK i \in DOMAIN wal : wal[i] = m
    BY DEF Elems
  <2>2. replays <= Len(wal) /\ \A k \in 1..replays : stream[wal[k]] > 0
    BY <1>3 DEF Passed
  <2>3. /\ Rest \in Seq(Msg) /\ Len(Rest) = Len(wal) - replays /\ replays \in Nat
        /\ \A k \in 1..(Len(wal) - replays) : Rest[k] = wal[replays + k]
    BY <2>2, RestFacts
  <2>4. DOMAIN Rest = 1..(Len(wal) - replays)
    BY <2>3, SliceFacts
  <2>5. i \in Nat \ {0} /\ i <= Len(wal)
    BY <1>0
  <2>6. CASE i <= replays
    BY <2>1, <2>2, <2>3, <2>5, <2>6
  <2>7. CASE i > replays
    <3>1. i - replays \in 1..(Len(wal) - replays) /\ replays + (i - replays) = i
      BY <1>0, <2>3, <2>5, <2>7
    <3>2. Rest[i - replays] = m /\ i - replays \in DOMAIN Rest
      BY <2>1, <2>3, <2>4, <3>1
    <3> QED BY <1>3, <3>2 DEF Elems
  <2> QED BY <2>3, <2>5, <2>6, <2>7
<1>4. \/ wal' = wal \/ (\E x \in Msg : wal' = Append(wal, x))
      \/ replayMu # "free" /\ wal' = Rest
  <2>1. ASSUME NEW c \in Call, Reject(c) \/ Caller(c) \/ Expire(c) \/ GiveUp(c)
        PROVE  wal' = wal \/ (\E x \in Msg : wal' = Append(wal, x))
    <3>1. CASE AppendWAL(c)
      BY <3>1, CallFacts DEF AppendWAL
    <3>2. CASE ~AppendWAL(c)
      BY <2>1, <3>2
         DEF Reject, Caller, Expire, GiveUp, Start, publishToRedis, Enqueue, EnqueueFallsBack,
             ContextDone, Receive, WaitFallsBack, DirectPublish, DirectFails, AppendFails, Sync,
             walVars, callVars
    <3> QED BY <3>1, <3>2
  <2>2. CASE ReplayBegins \/ ReplayPublishes \/ Close \/ UNCHANGED vars
    BY <2>2 DEF ReplayBegins, ReplayPublishes, Close, vars, walVars, callVars
  <2>3. CASE ReplayFails \/ ReplayEnds \/ RewriteFails
    BY <2>3 DEF ReplayFails, ReplayEnds, RewriteFails, ReplayReturns, Replaying
  <2>4. CASE Run
    BY <2>4 DEF Run, RunTick, RunJob, RunStop, Drain, DrainedFlush, DrainedKeep, StopFlush,
                Receives, ExecSucceeds, ExecFails, ExecReturns, walVars, callVars
  <2> QED BY <2>1, <2>2, <2>3, <2>4 DEF Next
<1> QED BY <1>1, <1>2, <1>3, <1>4

\* An answer in preparation is taken back for no message, and one that says
\* stored speaks of a message in Redis.
LEMMA RepliesGrow ==
    ASSUME TypeOK, HonestInv, [Next]_vars
    PROVE  \A m \in Msg : \/ reply'[m] = reply[m]
                          \/ reply'[m] = "queued" /\ m \in Elems(wal')
                          \/ reply'[m] = "stored" /\ stream[m] > 0
<1>0. reply \in [Msg -> {"none", "stored", "queued"}] /\ wal \in Seq(Msg)
  BY DEF TypeOK
<1>1. ASSUME NEW c \in Call, Reject(c) \/ Caller(c) \/ Expire(c) \/ GiveUp(c)
      PROVE  \A m \in Msg : \/ reply'[m] = reply[m]
                            \/ reply'[m] = "queued" /\ m \in Elems(wal')
                            \/ reply'[m] = "stored" /\ stream[m] > 0
  <2>1. CASE AppendWAL(c)
    <3>1. reply' = [reply EXCEPT ![Cur(c)] = "queued"] /\ wal' = Append(wal, Cur(c)) /\ Cur(c) \in Msg
      BY <2>1, CallFacts DEF AppendWAL
    <3>2. Cur(c) \in Elems(wal')
      BY <1>0, <3>1, ElemsAppend
    <3> QED BY <1>0, <3>1, <3>2
  <2>2. CASE Sync(c)
    <3>1. \A m \in Published(c) : stream[m] > 0
      BY <2>2 DEF Sync, HonestInv, Knows
    <3> QED BY <2>2, <3>1 DEF Sync
  <2>3. CASE ~AppendWAL(c) /\ ~Sync(c)
    BY <1>1, <2>3
       DEF Reject, Caller, Expire, GiveUp, Start, publishToRedis, Enqueue, EnqueueFallsBack,
           ContextDone, Receive, WaitFallsBack, DirectPublish, DirectFails, AppendFails, callVars
  <2> QED BY <2>1, <2>2, <2>3
<1>2. CASE ~\E c \in Call : Reject(c) \/ Caller(c) \/ Expire(c) \/ GiveUp(c)
  <2>1. CASE ReplayBegins \/ ReplayPublishes \/ ReplayFails \/ ReplayEnds \/ RewriteFails
    BY <2>1 DEF ReplayBegins, ReplayPublishes, ReplayFails, ReplayEnds, RewriteFails
  <2>2. CASE Run
    BY <2>2 DEF Run, RunTick, RunJob, RunStop, Drain, DrainedFlush, DrainedKeep, StopFlush,
                Receives, ExecSucceeds, ExecFails, ExecReturns, callVars
  <2>3. CASE Close \/ UNCHANGED vars
    BY <2>3 DEF Close, vars, callVars
  <2> QED BY <1>2, <2>1, <2>2, <2>3 DEF Next
<1> QED BY <1>1, <1>2

\* What a step may not take back.
Stable ==
    /\ \A m \in Msg : stream[m] > 0 => stream'[m] > 0
    /\ \A m \in Msg : reply[m] # "none" => reply'[m] # "none"
    /\ \A m \in Msg : Kept(m) => Kept(m)'
    /\ Pipeline <=> Pipeline'

\* No step takes any of it back.
LEMMA StepsStable ==
    ASSUME TypeOK, HonestInv, [Next]_vars
    PROVE  Stable
<1>1. \A m \in Msg : stream[m] > 0 => stream'[m] > 0
  <2>1. stream \in [Msg -> Nat]
    BY DEF TypeOK
  <2> QED BY <2>1, CopiesGrow, AddFacts
<1>2. \A m \in Msg : \/ reply'[m] = reply[m]
                     \/ reply'[m] = "queued" /\ m \in Elems(wal')
                     \/ reply'[m] = "stored" /\ stream[m] > 0
  BY RepliesGrow
<1>3. \A m \in Elems(wal) : m \in Elems(wal') \/ stream[m] > 0
  BY LogKeeps DEF HonestInv
<1>4. \A m \in Msg : reply[m] # "none" => reply'[m] # "none"
  BY <1>2
<1>5. \A m \in Msg : Kept(m) => Kept(m)'
  BY <1>1, <1>2, <1>3, <1>4 DEF Kept
<1>6. Pipeline <=> Pipeline'
  <2>1. CASE UNCHANGED <<pipeVars, early>>
    BY <2>1 DEF pipeVars, Pipeline
  <2>2. CASE Close \/ \E c \in Call : Enqueue(c)
    BY <2>2 DEF Close, Enqueue, Pipeline
  <2>3. CASE Run
    BY <2>3 DEF Run, RunTick, RunJob, RunStop, Drain, DrainedFlush, DrainedKeep, StopFlush,
                Flush, ExecSucceeds, ExecFails, ExecReturns, Pipeline
  <2> QED BY <2>1, <2>2, <2>3, PipeSteps
<1> QED BY <1>1, <1>4, <1>5, <1>6 DEF Stable

\* The messages a call published.
LEMMA PublishedMsgs ==
    ASSUME TypeOK, NEW c \in Call
    PROVE  Published(c) \subseteq Msg
BY CallFacts DEF Published

\* A call that a step does not move knows what it knew.
LEMMA KnowsFrame ==
    ASSUME TypeOK, Stable, NEW d \in Call, Knows(d), call'[d] = call[d]
    PROVE  Knows(d)'
<1>1. /\ \A i \in 1..(call[d].idx - 1) : Reqs[d][i] \in Msg
      /\ \A i \in DOMAIN Reqs[d] : Reqs[d][i] \in Msg
  BY CallFacts
<1>2. Published(d) \subseteq Msg /\ Published(d)' = Published(d)
  BY PublishedMsgs DEF Published, Cur
<1>3. InMany(d)' <=> InMany(d)
  BY DEF InMany, ViaMany, Stable
<1>4. call[d].mode = "each" => \A i \in 1..(call[d].idx - 1) : Kept(Reqs[d][i])'
  BY <1>1 DEF Knows, Stable
<1>5. call[d].mode = "many" /\ ~InMany(d) => \A i \in 1..(call[d].idx - 1) : stream'[Reqs[d][i]] > 0
  BY <1>1 DEF Knows, Stable
<1>6. call[d].out = "answer" => \A i \in DOMAIN Reqs[d] : Kept(Reqs[d][i])'
  BY <1>1 DEF Knows, Stable
<1>7. /\ call[d].pc = "append" => call[d].mode = "each"
      /\ call[d].pc \in {"sync", "replay"} => \A m \in Published(d) : stream'[m] > 0
      /\ call[d].pc = "replay" => \A m \in Published(d) : reply'[m] # "none"
  BY <1>2 DEF Knows, Stable
<1> QED BY <1>2, <1>3, <1>4, <1>5, <1>6, <1>7 DEF Knows

\* What a call knows carries over the step it makes.
LEMMA KnowsStill ==
    ASSUME TypeOK, Stable, NEW c \in Call, Knows(c)
    PROVE  /\ call[c].mode = "each" => \A i \in 1..(call[c].idx - 1) : Kept(Reqs[c][i])'
           /\ call[c].mode = "many" /\ ~InMany(c) =>
                \A i \in 1..(call[c].idx - 1) : stream'[Reqs[c][i]] > 0
           /\ call[c].out = "answer" => \A i \in DOMAIN Reqs[c] : Kept(Reqs[c][i])'
<1>1. /\ \A i \in 1..(call[c].idx - 1) : Reqs[c][i] \in Msg
      /\ \A i \in DOMAIN Reqs[c] : Reqs[c][i] \in Msg
  BY CallFacts
<1> QED BY <1>1 DEF Knows, Stable

\* A call that goes elsewhere with the same message.
LEMMA KnowsAt ==
    ASSUME TypeOK, Stable, NEW c \in Call, Knows(c), NEW pc, NEW out,
           pc \notin {"append", "sync", "replay"}, out \in {call[c].out, "error"},
           Is(call'[c], pc, call[c].idx, out, call[c].mode),
           InMany(c) => ViaMany(c) /\ pc \in {"enqueue", "wait", "return"}
    PROVE  Knows(c)'
<1>1. call'[c].pc = pc /\ call'[c].idx = call[c].idx /\ call'[c].out = out
      /\ call'[c].mode = call[c].mode
  BY DEF Is
<1>2. InMany(c) => InMany(c)'
  BY <1>1 DEF InMany, ViaMany, Stable
<1> QED BY <1>1, <1>2, KnowsStill DEF Knows

\* A call whose publish failed.
LEMMA KnowsFailed ==
    ASSUME TypeOK, Stable, NEW c \in Call, Knows(c), NEW err, NEW ids \in Nat,
           call'[c] = Failed(c, err, ids)
    PROVE  Knows(c)'
<1>1. CASE Is(call'[c], "return", call[c].idx, "error", call[c].mode)
  <2>1. InMany(c) => ViaMany(c)
    BY DEF InMany
  <2> QED BY <1>1, <2>1, KnowsAt
<1>2. CASE Is(call'[c], "decide", 1, call[c].out, "each")
  <2>1. 1..(1 - 1) = {}
    OBVIOUS
  <2> QED BY <1>2, <2>1, KnowsStill DEF Is, Knows
<1>3. CASE call[c].mode = "each" /\ Is(call'[c], "append", call[c].idx, call[c].out, "each")
  BY <1>3, KnowsStill DEF Is, Knows
<1> QED BY <1>1, <1>2, <1>3, FailedIs

\* A call that falls back to direct publishes.
LEMMA KnowsFallback ==
    ASSUME TypeOK, Stable, NEW c \in Call, Knows(c), call'[c] = Fallback(c)
    PROVE  Knows(c)'
<1>1. CASE ViaMany(c)
  <2>1. Is(call'[c], "direct", 1, call[c].out, call[c].mode) /\ 1..(1 - 1) = {}
    BY <1>1, FallbackIs
  <2> QED BY <2>1, KnowsStill DEF Is, Knows
<1>2. CASE ~ViaMany(c)
  <2>1. Is(call'[c], "direct", call[c].idx, call[c].out, call[c].mode)
    BY <1>2, FallbackIs
  <2>2. ~InMany(c)
    BY <1>2 DEF InMany
  <2> QED BY <2>1, <2>2, KnowsStill DEF Is, Knows
<1> QED BY <1>1, <1>2

\* One message more.
LEMMA OneMore ==
    ASSUME TypeOK, NEW c \in Call
    PROVE  /\ \A i \in 1..((call[c].idx + 1) - 1) : i = call[c].idx \/ i \in 1..(call[c].idx - 1)
           /\ Last(c) => \A i \in DOMAIN Reqs[c] : i = call[c].idx \/ i \in 1..(call[c].idx - 1)
<1>1. call[c].idx \in 1..Len(Reqs[c]) /\ Len(Reqs[c]) \in Nat /\ DOMAIN Reqs[c] = 1..Len(Reqs[c])
  BY CallFacts
<1> QED BY <1>1 DEF Last

\* A call whose message is in Redis.
LEMMA KnowsSucceeded ==
    ASSUME TypeOK, Stable, NEW c \in Call, Knows(c), call'[c] = Succeeded(c),
           stream'[Cur(c)] > 0, ~InMany(c), call[c].pc \in {"direct", "wait"}
    PROVE  Knows(c)'
<1>1. call[c].mode \in {"many", "each"}
  BY CallFacts DEF CallState, Mode
<1>2. CASE /\ call[c].mode = "each" \/ Last(c)
           /\ Is(call'[c], "sync", call[c].idx, call[c].out, call[c].mode)
  <2>1. Published(c)' = Published(c)
    BY <1>2 DEF Published, Cur, Is
  <2>2. \A m \in Published(c) : stream'[m] > 0
    <3>1. CASE call[c].mode = "each"
      BY <3>1 DEF Published
    <3>2. CASE call[c].mode = "many"
      <4>1. \A i \in DOMAIN Reqs[c] : i = call[c].idx \/ i \in 1..(call[c].idx - 1)
        BY <1>2, <3>2, OneMore
      <4> QED BY <3>2, <4>1, KnowsStill DEF Published, Cur
    <3> QED BY <1>1, <3>1, <3>2
  <2> QED BY <1>2, <2>1, <2>2, KnowsStill DEF Is, Knows
<1>3. CASE /\ call[c].mode = "many" /\ ~Last(c)
           /\ \E pc \in {"direct", "decide"} :
                Is(call'[c], pc, call[c].idx + 1, call[c].out, call[c].mode)
  <2>1. \A i \in 1..((call[c].idx + 1) - 1) : stream'[Reqs[c][i]] > 0
    BY <1>3, OneMore, KnowsStill DEF Cur
  <2> QED BY <1>3, <2>1, KnowsStill DEF Is, Knows
<1>4. ViaMany(c) => call[c].pc = "direct"
  BY DEF InMany
<1> QED BY <1>2, <1>3, <1>4, SucceededIs

\* A call that has its message published or logged goes to the next one.
LEMMA KnowsNextMsg ==
    ASSUME TypeOK, Stable, NEW c \in Call, Knows(c), call'[c] = NextMsg(c),
           call[c].mode = "each", NEW m, m = Cur(c), Kept(m)'
    PROVE  Knows(c)'
<1>0. \A i : i = call[c].idx => Kept(Reqs[c][i])'
  <2> SUFFICES ASSUME NEW i, i = call[c].idx PROVE Kept(Reqs[c][i])'
    OBVIOUS
  <2>1. Reqs[c][i] = m
    BY DEF Cur
  <2> QED BY <2>1 DEF Kept
<1>1. CASE Last(c)
  <2>1. Is(call'[c], "return", call[c].idx, "answer", call[c].mode)
    BY <1>1, NextMsgIs
  <2>2. \A i \in DOMAIN Reqs[c] : Kept(Reqs[c][i])'
    BY <1>0, <1>1, OneMore, KnowsStill
  <2> QED BY <2>1, <2>2, KnowsStill DEF Is, Knows
<1>2. CASE ~Last(c)
  <2>1. Is(call'[c], "decide", call[c].idx + 1, call[c].out, call[c].mode)
    BY <1>2, NextMsgIs
  <2>2. \A i \in 1..((call[c].idx + 1) - 1) : Kept(Reqs[c][i])'
    BY <1>0, OneMore, KnowsStill
  <2> QED BY <2>1, <2>2, KnowsStill DEF Is, Knows
<1> QED BY <1>1, <1>2

\* A call that has its messages published.
LEMMA KnowsAfterSync ==
    ASSUME TypeOK, Stable, NEW c \in Call, Knows(c), call'[c] = AfterSync(c),
           call[c].pc \in {"sync", "replay"},
           \A m \in Published(c) : reply'[m] # "none" /\ stream'[m] > 0
    PROVE  Knows(c)'
<1>1. CASE call[c].mode = "many"
  <2>1. Is(call'[c], "return", call[c].idx, "answer", call[c].mode)
    BY <1>1, AtIs DEF AfterSync, Out
  <2>2. \A i \in DOMAIN Reqs[c] : Kept(Reqs[c][i])'
    BY <1>1 DEF Published, Kept
  <2>3. ~InMany(c)
    BY DEF InMany
  <2> QED BY <1>1, <2>1, <2>2, <2>3, KnowsStill DEF Is, Knows
<1>2. CASE call[c].mode # "many"
  <2>1. call[c].mode = "each"
    BY <1>2, CallFacts DEF CallState, Mode
  <2>2. PICK m : m = Cur(c)
    OBVIOUS
  <2>3. Kept(m)'
    BY <1>2, <2>2 DEF Published, Kept
  <2> QED BY <1>2, <2>1, <2>2, <2>3, KnowsNextMsg DEF AfterSync
<1> QED BY <1>1, <1>2

\* A caller's step keeps what its call knows.
LEMMA KnowsCaller ==
    ASSUME TypeOK, HonestInv, Stable, NEW c \in Call, Reject(c) \/ Caller(c)
    PROVE  Knows(c)'
<1>0. Knows(c) /\ call[c].idx - 1 \in Nat /\ 0 \in Nat /\ Cur(c) \in Msg
      /\ CurJob(c) \in Job /\ CurJob(c)[1] = Cur(c)
  BY CallFacts DEF HonestInv
<1>1. ASSUME NEW next, Valid(c, next), Go(c, next) PROVE call'[c] = next
  BY <1>1, GoFacts
<1>2. CASE Reject(c) \/ AppendFails(c)
  <2>1. call'[c] = Return(c, "error")
    BY <1>1, <1>2, Valids DEF Reject, AppendFails, Out
  <2>2. Is(call'[c], "return", call[c].idx, "error", call[c].mode)
    BY <2>1, AtIs DEF Out
  <2> QED BY <1>0, <2>2, KnowsAt DEF InMany
<1>3. CASE Start(c) \/ publishToRedis(c)
  <2>1. PICK pc \in {"enqueue", "decide", "direct"} : call'[c] = At(c, pc)
    BY <1>1, <1>3, Valids DEF Start, publishToRedis, PC
  <2>2. Is(call'[c], pc, call[c].idx, call[c].out, call[c].mode)
    BY <2>1, AtIs DEF PC
  <2>3. ~InMany(c)
    BY <1>3 DEF Start, publishToRedis, InMany
  <2> QED BY <1>0, <2>2, <2>3, KnowsStill DEF Is, Knows
<1>4. CASE Enqueue(c)
  <2>1. CASE ViaMany(c)
    <3>1. call[c].mode = "many" /\ call[c].pc = "enqueue"
      BY <1>4, <2>1 DEF ViaMany, Enqueue
    <3>2. call'[c].mode = "many" /\ call'[c].pc \in {"enqueue", "wait"} /\ call'[c].out = call[c].out
      <4>1. CASE Last(c)
        <5>1. call'[c] = [At(c, "wait") EXCEPT !.idx = 1]
          BY <1>1, <1>4, <2>1, <4>1, Valids DEF Enqueue
        <5>2. Is(At(c, "wait"), "wait", call[c].idx, call[c].out, call[c].mode)
          BY AtIs DEF PC
        <5> QED BY <3>1, <5>1, <5>2 DEF Is, CallState
      <4>2. CASE ~Last(c)
        <5>1. call'[c] = [call[c] EXCEPT !.idx = @ + 1]
          BY <1>1, <1>4, <2>1, <4>2, Valids DEF Enqueue
        <5> QED BY <3>1, <5>1, StepsOn DEF Is
      <4> QED BY <4>1, <4>2
    <3>3. InMany(c)'
      BY <2>1, <3>1, <3>2 DEF InMany, ViaMany, Stable
    <3> QED BY <1>0, <3>2, <3>3, KnowsStill DEF Knows
  <2>2. CASE ~ViaMany(c)
    <3>1. call'[c] = At(c, "wait")
      BY <1>1, <1>4, <2>2, Valids DEF Enqueue, PC
    <3>2. Is(call'[c], "wait", call[c].idx, call[c].out, call[c].mode)
      BY <3>1, AtIs DEF PC
    <3>3. ~InMany(c)
      BY <2>2 DEF InMany
    <3> QED BY <1>0, <3>2, <3>3, KnowsStill DEF Is, Knows
  <2> QED BY <2>1, <2>2
<1>5. CASE EnqueueFallsBack(c) \/ WaitFallsBack(c)
  <2>1. call'[c] = Fallback(c)
    BY <1>1, <1>5, Valids DEF EnqueueFallsBack, WaitFallsBack
  <2> QED BY <1>0, <2>1, KnowsFallback
<1>6. CASE ContextDone(c)
  <2>1. call'[c] = Failed(c, "deadline", 0)
    BY <1>0, <1>1, <1>6, Valids DEF ContextDone
  <2> QED BY <1>0, <2>1, KnowsFailed
<1>7. CASE DirectFails(c)
  <2>1. PICK err : call'[c] = Failed(c, err, call[c].idx - 1)
    BY <1>0, <1>1, <1>7, Valids DEF DirectFails
  <2> QED BY <1>0, <2>1, KnowsFailed
<1>8. CASE DirectPublish(c)
  <2>1. call'[c] = Succeeded(c) /\ call[c].pc = "direct"
    BY <1>1, <1>8, Valids DEF DirectPublish
  <2>2. stream'[Cur(c)] > 0
    <3>1. stream \in [Msg -> Nat] /\ stream' = Add(stream, {Cur(c)})
      BY <1>8 DEF TypeOK, DirectPublish
    <3>2. stream'[Cur(c)] = stream[Cur(c)] + 1 /\ stream[Cur(c)] \in Nat
      BY <1>0, <3>1, AddFacts
    <3> QED BY <3>2
  <2>3. ~InMany(c)
    BY <2>1 DEF InMany
  <2> QED BY <1>0, <2>1, <2>2, <2>3, KnowsSucceeded
<1>9. CASE Receive(c)
  <2>0. call[c].pc = "wait"
    BY <1>9 DEF Receive
  <2>1. CASE ViaMany(c)
    <3>1. call'[c] = ReceiveMany(c)
      BY <1>1, <1>9, <2>1, Valids DEF Receive
    <3>2. CASE ~Last(c) /\ ReceiveMany(c) = [call[c] EXCEPT !.idx = @ + 1]
      <4>1. Is(call'[c], "wait", call[c].idx + 1, call[c].out, call[c].mode)
        BY <2>0, <3>1, <3>2, StepsOn
      <4>2. InMany(c)' /\ call'[c].mode = "many"
        BY <2>1, <4>1 DEF InMany, ViaMany, Is, Stable
      <4> QED BY <1>0, <4>1, <4>2, KnowsStill DEF Is, Knows
    <3>3. CASE /\ Last(c) /\ ReceiveMany(c) = Succeeded(c)
               /\ \A i \in DOMAIN Reqs[c] : result[<<Reqs[c][i], 1>>] = "ok"
      <4>1. Is(call'[c], "sync", call[c].idx, call[c].out, call[c].mode)
        BY <3>1, <3>3, SucceededIs
      <4>2. \A i \in DOMAIN Reqs[c] : stream'[Reqs[c][i]] > 0
        <5> SUFFICES ASSUME NEW i \in DOMAIN Reqs[c] PROVE stream'[Reqs[c][i]] > 0
          OBVIOUS
        <5>1. Reqs[c][i] \in Msg /\ <<Reqs[c][i], 1>> \in Job
          BY CallFacts DEF Job
        <5>2. stream[Reqs[c][i]] > 0
          BY <3>3, <5>1 DEF HonestInv, Told
        <5> QED BY <5>1, <5>2 DEF Stable
      <4>3. call[c].mode = "many"
        BY <2>1 DEF ViaMany
      <4>4. Published(c)' = {Reqs[c][i] : i \in DOMAIN Reqs[c]}
        BY <4>1, <4>3 DEF Published, Is
      <4>5. \A i \in 1..(call[c].idx - 1) : i \in DOMAIN Reqs[c]
        BY CallFacts
      <4> QED BY <1>0, <4>1, <4>2, <4>3, <4>4, <4>5, KnowsStill DEF Is, Knows
    <3>4. CASE \E err : \E ids \in Nat : ReceiveMany(c) = Failed(c, err, ids)
      BY <1>0, <3>1, <3>4, KnowsFailed
    <3> QED BY <3>2, <3>3, <3>4, ReceiveManyIs
  <2>2. CASE ~ViaMany(c) /\ result[CurJob(c)] = "ok"
    <3>1. call'[c] = Succeeded(c)
      BY <1>1, <1>9, <2>2, Valids DEF Receive
    <3>2. stream'[Cur(c)] > 0
      <4>1. stream[Cur(c)] > 0
        BY <1>0, <2>2 DEF HonestInv, Told
      <4> QED BY <1>0, <4>1 DEF Stable
    <3>3. ~InMany(c)
      BY <2>2 DEF InMany
    <3> QED BY <1>0, <2>0, <3>1, <3>2, <3>3, KnowsSucceeded
  <2>3. CASE ~ViaMany(c) /\ result[CurJob(c)] # "ok"
    <3>1. call'[c] = Failed(c, result[CurJob(c)], call[c].idx - 1)
      BY <1>0, <1>1, <1>9, <2>3, Valids DEF Receive
    <3> QED BY <1>0, <3>1, KnowsFailed
  <2> QED BY <2>1, <2>2, <2>3
<1>10. CASE AppendWAL(c)
  <2>1. call'[c] = NextMsg(c) /\ call[c].mode = "each"
    BY <1>0, <1>1, <1>10, Valids DEF AppendWAL, Knows
  <2>2. PICK m : m = Cur(c)
    OBVIOUS
  <2>3. Kept(m)'
    <3>1. reply' = [reply EXCEPT ![m] = "queued"] /\ wal' = Append(wal, m)
          /\ reply \in [Msg -> {"none", "stored", "queued"}] /\ wal \in Seq(Msg)
      BY <1>10, <2>2 DEF AppendWAL, TypeOK
    <3>2. m \in Elems(wal') /\ reply'[m] = "queued"
      BY <1>0, <2>2, <3>1, ElemsAppend
    <3> QED BY <3>2 DEF Kept
  <2> QED BY <1>0, <2>1, <2>2, <2>3, KnowsNextMsg
<1>11. CASE Sync(c)
  <2>1. call[c].pc = "sync" /\ Published(c) \subseteq Msg
    BY <1>11, PublishedMsgs DEF Sync
  <2>2. \A m \in Published(c) : reply'[m] # "none" /\ stream'[m] > 0
    BY <1>0, <1>11, <2>1 DEF Sync, Knows, Stable
  <2>3. CASE Go(c, AfterSync(c))
    <3>1. call'[c] = AfterSync(c)
      BY <1>1, <2>3, Valids
    <3> QED BY <1>0, <2>1, <2>2, <3>1, KnowsAfterSync
  <2>4. CASE Go(c, At(c, "replay"))
    <3>1. Is(call'[c], "replay", call[c].idx, call[c].out, call[c].mode)
      BY <1>1, <2>4, Valids, AtIs DEF PC
    <3>2. Published(c)' = Published(c)
      BY <3>1 DEF Published, Cur, Is
    <3>3. ~InMany(c)
      BY <2>1 DEF InMany
    <3> QED BY <1>0, <2>2, <3>1, <3>2, <3>3, KnowsStill DEF Is, Knows
  <2> QED BY <1>11, <2>3, <2>4 DEF Sync
<1> QED BY <1>2, <1>3, <1>4, <1>5, <1>6, <1>7, <1>8, <1>9, <1>10, <1>11 DEF Caller

\* A caller's step moves no other call, and none that replays.
LEMMA OthersStay ==
    ASSUME TypeOK, NEW c \in Call, Reject(c) \/ Caller(c)
    PROVE  call[c].pc # "replay" /\ \A d \in Call : d # c => call'[d] = call[d]
<1>1. \E next : call' = [call EXCEPT ![c] = next]
  BY DEF Reject, Caller, Start, publishToRedis, Enqueue, EnqueueFallsBack, ContextDone, Receive,
         WaitFallsBack, DirectPublish, DirectFails, AppendWAL, AppendFails, Sync, Go
<1>2. call[c].pc # "replay"
  BY DEF Reject, Caller, Start, publishToRedis, Enqueue, EnqueueFallsBack, ContextDone, Receive,
         WaitFallsBack, DirectPublish, DirectFails, AppendWAL, AppendFails, Sync
<1>3. DOMAIN call = Call
  BY DEF TypeOK
<1> QED BY <1>1, <1>2, <1>3

\* A caller's step leaves a running replay alone.
LEMMA CallerLog ==
    ASSUME NEW c \in Call, Reject(c) \/ Caller(c)
    PROVE  \/ UNCHANGED walVars
           \/ replayMu = "free" /\ replayMu' = "free"
           \/ Sync(c) /\ replayMu = "free" /\ replayMu' = c /\ replays' = 0
              /\ Go(c, At(c, "replay")) /\ wal' = wal
<1>1. CASE Sync(c)
  BY <1>1 DEF Sync, walVars
<1>2. CASE ~Sync(c)
  BY <1>2 DEF Reject, Caller, Start, publishToRedis, Enqueue, EnqueueFallsBack, ContextDone,
              Receive, WaitFallsBack, DirectPublish, DirectFails, AppendWAL, AppendFails, walVars
<1> QED BY <1>1, <1>2

\* The calls when a replay returns.
LEMMA ReplayMoves ==
    ASSUME TypeOK, NEW kept, NEW again, ReplayReturns(kept, again)
    PROVE  \A d \in Call : IF d = replayMu THEN call'[d] = AfterSync(d) ELSE call'[d] = call[d]
<1>1. CASE replayMu \in Call
  <2>1. Go(replayMu, AfterSync(replayMu))
    BY <1>1 DEF ReplayReturns
  <2> QED BY <1>1, <2>1, Valids, GoFacts
<1>2. CASE replayMu \notin Call
  BY <1>2 DEF ReplayReturns
<1> QED BY <1>1, <1>2

\* Every step keeps HonestInv.
LEMMA HonestNext == TypeOK /\ HonestInv /\ [Next]_vars => HonestInv'
<1> SUFFICES ASSUME TypeOK, HonestInv, [Next]_vars PROVE HonestInv'
  OBVIOUS
<1>0. Stable
  BY StepsStable
<1>1. Told /\ Passed /\ \A c \in Call : Knows(c)
  BY DEF HonestInv
<1>2. stream \in [Msg -> Nat] /\ result \in [Job -> {"none", "ok", "deadline", "other"}]
      /\ wal \in Seq(Msg) /\ \A i \in DOMAIN wal : wal[i] \in Msg
  <2>1. wal \in Seq(Msg)
    BY DEF TypeOK
  <2> QED BY <2>1, SliceFacts DEF TypeOK
<1>3. \A j \in Job : j[1] \in Msg
  BY DEF Job
<1>4. "free" \notin Call /\ "loop" \notin Call
  BY PublishAssumption
<1>5. Told'
  <2>1. CASE result' = result
    BY <1>0, <1>1, <1>3, <2>1 DEF Told, Stable
  <2>2. CASE RunTick \/ DrainedFlush \/ StopFlush
    <3>1. \A j \in Job : result'[j] = "ok" => result[j] = "ok"
      <4>1. \E after : Flush(after)
        BY <2>2 DEF RunTick, DrainedFlush, StopFlush
      <4> QED BY <4>1, FlushFacts
    <3> QED BY <1>0, <1>1, <1>3, <3>1 DEF Told, Stable
  <2>3. CASE ExecSucceeds
    <3> DEFINE S == {j[1] : j \in Elems(flight)}
    <3>1. stream' = Add(stream, S) /\ \A j \in Job : j \notin Elems(flight) => result'[j] = result[j]
      BY <2>3 DEF ExecSucceeds, ExecReturns
    <3>2. \A j \in Elems(flight) : j[1] \in S
      OBVIOUS
    <3> HIDE DEF S
    <3>3. ASSUME NEW j \in Job, result'[j] = "ok" PROVE stream'[j[1]] > 0
      <4>1. CASE j \in Elems(flight)
        <5>1. stream'[j[1]] = stream[j[1]] + 1 /\ stream[j[1]] \in Nat
          BY <1>2, <1>3, <3>1, <3>2, <4>1, AddFacts
        <5> QED BY <5>1
      <4>2. CASE j \notin Elems(flight)
        BY <1>0, <1>1, <1>3, <3>1, <3>3, <4>2 DEF Told, Stable
      <4> QED BY <4>1, <4>2
    <3> QED BY <3>3 DEF Told
  <2>4. CASE ExecFails
    <3>1. \A j \in Job : result'[j] = "ok" => result[j] = "ok"
      BY <2>4 DEF ExecFails, ExecReturns
    <3> QED BY <1>0, <1>1, <1>3, <3>1 DEF Told, Stable
  <2>5. CASE RunJob \/ Drain \/ RunStop \/ DrainedKeep \/ Close
    <3>1. result' = result
      BY <2>5 DEF RunJob, Drain, RunStop, DrainedKeep, Close, Receives
    <3> QED BY <2>1, <3>1
  <2>6. CASE UNCHANGED <<pipeVars, early>> \/ \E c \in Call : Enqueue(c)
    BY <2>1, <2>6 DEF pipeVars, Enqueue
  <2> QED BY <2>2, <2>3, <2>4, <2>5, <2>6, PipeSteps DEF Run
<1>6. ASSUME NEW c \in Call, Reject(c) \/ Caller(c) PROVE Passed' /\ \A d \in Call : Knows(d)'
  <2>1. call[c].pc # "replay" /\ \A d \in Call : d # c => call'[d] = call[d]
    BY <1>6, OthersStay
  <2>2. Knows(c)'
    BY <1>0, <1>6, KnowsCaller
  <2>3. ASSUME NEW d \in Call, d # c PROVE Knows(d)'
    BY <1>0, <1>1, <2>1, <2>3, KnowsFrame
  <2>4. Passed'
    <3>1. CASE UNCHANGED walVars
      <4>1. UNCHANGED <<wal, replayMu, replays>>
        BY <3>1 DEF walVars
      <4>2. replayMu # "free" => replays <= Len(wal) /\ \A i \in 1..replays : stream'[wal[i]] > 0
        <5> SUFFICES ASSUME replayMu # "free"
                     PROVE  replays <= Len(wal) /\ \A i \in 1..replays : stream'[wal[i]] > 0
          OBVIOUS
        <5>1. replays <= Len(wal) /\ replays \in Nat /\ Len(wal) \in Nat /\ DOMAIN wal = 1..Len(wal)
          BY <1>1, <1>2 DEF Passed, TypeOK
        <5>2. \A i \in 1..replays : i \in DOMAIN wal
          BY <5>1
        <5> QED BY <1>0, <1>1, <1>2, <5>1, <5>2 DEF Passed, Stable
      <4>3. replayMu \in Call => call'[replayMu].pc = "replay"
        BY <1>1, <2>1 DEF Passed
      <4> QED BY <4>1, <4>2, <4>3 DEF Passed
    <3>2. CASE replayMu = "free" /\ replayMu' = "free"
      BY <1>4, <3>2 DEF Passed
    <3>3. CASE /\ replayMu' = c /\ replays' = 0 /\ Go(c, At(c, "replay")) /\ wal' = wal
      <4>1. call'[c].pc = "replay"
        <5>1. Is(At(c, "replay"), "replay", call[c].idx, call[c].out, call[c].mode)
              /\ Valid(c, At(c, "replay"))
          BY Valids, AtIs DEF PC
        <5>2. call'[c] = At(c, "replay")
          BY <3>3, <5>1, GoFacts
        <5> QED BY <5>1, <5>2 DEF Is
      <4>2. replays' <= Len(wal') /\ 1..replays' = {}
        BY <1>2, <3>3
      <4> QED BY <3>3, <4>1, <4>2 DEF Passed
    <3> QED BY <1>6, <3>1, <3>2, <3>3, CallerLog
  <2> QED BY <2>2, <2>3, <2>4
<1>7. CASE call' = call /\ UNCHANGED walVars
  <2>1. \A d \in Call : Knows(d)'
    BY <1>0, <1>1, <1>7, KnowsFrame
  <2>2. replayMu # "free" => replays <= Len(wal) /\ \A i \in 1..replays : stream'[wal[i]] > 0
    <3> SUFFICES ASSUME replayMu # "free"
                 PROVE  replays <= Len(wal) /\ \A i \in 1..replays : stream'[wal[i]] > 0
      OBVIOUS
    <3>1. replays <= Len(wal) /\ replays \in Nat /\ Len(wal) \in Nat /\ DOMAIN wal = 1..Len(wal)
      BY <1>1, <1>2 DEF Passed, TypeOK
    <3>2. \A i \in 1..replays : i \in DOMAIN wal
      BY <3>1
    <3> QED BY <1>0, <1>1, <1>2, <3>1, <3>2 DEF Passed, Stable
  <2>3. Passed'
    BY <1>1, <1>7, <2>2 DEF Passed, walVars
  <2> QED BY <1>5, <2>1, <2>3 DEF HonestInv
<1>8. CASE ReplayBegins
  <2>1. \A d \in Call : Knows(d)'
    BY <1>0, <1>1, <1>8, KnowsFrame DEF ReplayBegins
  <2>2. Passed'
    <3>1. replayMu' = "loop" /\ replays' = 0 /\ Len(wal') \in Nat
      BY <1>2, <1>8 DEF ReplayBegins
    <3>2. replays' <= Len(wal') /\ 1..replays' = {}
      BY <3>1
    <3> QED BY <1>4, <3>1, <3>2 DEF Passed
  <2> QED BY <1>5, <2>1, <2>2 DEF HonestInv
<1>9. CASE ReplayPublishes
  <2>1. \A d \in Call : Knows(d)'
    BY <1>0, <1>1, <1>9, KnowsFrame DEF ReplayPublishes
  <2>2. Passed'
    <3>1. /\ replayMu # "free" /\ replays < Len(wal) /\ replays' = replays + 1 /\ wal' = wal
          /\ stream' = Add(stream, {wal[replays + 1]}) /\ call' = call /\ replayMu' = replayMu
      BY <1>9 DEF ReplayPublishes, Replaying
    <3>2. replays \in Nat /\ Len(wal) \in Nat /\ DOMAIN wal = 1..Len(wal)
      BY <1>2 DEF TypeOK
    <3>3. replays' <= Len(wal) /\ replays + 1 \in DOMAIN wal
          /\ \A i \in 1..replays' : i \in DOMAIN wal /\ (i \in 1..replays \/ i = replays + 1)
      BY <3>1, <3>2
    <3>4. stream'[wal[replays + 1]] > 0
      <4>1. wal[replays + 1] \in Msg
        BY <1>2, <3>3
      <4>2. stream'[wal[replays + 1]] = stream[wal[replays + 1]] + 1 /\ stream[wal[replays + 1]] \in Nat
        BY <1>2, <3>1, <4>1, AddFacts
      <4> QED BY <4>2
    <3>5. \A i \in 1..replays' : stream'[wal[i]] > 0
      BY <1>0, <1>1, <1>2, <3>1, <3>3, <3>4 DEF Passed, Stable
    <3> QED BY <1>1, <3>1, <3>3, <3>5 DEF Passed
  <2> QED BY <1>5, <2>1, <2>2 DEF HonestInv
<1>10. CASE ReplayFails \/ ReplayEnds \/ RewriteFails
  <2>1. PICK kept, again : ReplayReturns(kept, again)
    BY <1>10 DEF ReplayFails, ReplayEnds, RewriteFails
  <2>2. \A d \in Call : IF d = replayMu THEN call'[d] = AfterSync(d) ELSE call'[d] = call[d]
    BY <2>1, ReplayMoves
  <2>3. ASSUME NEW d \in Call, d = replayMu PROVE Knows(d)'
    <3>1. Knows(d) /\ call[d].pc = "replay" /\ call'[d] = AfterSync(d) /\ Published(d) \subseteq Msg
      BY <1>1, <2>2, <2>3, PublishedMsgs DEF Passed
    <3>2. \A m \in Published(d) : reply'[m] # "none" /\ stream'[m] > 0
      BY <1>0, <3>1 DEF Knows, Stable
    <3> QED BY <1>0, <3>1, <3>2, KnowsAfterSync
  <2>4. ASSUME NEW d \in Call, d # replayMu PROVE Knows(d)'
    BY <1>0, <1>1, <2>2, <2>4, KnowsFrame
  <2>5. Passed'
    BY <1>4, <2>1 DEF Passed, ReplayReturns
  <2> QED BY <1>5, <2>3, <2>4, <2>5 DEF HonestInv
<1>11. CASE \E c \in Call : Reject(c) \/ Caller(c)
  BY <1>5, <1>6, <1>11 DEF HonestInv
<1>12. CASE Run
  <2>1. UNCHANGED callVars
    BY <1>12 DEF Run, RunTick, RunJob, RunStop, Drain, DrainedFlush, DrainedKeep, StopFlush,
                 Receives, ExecSucceeds, ExecFails, ExecReturns
  <2> QED BY <1>7, <2>1 DEF callVars
<1>13. CASE Close \/ UNCHANGED vars \/ \E c \in Call : Expire(c) \/ GiveUp(c)
  BY <1>7, <1>13 DEF Close, vars, Expire, GiveUp, callVars
<1> QED BY <1>8, <1>9, <1>10, <1>11, <1>12, <1>13 DEF Next

\* Nothing is promised at first.
LEMMA HonestInit == Init => HonestInv
<1> SUFFICES ASSUME Init PROVE HonestInv
  OBVIOUS
<1>1. Told /\ Passed
  <2>1. "free" \notin Call
    BY PublishAssumption
  <2> QED BY <2>1 DEF Init, Told, Passed
<1>2. ASSUME NEW c \in Call PROVE Knows(c)
  <2>1. call[c].idx = 1 /\ call[c].pc = "start" /\ call[c].out = "none" /\ 1..(1 - 1) = {}
    BY DEF Init
  <2> QED BY <2>1 DEF Knows
<1> QED BY <1>1, <1>2 DEF HonestInv

\* A message an RPC answers for is in Redis, or in the WAL when the answer says
\* queued, for any number of calls, any batches and any failures.
THEOREM HonestHolds == Spec => []Honest
<1>1. HonestInv => Honest
  BY DEF HonestInv, Knows, Kept, Honest
<1> QED BY <1>1, HonestInit, TypeInit, TypeNext, HonestNext, PTL DEF Spec

-----------------------------------------------------------------------------
(* Copies of a single publish.                                             *)

Only(c) == Reqs[c][1]
OnlyJob(c) == <<Only(c), 2>>

\* An entry of the message is in the log and the running replay has not come to it.
InLog(c) == \E i \in DOMAIN wal : wal[i] = Only(c) /\ (replayMu = "free" \/ i > replays)

\* The sidecar may still publish the message.
Unseen(c) ==
    \/ call[c].pc \in {"start", "decide", "enqueue", "direct", "append"}
    \/ call[c].pc = "wait" /\ result[OnlyJob(c)] # "ok"
    \/ InLog(c)

\* The job of the call is in one place only, and has no result while it is there.
InPipe(c) == OnlyJob(c) \in Elems(queue) \cup Elems(buffer) \cup Elems(flight)
JobOnce(c) ==
    /\ InPipe(c) => result[OnlyJob(c)] = "none" /\ call[c].pc \notin {"start", "decide", "enqueue"}
    /\ call[c].pc \in {"start", "decide", "enqueue"} => result[OnlyJob(c)] = "none"
    /\ OnlyJob(c) \in Elems(queue) => OnlyJob(c) \notin Elems(buffer) \cup Elems(flight)
    /\ \A i, k \in DOMAIN queue : queue[i] = OnlyJob(c) /\ queue[k] = OnlyJob(c) => i = k

EntryOnce(c) ==
    /\ Only(c) \in Elems(wal) => call[c].pc = "return"
    /\ \A i, k \in DOMAIN wal : wal[i] = Only(c) /\ wal[k] = Only(c) => i = k

Copies(c) ==
    /\ call[c].mode = "each"
    /\ stream[Only(c)] <= 1 + unsure[Only(c)]
    /\ Unseen(c) => stream[Only(c)] <= unsure[Only(c)]

CopyInv == \A c \in Call \ Batch : JobOnce(c) /\ EntryOnce(c) /\ Copies(c)

\* A single publish has one message, which no other call has.
LEMMA SingleFacts ==
    ASSUME TypeOK, NEW c \in Call \ Batch
    PROVE  /\ call[c].idx = 1 /\ Last(c) /\ Cur(c) = Only(c) /\ Only(c) \in Msg /\ OnlyJob(c) \in Job
           /\ call[c].mode = "each" => CurJob(c) = OnlyJob(c) /\ ~ViaMany(c)
           /\ \A d \in Call : d # c => Cur(d) # Only(c) /\ CurJob(d) # OnlyJob(c)
<1>1. Len(Reqs[c]) = 1
  BY PublishAssumption
<1>2. call[c].idx \in 1..Len(Reqs[c]) /\ 1 \in DOMAIN Reqs[c] /\ Reqs[c][1] \in Msg
  BY CallFacts
<1>3. call[c].idx = 1 /\ Last(c)
  BY <1>1, <1>2 DEF Last
<1>4. ASSUME NEW d \in Call, d # c PROVE Cur(d) # Only(c) /\ CurJob(d) # OnlyJob(c)
  <2>1. call[d].idx \in DOMAIN Reqs[d]
    BY CallFacts
  <2>2. Reqs[d][call[d].idx] # Reqs[c][1]
    BY <1>2, <1>4, <2>1, PublishAssumption
  <2> QED BY <2>2, CallFacts DEF Cur, Only, OnlyJob
<1> QED BY <1>2, <1>3, <1>4 DEF Cur, CurJob, ViaMany, Only, OnlyJob, Job

\* The way of a single publish: it never queues a second time.
LEMMA OwnStep ==
    ASSUME TypeOK, NEW c \in Call \ Batch, call[c].mode = "each", Reject(c) \/ Caller(c)
    PROVE  /\ call'[c].mode = "each" /\ call[c].pc # "return"
           /\ call'[c].pc \in {"start", "decide", "enqueue"} => call[c].pc \in {"start", "decide"}
           /\ Enqueue(c) => call'[c].pc = "wait"
           /\ AppendWAL(c) => call'[c].pc = "return"
           /\ DirectPublish(c) => call'[c].pc = "sync"
           /\ Receive(c) /\ result[CurJob(c)] = "ok" => call'[c].pc = "sync"
           /\ Sync(c) => call'[c].pc \in {"replay", "return"}
<1>0. Last(c) /\ ~ViaMany(c) /\ call[c].idx - 1 \in Nat /\ 0 \in Nat
  BY SingleFacts
<1>1. ASSUME NEW next, Valid(c, next), Go(c, next) PROVE call'[c] = next
  BY <1>1, GoFacts
<1>2. ASSUME NEW pc \in PC PROVE At(c, pc).pc = pc /\ At(c, pc).mode = "each"
  BY AtIs DEF Is
<1>3. ASSUME NEW out \in Out PROVE Return(c, out).pc = "return" /\ Return(c, out).mode = "each"
  BY AtIs DEF Is
<1>4. ASSUME NEW err, NEW ids \in Nat
      PROVE  Failed(c, err, ids).pc \in {"return", "append"} /\ Failed(c, err, ids).mode = "each"
  BY FailedIs DEF Is
<1>5. Succeeded(c).pc = "sync" /\ Succeeded(c).mode = "each"
  BY <1>0, SucceededIs DEF Is
<1>6. NextMsg(c).pc = "return" /\ NextMsg(c).mode = "each" /\ AfterSync(c) = NextMsg(c)
  BY <1>0, NextMsgIs DEF Is, AfterSync
<1>7. Fallback(c).pc = "direct" /\ Fallback(c).mode = "each"
  BY <1>0, FallbackIs DEF Is
<1>8. CASE Reject(c) \/ AppendFails(c)
  <2>1. call'[c] = Return(c, "error") /\ call[c].pc \in {"start", "append"}
    BY <1>1, <1>8, Valids DEF Reject, AppendFails, Out
  <2> QED BY <1>3, <1>8, <2>1 DEF Enqueue, AppendWAL, DirectPublish, Receive, Sync, Out
<1>9. CASE Start(c) \/ publishToRedis(c)
  <2>1. PICK pc \in {"enqueue", "decide", "direct"} : call'[c] = At(c, pc)
    BY <1>1, <1>9, Valids DEF Start, publishToRedis, PC
  <2>2. call[c].pc \in {"start", "decide"}
    BY <1>9 DEF Start, publishToRedis
  <2> QED BY <1>2, <2>1, <2>2 DEF Enqueue, AppendWAL, DirectPublish, Receive, Sync, PC
<1>10. CASE Enqueue(c)
  <2>1. call'[c] = At(c, "wait") /\ call[c].pc = "enqueue"
    BY <1>0, <1>1, <1>10, Valids DEF Enqueue, PC
  <2> QED BY <1>2, <2>1 DEF AppendWAL, DirectPublish, Receive, Sync, PC
<1>11. CASE EnqueueFallsBack(c) \/ WaitFallsBack(c)
  <2>1. call'[c] = Fallback(c) /\ call[c].pc \in {"enqueue", "wait"} /\ UNCHANGED <<queue, result>>
    BY <1>1, <1>11, Valids DEF EnqueueFallsBack, WaitFallsBack, pipeVars
  <2>2. ~Enqueue(c)
    <3>1. queue \in Seq(Job) /\ CurJob(c) \in Job
      BY CallFacts DEF TypeOK
    <3>2. Append(queue, CurJob(c)) # queue
      BY <3>1, AppendFacts
    <3> QED BY <2>1, <3>2 DEF Enqueue
  <2>3. ~(Receive(c) /\ result[CurJob(c)] = "ok")
    <3>1. CASE Receive(c) /\ result[CurJob(c)] = "ok"
      BY <1>0, <1>1, <1>5, <1>7, <2>1, <3>1, Valids DEF Receive
    <3> QED BY <3>1
  <2> QED BY <1>7, <2>1, <2>2, <2>3 DEF AppendWAL, DirectPublish, Sync
<1>12. CASE ContextDone(c)
  <2>1. call'[c] = Failed(c, "deadline", 0) /\ call[c].pc \in {"enqueue", "wait"} /\ queue' = queue
    BY <1>0, <1>1, <1>12, Valids DEF ContextDone, pipeVars
  <2>2. ~Enqueue(c)
    <3>1. queue \in Seq(Job) /\ CurJob(c) \in Job
      BY CallFacts DEF TypeOK
    <3>2. Append(queue, CurJob(c)) # queue
      BY <3>1, AppendFacts
    <3> QED BY <2>1, <3>2 DEF Enqueue
  <2>3. ~(Receive(c) /\ result[CurJob(c)] = "ok")
    <3>1. CASE Receive(c) /\ result[CurJob(c)] = "ok"
      BY <1>0, <1>1, <1>4, <1>5, <2>1, <3>1, Valids DEF Receive
    <3> QED BY <3>1
  <2> QED BY <1>0, <1>4, <2>1, <2>2, <2>3 DEF AppendWAL, DirectPublish, Sync
<1>13. CASE Receive(c)
  <2>1. call[c].pc = "wait"
        /\ call'[c] = IF result[CurJob(c)] = "ok" THEN Succeeded(c)
                      ELSE Failed(c, result[CurJob(c)], call[c].idx - 1)
    BY <1>0, <1>1, <1>13, Valids DEF Receive
  <2> QED BY <1>0, <1>4, <1>5, <2>1 DEF Enqueue, AppendWAL, DirectPublish, Sync
<1>14. CASE DirectPublish(c)
  <2>1. call[c].pc = "direct" /\ call'[c] = Succeeded(c)
    BY <1>1, <1>14, Valids DEF DirectPublish
  <2> QED BY <1>5, <2>1 DEF Enqueue, AppendWAL, Receive, Sync
<1>15. CASE DirectFails(c)
  <2>1. call[c].pc = "direct" /\ \E err : call'[c] = Failed(c, err, call[c].idx - 1)
    BY <1>0, <1>1, <1>15, Valids DEF DirectFails
  <2>2. ~DirectPublish(c)
    <3>1. CASE DirectPublish(c)
      BY <1>0, <1>1, <1>4, <1>5, <2>1, <3>1, Valids DEF DirectPublish
    <3> QED BY <3>1
  <2> QED BY <1>0, <1>4, <2>1, <2>2 DEF Enqueue, AppendWAL, Receive, Sync
<1>16. CASE AppendWAL(c)
  <2>1. call[c].pc = "append" /\ call'[c] = NextMsg(c)
    BY <1>1, <1>16, Valids DEF AppendWAL
  <2> QED BY <1>6, <2>1 DEF Enqueue, DirectPublish, Receive, Sync
<1>17. CASE Sync(c)
  <2>1. call[c].pc = "sync" /\ call'[c] \in {At(c, "replay"), AfterSync(c)}
    BY <1>1, <1>17, Valids DEF Sync, PC
  <2> QED BY <1>2, <1>6, <2>1 DEF Enqueue, AppendWAL, DirectPublish, Receive, PC
<1> QED BY <1>8, <1>9, <1>10, <1>11, <1>12, <1>13, <1>14, <1>15, <1>16, <1>17 DEF Caller

\* No step takes a single publish back to where it queues, or out of its return.
LEMMA SingleMoves ==
    ASSUME TypeOK, Passed, NEW c \in Call \ Batch, call[c].mode = "each", [Next]_vars
    PROVE  /\ call'[c].mode = "each"
           /\ call'[c].pc \in {"start", "decide", "enqueue"} =>
                call[c].pc \in {"start", "decide", "enqueue"}
           /\ call[c].pc = "return" => call'[c].pc = "return"
           /\ call'[c] = call[c] \/ Reject(c) \/ Caller(c) \/ call'[c].pc = "return"
<1>1. CASE Reject(c) \/ Caller(c)
  BY <1>1, OwnStep
<1>2. CASE call'[c] = call[c]
  BY <1>2
<1>3. ASSUME NEW d \in Call, d # c, Reject(d) \/ Caller(d) PROVE call'[c] = call[c]
  BY <1>3, OthersStay
<1>4. CASE ReplayFails \/ ReplayEnds \/ RewriteFails
  <2>1. \E kept, again : ReplayReturns(kept, again)
    BY <1>4 DEF ReplayFails, ReplayEnds, RewriteFails
  <2>2. IF c = replayMu THEN call'[c] = AfterSync(c) ELSE call'[c] = call[c]
    BY <2>1, ReplayMoves
  <2>3. CASE c = replayMu
    <3>1. call[c].pc = "replay" /\ AfterSync(c) = NextMsg(c) /\ Last(c)
      BY <2>3, SingleFacts DEF Passed, AfterSync
    <3>2. call'[c].pc = "return" /\ call'[c].mode = "each"
      BY <2>2, <2>3, <3>1, NextMsgIs DEF Is
    <3> QED BY <3>1, <3>2
  <2> QED BY <1>2, <2>2, <2>3
<1>5. CASE ReplayBegins \/ ReplayPublishes
  BY <1>2, <1>5 DEF ReplayBegins, ReplayPublishes
<1>6. CASE Run
  <2>1. UNCHANGED callVars
    BY <1>6 DEF Run, RunTick, RunJob, RunStop, Drain, DrainedFlush, DrainedKeep, StopFlush,
                Receives, ExecSucceeds, ExecFails, ExecReturns
  <2> QED BY <1>2, <2>1 DEF callVars
<1>7. CASE Close \/ UNCHANGED vars \/ \E d \in Call : Expire(d) \/ GiveUp(d)
  BY <1>2, <1>7 DEF Close, vars, Expire, GiveUp, callVars
<1> QED BY <1>1, <1>2, <1>3, <1>4, <1>5, <1>6, <1>7 DEF Next

\* Every step keeps the job of a single publish in one place.
LEMMA JobOnceNext ==
    ASSUME TypeOK, DrainInv, Passed, [Next]_vars, NEW c \in Call \ Batch, JobOnce(c),
           call[c].mode = "each"
    PROVE  JobOnce(c)'
<1> DEFINE j == OnlyJob(c)
<1>0. j \in Job /\ OnlyJob(c)' = j
  BY SingleFacts DEF OnlyJob, Only
<1>1. /\ call'[c].pc \in {"start", "decide", "enqueue"} =>
            call[c].pc \in {"start", "decide", "enqueue"}
  BY SingleMoves
<1>2. /\ j \in Elems(queue) \cup Elems(buffer) \cup Elems(flight) =>
            result[j] = "none" /\ call[c].pc \notin {"start", "decide", "enqueue"}
      /\ call[c].pc \in {"start", "decide", "enqueue"} => result[j] = "none"
      /\ j \in Elems(queue) => j \notin Elems(buffer) \cup Elems(flight)
      /\ \A i, k \in DOMAIN queue : queue[i] = j /\ queue[k] = j => i = k
  BY DEF JobOnce, InPipe
<1> HIDE DEF j
<1> SUFFICES /\ j \in Elems(queue') \cup Elems(buffer') \cup Elems(flight') =>
                    result'[j] = "none" /\ call'[c].pc \notin {"start", "decide", "enqueue"}
             /\ call'[c].pc \in {"start", "decide", "enqueue"} => result'[j] = "none"
             /\ j \in Elems(queue') => j \notin Elems(buffer') \cup Elems(flight')
             /\ \A i, k \in DOMAIN queue' : queue'[i] = j /\ queue'[k] = j => i = k
  BY <1>0 DEF JobOnce, InPipe
<1>3. CASE UNCHANGED <<queue, buffer, flight, result>>
  BY <1>1, <1>2, <1>3
<1>4. CASE UNCHANGED <<pipeVars, early>> \/ RunStop \/ DrainedKeep \/ Close
  BY <1>3, <1>4 DEF pipeVars, RunStop, DrainedKeep, Close
<1>5. ASSUME NEW d \in Call, Enqueue(d)
      PROVE  /\ j \in Elems(queue') \cup Elems(buffer') \cup Elems(flight') =>
                    result'[j] = "none" /\ call'[c].pc \notin {"start", "decide", "enqueue"}
             /\ call'[c].pc \in {"start", "decide", "enqueue"} => result'[j] = "none"
             /\ j \in Elems(queue') => j \notin Elems(buffer') \cup Elems(flight')
             /\ \A i, k \in DOMAIN queue' : queue'[i] = j /\ queue'[k] = j => i = k
  <2>1. /\ Elems(queue') = Elems(queue) \cup {CurJob(d)}
        /\ DOMAIN queue = 1..Len(queue) /\ DOMAIN queue' = 1..(Len(queue) + 1)
        /\ \A i \in 1..Len(queue) : queue'[i] = queue[i]
        /\ queue'[Len(queue) + 1] = CurJob(d) /\ Len(queue) \in Nat
    BY <1>5, EnqueueFacts
  <2>2. UNCHANGED <<buffer, flight, result>> /\ call[d].pc = "enqueue"
    BY <1>5 DEF Enqueue
  <2>3. \A i \in DOMAIN queue' : \/ (i \in DOMAIN queue /\ queue'[i] = queue[i])
                                 \/ queue'[i] = CurJob(d)
    BY <2>1
  <2>4. CASE d # c
    <3>1. CurJob(d) # j
      BY <2>4, SingleFacts DEF j
    <3> QED BY <1>1, <1>2, <2>1, <2>2, <2>3, <3>1
  <2>5. CASE d = c
    <3>1. CurJob(d) = j /\ call'[c].pc = "wait"
      BY <1>5, <2>5, SingleFacts, OwnStep DEF j, Caller
    <3>2. j \notin Elems(queue) \cup Elems(buffer) \cup Elems(flight) /\ result[j] = "none"
      BY <1>2, <2>2, <2>5
    <3>3. \A i \in DOMAIN queue : queue[i] # j
      BY <3>2 DEF Elems
    <3>4. \A i \in DOMAIN queue' : queue'[i] = j => i = Len(queue) + 1
      BY <2>1, <3>3
    <3> QED BY <2>1, <2>2, <3>1, <3>2, <3>4
  <2> QED BY <2>4, <2>5
<1>6. CASE RunTick \/ DrainedFlush \/ StopFlush
  <2>1. \E after : Flush(after)
    BY <1>6 DEF RunTick, DrainedFlush, StopFlush
  <2>2. UNCHANGED <<queue, callVars>> /\ ppc \in {"select", "drain", "stopdrain"}
    BY <1>6 DEF RunTick, DrainedFlush, StopFlush
  <2>3. /\ buffer' = <<>>
        /\ Elems(flight') = Elems(buffer) \ dead
        /\ \A i \in Job : result'[i] = IF i \in Elems(buffer) \cap dead THEN "deadline" ELSE result[i]
    BY <2>1, FlushFacts
  <2> QED BY <1>0, <1>1, <1>2, <2>2, <2>3, ElemsEmpty
<1>7. CASE RunJob \/ Drain
  <2>1. Receives
    BY <1>7 DEF RunJob, Drain
  <2>2. /\ Elems(buffer') = Elems(buffer) \cup {Head(queue)}
        /\ Elems(queue) = Elems(queue') \cup {Head(queue)}
        /\ Len(queue') = Len(queue) - 1 /\ Len(queue) \in Nat \ {0}
        /\ \A i \in 1..(Len(queue) - 1) : queue'[i] = queue[i + 1]
        /\ queue' \in Seq(Job)
    BY <2>1, ReceivesFacts
  <2>3. UNCHANGED <<flight, result>>
    BY <2>1 DEF Receives
  <2>4. queue \in Seq(Job) /\ queue # <<>>
    BY <2>1 DEF Receives, TypeOK
  <2>5. DOMAIN queue = 1..Len(queue) /\ DOMAIN queue' = 1..(Len(queue) - 1) /\ Head(queue) = queue[1]
    BY <2>2, <2>4
  <2>6. \A i \in DOMAIN queue' : i + 1 \in DOMAIN queue /\ queue'[i] = queue[i + 1] /\ i \in Nat \ {0}
    BY <2>2, <2>5
  <2>7. \A i, k \in DOMAIN queue' : queue'[i] = j /\ queue'[k] = j => i = k
    <3> SUFFICES ASSUME NEW i \in DOMAIN queue', NEW k \in DOMAIN queue', queue'[i] = j, queue'[k] = j
                 PROVE  i = k
      OBVIOUS
    <3>1. i + 1 = k + 1 /\ i \in Nat /\ k \in Nat
      BY <1>2, <2>6
    <3> QED BY <3>1
  <2>8. Head(queue) = j => j \notin Elems(queue')
    <3> SUFFICES ASSUME Head(queue) = j, NEW i \in DOMAIN queue', queue'[i] = j PROVE FALSE
      BY DEF Elems
    <3>1. 1 \in DOMAIN queue /\ i + 1 \in DOMAIN queue /\ queue[1] = j /\ queue[i + 1] = j
      BY <2>2, <2>5, <2>6
    <3>2. i + 1 = 1 /\ i \in Nat \ {0}
      BY <1>2, <2>6, <3>1
    <3> QED BY <3>2
  <2> QED BY <1>1, <1>2, <2>2, <2>3, <2>7, <2>8
<1>8. CASE ExecSucceeds \/ ExecFails
  <2>1. /\ ppc \in {"exec", "stopexec"} /\ flight' = <<>>
        /\ UNCHANGED <<queue, buffer, call>>
        /\ \A i \in Job : i \notin Elems(flight) => result'[i] = result[i]
    BY <1>8 DEF ExecSucceeds, ExecFails, ExecReturns, callVars
  <2>2. buffer = <<>>
    BY <2>1 DEF DrainInv
  <2> QED BY <1>0, <1>1, <1>2, <2>1, <2>2, ElemsEmpty
<1> QED BY <1>4, <1>5, <1>6, <1>7, <1>8, PipeSteps DEF Run

\* Every step keeps at most one entry of a single publish in the log.
LEMMA EntryOnceNext ==
    ASSUME TypeOK, Passed, [Next]_vars, NEW c \in Call \ Batch, EntryOnce(c), call[c].mode = "each"
    PROVE  EntryOnce(c)'
<1> DEFINE m == Only(c)
<1>0. m \in Msg /\ Only(c)' = m /\ wal \in Seq(Msg) /\ DOMAIN wal = 1..Len(wal) /\ Len(wal) \in Nat
  BY SingleFacts DEF Only, TypeOK
<1>1. call[c].pc = "return" => call'[c].pc = "return"
  BY SingleMoves
<1>2. /\ m \in Elems(wal) => call[c].pc = "return"
      /\ \A i, k \in DOMAIN wal : wal[i] = m /\ wal[k] = m => i = k
  BY DEF EntryOnce
<1> HIDE DEF m
<1> SUFFICES /\ m \in Elems(wal') => call'[c].pc = "return"
             /\ \A i, k \in DOMAIN wal' : wal'[i] = m /\ wal'[k] = m => i = k
  BY <1>0 DEF EntryOnce
<1>3. CASE wal' = wal
  BY <1>1, <1>2, <1>3
<1>4. ASSUME NEW d \in Call, AppendWAL(d)
      PROVE  /\ m \in Elems(wal') => call'[c].pc = "return"
             /\ \A i, k \in DOMAIN wal' : wal'[i] = m /\ wal'[k] = m => i = k
  <2>1. wal' = Append(wal, Cur(d)) /\ Cur(d) \in Msg /\ call[d].pc = "append"
    BY <1>4, CallFacts DEF AppendWAL
  <2>2. /\ Elems(wal') = Elems(wal) \cup {Cur(d)} /\ DOMAIN wal' = 1..(Len(wal) + 1)
        /\ \A i \in 1..Len(wal) : wal'[i] = wal[i]
        /\ wal'[Len(wal) + 1] = Cur(d)
    BY <1>0, <2>1, ElemsAppend, AppendFacts
  <2>3. \A i \in DOMAIN wal' : \/ (i \in DOMAIN wal /\ wal'[i] = wal[i])
                               \/ (wal'[i] = Cur(d) /\ i = Len(wal) + 1)
    BY <1>0, <2>2
  <2>4. CASE d # c
    <3>1. Cur(d) # m
      BY <2>4, SingleFacts DEF m
    <3> QED BY <1>1, <1>2, <2>2, <2>3, <3>1
  <2>5. CASE d = c
    <3>1. Cur(d) = m /\ call'[c].pc = "return"
      BY <1>4, <2>5, SingleFacts, OwnStep DEF m, Caller
    <3>2. m \notin Elems(wal)
      BY <1>2, <2>1, <2>5
    <3>3. \A i \in DOMAIN wal : wal[i] # m
      BY <3>2 DEF Elems
    <3> QED BY <2>3, <3>1, <3>3
  <2> QED BY <2>4, <2>5
<1>5. CASE replayMu # "free" /\ wal' = Rest
  <2>1. replays <= Len(wal)
    BY <1>5 DEF Passed
  <2>2. /\ Rest \in Seq(Msg) /\ Len(Rest) = Len(wal) - replays /\ replays \in Nat
        /\ \A k \in 1..(Len(wal) - replays) : Rest[k] = wal[replays + k]
    BY <2>1, RestFacts
  <2>3. DOMAIN wal' = 1..(Len(wal) - replays)
    BY <1>5, <2>2, SliceFacts
  <2>4. \A k \in DOMAIN wal' : k \in Nat /\ replays + k \in DOMAIN wal /\ wal'[k] = wal[replays + k]
    BY <1>0, <1>5, <2>1, <2>2, <2>3
  <2>5. Elems(wal') \subseteq Elems(wal)
    BY <2>4 DEF Elems
  <2>6. \A i, k \in DOMAIN wal' : wal'[i] = m /\ wal'[k] = m => i = k
    <3> SUFFICES ASSUME NEW i \in DOMAIN wal', NEW k \in DOMAIN wal', wal'[i] = m, wal'[k] = m
                 PROVE  i = k
      OBVIOUS
    <3>1. replays + i = replays + k /\ i \in Nat /\ k \in Nat
      BY <1>2, <2>4
    <3> QED BY <2>2, <3>1
  <2> QED BY <1>1, <1>2, <2>5, <2>6
<1>6. \/ wal' = wal \/ (\E d \in Call : AppendWAL(d))
      \/ replayMu # "free" /\ wal' = Rest
  <2>1. ASSUME NEW d \in Call, Reject(d) \/ Caller(d) \/ Expire(d) \/ GiveUp(d), ~AppendWAL(d)
        PROVE  wal' = wal
    BY <2>1
       DEF Reject, Caller, Expire, GiveUp, Start, publishToRedis, Enqueue, EnqueueFallsBack,
           ContextDone, Receive, WaitFallsBack, DirectPublish, DirectFails, AppendFails, Sync,
           walVars, callVars
  <2>2. CASE ReplayBegins \/ ReplayPublishes \/ Close \/ UNCHANGED vars
    BY <2>2 DEF ReplayBegins, ReplayPublishes, Close, vars, walVars, callVars
  <2>3. CASE ReplayFails \/ ReplayEnds \/ RewriteFails
    BY <2>3 DEF ReplayFails, ReplayEnds, RewriteFails, ReplayReturns, Replaying
  <2>4. CASE Run
    BY <2>4 DEF Run, RunTick, RunJob, RunStop, Drain, DrainedFlush, DrainedKeep, StopFlush,
                Receives, ExecSucceeds, ExecFails, ExecReturns, walVars, callVars
  <2> QED BY <2>1, <2>2, <2>3, <2>4 DEF Next
<1> QED BY <1>3, <1>4, <1>5, <1>6

\* Copies(c) after a step that leaves the numbers of the message alone.
LEMMA CopiesSame ==
    ASSUME TypeOK, NEW c \in Call, Copies(c), call'[c].mode = "each",
           stream'[Only(c)] = stream[Only(c)], unsure'[Only(c)] = unsure[Only(c)],
           Unseen(c)' => Unseen(c)
    PROVE  Copies(c)'
<1>1. Only(c)' = Only(c)
  BY DEF Only
<1> QED BY <1>1 DEF Copies

\* The numbers of a message are numbers.
LEMMA CopyNumbers ==
    ASSUME TypeOK, NEW c \in Call \ Batch
    PROVE  /\ Only(c) \in Msg /\ stream[Only(c)] \in Nat /\ unsure[Only(c)] \in Nat
           /\ stream \in [Msg -> Nat] /\ unsure \in [Msg -> Nat]
           /\ Only(c)' = Only(c) /\ OnlyJob(c)' = OnlyJob(c)
BY SingleFacts DEF TypeOK, Only, OnlyJob

\* The call's own steps keep Copies: it publishes again only what it has not seen
\* published.
LEMMA CopiesOwn ==
    ASSUME TypeOK, NEW c \in Call \ Batch, Copies(c), EntryOnce(c), Reject(c) \/ Caller(c)
    PROVE  Copies(c)'
<1> DEFINE m == Only(c)
<1>0. /\ m \in Msg /\ stream[m] \in Nat /\ unsure[m] \in Nat
      /\ stream \in [Msg -> Nat] /\ unsure \in [Msg -> Nat]
      /\ Cur(c) = m /\ CurJob(c) = OnlyJob(c) /\ call[c].mode = "each"
      /\ stream[m] <= 1 + unsure[m] /\ (Unseen(c) => stream[m] <= unsure[m])
  BY CopyNumbers, SingleFacts DEF Copies
<1>1. call'[c].mode = "each"
  BY <1>0, OwnStep
<1> SUFFICES stream'[m] <= 1 + unsure'[m] /\ (Unseen(c)' => stream'[m] <= unsure'[m])
  BY <1>1, CopyNumbers DEF Copies
<1>2. call[c].pc # "return" => m \notin Elems(wal)
  BY DEF EntryOnce
<1>3. m \notin Elems(wal) /\ wal' = wal => ~InLog(c)'
  BY CopyNumbers DEF InLog, Elems
<1> HIDE DEF m
<1>4. CASE Reject(c) \/ Start(c) \/ publishToRedis(c) \/ Enqueue(c) \/ EnqueueFallsBack(c)
           \/ WaitFallsBack(c) \/ AppendFails(c) \/ AppendWAL(c)
  <2>1. UNCHANGED <<stream, unsure>>
    BY <1>4 DEF Reject, Start, publishToRedis, Enqueue, EnqueueFallsBack, WaitFallsBack,
                AppendFails, AppendWAL
  <2>2. Unseen(c)
    BY <1>0, <1>4 DEF Reject, Start, publishToRedis, Enqueue, EnqueueFallsBack, WaitFallsBack,
                AppendFails, AppendWAL, Unseen
  <2> QED BY <1>0, <2>1, <2>2
<1>5. CASE ContextDone(c)
  <2>1. stream' = stream
    BY <1>5 DEF ContextDone
  <2>2. CASE call[c].pc = "wait" /\ result[OnlyJob(c)] = "ok"
    <3>1. unsure' = Add(unsure, {m})
      BY <1>0, <1>5, <2>2 DEF ContextDone
    <3>2. unsure'[m] = unsure[m] + 1
      BY <1>0, <3>1, AddFacts
    <3> QED BY <1>0, <2>1, <3>2
  <2>3. CASE ~(call[c].pc = "wait" /\ result[OnlyJob(c)] = "ok")
    <3>1. unsure' = unsure /\ Unseen(c)
      BY <1>0, <1>5, <2>3 DEF ContextDone, Unseen
    <3> QED BY <1>0, <2>1, <3>1
  <2> QED BY <2>2, <2>3
<1>6. CASE Receive(c)
  <2>1. UNCHANGED <<stream, unsure, wal>> /\ call[c].pc = "wait"
    BY <1>6 DEF Receive, walVars
  <2>2. CASE result[OnlyJob(c)] = "ok"
    <3>1. call'[c].pc = "sync"
      BY <1>0, <1>6, <2>2, OwnStep
    <3>2. ~Unseen(c)'
      BY <1>2, <1>3, <2>1, <3>1 DEF Unseen
    <3> QED BY <1>0, <2>1, <3>2
  <2>3. CASE result[OnlyJob(c)] # "ok"
    <3>1. Unseen(c)
      BY <2>1, <2>3 DEF Unseen
    <3> QED BY <1>0, <2>1, <3>1
  <2> QED BY <2>2, <2>3
<1>7. CASE DirectPublish(c)
  <2>1. stream' = Add(stream, {m}) /\ unsure' = unsure /\ wal' = wal /\ call[c].pc = "direct"
    BY <1>0, <1>7 DEF DirectPublish, walVars
  <2>2. call'[c].pc = "sync"
    BY <1>0, <1>7, OwnStep
  <2>3. ~Unseen(c)' /\ Unseen(c)
    BY <1>2, <1>3, <2>1, <2>2 DEF Unseen
  <2>4. stream'[m] = stream[m] + 1
    BY <1>0, <2>1, AddFacts
  <2> QED BY <1>0, <2>1, <2>3, <2>4
<1>8. CASE DirectFails(c)
  <2>1. PICK done : stream' = Add(stream, done) /\ unsure' = Add(unsure, done)
    BY <1>8 DEF DirectFails
  <2>2. Unseen(c)
    BY <1>8 DEF DirectFails, Unseen
  <2>3. \/ stream'[m] = stream[m] /\ unsure'[m] = unsure[m]
        \/ stream'[m] = stream[m] + 1 /\ unsure'[m] = unsure[m] + 1
    BY <1>0, <2>1, AddFacts
  <2> QED BY <1>0, <2>2, <2>3
<1>9. CASE Sync(c)
  <2>1. UNCHANGED <<stream, unsure, wal>> /\ call[c].pc = "sync"
    BY <1>9 DEF Sync
  <2>2. call'[c].pc \in {"replay", "return"}
    BY <1>0, <1>9, OwnStep
  <2>3. ~Unseen(c)'
    BY <1>2, <1>3, <2>1, <2>2 DEF Unseen
  <2> QED BY <1>0, <2>1, <2>3
<1> QED BY <1>4, <1>5, <1>6, <1>7, <1>8, <1>9 DEF Caller

\* The steps of other calls keep Copies: they publish other messages.
LEMMA CopiesOther ==
    ASSUME TypeOK, NEW c \in Call \ Batch, Copies(c), NEW d \in Call, d # c, Reject(d) \/ Caller(d)
    PROVE  Copies(c)'
<1> DEFINE m == Only(c)
<1>0. /\ m \in Msg /\ stream \in [Msg -> Nat] /\ unsure \in [Msg -> Nat]
      /\ Only(c)' = m /\ OnlyJob(c)' = OnlyJob(c) /\ call[c].mode = "each" /\ Cur(d) # m
  BY CopyNumbers, SingleFacts DEF Copies
<1>1. call'[c] = call[c]
  BY OthersStay
<1>2. \A f \in [Msg -> Nat] : Add(f, {Cur(d)})[m] = f[m] /\ Add(f, {})[m] = f[m]
  BY <1>0, AddFacts
<1>3. stream'[m] = stream[m] /\ unsure'[m] = unsure[m]
  <2>1. stream' \in {stream, Add(stream, {Cur(d)}), Add(stream, {})}
        /\ unsure' \in {unsure, Add(unsure, {Cur(d)}), Add(unsure, {})}
    BY DEF Reject, Caller, Start, publishToRedis, Enqueue, EnqueueFallsBack, ContextDone, Receive,
           WaitFallsBack, DirectPublish, DirectFails, AppendWAL, AppendFails, Sync
  <2> QED BY <1>0, <1>2, <2>1
<1>4. result' = result
  BY DEF Reject, Caller, Start, publishToRedis, Enqueue, EnqueueFallsBack, ContextDone, Receive,
         WaitFallsBack, DirectPublish, DirectFails, AppendWAL, AppendFails, Sync, pipeVars
<1>5. InLog(c)' => InLog(c)
  <2>1. CASE UNCHANGED walVars
    BY <1>0, <2>1 DEF InLog, walVars
  <2>2. CASE AppendWAL(d)
    <3>1. wal' = Append(wal, Cur(d)) /\ replayMu = "free" /\ wal \in Seq(Msg) /\ Cur(d) \in Msg
      BY <2>2, CallFacts DEF AppendWAL, TypeOK
    <3>2. /\ DOMAIN wal' = 1..(Len(wal) + 1) /\ DOMAIN wal = 1..Len(wal) /\ Len(wal) \in Nat
          /\ \A i \in 1..Len(wal) : wal'[i] = wal[i]
          /\ wal'[Len(wal) + 1] = Cur(d)
      BY <3>1, AppendFacts
    <3>3. \A i \in DOMAIN wal' : wal'[i] = m => i \in DOMAIN wal /\ wal[i] = m
      BY <1>0, <3>2
    <3> QED BY <1>0, <3>1, <3>3 DEF InLog
  <2>3. CASE Sync(d) /\ replayMu = "free"
    BY <1>0, <2>3 DEF Sync, InLog
  <2>4. UNCHANGED walVars \/ AppendWAL(d) \/ (Sync(d) /\ replayMu = "free")
    <3>1. CASE Sync(d)
      BY <3>1 DEF Sync, walVars
    <3>2. CASE ~Sync(d)
      BY <3>2 DEF Reject, Caller, Start, publishToRedis, Enqueue, EnqueueFallsBack, ContextDone,
                  Receive, WaitFallsBack, DirectPublish, DirectFails, AppendFails, walVars
    <3> QED BY <3>1, <3>2
  <2> QED BY <2>1, <2>2, <2>3, <2>4
<1>6. Unseen(c)' => Unseen(c)
  BY <1>0, <1>1, <1>4, <1>5 DEF Unseen
<1> QED BY <1>0, <1>1, <1>3, <1>6, CopiesSame

\* A replay that returns keeps Copies: what it wrote to Redis and kept in the log
\* all the same is counted.
LEMMA CopiesReplayReturns ==
    ASSUME TypeOK, Passed, NEW c \in Call \ Batch, Copies(c), replayMu # "free",
           NEW done, done = {} \/ (Replaying /\ done = {wal[replays + 1]}),
           \A x \in Msg : stream'[x] = IF x \in done THEN stream[x] + 1 ELSE stream[x],
           ReplayReturns(Rest, done) \/ ReplayReturns(wal, done \cup Replayed),
           result' = result, call'[c] = call[c] \/ call'[c].pc = "return", call'[c].mode = "each"
    PROVE  Copies(c)'
<1> DEFINE m == Only(c)
<1>0. /\ m \in Msg /\ stream[m] \in Nat /\ unsure[m] \in Nat /\ unsure \in [Msg -> Nat]
      /\ Only(c)' = m /\ OnlyJob(c)' = OnlyJob(c)
      /\ stream[m] <= 1 + unsure[m] /\ (Unseen(c) => stream[m] <= unsure[m])
  BY CopyNumbers DEF Copies
<1>1. wal \in Seq(Msg) /\ DOMAIN wal = 1..Len(wal) /\ Len(wal) \in Nat /\ replays \in Nat
      /\ replays <= Len(wal)
  BY DEF TypeOK, Passed
<1>2. PICK again : /\ unsure' = Add(unsure, again) /\ replayMu' = "free"
                   /\ \/ wal' = Rest /\ again = done
                      \/ wal' = wal /\ again = done \cup Replayed
  BY DEF ReplayReturns
<1>3. m \in done => InLog(c)
  <2> SUFFICES ASSUME m \in done PROVE InLog(c)
    OBVIOUS
  <2>1. wal[replays + 1] = m /\ replays < Len(wal)
    BY DEF Replaying
  <2>2. replays + 1 \in DOMAIN wal /\ replays + 1 > replays
    BY <1>1, <2>1
  <2> QED BY <2>1, <2>2 DEF InLog
<1>4. m \notin again => (InLog(c)' => InLog(c))
  <2> SUFFICES ASSUME m \notin again, NEW i \in DOMAIN wal', wal'[i] = m PROVE InLog(c)
    BY <1>0 DEF InLog
  <2>1. CASE wal' = Rest
    <3>1. /\ Rest \in Seq(Msg) /\ Len(Rest) = Len(wal) - replays
          /\ \A k \in 1..(Len(wal) - replays) : Rest[k] = wal[replays + k]
      BY <1>1, RestFacts
    <3>2. DOMAIN wal' = 1..(Len(wal) - replays)
      BY <2>1, <3>1, SliceFacts
    <3>3. replays + i \in DOMAIN wal /\ wal[replays + i] = m /\ replays + i > replays
      BY <1>1, <2>1, <3>1, <3>2
    <3> QED BY <3>3 DEF InLog
  <2>2. CASE wal' = wal /\ again = done \cup Replayed
    <3>1. i \notin 1..replays
      BY <2>2 DEF Replayed
    <3>2. i \in DOMAIN wal /\ i \in Nat \ {0} /\ wal[i] = m
      BY <1>1, <2>2
    <3>3. i > replays
      BY <1>1, <3>1, <3>2
    <3> QED BY <3>2, <3>3 DEF InLog
  <2> QED BY <1>2, <2>1, <2>2
<1>5. m \notin again => (Unseen(c)' => Unseen(c))
  BY <1>0, <1>4 DEF Unseen
<1> SUFFICES stream'[m] <= 1 + unsure'[m] /\ (Unseen(c)' => stream'[m] <= unsure'[m])
  BY <1>0 DEF Copies
<1> HIDE DEF m
<1>6. unsure'[m] = IF m \in again THEN unsure[m] + 1 ELSE unsure[m]
  BY <1>0, <1>2, AddFacts
<1>7. stream'[m] = IF m \in done THEN stream[m] + 1 ELSE stream[m]
  BY <1>0
<1>8. CASE m \in done
  <2>1. m \in again /\ Unseen(c)
    BY <1>2, <1>3, <1>8 DEF Unseen
  <2>2. stream'[m] = stream[m] + 1 /\ unsure'[m] = unsure[m] + 1
    BY <1>6, <1>7, <1>8, <2>1
  <2> QED BY <1>0, <2>1, <2>2
<1>9. CASE m \notin done /\ m \in again
  <2>1. stream'[m] = stream[m] /\ unsure'[m] = unsure[m] + 1
    BY <1>6, <1>7, <1>9
  <2> QED BY <1>0, <2>1
<1>10. CASE m \notin done /\ m \notin again
  <2>1. stream'[m] = stream[m] /\ unsure'[m] = unsure[m]
    BY <1>6, <1>7, <1>10
  <2> QED BY <1>0, <1>5, <1>10, <2>1
<1> QED BY <1>8, <1>9, <1>10

\* The steps of a replay keep Copies.
LEMMA CopiesReplay ==
    ASSUME TypeOK, Passed, [Next]_vars, NEW c \in Call \ Batch, Copies(c), EntryOnce(c),
           ReplayBegins \/ ReplayPublishes \/ ReplayFails \/ ReplayEnds \/ RewriteFails
    PROVE  Copies(c)'
<1> DEFINE m == Only(c)
<1>0. /\ m \in Msg /\ stream[m] \in Nat /\ unsure[m] \in Nat
      /\ stream \in [Msg -> Nat] /\ unsure \in [Msg -> Nat]
      /\ Only(c)' = m /\ OnlyJob(c)' = OnlyJob(c) /\ call[c].mode = "each"
      /\ stream[m] <= 1 + unsure[m] /\ (Unseen(c) => stream[m] <= unsure[m])
  BY CopyNumbers DEF Copies
<1>1. CASE ReplayBegins
  <2>1. UNCHANGED <<call, wal, stream, unsure, result>> /\ replayMu = "free"
    BY <1>1 DEF ReplayBegins, pipeVars
  <2>2. Unseen(c)' => Unseen(c)
    BY <1>0, <2>1 DEF Unseen, InLog
  <2> QED BY <1>0, <2>1, <2>2, CopiesSame
<1>2. CASE ReplayPublishes
  <2>1. /\ UNCHANGED <<call, wal, unsure, result, replayMu>>
        /\ replayMu # "free" /\ replays < Len(wal) /\ replays' = replays + 1
        /\ stream' = Add(stream, {wal[replays + 1]})
    BY <1>2 DEF ReplayPublishes, Replaying, pipeVars
  <2>2. wal \in Seq(Msg) /\ DOMAIN wal = 1..Len(wal) /\ Len(wal) \in Nat /\ replays \in Nat
    BY DEF TypeOK
  <2>3. replays + 1 \in DOMAIN wal /\ replays + 1 > replays
        /\ \A i \in DOMAIN wal : i > replays + 1 => i > replays /\ i # replays + 1
    BY <2>1, <2>2
  <2>4. CASE wal[replays + 1] = m
    <3>1. InLog(c) /\ call[c].pc = "return"
      BY <2>3, <2>4 DEF InLog, EntryOnce, Elems
    <3>2. ~InLog(c)'
      BY <1>0, <2>1, <2>3, <2>4 DEF InLog, EntryOnce
    <3>3. ~Unseen(c)' /\ Unseen(c)
      BY <2>1, <3>1, <3>2 DEF Unseen
    <3>4. stream'[m] = stream[m] + 1 /\ unsure'[m] = unsure[m]
      BY <1>0, <2>1, <2>4, AddFacts
    <3>5. stream'[m] <= 1 + unsure'[m]
      BY <1>0, <3>3, <3>4
    <3> QED BY <1>0, <2>1, <3>3, <3>5 DEF Copies
  <2>5. CASE wal[replays + 1] # m
    <3>1. stream'[m] = stream[m]
      BY <1>0, <2>1, <2>5, AddFacts
    <3>2. InLog(c)' => InLog(c)
      BY <1>0, <2>1, <2>3 DEF InLog
    <3>3. Unseen(c)' => Unseen(c)
      BY <1>0, <2>1, <3>2 DEF Unseen
    <3> QED BY <1>0, <2>1, <3>1, <3>3, CopiesSame
  <2> QED BY <2>4, <2>5
<1>3. CASE ReplayFails \/ ReplayEnds \/ RewriteFails
  <2>1. replayMu # "free" /\ result' = result
    BY <1>3 DEF ReplayFails, ReplayEnds, RewriteFails, Replaying, pipeVars
  <2>2. call'[c].mode = "each" /\ (call'[c] = call[c] \/ call'[c].pc = "return")
    <3>1. PICK kept, again : ReplayReturns(kept, again)
      BY <1>3 DEF ReplayFails, ReplayEnds, RewriteFails
    <3>2. IF c = replayMu THEN call'[c] = AfterSync(c) ELSE call'[c] = call[c]
      BY <3>1, ReplayMoves
    <3>3. AfterSync(c) = NextMsg(c) /\ Last(c)
      BY <1>0, SingleFacts DEF AfterSync
    <3>4. NextMsg(c).pc = "return" /\ NextMsg(c).mode = "each"
      BY <1>0, <3>3, NextMsgIs DEF Is
    <3> QED BY <1>0, <3>2, <3>3, <3>4
  <2>3. CASE ReplayFails
    <3>1. PICK done : /\ done = {} \/ done = {wal[replays + 1]}
                      /\ stream' = Add(stream, done)
                      /\ ReplayReturns(Rest, done) \/ ReplayReturns(wal, done \cup Replayed)
      BY <2>3 DEF ReplayFails
    <3>2. Replaying
      BY <2>3 DEF ReplayFails
    <3>3. \A x \in Msg : stream'[x] = IF x \in done THEN stream[x] + 1 ELSE stream[x]
      BY <1>0, <3>1, AddFacts
    <3> QED BY <2>1, <2>2, <3>1, <3>2, <3>3, CopiesReplayReturns
  <2>4. CASE ReplayEnds \/ RewriteFails
    <3>1. PICK done : done = {}
      OBVIOUS
    <3>2. done \cup Replayed = Replayed
      BY <3>1
    <3>3. ReplayReturns(Rest, done) \/ ReplayReturns(wal, done \cup Replayed)
      BY <2>4, <3>1, <3>2 DEF ReplayEnds, RewriteFails
    <3>4. \A x \in Msg : stream'[x] = IF x \in done THEN stream[x] + 1 ELSE stream[x]
      BY <2>4, <3>1 DEF ReplayEnds, RewriteFails
    <3> QED BY <2>1, <2>2, <3>1, <3>3, <3>4, CopiesReplayReturns
  <2> QED BY <1>3, <2>3, <2>4
<1> QED BY <1>1, <1>2, <1>3

\* The pipeline keeps Copies: a job that runs for a call that no longer waits for
\* it, and one that fails, count as copies nobody learned of.
LEMMA CopiesRun ==
    ASSUME TypeOK, NEW c \in Call \ Batch, Copies(c), JobOnce(c), EntryOnce(c), Run
    PROVE  Copies(c)'
<1> DEFINE m == Only(c)
           j == OnlyJob(c)
<1>0. /\ m \in Msg /\ stream[m] \in Nat /\ unsure[m] \in Nat
      /\ stream \in [Msg -> Nat] /\ unsure \in [Msg -> Nat]
      /\ Only(c)' = m /\ OnlyJob(c)' = j /\ call[c].mode = "each"
      /\ stream[m] <= 1 + unsure[m] /\ (Unseen(c) => stream[m] <= unsure[m])
      /\ j \in Job /\ j[1] = m /\ CurJob(c) = j
  BY CopyNumbers, SingleFacts DEF Copies, OnlyJob
<1>1. UNCHANGED <<call, wal, replayMu, replays>>
  <2>1. UNCHANGED callVars
    BY DEF Run, RunTick, RunJob, RunStop, Drain, DrainedFlush, DrainedKeep, StopFlush,
           Receives, ExecSucceeds, ExecFails, ExecReturns
  <2> QED BY <2>1 DEF callVars, walVars
<1>2. InLog(c)' <=> InLog(c)
  BY <1>0, <1>1 DEF InLog
<1>3. InLog(c) => call[c].pc = "return"
  BY DEF InLog, EntryOnce, Elems
<1>4. j \in Elems(buffer) \cup Elems(flight) => result[j] = "none"
  BY DEF JobOnce, InPipe
<1>5. (result'[j] # "ok" => result[j] # "ok") => (Unseen(c)' => Unseen(c))
  BY <1>0, <1>1, <1>2 DEF Unseen
<1> HIDE DEF m, j
<1>6. CASE RunTick \/ DrainedFlush \/ StopFlush
  <2>1. UNCHANGED <<stream, unsure>>
    BY <1>6 DEF RunTick, DrainedFlush, StopFlush
  <2>2. result'[j] # "ok" => result[j] # "ok"
    <3>1. \E after : Flush(after)
      BY <1>6 DEF RunTick, DrainedFlush, StopFlush
    <3>2. result'[j] = IF j \in Elems(buffer) \cap dead THEN "deadline" ELSE result[j]
      BY <1>0, <3>1, FlushFacts
    <3> QED BY <1>4, <3>2
  <2> QED BY <1>0, <1>1, <1>5, <2>1, <2>2, CopiesSame
<1>7. CASE RunJob \/ RunStop \/ Drain \/ DrainedKeep
  <2>1. UNCHANGED <<stream, unsure, result>>
    BY <1>7 DEF RunJob, RunStop, Drain, DrainedKeep, Receives
  <2> QED BY <1>0, <1>1, <1>5, <2>1, CopiesSame
<1>8. CASE ExecSucceeds
  <2> DEFINE S == {i[1] : i \in Elems(flight)}
             T == {i[1] : i \in {k \in Elems(flight) : ~Awaited(k)}}
  <2>1. /\ stream' = Add(stream, S) /\ unsure' = Add(unsure, T)
        /\ result'[j] = IF j \in Elems(flight) THEN "ok" ELSE result[j]
    BY <1>0, <1>8 DEF ExecSucceeds, ExecReturns
  <2>2. T \subseteq S /\ (j \in Elems(flight) => m \in S)
    BY <1>0
  <2>3. m \in S /\ m \notin T => j \in Elems(flight) /\ call[c].pc = "wait"
    <3> SUFFICES ASSUME NEW i \in Elems(flight), i[1] = m, m \notin T
                 PROVE  j \in Elems(flight) /\ call[c].pc = "wait"
      OBVIOUS
    <3>1. Awaited(i)
      OBVIOUS
    <3>2. PICK d \in Call : call[d].pc = "wait" /\ CurJob(d) = i
      BY <3>1 DEF Awaited
    <3>3. Cur(d) = m
      BY <3>2, CallFacts
    <3>4. d = c
      BY <3>3, SingleFacts DEF m
    <3> QED BY <1>0, <3>2, <3>4
  <2> HIDE DEF S, T
  <2>4. /\ stream'[m] = IF m \in S THEN stream[m] + 1 ELSE stream[m]
        /\ unsure'[m] = IF m \in T THEN unsure[m] + 1 ELSE unsure[m]
    BY <1>0, <2>1, AddFacts
  <2>5. result'[j] # "ok" => result[j] # "ok"
    BY <2>1
  <2>6. CASE m \notin S
    <3>1. stream'[m] = stream[m] /\ unsure'[m] = unsure[m]
      BY <2>2, <2>4, <2>6
    <3> QED BY <1>0, <1>1, <1>5, <2>5, <3>1, CopiesSame DEF m
  <2>7. CASE m \in T
    <3>1. stream'[m] = stream[m] + 1 /\ unsure'[m] = unsure[m] + 1
      BY <2>2, <2>4, <2>7
    <3>2. stream'[m] <= 1 + unsure'[m] /\ (Unseen(c)' => stream'[m] <= unsure'[m])
      BY <1>0, <1>5, <2>5, <3>1
    <3> QED BY <1>0, <1>1, <3>2 DEF Copies
  <2>8. CASE m \in S /\ m \notin T
    <3>1. j \in Elems(flight) /\ call[c].pc = "wait"
      BY <2>3, <2>8
    <3>2. result[j] = "none" /\ result'[j] = "ok"
      BY <1>4, <2>1, <3>1
    <3>3. Unseen(c) /\ ~Unseen(c)'
      BY <1>0, <1>1, <1>2, <1>3, <3>1, <3>2 DEF Unseen, j
    <3>4. stream'[m] = stream[m] + 1 /\ unsure'[m] = unsure[m]
      BY <2>4, <2>8
    <3>5. stream'[m] <= 1 + unsure'[m]
      BY <1>0, <3>3, <3>4
    <3> QED BY <1>0, <1>1, <3>3, <3>5 DEF Copies
  <2> QED BY <2>6, <2>7, <2>8
<1>9. CASE ExecFails
  <2>1. PICK err, done : /\ err \in {"deadline", "other"} /\ ExecReturns(err, done)
                         /\ unsure' = Add(unsure, {i[1] : i \in done})
    BY <1>9 DEF ExecFails
  <2> DEFINE S == {i[1] : i \in done}
  <2>2. /\ stream' = Add(stream, S) /\ unsure' = Add(unsure, S)
        /\ result'[j] = IF j \in Elems(flight) THEN err ELSE result[j]
    BY <1>0, <2>1 DEF ExecReturns
  <2> HIDE DEF S
  <2>3. result'[j] # "ok" => result[j] # "ok"
    BY <1>4, <2>1, <2>2
  <2>4. \/ stream'[m] = stream[m] /\ unsure'[m] = unsure[m]
        \/ stream'[m] = stream[m] + 1 /\ unsure'[m] = unsure[m] + 1
    BY <1>0, <2>2, AddFacts
  <2>5. stream'[m] <= 1 + unsure'[m] /\ (Unseen(c)' => stream'[m] <= unsure'[m])
    BY <1>0, <1>5, <2>3, <2>4
  <2> QED BY <1>0, <1>1, <2>5 DEF Copies
<1> QED BY <1>6, <1>7, <1>8, <1>9 DEF Run

\* Every step keeps CopyInv.
LEMMA CopyNext == TypeOK /\ DrainInv /\ HonestInv /\ CopyInv /\ [Next]_vars => CopyInv'
<1> SUFFICES ASSUME TypeOK, DrainInv, HonestInv, CopyInv, [Next]_vars, NEW c \in Call \ Batch
             PROVE  JobOnce(c)' /\ EntryOnce(c)' /\ Copies(c)'
  BY DEF CopyInv
<1>1. JobOnce(c) /\ EntryOnce(c) /\ Copies(c) /\ Passed /\ call[c].mode = "each"
  BY DEF CopyInv, Copies, HonestInv
<1>2. JobOnce(c)' /\ EntryOnce(c)'
  BY <1>1, JobOnceNext, EntryOnceNext
<1>3. CASE Reject(c) \/ Caller(c)
  BY <1>1, <1>2, <1>3, CopiesOwn
<1>4. ASSUME NEW d \in Call, d # c, Reject(d) \/ Caller(d) PROVE Copies(c)'
  BY <1>1, <1>4, CopiesOther
<1>5. CASE ReplayBegins \/ ReplayPublishes \/ ReplayFails \/ ReplayEnds \/ RewriteFails
  BY <1>1, <1>2, <1>5, CopiesReplay
<1>6. CASE Run
  BY <1>1, <1>2, <1>6, CopiesRun
<1>7. CASE Close \/ UNCHANGED vars \/ \E d \in Call : Expire(d) \/ GiveUp(d)
  <2>1. UNCHANGED <<call, wal, replayMu, replays, stream, unsure, result>>
    BY <1>7 DEF Close, vars, pipeVars, walVars, Expire, GiveUp, callVars
  <2>2. Unseen(c)' => Unseen(c)
    BY <2>1, CopyNumbers DEF Unseen, InLog
  <2> QED BY <1>1, <1>2, <2>1, <2>2, CopiesSame
<1> QED BY <1>2, <1>3, <1>4, <1>5, <1>6, <1>7 DEF Next

\* A single publish leaves at most one copy in Redis beyond those whose success
\* the sidecar was not told, for any number of calls, timeouts and replays.
THEOREM NoNeedlessCopyHolds == Spec => []NoNeedlessCopy
<1>1. Init => CopyInv
  <2> SUFFICES ASSUME Init, NEW c \in Call \ Batch PROVE JobOnce(c) /\ EntryOnce(c) /\ Copies(c)
    BY DEF CopyInv
  <2>1. /\ call[c].pc = "start" /\ call[c].mode = "each"
        /\ queue = <<>> /\ buffer = <<>> /\ flight = <<>> /\ wal = <<>>
        /\ result = [j \in Job |-> "none"]
        /\ stream = [m \in Msg |-> 0] /\ unsure = [m \in Msg |-> 0]
    BY DEF Init
  <2>2. Only(c) \in Msg /\ OnlyJob(c) \in Job
    BY TypeInit, SingleFacts
  <2>3. Elems(queue) = {} /\ Elems(buffer) = {} /\ Elems(flight) = {} /\ Elems(wal) = {}
        /\ DOMAIN queue = {} /\ DOMAIN wal = {}
    BY <2>1, ElemsEmpty
  <2>4. JobOnce(c) /\ EntryOnce(c)
    BY <2>1, <2>2, <2>3 DEF JobOnce, InPipe, EntryOnce
  <2>5. Copies(c)
    BY <2>1, <2>2 DEF Copies
  <2> QED BY <2>4, <2>5
<1>2. TypeOK /\ CopyInv => NoNeedlessCopy
  BY SingleFacts DEF CopyInv, Copies, NoNeedlessCopy
<1>3. Init => DrainInv /\ HonestInv
  BY DrainInit, HonestInit
<1> QED BY <1>1, <1>2, <1>3, TypeInit, TypeNext, DrainNext, HonestNext, CopyNext, PTL DEF Spec
=============================================================================
