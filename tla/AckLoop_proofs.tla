--------------------------- MODULE AckLoop_proofs ---------------------------
(***************************************************************************)
(* Proofs about acknowledgements, for any number of calls, any ids, and    *)
(* every size of queue, batch and pipeline.                                *)
(***************************************************************************)
EXTENDS AckLoop, DataLemmas, FunctionTheorems

-----------------------------------------------------------------------------
(* What a flush sends.                                                     *)

\* Division keeps the order, and one more divisor is one more in the result.
LEMMA DivOrder ==
    ASSUME NEW a \in Nat, NEW c \in Nat, NEW b \in Nat \ {0}, a <= c
    PROVE  /\ a \div b \in Nat /\ c \div b \in Nat /\ a \div b <= c \div b
           /\ (c + b) \div b = (c \div b) + 1
BY Z3

\* Sets of ids are finite.
LEMMA IdsFinite ==
    ASSUME NEW S, S \subseteq Id
    PROVE  IsFiniteSet(S) /\ Cardinality(S) \in Nat
BY AckAssumption, FS_Subset, FS_CardinalityType

\* The chunks of a set of ids: each id is in exactly one of them.
LEMMA ChunksCover ==
    ASSUME NEW S, S \subseteq Id
    PROVE  /\ chunkStringSlice(S) \in Seq(SUBSET Id)
           /\ UNION Elems(chunkStringSlice(S)) = S
           /\ \A n, k \in DOMAIN chunkStringSlice(S) :
                n # k => chunkStringSlice(S)[n] \cap chunkStringSlice(S)[k] = {}
<1> DEFINE N == Cardinality(S)
           K == (N + BatchSize - 1) \div BatchSize
           q(i) == (Rank(S, i) - 1) \div BatchSize
           ch == chunkStringSlice(S)
<1>1. IsFiniteSet(S) /\ N \in Nat /\ BatchSize \in Nat \ {0} /\ Id \subseteq Nat
  BY IdsFinite, AckAssumption DEF Loaded
<1>2. ASSUME NEW i \in S PROVE q(i) \in Nat /\ q(i) + 1 \in 1..K /\ K \in Nat
  <2> DEFINE B == {k \in S : k <= i}
  <2>1. B \in SUBSET S /\ i \in B
    BY <1>1
  <2>2. Cardinality(B) \in Nat /\ Cardinality(B) <= N /\ IsFiniteSet(B)
    BY <1>1, <2>1, FS_Subset, FS_CardinalityType
  <2>3. Cardinality(B) # 0
    BY <2>1, <2>2, FS_EmptySet
  <2>4. Rank(S, i) = Cardinality(B)
    BY DEF Rank
  <2> DEFINE r == Rank(S, i) - 1
  <2>5. r \in Nat /\ N - 1 \in Nat /\ r <= N - 1
    BY <1>1, <2>2, <2>3, <2>4
  <2>6. N + BatchSize - 1 = (N - 1) + BatchSize
    BY <1>1
  <2> HIDE DEF r, N
  <2>7. /\ r \div BatchSize \in Nat /\ (N - 1) \div BatchSize \in Nat
        /\ r \div BatchSize <= (N - 1) \div BatchSize
        /\ ((N - 1) + BatchSize) \div BatchSize = ((N - 1) \div BatchSize) + 1
    BY <1>1, <2>5, DivOrder
  <2> QED BY <2>6, <2>7 DEF r
<1>3. K \in Nat
  <2>1. N + BatchSize - 1 \in Nat
    BY <1>1
  <2> QED BY <1>1, <2>1, DivOrder
<1>4. ch = [n \in 1..K |-> {i \in S : q(i) = n - 1}]
  BY DEF chunkStringSlice
<1> HIDE DEF ch, K, q
<1>5. ch \in Seq(SUBSET Id)
  <2>1. ch \in [1..K -> SUBSET Id]
    BY <1>4
  <2> QED BY <1>3, <2>1
<1>6. DOMAIN ch = 1..K /\ \A n \in 1..K : ch[n] = {i \in S : q(i) = n - 1}
  BY <1>4
<1>7. UNION Elems(ch) \subseteq S
  BY <1>6 DEF Elems
<1>8. ASSUME NEW i \in S PROVE i \in UNION Elems(ch)
  <2>1. q(i) + 1 \in DOMAIN ch /\ i \in ch[q(i) + 1]
    BY <1>2, <1>6
  <2> QED BY <2>1 DEF Elems
<1>9. ASSUME NEW n \in DOMAIN ch, NEW k \in DOMAIN ch, n # k PROVE ch[n] \cap ch[k] = {}
  <2> SUFFICES ASSUME NEW i \in ch[n], i \in ch[k] PROVE FALSE
    OBVIOUS
  <2>1. q(i) = n - 1 /\ q(i) = k - 1 /\ n \in Nat /\ k \in Nat
    BY <1>3, <1>6
  <2> QED BY <1>9, <2>1
<1> QED BY <1>5, <1>7, <1>8, <1>9 DEF ch

-----------------------------------------------------------------------------
(* Types.                                                                  *)

\* What a call queues.
LEMMA CleanedType ==
    ASSUME NEW c \in Call
    PROVE  /\ Cleaned(c) \in Seq(Id \ Blank)
           /\ Elems(Cleaned(c)) \subseteq Id \ Blank
BY AckAssumption, WithoutElems, ElemsFinite DEF Cleaned

\* The dispatcher starts with the types of TypeOK.
LEMMA TypeInit == Init => TypeOK
<1>1. <<>> \in Seq(Seq(Id \ Blank)) /\ <<>> \in Seq(SUBSET Id)
  OBVIOUS
<1>2. Len(<<>>) <= QueueSize /\ 0 \in Nat
  BY AckAssumption DEF Loaded
<1> QED BY <1>1, <1>2 DEF Init, TypeOK

\* What the loop takes from the queue.
LEMMA ReceivesFacts ==
    ASSUME TypeOK, Receives
    PROVE  LET ids == Elems(Head(queue)) IN
           /\ Head(queue) \in Seq(Id \ Blank) /\ queue' \in Seq(Seq(Id \ Blank))
           /\ Len(queue') = Len(queue) - 1 /\ Len(queue) \in Nat
           /\ ids \subseteq Id \ Blank /\ pending' = pending \cup ids
           /\ Len(Head(queue)) \in Nat /\ Cardinality(ids \ pending) \in Nat
           /\ Cardinality(ids \ pending) <= Len(Head(queue))
           /\ Cardinality(pending \cup ids) = Cardinality(pending) + Cardinality(ids \ pending)
           /\ Elems(queue) = Elems(queue') \cup {Head(queue)}
<1> DEFINE ids == Elems(Head(queue))
<1>1. queue \in Seq(Seq(Id \ Blank)) /\ queue # <<>> /\ queue' = Tail(queue)
      /\ pending' = pending \cup ids /\ pending \subseteq Id \ Blank
  BY DEF TypeOK, Receives
<1>2. /\ Head(queue) \in Seq(Id \ Blank) /\ queue' \in Seq(Seq(Id \ Blank))
      /\ Len(queue') = Len(queue) - 1 /\ Len(queue) \in Nat
      /\ Elems(queue) = Elems(queue') \cup {Head(queue)}
  BY <1>1, ElemsHeadTail
<1>3. /\ ids \subseteq Id \ Blank /\ IsFiniteSet(ids)
      /\ Cardinality(ids) \in Nat /\ Cardinality(ids) <= Len(Head(queue))
      /\ Len(Head(queue)) \in Nat
  BY <1>2, ElemsFinite
<1>4. /\ IsFiniteSet(ids \ pending) /\ Cardinality(ids \ pending) \in Nat
      /\ Cardinality(ids \ pending) <= Cardinality(ids)
  <2>1. ids \ pending \in SUBSET ids
    OBVIOUS
  <2> QED BY <1>3, <2>1, FS_Subset, FS_CardinalityType
<1>5. Cardinality(pending \cup ids) = Cardinality(pending) + Cardinality(ids \ pending)
  <2>1. IsFiniteSet(pending) /\ Cardinality(pending) \in Nat
    BY <1>1, IdsFinite
  <2> DEFINE D == ids \ pending
  <2>2. pending \cup ids = pending \cup D /\ pending \cap D = {}
    OBVIOUS
  <2> HIDE DEF D, ids
  <2>3. Cardinality(pending \cup D) = Cardinality(pending) + Cardinality(D) - Cardinality(pending \cap D)
    BY <1>4, <2>1, FS_Union DEF D
  <2>4. Cardinality(pending \cap D) = 0 /\ Cardinality(D) \in Nat
    BY <1>4, <2>2, FS_EmptySet DEF D
  <2>5. Cardinality(pending \cup D) = Cardinality(pending) + Cardinality(D)
    BY <2>1, <2>3, <2>4
  <2> QED BY <2>2, <2>5 DEF D
<1> QED BY <1>1, <1>2, <1>3, <1>4, <1>5

\* Every step of a call, the ack loop or the end of the dispatcher keeps the
\* types.
LEMMA TypeStep == TypeOK /\ [Next]_vars => TypeOK'
<1> SUFFICES ASSUME TypeOK, [Next]_vars PROVE TypeOK'
  OBVIOUS
<1> USE DEF loopVars, lifeVars, statVars, histVars
<1>1. ASSUME NEW c \in Call, QueueAck(c) \/ ackEntries(c) \/ Reject(c) \/ queueAckFails(c) PROVE TypeOK'
  BY <1>1 DEF QueueAck, ackEntries, Reject, queueAckFails, Answer, TypeOK
<1>2. ASSUME NEW c \in Call, queueAck(c) PROVE TypeOK'
  <2>1. /\ queue' = Append(queue, Cleaned(c)) /\ Len(queue) < QueueSize
        /\ queue \in Seq(Seq(Id \ Blank)) /\ QueueSize \in Nat
    BY <1>2, AckAssumption DEF queueAck, TypeOK, Loaded
  <2>2. queue' \in Seq(Seq(Id \ Blank)) /\ Len(queue') <= QueueSize
    BY <2>1, CleanedType
  <2> QED BY <1>2, <2>2 DEF queueAck, Answer, TypeOK
<1>3. ASSUME NEW c \in Call, ackEntriesInternal(c) PROVE TypeOK'
  <2>1. Cardinality(pel \cap Elems(Reqs[c])) \in Nat
    BY IdsFinite DEF TypeOK
  <2> QED BY <1>3, <2>1 DEF ackEntriesInternal, Answer, TypeOK
<1>4. ASSUME NEW c \in Call, ackEntriesFails(c) PROVE TypeOK'
  BY <1>4 DEF ackEntriesFails, Answer, TypeOK
<1>5. ASSUME Receives, lpc' \in {"drain", lpc} PROVE TypeOK'
  <2>1. /\ repeats' = repeats + Len(Head(queue)) - Cardinality(Elems(Head(queue)) \ pending)
        /\ inputs' = inputs + Len(Head(queue))
    BY <1>5 DEF Receives
  <2>2. repeats' \in Nat /\ inputs' \in Nat
    <3> DEFINE n == Len(Head(queue))
               fresh == Cardinality(Elems(Head(queue)) \ pending)
    <3>1. n \in Nat /\ fresh \in Nat /\ fresh <= n
      BY <1>5, ReceivesFacts
    <3>2. repeats \in Nat /\ inputs \in Nat
      BY DEF TypeOK
    <3> HIDE DEF n, fresh
    <3>3. repeats' = repeats + n - fresh /\ inputs' = inputs + n
      BY <2>1 DEF n, fresh
    <3> QED BY <3>1, <3>2, <3>3
  <2>3. pending' \subseteq Id \ Blank /\ queue' \in Seq(Seq(Id \ Blank)) /\ Len(queue') <= QueueSize
    <3>1. Len(queue) <= QueueSize /\ QueueSize \in Nat /\ pending \subseteq Id \ Blank
      BY AckAssumption DEF TypeOK, Loaded
    <3>2. Len(queue') = Len(queue) - 1 /\ Len(queue) \in Nat /\ queue' \in Seq(Seq(Id \ Blank))
      BY <1>5, ReceivesFacts
    <3>3. Len(queue') <= QueueSize
      BY <3>1, <3>2
    <3> QED BY <1>5, <3>1, <3>2, <3>3, ReceivesFacts
  <2> QED BY <1>5, <2>2, <2>3 DEF Receives, TypeOK
<1>6. CASE LoopReceives \/ Drain
  BY <1>5, <1>6 DEF LoopReceives, Drain
<1>7. CASE LoopTicks \/ LoopStops
  BY <1>7 DEF LoopTicks, LoopStops, TypeOK
<1>8. CASE Drained
  <2>1. chunkStringSlice(pending) \in Seq(SUBSET Id) /\ Cardinality(pending) \in Nat
    BY ChunksCover, IdsFinite DEF TypeOK
  <2> QED BY <1>8, <2>1 DEF Drained, TypeOK
<1>9. CASE flushAckChunkBatch
  <2>1. Acked(UNION Now) \in Nat
    BY IdsFinite DEF TypeOK, Acked
  <2>2. chunks' \in Seq(SUBSET Id)
    <3>1. chunks' = SubSeq(chunks, FlushConcurrency + 1, Len(chunks))
      BY <1>9 DEF flushAckChunkBatch
    <3> QED BY <3>1, AckAssumption DEF TypeOK, Loaded
  <2> QED BY <1>9, <2>1, <2>2 DEF flushAckChunkBatch, TypeOK
<1>10. ASSUME NEW done, ExecReturnsError(done) PROVE TypeOK'
  BY <1>10 DEF ExecReturnsError, FlushReturns, InFlush, TypeOK
<1>11. CASE ExecRejected \/ ExecFails
  BY <1>10, <1>11 DEF ExecRejected, ExecFails
<1>12. CASE FlushEnds
  <2>1. Cardinality(pending) \in Nat
    BY IdsFinite DEF TypeOK
  <2>2. ObserveDispatcherAckCompression(inputs, sent) \in Nat
    BY DEF ObserveDispatcherAckCompression, TypeOK
  <2> QED BY <1>12, <2>1, <2>2 DEF FlushEnds, FlushReturns, InFlush, TypeOK
<1>13. CASE removeIfSame \/ StopCancels \/ CloseManager \/ CloseRedis \/ Exit
  BY <1>13 DEF removeIfSame, StopCancels, CloseManager, CloseRedis, Exit, TypeOK
<1>14. CASE UNCHANGED vars
  BY <1>14 DEF vars, TypeOK
<1> QED
  BY <1>1, <1>2, <1>3, <1>4, <1>6, <1>7, <1>8, <1>9, <1>11, <1>12, <1>13, <1>14
     DEF Next, Ack, AckLoopStep

(* The variables keep their types: no blank id is ever pending, and the    *)
(* queue keeps its bound.                                                  *)
THEOREM TypeCorrect == Spec => []TypeOK
BY TypeInit, TypeStep, PTL DEF Spec

-----------------------------------------------------------------------------
(* A flush.                                                                *)

\* A pipeline takes its chunks off: those left hold the other ids.
LEMMA RestOfChunks ==
    ASSUME TypeOK, FlushCovers, chunks' = SubSeq(chunks, FlushConcurrency + 1, Len(chunks))
    PROVE  /\ UNION Elems(chunks') = (UNION Elems(chunks)) \ UNION Now
           /\ \A n, k \in DOMAIN chunks' : n # k => chunks'[n] \cap chunks'[k] = {}
<1> DEFINE F == FlushConcurrency
           L == Len(chunks)
           R == chunks'
<1>1. chunks \in Seq(SUBSET Id) /\ L \in Nat /\ DOMAIN chunks = 1..L /\ F \in Nat \ {0}
  BY AckAssumption DEF TypeOK, Loaded
<1>2. /\ DOMAIN R = {j \in Nat : j > 0 /\ F + j <= L}
      /\ \A j \in DOMAIN R : F + j \in DOMAIN chunks /\ R[j] = chunks[F + j]
  <2>1. CASE F + 1 <= L
    <3>1. F + 1 \in 1..L /\ L \in (F + 1)..L
      BY <1>1, <2>1
    <3>2. Len(R) = L - F /\ DOMAIN R = 1..(L - F) /\ \A j \in 1..(L - F) : R[j] = chunks[F + j]
      BY <1>1, <3>1
    <3> QED BY <1>1, <2>1, <3>2
  <2>2. CASE ~(F + 1 <= L)
    <3>1. R = <<>>
      BY <1>1, <2>2
    <3>2. DOMAIN R = {} /\ {j \in Nat : j > 0 /\ F + j <= L} = {}
      BY <1>1, <2>2, <3>1
    <3> QED BY <3>2
  <2> QED BY <2>1, <2>2
<1> HIDE DEF R, L, F
<1>3. ASSUME NEW n \in DOMAIN R, NEW k \in DOMAIN R, n # k PROVE R[n] \cap R[k] = {}
  <2>1. F + n # F + k
    BY <1>1, <1>2, <1>3
  <2> QED BY <1>2, <2>1 DEF FlushCovers
<1>4. ASSUME NEW i \in UNION Elems(R) PROVE i \in (UNION Elems(chunks)) \ UNION Now
  <2>1. PICK j \in DOMAIN R : i \in R[j]
    BY DEF Elems
  <2>2. F + j \in DOMAIN chunks /\ i \in chunks[F + j]
    BY <1>2, <2>1
  <2>3. ASSUME NEW n \in DOMAIN chunks, n <= F PROVE i \notin chunks[n]
    <3>1. n # F + j
      BY <1>1, <1>2, <2>3
    <3> QED BY <2>2, <3>1 DEF FlushCovers
  <2> QED BY <2>2, <2>3 DEF Elems, Now, F
<1>5. ASSUME NEW i \in UNION Elems(chunks), i \notin UNION Now PROVE i \in UNION Elems(R)
  <2>1. PICK n \in DOMAIN chunks : i \in chunks[n]
    BY DEF Elems
  <2>2. ~(n <= F)
    BY <1>5, <2>1 DEF Now, F
  <2>3. n - F \in DOMAIN R /\ F + (n - F) = n
    BY <1>1, <1>2, <2>1, <2>2
  <2>4. i \in R[n - F]
    BY <1>2, <2>1, <2>3
  <2> QED BY <2>3, <2>4 DEF Elems
<1>6. UNION Elems(R) = (UNION Elems(chunks)) \ UNION Now
  BY <1>4, <1>5
<1> QED BY <1>3, <1>6 DEF R

\* FlushCovers is inductive.
LEMMA FlushStep == TypeOK /\ FlushCovers /\ [Next]_vars => FlushCovers'
<1> SUFFICES ASSUME TypeOK, FlushCovers, [Next]_vars PROVE FlushCovers'
  OBVIOUS
<1>0. ASSUME chunks' = <<>> PROVE \A n, k \in DOMAIN chunks' : n # k => chunks'[n] \cap chunks'[k] = {}
  BY <1>0
<1> USE DEF loopVars, lifeVars, statVars, histVars
<1>1. CASE Drained
  <2>1. CASE FlushDue /\ pending # {}
    <3>1. chunks' = chunkStringSlice(pending) /\ pending' = pending
      BY <1>1, <2>1 DEF Drained
    <3> QED BY <3>1, ChunksCover DEF TypeOK, FlushCovers
  <2>2. CASE ~(FlushDue /\ pending # {})
    <3>1. chunks' = chunks /\ ~InFlush'
      BY <1>1, <2>2 DEF Drained, InFlush
    <3> QED BY <3>1 DEF FlushCovers
  <2> QED BY <2>1, <2>2
<1>2. CASE flushAckChunkBatch
  <2>1. UNION Elems(chunks) = pending /\ pending' = pending \ UNION Now
    BY <1>2 DEF flushAckChunkBatch, FlushCovers
  <2>2. chunks' = SubSeq(chunks, FlushConcurrency + 1, Len(chunks))
    BY <1>2 DEF flushAckChunkBatch
  <2> QED BY <2>1, <2>2, RestOfChunks DEF FlushCovers
<1>3. ASSUME NEW done, ExecReturnsError(done) PROVE FlushCovers'
  <2>1. chunks' = <<>> /\ ~InFlush'
    BY <1>3 DEF ExecReturnsError, FlushReturns, InFlush
  <2> QED BY <1>0, <2>1 DEF FlushCovers
<1>4. CASE ExecRejected \/ ExecFails
  BY <1>3, <1>4 DEF ExecRejected, ExecFails
<1>5. CASE FlushEnds
  <2>1. chunks' = chunks /\ ~InFlush'
    BY <1>5 DEF FlushEnds, FlushReturns, InFlush
  <2> QED BY <2>1 DEF FlushCovers
<1>6. CASE LoopReceives \/ Drain
  <2>1. chunks' = chunks /\ ~InFlush'
    BY <1>6 DEF LoopReceives, Drain, Receives, InFlush
  <2> QED BY <2>1 DEF FlushCovers
<1>7. CASE LoopTicks \/ LoopStops
  <2>1. chunks' = chunks /\ ~InFlush'
    BY <1>7 DEF LoopTicks, LoopStops, InFlush
  <2> QED BY <2>1 DEF FlushCovers
<1>8. CASE UNCHANGED <<chunks, lpc, pending>>
  BY <1>8 DEF FlushCovers, InFlush
<1> QED
  BY <1>1, <1>2, <1>4, <1>5, <1>6, <1>7, <1>8
     DEF Next, Ack, AckLoopStep, vars, QueueAck, ackEntries, Reject, queueAck, queueAckFails,
         ackEntriesInternal, ackEntriesFails, removeIfSame, StopCancels, CloseManager, CloseRedis, Exit

(* The chunks of a flush hold the pending ids, each once, for every batch  *)
(* size and pipeline length, between any two pipelines of the flush.       *)
THEOREM FlushCoversHolds == Spec => []FlushCovers
<1>1. Init => FlushCovers
  BY DEF Init, FlushCovers, InFlush
<1> QED BY <1>1, FlushStep, TypeCorrect, PTL DEF Spec

-----------------------------------------------------------------------------
(* What was accepted.                                                      *)

\* The ids of a queue, by its calls.
LEMMA QueueIds ==
    ASSUME NEW q
    PROVE  UNION {Elems(q[n]) : n \in DOMAIN q} = UNION {Elems(s) : s \in Elems(q)}
<1> DEFINE E(s) == Elems(s)
<1>1. Elems(q) = {q[n] : n \in DOMAIN q}
  BY DEF Elems
<1> HIDE DEF E
<1>2. UNION {E(q[n]) : n \in DOMAIN q} = UNION {E(s) : s \in Elems(q)}
  BY <1>1
<1> QED BY <1>2 DEF E

\* The queue's ids, before and after a step.
LEMMA QueuedFacts ==
    /\ Queued = UNION {Elems(s) : s \in Elems(queue)}
    /\ Queued' = UNION {Elems(s) : s \in Elems(queue')}
<1>1. Queued = UNION {Elems(s) : s \in Elems(queue)}
  BY QueueIds DEF Queued
<1>2. Queued' = UNION {Elems(s) : s \in Elems(queue')}
  BY QueueIds DEF Queued
<1> QED BY <1>1, <1>2

\* AcceptedKept is inductive with the types.
LEMMA AcceptedStep == TypeOK /\ AcceptedKept /\ [Next]_vars => AcceptedKept'
<1> SUFFICES ASSUME TypeOK, AcceptedKept, [Next]_vars,
                    NEW c \in early', NEW i \in Elems(Cleaned(c)), i \in pel'
             PROVE  i \in pending' \cup Queued'
  BY DEF AcceptedKept
<1>1. c \in early /\ i \in pel => i \in pending \cup Queued
  BY DEF AcceptedKept
<1> USE DEF loopVars, lifeVars, statVars, histVars
<1>2. ASSUME NEW d \in Call, queueAck(d) PROVE i \in pending' \cup Queued'
  <2>1. queue' = Append(queue, Cleaned(d)) /\ pending' = pending /\ pel' = pel
    BY <1>2 DEF queueAck
  <2>2. Elems(queue') = Elems(queue) \cup {Cleaned(d)}
    BY <2>1, CleanedType, ElemsAppend DEF TypeOK
  <2>3. Queued' = Queued \cup Elems(Cleaned(d))
    BY <2>2, QueuedFacts
  <2>4. c \in early \/ c = d
    BY <1>2 DEF queueAck
  <2> QED BY <1>1, <2>1, <2>3, <2>4
<1>3. ASSUME Receives, early' = early PROVE i \in pending' \cup Queued'
  <2>1. pel' = pel /\ pending' = pending \cup Elems(Head(queue))
    BY <1>3 DEF Receives
  <2>2. Elems(queue) = Elems(queue') \cup {Head(queue)}
    BY <1>3, ReceivesFacts
  <2>3. Queued = Queued' \cup Elems(Head(queue))
    BY <2>2, QueuedFacts
  <2> QED BY <1>1, <1>3, <2>1, <2>3
<1>4. CASE LoopReceives \/ Drain
  BY <1>3, <1>4 DEF LoopReceives, Drain, Receives
<1>5. CASE flushAckChunkBatch
  BY <1>1, <1>5 DEF flushAckChunkBatch, Queued
<1>6. ASSUME early' = early, pel' \subseteq pel, pending' = pending, queue' = queue
      PROVE  i \in pending' \cup Queued'
  BY <1>1, <1>6 DEF Queued
<1>7. CASE ExecRejected \/ ExecFails
  BY <1>6, <1>7 DEF ExecRejected, ExecFails, ExecReturnsError
<1>8. ASSUME NEW d \in Call,
             QueueAck(d) \/ ackEntries(d) \/ Reject(d) \/ queueAckFails(d)
             \/ ackEntriesInternal(d) \/ ackEntriesFails(d)
      PROVE  i \in pending' \cup Queued'
  BY <1>6, <1>8 DEF QueueAck, ackEntries, Reject, queueAckFails, ackEntriesInternal, ackEntriesFails
<1>9. CASE LoopTicks \/ LoopStops \/ Drained \/ FlushEnds
  BY <1>6, <1>9 DEF LoopTicks, LoopStops, Drained, FlushEnds
<1>10. CASE removeIfSame \/ StopCancels \/ CloseManager \/ CloseRedis \/ Exit \/ UNCHANGED vars
  BY <1>6, <1>10 DEF removeIfSame, StopCancels, CloseManager, CloseRedis, Exit, vars
<1> QED
  BY <1>2, <1>4, <1>5, <1>7, <1>8, <1>9, <1>10 DEF Next, Ack, AckLoopStep

(* An id accepted while the dispatcher ran is off the pending list, or the *)
(* loop still has it, whatever part of a flush Redis executes or rejects.  *)
THEOREM AcceptedKeptHolds == Spec => []AcceptedKept
<1>1. Init => AcceptedKept
  BY DEF Init, AcceptedKept
<1> QED BY <1>1, AcceptedStep, TypeCorrect, PTL DEF Spec

\* The loop stops only for a cancel.  In the last flush, and after it unless
\* the flush failed, what was accepted before the cancel is not in the queue.
LastInv ==
    /\ lpc \in {"stopdrain", "lastflush", "exit"} => cancelled
    /\ lpc \in {"lastflush", "exit"} /\ failed # "last" =>
        \A c \in early : Elems(Cleaned(c)) \cap pel \subseteq pending
    /\ lpc = "exit" /\ failed # "last" => pending = {}

\* LastInv is inductive with what a flush holds and what the loop keeps.
LEMMA LastStep ==
    TypeOK /\ FlushCovers /\ AcceptedKept /\ LastInv /\ [Next]_vars => LastInv'
<1> SUFFICES ASSUME TypeOK, FlushCovers, AcceptedKept, LastInv, [Next]_vars PROVE LastInv'
  OBVIOUS
<1> USE DEF loopVars, lifeVars, statVars, histVars
<1>1. CASE Drained
  <2>1. UNCHANGED <<early, pel, pending, cancelled>> /\ queue = <<>>
    BY <1>1 DEF Drained
  <2>2. Queued = {}
    BY <2>1 DEF Queued
  <2>3. \A c \in early : Elems(Cleaned(c)) \cap pel \subseteq pending
    BY <2>2 DEF AcceptedKept
  <2>4. lpc' = "exit" => pending = {}
    BY <1>1 DEF Drained, FlushDue
  <2>5. lpc' \in {"stopdrain", "lastflush", "exit"} => lpc = "stopdrain"
    BY <1>1 DEF Drained
  <2> QED BY <2>1, <2>3, <2>4, <2>5 DEF LastInv
<1>2. CASE flushAckChunkBatch
  BY <1>2 DEF flushAckChunkBatch, InFlush, LastInv
<1>3. ASSUME NEW done, ExecReturnsError(done) PROVE LastInv'
  BY <1>3 DEF ExecReturnsError, InFlush, FlushReturns, LastInv
<1>4. CASE ExecRejected \/ ExecFails
  BY <1>3, <1>4 DEF ExecRejected, ExecFails
<1>5. CASE FlushEnds
  <2>1. pending = {}
    BY <1>5 DEF FlushEnds, FlushCovers, Elems
  <2> QED BY <1>5, <2>1 DEF FlushEnds, InFlush, FlushReturns, LastInv
<1>6. CASE LoopReceives \/ LoopTicks \/ LoopStops \/ Drain
  BY <1>6 DEF LoopReceives, Drain, Receives, LoopTicks, LoopStops, LastInv
<1>7. ASSUME NEW c \in Call, queueAck(c) PROVE LastInv'
  BY <1>7 DEF queueAck, LastInv
<1>8. ASSUME UNCHANGED <<lpc, early, pending, failed>>, pel' \subseteq pel, cancelled => cancelled'
      PROVE  LastInv'
  BY <1>8 DEF LastInv
<1>9. ASSUME NEW c \in Call,
             QueueAck(c) \/ ackEntries(c) \/ Reject(c) \/ queueAckFails(c)
             \/ ackEntriesInternal(c) \/ ackEntriesFails(c)
      PROVE  LastInv'
  BY <1>8, <1>9 DEF QueueAck, ackEntries, Reject, queueAckFails, ackEntriesInternal, ackEntriesFails
<1>10. CASE removeIfSame \/ StopCancels \/ CloseManager \/ CloseRedis \/ Exit \/ UNCHANGED vars
  BY <1>8, <1>10 DEF removeIfSame, StopCancels, CloseManager, CloseRedis, Exit, vars
<1> QED
  BY <1>1, <1>2, <1>4, <1>5, <1>6, <1>7, <1>9, <1>10 DEF Next, Ack, AckLoopStep

(* The loop ends with nothing left to send of what was accepted before the *)
(* cancel, in whatever order it sees the cancel, the queue and the ticker, *)
(* unless its last flush failed.                                           *)
THEOREM StopFlushesHolds == Spec => []StopFlushes
<1>1. Init => LastInv
  BY DEF Init, LastInv
<1>2. LastInv => StopFlushes
  BY DEF LastInv, StopFlushes
<1> QED
  BY <1>1, <1>2, LastStep, TypeCorrect, FlushCoversHolds, AcceptedKeptHolds, PTL DEF Spec

-----------------------------------------------------------------------------
(* The metrics.                                                            *)

\* What XACK takes off the pending list, and what it leaves there.
LEMMA XackCounts ==
    ASSUME TypeOK, NEW S
    PROVE  /\ Cardinality(pel \cap S) \in Nat /\ Cardinality(pel \ S) \in Nat
           /\ Cardinality(pel) \in Nat
           /\ Cardinality(pel \ S) + Cardinality(pel \cap S) = Cardinality(pel)
<1>1. IsFiniteSet(pel) /\ Cardinality(pel) \in Nat
  BY IdsFinite DEF TypeOK
<1> DEFINE A == pel \cap S
           B == pel \ S
<1>2. Cardinality(A) \in Nat /\ Cardinality(B) \in Nat
  BY IdsFinite DEF TypeOK
<1>3. Cardinality(B) = Cardinality(pel) - Cardinality(A)
  BY <1>1, FS_Difference
<1> HIDE DEF A, B
<1>4. Cardinality(B) + Cardinality(A) = Cardinality(pel)
  BY <1>1, <1>2, <1>3
<1> QED BY <1>1, <1>2, <1>4 DEF A, B

\* CountSound is inductive with the types.
LEMMA CountStep == TypeOK /\ CountSound /\ [Next]_vars => CountSound'
<1> SUFFICES ASSUME TypeOK, CountSound, [Next]_vars PROVE CountSound'
  OBVIOUS
<1> USE DEF loopVars, lifeVars, statVars, histVars
<1>0. counted \in Nat /\ Cardinality(pel) \in Nat /\ Cardinality(Id \ Refused) \in Nat
  BY IdsFinite DEF TypeOK
<1>1. ASSUME NEW S, pel' = pel \ S, counted' \in {counted, counted + Cardinality(pel \cap S)}
      PROVE  CountSound'
  <2> DEFINE a == Cardinality(pel \cap S)
             b == Cardinality(pel \ S)
             p == Cardinality(pel)
             m == Cardinality(Id \ Refused)
  <2>1. a \in Nat /\ b \in Nat /\ b + a = p
    BY XackCounts
  <2>2. Cardinality(pel') = b /\ counted' \in {counted, counted + a} /\ counted + p <= m
    BY <1>1 DEF CountSound
  <2>3. p \in Nat /\ m \in Nat /\ counted \in Nat
    BY <1>0
  <2> HIDE DEF a, b, p, m
  <2>4. counted + b <= m /\ counted + a + b <= m
    BY <2>1, <2>2, <2>3
  <2>5. counted' + b <= m
    BY <2>2, <2>4
  <2> QED BY <2>2, <2>5 DEF CountSound, m
<1>2. ASSUME NEW c \in Call, ackEntriesInternal(c) PROVE CountSound'
  BY <1>1, <1>2 DEF ackEntriesInternal
<1>3. ASSUME UNCHANGED <<pel, counted>> PROVE CountSound'
  BY <1>3 DEF CountSound
<1>4. ASSUME NEW c \in Call, ackEntriesFails(c) PROVE CountSound'
  BY <1>1, <1>3, <1>4 DEF ackEntriesFails
<1>5. CASE flushAckChunkBatch
  BY <1>1, <1>5 DEF flushAckChunkBatch, Acked
<1>6. ASSUME NEW done, ExecReturnsError(done) PROVE CountSound'
  BY <1>1, <1>6 DEF ExecReturnsError
<1>7. CASE ExecRejected \/ ExecFails
  BY <1>6, <1>7 DEF ExecRejected, ExecFails
<1>8. ASSUME NEW c \in Call, QueueAck(c) \/ ackEntries(c) \/ Reject(c) \/ queueAck(c) \/ queueAckFails(c)
      PROVE  CountSound'
  BY <1>3, <1>8 DEF QueueAck, ackEntries, Reject, queueAck, queueAckFails
<1>9. CASE LoopReceives \/ LoopTicks \/ LoopStops \/ Drain \/ Drained \/ FlushEnds
  BY <1>3, <1>9 DEF LoopReceives, Receives, LoopTicks, LoopStops, Drain, Drained, FlushEnds
<1>10. CASE removeIfSame \/ StopCancels \/ CloseManager \/ CloseRedis \/ Exit \/ UNCHANGED vars
  BY <1>3, <1>10 DEF removeIfSame, StopCancels, CloseManager, CloseRedis, Exit, vars
<1> QED
  BY <1>2, <1>4, <1>5, <1>7, <1>8, <1>9, <1>10 DEF Next, Ack, AckLoopStep

(* The metric of acknowledged entries never exceeds the entries that left  *)
(* the pending list, whichever path sends an id again.                     *)
THEOREM CountSoundHolds == Spec => []CountSound
<1>1. Init => CountSound
  <2>1. Cardinality(Id \ Refused) \in Nat
    BY IdsFinite
  <2> QED BY <2>1 DEF Init, CountSound
<1> QED BY <1>1, CountStep, TypeCorrect, PTL DEF Spec

\* The distinct ids that the inputs so far stand for.
Distinct == IF InFlush THEN sent ELSE Cardinality(pending)

\* Until a flush fails, the inputs are at least their distinct ids: the
\* subtraction of the metric does not stop at 0.
DupInv == failed = "none" => duplicates + inputs = repeats + Distinct /\ inputs >= Distinct

\* DupInv is inductive with what a flush holds.
LEMMA DupStep == TypeOK /\ FlushCovers /\ DupInv /\ [Next]_vars => DupInv'
<1> SUFFICES ASSUME TypeOK, FlushCovers, DupInv, [Next]_vars PROVE DupInv'
  OBVIOUS
<1> USE DEF loopVars, lifeVars, statVars, histVars
<1>0. /\ inputs \in Nat /\ duplicates \in Nat /\ repeats \in Nat /\ sent \in Nat
      /\ Cardinality(pending) \in Nat
  BY IdsFinite DEF TypeOK
<1>1. ASSUME Receives, ~InFlush, ~InFlush' PROVE DupInv'
  <2> DEFINE L == Len(Head(queue))
             fresh == Cardinality(Elems(Head(queue)) \ pending)
  <2>1. /\ L \in Nat /\ fresh \in Nat /\ fresh <= L
        /\ Cardinality(pending') = Cardinality(pending) + fresh
    BY <1>1, ReceivesFacts
  <2>2. /\ inputs' = inputs + L /\ repeats' = repeats + L - fresh
        /\ duplicates' = duplicates /\ failed' = failed
    BY <1>1 DEF Receives
  <2>3. Distinct = Cardinality(pending) /\ Distinct' = Cardinality(pending')
    BY <1>1 DEF Distinct
  <2> HIDE DEF L, fresh
  <2> QED BY <1>0, <2>1, <2>2, <2>3 DEF DupInv
<1>2. CASE LoopReceives \/ Drain
  <2>1. Receives /\ ~InFlush /\ ~InFlush'
    BY <1>2 DEF LoopReceives, Drain, InFlush
  <2> QED BY <1>1, <2>1
<1>3. ASSUME UNCHANGED <<inputs, duplicates, repeats, failed>>, Distinct' = Distinct PROVE DupInv'
  BY <1>3 DEF DupInv
<1>4. CASE Drained
  <2>1. Distinct = Cardinality(pending)
    BY <1>4 DEF Drained, Distinct, InFlush
  <2>2. Distinct' = Cardinality(pending)
    BY <1>4 DEF Drained, Distinct, InFlush
  <2> QED BY <1>3, <1>4, <2>1, <2>2 DEF Drained
<1>5. CASE flushAckChunkBatch
  <2>1. Distinct = sent /\ Distinct' = sent
    BY <1>5 DEF flushAckChunkBatch, Distinct, InFlush
  <2> QED BY <1>3, <1>5, <2>1 DEF flushAckChunkBatch
<1>6. ASSUME NEW done, ExecReturnsError(done) PROVE DupInv'
  <2>1. failed' # "none"
    BY <1>6 DEF ExecReturnsError
  <2> QED BY <2>1 DEF DupInv
<1>7. CASE ExecRejected \/ ExecFails
  BY <1>6, <1>7 DEF ExecRejected, ExecFails
<1>8. CASE FlushEnds
  <2>1. pending = {} /\ pending' = {}
    BY <1>8 DEF FlushEnds, FlushCovers, Elems
  <2>2. Cardinality(pending) = 0 /\ Cardinality(pending') = 0
    BY <2>1, FS_EmptySet
  <2>3. Distinct = sent /\ Distinct' = 0
    BY <1>8, <2>2 DEF FlushEnds, FlushReturns, Distinct, InFlush
  <2>4. /\ duplicates' = duplicates + (IF inputs > sent THEN inputs - sent ELSE 0)
        /\ inputs' = 0 /\ repeats' = repeats /\ failed' = failed
    BY <1>8, <2>2 DEF FlushEnds, ObserveDispatcherAckCompression
  <2> QED BY <1>0, <2>3, <2>4 DEF DupInv
<1>9. CASE LoopTicks \/ LoopStops
  <2>1. Distinct' = Distinct
    BY <1>9 DEF LoopTicks, LoopStops, Distinct, InFlush
  <2> QED BY <1>3, <1>9, <2>1 DEF LoopTicks, LoopStops
<1>10. ASSUME UNCHANGED <<lpc, pending, sent, inputs, duplicates, repeats, failed>> PROVE DupInv'
  BY <1>3, <1>10 DEF Distinct, InFlush
<1>11. ASSUME NEW c \in Call,
              QueueAck(c) \/ ackEntries(c) \/ Reject(c) \/ queueAck(c) \/ queueAckFails(c)
              \/ ackEntriesInternal(c) \/ ackEntriesFails(c)
      PROVE  DupInv'
  BY <1>10, <1>11 DEF QueueAck, ackEntries, Reject, queueAck, queueAckFails, ackEntriesInternal, ackEntriesFails
<1>12. CASE removeIfSame \/ StopCancels \/ CloseManager \/ CloseRedis \/ Exit \/ UNCHANGED vars
  BY <1>10, <1>12 DEF removeIfSame, StopCancels, CloseManager, CloseRedis, Exit, vars
<1> QED
  BY <1>2, <1>4, <1>5, <1>7, <1>8, <1>9, <1>11, <1>12 DEF Next, Ack, AckLoopStep

(* As long as no flush failed, the duplicates counted are those that the   *)
(* map removed.                                                            *)
THEOREM DuplicatesExactHolds == Spec => []DuplicatesExact
<1>1. Init => DupInv
  <2>1. Init => Distinct = 0
    BY FS_EmptySet DEF Init, Distinct, InFlush
  <2> QED BY <2>1 DEF Init, DupInv
<1>2. DupInv => DuplicatesExact
  BY DEF DupInv, DuplicatesExact, Distinct
<1> QED
  BY <1>1, <1>2, DupStep, TypeCorrect, FlushCoversHolds, PTL DEF Spec
-----------------------------------------------------------------------------
(* Spans.                                                                  *)

\* A parsed id as one number: milliseconds, then sequence number.
Key(p) == p[1] * SeqModulus + p[2]

Place == Nat \X (0..SeqModulus - 1)

\* Multiplication by the modulus keeps the order, with room for a sequence number.
LEMMA TimesModulus ==
    ASSUME NEW a \in Nat, NEW b \in Nat, a < b
    PROVE  a * SeqModulus \in Nat /\ b * SeqModulus \in Nat
           /\ a * SeqModulus + SeqModulus <= b * SeqModulus
<1>1. SeqModulus \in Nat /\ SeqModulus > 0
  BY AckAssumption
<1>2. PICK e \in Nat : b = a + 1 + e
  <2>1. b - a - 1 \in Nat /\ b = a + 1 + (b - a - 1)
    OBVIOUS
  <2> QED BY <2>1
<1> HIDE AckAssumption
<1>3. \A M \in Nat : a * M \in Nat /\ e * M \in Nat /\ (a + 1 + e) * M = a * M + M + e * M
  BY Z3
<1>4. a * SeqModulus \in Nat /\ e * SeqModulus \in Nat
      /\ b * SeqModulus = a * SeqModulus + SeqModulus + e * SeqModulus
  BY <1>1, <1>2, <1>3
<1> DEFINE x == a * SeqModulus
           y == b * SeqModulus
           z == e * SeqModulus
<1>5. x \in Nat /\ z \in Nat /\ y = x + SeqModulus + z
  BY <1>4
<1> HIDE DEF x, y, z
<1>6. y \in Nat /\ x + SeqModulus <= y
  BY <1>1, <1>5
<1> QED BY <1>5, <1>6 DEF x, y

\* The order of keys is the order of the pairs.
LEMMA KeyOrder ==
    ASSUME NEW p \in Place, NEW q \in Place
    PROVE  /\ Key(p) \in Nat
           /\ Key(p) < Key(q) <=> p[1] < q[1] \/ (p[1] = q[1] /\ p[2] < q[2])
           /\ Key(p) = Key(q) <=> p = q
<1> DEFINE a == p[1]
           b == q[1]
           c == p[2]
           d == q[2]
           x == a * SeqModulus
           y == b * SeqModulus
<1>1. SeqModulus \in Nat /\ SeqModulus > 0
  BY AckAssumption
<1>2. a \in Nat /\ b \in Nat /\ c \in 0..SeqModulus - 1 /\ d \in 0..SeqModulus - 1
      /\ p = <<a, c>> /\ q = <<b, d>>
  BY DEF Place
<1>3. c \in Nat /\ d \in Nat /\ c < SeqModulus /\ d < SeqModulus
  BY <1>1, <1>2
<1>4. Key(p) = x + c /\ Key(q) = y + d
  BY DEF Key
<1>5. p = q <=> a = b /\ c = d
  BY <1>2
<1> HIDE DEF a, b, c, d
<1>6. x \in Nat /\ y \in Nat
  <2>1. a + 1 \in Nat /\ a < a + 1 /\ b + 1 \in Nat /\ b < b + 1
    BY <1>2
  <2> HIDE DEF x, y
  <2> QED BY <1>2, <2>1, TimesModulus DEF x, y
<1>7. a < b => x + SeqModulus <= y
  BY <1>2, TimesModulus
<1>8. b < a => y + SeqModulus <= x
  BY <1>2, TimesModulus
<1>9. a = b => x = y
  OBVIOUS
<1> HIDE DEF x, y
<1>10. (x + c < y + d <=> a < b \/ (a = b /\ c < d)) /\ (x + c = y + d <=> a = b /\ c = d)
  BY <1>1, <1>2, <1>3, <1>6, <1>7, <1>8, <1>9
<1> QED BY <1>3, <1>4, <1>5, <1>6, <1>10 DEF a, b, c, d

\* Ids that parse to different pairs are sorted by their keys, each pair once.
LEMMA SortedFacts ==
    ASSUME NEW S, S \subseteq Id, NEW P, P = {Parts[i] : i \in Parsed(S)},
           Cardinality(P) = Cardinality(Parsed(S))
    PROVE  /\ IsFiniteSet(P) /\ Cardinality(P) \in Nat /\ P \subseteq Place
           /\ Sorted(S) \in [1..Cardinality(P) -> P]
           /\ \A x \in P : \E n \in 1..Cardinality(P) : Sorted(S)[n] = x
           /\ \A n, m \in 1..Cardinality(P) : n < m => Key(Sorted(S)[n]) < Key(Sorted(S)[m])
<1> DEFINE A == Parsed(S)
           N == Cardinality(P)
           f == [i \in A |-> Parts[i]]
           K == {Key(x) : x \in P}
           g == [i \in A |-> Key(Parts[i])]
           B(i) == {k \in A : Before(k, i)}
           L(i) == {x \in K : x < g[i]}
           c(n) == CHOOSE i \in A : Cardinality(B(i)) = n - 1
<1>1. A \subseteq Id /\ IsFiniteSet(A) /\ Cardinality(A) \in Nat /\ N \in Nat
  BY IdsFinite DEF Parsed
<1>2. \A i \in A : Parts[i] \in P /\ Parts[i] \in Place
  <2>1. \A i \in A : i \in Id /\ Parts[i] # <<>>
    BY DEF Parsed
  <2> QED BY <2>1, AckAssumption DEF Place
<1>3. P \subseteq Place
  BY <1>2
<1>4. f \in Surjection(A, P)
  <2>1. f \in [A -> P]
    BY <1>2
  <2>2. \A t \in P : \E s \in A : f[s] = t
    OBVIOUS
  <2> HIDE DEF f, A
  <2> QED BY <2>1, <2>2, Fun_IsSurj
<1>5. IsFiniteSet(P) /\ f \in Injection(A, P)
  <2> HIDE DEF f
  <2> QED BY <1>1, <1>4, FS_Surjection
<1>6. \A i, k \in A : Parts[i] = Parts[k] => i = k
  <2>1. \A i, k \in A : f[i] = f[k] => i = k
    <3> HIDE DEF f
    <3> QED BY <1>5, Fun_InjectionProperties
  <2> QED BY <2>1
<1>7. K \subseteq Nat /\ \A i \in A : g[i] \in K
  BY <1>2, <1>3, KeyOrder
<1>8. \A i, k \in A : g[i] = g[k] => i = k
  BY <1>2, <1>6, KeyOrder
<1>9. \A t \in K : \E i \in A : g[i] = t
  OBVIOUS
<1>10. ASSUME NEW i \in A, NEW k \in A PROVE Before(k, i) <=> g[k] < g[i]
  <2>1. CASE i = k
    <3>1. ~Before(k, i)
      <4>1. Parts[i] \in Place /\ i \in Nat
        BY <1>1, <1>2, AckAssumption
      <4>2. Parts[i][1] \in Nat /\ Parts[i][2] \in Nat
        BY <4>1, AckAssumption DEF Place
      <4> QED BY <2>1, <4>1, <4>2 DEF Before
    <3>2. ~(g[k] < g[i])
      <4>1. g[k] = g[i] /\ g[i] \in Nat
        BY <2>1, <1>7
      <4> QED BY <4>1
    <3> QED BY <3>1, <3>2
  <2>2. CASE i # k
    <3> DEFINE u == Parts[k]
               v == Parts[i]
    <3>1. u \in Place /\ v \in Place /\ u # v
      BY <1>2, <1>6, <2>2
    <3>2. ~(u[1] = v[1] /\ u[2] = v[2])
      BY <3>1 DEF Place
    <3>3. Before(k, i) <=> u[1] < v[1] \/ (u[1] = v[1] /\ u[2] < v[2])
      <4> HIDE DEF u, v
      <4> QED BY <3>2 DEF Before, u, v
    <3>4. Key(u) < Key(v) <=> u[1] < v[1] \/ (u[1] = v[1] /\ u[2] < v[2])
      BY <3>1, KeyOrder
    <3>5. g[k] = Key(u) /\ g[i] = Key(v)
      OBVIOUS
    <3> QED BY <3>3, <3>4, <3>5
  <2> QED BY <2>1, <2>2
<1>11. Sorted(S) = [n \in 1..N |-> Parts[c(n)]]
  BY DEF Sorted
<1> HIDE DEF A, K, g
<1>12. IsFiniteSet(K) /\ Cardinality(K) = N
  <2>1. g \in [A -> K]
    BY <1>7 DEF g
  <2>2. g \in Bijection(A, K)
    BY <1>8, <1>9, <2>1, Fun_IsBij
  <2>3. ExistsBijection(A, K)
    BY <2>2, Fun_ExistsBij
  <2> QED BY <1>1, <2>3, FS_Bijection DEF A
<1>13. ASSUME NEW i \in A PROVE Cardinality(B(i)) = Cardinality(L(i))
  <2> DEFINE h == [k \in B(i) |-> g[k]]
  <2>1. h \in [B(i) -> L(i)]
    BY <1>7, <1>10
  <2>2. \A a, b \in B(i) : h[a] = h[b] => a = b
    BY <1>8
  <2>3. \A t \in L(i) : \E s \in B(i) : h[s] = t
    BY <1>9, <1>10
  <2>4. IsFiniteSet(B(i))
    <3>1. B(i) \in SUBSET A
      OBVIOUS
    <3> QED BY <1>1, <3>1, FS_Subset
  <2> DEFINE X == B(i)
             Y == L(i)
  <2> HIDE DEF h
  <2>5. h \in Bijection(X, Y)
    <3> HIDE DEF X, Y
    <3> QED BY <2>1, <2>2, <2>3, Fun_IsBij DEF X, Y
  <2> HIDE DEF X, Y
  <2>6. ExistsBijection(X, Y)
    BY <2>5, Fun_ExistsBij
  <2>7. Cardinality(Y) = Cardinality(X)
    BY <2>4, <2>6, FS_Bijection DEF X
  <2> QED BY <2>7 DEF X, Y
<1>14. ASSUME NEW i \in A
       PROVE  IsFiniteSet(L(i)) /\ Cardinality(L(i)) \in 0..(N - 1)
  <2>1. L(i) \in SUBSET K /\ g[i] \in K /\ g[i] \notin L(i)
    <3>1. g[i] \in K /\ g[i] \in Nat
      BY <1>7
    <3>2. ~(g[i] < g[i])
      BY <3>1
    <3> QED BY <3>1, <3>2
  <2>2. IsFiniteSet(L(i)) /\ Cardinality(L(i)) <= N /\ (N = Cardinality(L(i)) => K = L(i))
    BY <1>12, <2>1, FS_Subset
  <2>3. Cardinality(L(i)) \in Nat
    BY <2>2, FS_CardinalityType
  <2> QED BY <1>1, <2>1, <2>2, <2>3
<1>15. ASSUME NEW n \in 1..N PROVE c(n) \in A /\ Cardinality(L(c(n))) = n - 1
  <2>1. n - 1 \in Nat /\ n - 1 < Cardinality(K)
    BY <1>1, <1>12
  <2>2. PICK x \in K : Cardinality({k \in K : k < x}) = n - 1
    <3> DEFINE m == n - 1
    <3>1. K \subseteq Nat /\ IsFiniteSet(K) /\ m \in Nat /\ m < Cardinality(K)
      BY <1>7, <1>12, <2>1
    <3> HIDE DEF m
    <3>2. \E x \in K : Cardinality({k \in K : k < x}) = m
      BY <3>1, NthMember
    <3> QED BY <3>2 DEF m
  <2>3. PICK i \in A : g[i] = x
    BY <1>9
  <2>4. Cardinality(L(i)) = n - 1
    BY <2>2, <2>3
  <2>5. Cardinality(B(i)) = n - 1
    BY <1>13, <2>4
  <2>6. c(n) \in A /\ Cardinality(B(c(n))) = n - 1
    BY <2>5
  <2> HIDE DEF c, B, L
  <2> QED BY <1>13, <2>6
<1> HIDE DEF c
<1>16. ASSUME NEW i \in A, NEW k \in A, g[i] <= g[k]
       PROVE  L(i) \in SUBSET L(k) /\ (g[i] # g[k] => L(i) # L(k))
  <2>1. g[i] \in Nat /\ g[k] \in Nat /\ g[i] \in K
    BY <1>7
  <2>2. L(i) \in SUBSET L(k)
    <3>1. \A x \in K : x < g[i] => x < g[k]
      BY <1>7, <1>16, <2>1
    <3> QED BY <3>1
  <2>3. ASSUME g[i] # g[k] PROVE g[i] \in L(k) /\ g[i] \notin L(i)
    BY <1>16, <2>1, <2>3
  <2> QED BY <2>2, <2>3
<1> HIDE DEF L, B
<1>17. \A n \in 1..N : Sorted(S)[n] = Parts[c(n)] /\ Sorted(S)[n] \in P /\ g[c(n)] = Key(Sorted(S)[n])
  BY <1>2, <1>11, <1>15 DEF g
<1>18. Sorted(S) \in [1..N -> P]
  BY <1>11, <1>17
<1>19. ASSUME NEW n \in 1..N, NEW m \in 1..N, n < m PROVE Key(Sorted(S)[n]) < Key(Sorted(S)[m])
  <2>1. c(n) \in A /\ c(m) \in A /\ g[c(n)] \in Nat /\ g[c(m)] \in Nat
    BY <1>7, <1>15
  <2>2. g[c(n)] < g[c(m)]
    <3> SUFFICES ASSUME g[c(m)] <= g[c(n)] PROVE FALSE
      BY <2>1
    <3>1. L(c(m)) \in SUBSET L(c(n))
      BY <1>16, <2>1
    <3>2. Cardinality(L(c(m))) <= Cardinality(L(c(n)))
      BY <1>14, <2>1, <3>1, FS_Subset
    <3>3. m - 1 <= n - 1
      BY <1>15, <3>2
    <3> QED BY <1>1, <1>19, <3>3
  <2> QED BY <1>17, <2>2
<1>20. ASSUME NEW x \in P PROVE \E n \in 1..N : Sorted(S)[n] = x
  <2>1. PICK i \in A : Parts[i] = x
    BY DEF A
  <2> DEFINE n == Cardinality(L(i)) + 1
  <2>2. n \in 1..N /\ n - 1 = Cardinality(L(i))
    BY <1>1, <1>14
  <2> HIDE DEF n
  <2>3. c(n) \in A /\ Cardinality(L(c(n))) = Cardinality(L(i))
    BY <1>15, <2>2
  <2>4. IsFiniteSet(L(i)) /\ IsFiniteSet(L(c(n)))
    BY <1>14, <2>3
  <2>5. g[i] = g[c(n)]
    <3>1. g[i] \in Nat /\ g[c(n)] \in Nat
      BY <1>7, <2>3
    <3>2. CASE g[i] <= g[c(n)]
      <4>1. L(i) \in SUBSET L(c(n)) /\ (g[i] # g[c(n)] => L(i) # L(c(n)))
        BY <1>16, <2>3, <3>2
      <4>2. L(c(n)) = L(i)
        BY <2>3, <2>4, <4>1, FS_Subset
      <4> QED BY <4>1, <4>2
    <3>3. CASE g[c(n)] <= g[i]
      <4>1. L(c(n)) \in SUBSET L(i) /\ (g[c(n)] # g[i] => L(c(n)) # L(i))
        BY <1>16, <2>3, <3>3
      <4>2. L(i) = L(c(n))
        BY <2>3, <2>4, <4>1, FS_Subset
      <4> QED BY <4>1, <4>2
    <3> QED BY <3>1, <3>2, <3>3
  <2>6. i = c(n)
    BY <1>8, <2>3, <2>5
  <2> QED BY <1>17, <2>1, <2>2, <2>6
<1> QED BY <1>1, <1>3, <1>5, <1>18, <1>19, <1>20

\* Position k continues the span of the position before it.
Continues(p, k) == k # 1 /\ Contiguous(p[k - 1], p[k])

\* In sorted order an id continues a span exactly if its predecessor is there:
\* the sequence number that wraps around never does.
LEMMA ContinuesExact ==
    ASSUME NEW P, P \subseteq Place, NEW N \in Nat, NEW p \in [1..N -> P],
           \A x \in P : \E n \in 1..N : p[n] = x,
           \A n, m \in 1..N : n < m => Key(p[n]) < Key(p[m]),
           NEW k \in 1..N
    PROVE  <<p[k][1], p[k][2] - 1>> \in P <=> Continues(p, k)
<1> DEFINE r == p[k]
           x == <<r[1], r[2] - 1>>
<1>0. SeqModulus \in Nat /\ SeqModulus > 0
  BY AckAssumption
<1>1. r \in Place /\ r[1] \in Nat /\ r[2] \in 0..SeqModulus - 1 /\ r[2] \in Nat /\ r = <<r[1], r[2]>>
  <2>1. r \in Place
    OBVIOUS
  <2> QED BY <1>0, <2>1 DEF Place
<1>2. ASSUME k # 1
      PROVE  /\ k - 1 \in 1..N /\ p[k - 1] \in Place /\ Key(p[k - 1]) < Key(r)
             /\ p[k - 1][1] \in Nat /\ p[k - 1][2] \in 0..SeqModulus - 1
             /\ p[k - 1] = <<p[k - 1][1], p[k - 1][2]>>
  <2>1. k - 1 \in 1..N /\ k - 1 < k
    BY <1>2
  <2>2. p[k - 1] \in Place
    BY <2>1
  <2>3. Key(p[k - 1]) < Key(r)
    BY <2>1
  <2> QED BY <2>1, <2>2, <2>3 DEF Place
<1>3. ASSUME x \in P PROVE Continues(p, k)
  <2>1. x \in Place /\ x[2] = r[2] - 1 /\ x[1] = r[1]
    BY <1>3
  <2>2. r[2] - 1 \in 0..SeqModulus - 1
    BY <2>1 DEF Place
  <2>3. Key(x) + 1 = Key(r) /\ Key(x) \in Nat /\ Key(r) \in Nat
    <3>1. Key(x) \in Nat /\ Key(r) \in Nat
      BY <1>1, <2>1, KeyOrder
    <3> DEFINE z == r[1] * SeqModulus
    <3>2. Key(x) = z + (r[2] - 1) /\ Key(r) = z + r[2]
      BY <2>1 DEF Key
    <3>3. z \in Nat
      <4>1. r[1] + 1 \in Nat /\ r[1] < r[1] + 1
        BY <1>1
      <4> HIDE DEF z
      <4> QED BY <1>1, <4>1, TimesModulus DEF z
    <3> HIDE DEF z, x, r
    <3> QED BY <1>1, <3>1, <3>2, <3>3
  <2>4. PICK j \in 1..N : p[j] = x
    BY <1>3
  <2>5. j < k
    <3>1. j # k
      <4>1. Key(x) # Key(r)
        BY <2>3
      <4> QED BY <2>4, <4>1
    <3>2. ~(k < j)
      <4> SUFFICES ASSUME k < j PROVE FALSE
        OBVIOUS
      <4>1. Key(r) < Key(x)
        BY <2>4
      <4> HIDE DEF x, r
      <4> QED BY <2>3, <4>1
    <3> QED BY <3>1, <3>2
  <2>6. k # 1
    BY <2>5
  <2>7. j = k - 1
    <3> SUFFICES ASSUME j < k - 1 PROVE FALSE
      BY <2>5
    <3>1. Key(x) < Key(p[k - 1])
      BY <1>2, <2>4, <2>6
    <3>2. Key(p[k - 1]) < Key(r) /\ Key(p[k - 1]) \in Nat
      BY <1>2, <2>6, KeyOrder
    <3> HIDE DEF x, r
    <3> QED BY <2>3, <3>1, <3>2
  <2>8. p[k - 1] = x
    BY <2>4, <2>7
  <2>9. (x[2] + 1) % SeqModulus = r[2]
    <3>1. x[2] + 1 = r[2] /\ r[2] \in Nat /\ r[2] < SeqModulus
      <4> HIDE DEF x, r
      <4> QED BY <1>0, <1>1, <2>1
    <3>2. \A a, b \in Nat : a < b => a % b = a
      BY Z3
    <3> QED BY <1>0, <3>1, <3>2
  <2> QED BY <2>1, <2>6, <2>8, <2>9 DEF Continues, Contiguous
<1>4. ASSUME Continues(p, k) PROVE x \in P
  <2> DEFINE q == p[k - 1]
  <2>1. k # 1 /\ r[1] = q[1] /\ r[2] = (q[2] + 1) % SeqModulus
    BY <1>4 DEF Continues, Contiguous
  <2>2. /\ k - 1 \in 1..N /\ q \in Place /\ Key(q) < Key(r)
        /\ q[1] \in Nat /\ q[2] \in 0..SeqModulus - 1 /\ q = <<q[1], q[2]>>
    BY <1>2, <2>1
  <2>3. q[2] < r[2]
    <3>1. q[1] < r[1] \/ (q[1] = r[1] /\ q[2] < r[2])
      BY <1>1, <2>2, KeyOrder
    <3> QED BY <1>1, <2>1, <2>2, <3>1
  <2>4. q[2] \in Nat /\ q[2] < SeqModulus
    BY <1>0, <2>2
  <2> HIDE DEF q
  <2>5. q[2] + 1 # SeqModulus
    <3> SUFFICES ASSUME q[2] + 1 = SeqModulus PROVE FALSE
      OBVIOUS
    <3>1. \A b \in Nat : b > 0 => b % b = 0
      BY Z3
    <3>2. r[2] = 0
      BY <1>0, <2>1, <3>1
    <3> QED BY <2>3, <2>4, <3>2
  <2>6. q[2] + 1 = r[2]
    <3>1. q[2] + 1 \in Nat /\ q[2] + 1 < SeqModulus
      BY <1>0, <2>4, <2>5
    <3>2. \A a, b \in Nat : a < b => a % b = a
      BY Z3
    <3> QED BY <1>0, <2>1, <3>1, <3>2
  <2>7. q[2] = r[2] - 1
    BY <2>4, <2>6
  <2>8. q = x
    BY <2>1, <2>2, <2>7
  <2>9. q \in P
    BY <2>2 DEF q
  <2> QED BY <2>8, <2>9
<1> QED BY <1>3, <1>4

\* The first k positions that begin a span, and that continue one.
Begun(p, k) == {j \in 1..k : ~Continues(p, j)}
Continued(p, k) == {j \in 1..k : Continues(p, j)}

\* The counts grow by one position at a time.
LEMMA CountStepByStep ==
    ASSUME NEW p, NEW k \in Nat
    PROVE  /\ Cardinality(Begun(p, k)) \in Nat /\ Cardinality(Continued(p, k)) \in Nat
           /\ Cardinality(Begun(p, 0)) = 0 /\ Cardinality(Continued(p, 0)) = 0
           /\ Cardinality(Begun(p, k + 1)) =
                Cardinality(Begun(p, k)) + (IF Continues(p, k + 1) THEN 0 ELSE 1)
           /\ Cardinality(Continued(p, k + 1)) =
                Cardinality(Continued(p, k)) + (IF Continues(p, k + 1) THEN 1 ELSE 0)
<1>1. Begun(p, k) \subseteq 0..k /\ Continued(p, k) \subseteq 0..k
  BY DEF Begun, Continued
<1>2. IsFiniteSet(Begun(p, k)) /\ IsFiniteSet(Continued(p, k))
  BY <1>1, BoundedFinite
<1>3. Cardinality(Begun(p, k)) \in Nat /\ Cardinality(Continued(p, k)) \in Nat
  BY <1>2, FS_CardinalityType
<1>4. Begun(p, 0) = {} /\ Continued(p, 0) = {}
  BY DEF Begun, Continued
<1>5. 1..(k + 1) = (1..k) \cup {k + 1} /\ k + 1 \notin 1..k
  OBVIOUS
<1>6. k + 1 \notin Begun(p, k) /\ k + 1 \notin Continued(p, k)
  BY <1>5 DEF Begun, Continued
<1>7. CASE Continues(p, k + 1)
  <2>1. Begun(p, k + 1) = Begun(p, k) /\ Continued(p, k + 1) = Continued(p, k) \cup {k + 1}
    BY <1>5, <1>7 DEF Begun, Continued
  <2>2. Cardinality(Continued(p, k + 1)) = Cardinality(Continued(p, k)) + 1
    BY <1>2, <1>6, <2>1, FS_AddElement
  <2> QED BY <1>3, <1>4, <1>7, <2>1, <2>2, FS_EmptySet
<1>8. CASE ~Continues(p, k + 1)
  <2>1. Continued(p, k + 1) = Continued(p, k) /\ Begun(p, k + 1) = Begun(p, k) \cup {k + 1}
    BY <1>5, <1>8 DEF Begun, Continued
  <2>2. Cardinality(Begun(p, k + 1)) = Cardinality(Begun(p, k)) + 1
    BY <1>2, <1>6, <2>1, FS_AddElement
  <2> QED BY <1>3, <1>4, <1>8, <2>1, <2>2, FS_EmptySet
<1> QED BY <1>7, <1>8

\* The loop over the sorted pairs counts the positions that begin and continue
\* a span.
LEMMA ScanCounts ==
    ASSUME NEW S, NEW P, NEW n \in Nat, Sorted(S) \in [1..n -> P]
    PROVE  countContiguousAckSpans(S) =
                <<Cardinality(Begun(Sorted(S), n)), Cardinality(Continued(Sorted(S), n))>>
<1> DEFINE p == Sorted(S)
           R == [spans : Nat, len : Nat \ {0}, saved : Nat]
           one == [spans |-> 1, len |-> 1, saved |-> 0]
           Ext(k, r) == IF Contiguous(p[k - 1], p[k])
                        THEN [r EXCEPT !.len = @ + 1]
                        ELSE [spans |-> r.spans + 1, len |-> 1, saved |-> r.saved + r.len - 1]
           Step(g, k) == IF k = 1 THEN one ELSE Ext(k, g[k - 1])
           Scans(m) == {g \in [1..m -> R] : \A k \in 1..m : g[k] = Step(g, k)}
           scan == CHOOSE g : g = [k \in 1..n |-> Step(g, k)]
<1>0. Len(p) = n
  OBVIOUS
<1>1. one \in R
  OBVIOUS
<1>2. ASSUME NEW k, NEW r \in R
      PROVE  /\ Ext(k, r) \in R
             /\ Contiguous(p[k - 1], p[k]) =>
                    Ext(k, r).spans = r.spans /\ Ext(k, r).len = r.len + 1 /\ Ext(k, r).saved = r.saved
             /\ ~Contiguous(p[k - 1], p[k]) =>
                    /\ Ext(k, r).spans = r.spans + 1 /\ Ext(k, r).len = 1
                    /\ Ext(k, r).saved = r.saved + r.len - 1
  <2>1. r.spans \in Nat /\ r.len \in Nat \ {0} /\ r.saved \in Nat
    OBVIOUS
  <2>2. r.saved + r.len - 1 \in Nat /\ r.len + 1 \in Nat \ {0} /\ r.spans + 1 \in Nat
    BY <2>1
  <2> HIDE DEF p
  <2>3. CASE Contiguous(p[k - 1], p[k])
    BY <2>1, <2>2, <2>3
  <2>4. CASE ~Contiguous(p[k - 1], p[k])
    BY <2>1, <2>2, <2>4
  <2> QED BY <2>3, <2>4
<1>3. n # 0 => countContiguousAckSpans(S) = <<scan[n].spans, scan[n].saved + scan[n].len - 1>>
  BY <1>0 DEF countContiguousAckSpans
<1>4. n = 0 => countContiguousAckSpans(S) = <<0, 0>>
  BY <1>0 DEF countContiguousAckSpans
<1> HIDE DEF Ext, R, one, p
<1>5. \A m \in 0..n : Scans(m) # {}
  <2> DEFINE M == {m \in Nat : Scans(m) # {}}
  <2>1. 0 \in M
    <3>1. [k \in 1..0 |-> one] \in Scans(0)
      BY <1>1
    <3> QED BY <3>1
  <2>2. ASSUME NEW m \in 0..n, m \in M, m < n PROVE m + 1 \in M
    <3>1. PICK g \in Scans(m) : TRUE
      BY <2>2
    <3>2. g \in [1..m -> R] /\ \A k \in 1..m : g[k] = Step(g, k)
      BY <3>1
    <3> DEFINE h == [k \in 1..(m + 1) |-> IF k = m + 1 THEN Step(g, m + 1) ELSE g[k]]
    <3>3. m \in Nat /\ m + 1 \in Nat /\ (m + 1) - 1 = m /\ m + 1 \in 1..(m + 1)
      OBVIOUS
    <3>4. Step(g, m + 1) \in R
      <4>1. CASE m + 1 = 1
        BY <1>1, <4>1
      <4>2. CASE m + 1 # 1
        <5>1. m \in 1..m
          BY <3>3, <4>2
        <5>2. g[m] \in R
          BY <3>2, <5>1
        <5> QED BY <1>2, <3>3, <4>2, <5>2
      <4> QED BY <4>1, <4>2
    <3>5. \A k \in 1..(m + 1) : k = m + 1 \/ k \in 1..m
      BY <3>3
    <3> HIDE DEF Step
    <3>6. h \in [1..(m + 1) -> R]
      BY <3>2, <3>4, <3>5
    <3>7. ASSUME NEW k \in 1..(m + 1) PROVE h[k] = Step(h, k)
      <4>1. k # 1 => h[k - 1] = g[k - 1]
        <5> SUFFICES ASSUME k # 1 PROVE h[k - 1] = g[k - 1]
          OBVIOUS
        <5>1. k - 1 \in 1..(m + 1) /\ k - 1 # m + 1
          BY <3>3
        <5> QED BY <5>1
      <4>2. Step(h, k) = Step(g, k)
        <5> HIDE DEF h
        <5> QED BY <4>1 DEF Step
      <4>3. h[k] = Step(g, k)
        BY <3>2, <3>5
      <4> QED BY <4>2, <4>3
    <3>8. h \in Scans(m + 1)
      BY <3>6, <3>7
    <3> QED BY <3>3, <3>8
  <2> HIDE DEF M
  <2>3. 0..n \subseteq M
    BY <2>1, <2>2, Induction
  <2> QED BY <2>3 DEF M
<1>6. PICK g \in Scans(n) : TRUE
  <2>1. n \in 0..n
    OBVIOUS
  <2> HIDE DEF Scans
  <2> QED BY <1>5, <2>1
<1>7. g = [k \in 1..n |-> Step(g, k)]
  <2> HIDE DEF Step
  <2> QED BY <1>6
<1>8. scan = [k \in 1..n |-> Step(scan, k)]
  <2> HIDE DEF Step
  <2> QED BY <1>7
<1> HIDE DEF scan
<1>9. \A k \in 1..n : scan[k] = Step(scan, k)
  <2> HIDE DEF Step
  <2> QED BY <1>8
<1> DEFINE Right(k) == /\ scan[k] \in R
                       /\ scan[k].spans = Cardinality(Begun(p, k))
                       /\ scan[k].saved + scan[k].len - 1 = Cardinality(Continued(p, k))
           Q == {k \in Nat : k = 0 \/ Right(k)}
<1>10. 0 \in Q
  OBVIOUS
<1>11. ASSUME NEW k \in 0..n, k \in Q, k < n PROVE k + 1 \in Q
  <2>1. k \in Nat /\ k + 1 \in 1..n /\ (k + 1) - 1 = k /\ k + 1 \in Nat /\ (k + 1 = 1 <=> k = 0)
    BY <1>11
  <2> DEFINE b == Cardinality(Begun(p, k))
             e == Cardinality(Continued(p, k))
             b1 == Cardinality(Begun(p, k + 1))
             e1 == Cardinality(Continued(p, k + 1))
             j == k + 1
  <2>2. /\ b \in Nat /\ e \in Nat
        /\ b1 = b + (IF Continues(p, k + 1) THEN 0 ELSE 1)
        /\ e1 = e + (IF Continues(p, k + 1) THEN 1 ELSE 0)
    BY <2>1, CountStepByStep
  <2>3. k = 0 => b = 0 /\ e = 0
    BY CountStepByStep
  <2>4. scan[j] = Step(scan, j)
    BY <1>9, <2>1
  <2>5. CASE k = 0
    <3>1. scan[j] = one /\ ~Continues(p, k + 1)
      BY <2>1, <2>4, <2>5 DEF Continues
    <3>2. one.spans = 1 /\ one.len = 1 /\ one.saved = 0
      BY DEF one
    <3>3. b1 = 1 /\ e1 = 0
      BY <2>2, <2>3, <2>5, <3>1
    <3>4. Right(j)
      <4> HIDE DEF b, e
      <4> QED BY <1>1, <3>1, <3>2, <3>3
    <3> QED BY <2>1, <3>4
  <2>6. CASE k # 0
    <3> DEFINE r == scan[k]
    <3>1. r \in R /\ r.spans = b /\ r.saved + r.len - 1 = e
      BY <1>11, <2>6
    <3>2. scan[j] = Ext(j, r) /\ (Continues(p, j) <=> Contiguous(p[j - 1], p[j]))
      BY <2>1, <2>4, <2>6 DEF Continues
    <3>3. r.spans \in Nat /\ r.len \in Nat \ {0} /\ r.saved \in Nat
      BY <3>1 DEF R
    <3> HIDE DEF r, b, e, b1, e1, j
    <3>4. scan[j] \in R
      BY <1>2, <3>1, <3>2
    <3>5. CASE Continues(p, j)
      <4>1. scan[j].spans = r.spans /\ scan[j].len = r.len + 1 /\ scan[j].saved = r.saved
        BY <1>2, <3>1, <3>2, <3>5
      <4>2. b1 = b /\ e1 = e + 1
        BY <2>2, <3>5 DEF j
      <4>3. scan[j].spans = b1 /\ scan[j].saved + scan[j].len - 1 = e1
        BY <3>1, <3>3, <4>1, <4>2
      <4> QED BY <2>1, <3>4, <4>3 DEF j, b1, e1
    <3>6. CASE ~Continues(p, j)
      <4>1. scan[j].spans = r.spans + 1 /\ scan[j].len = 1 /\ scan[j].saved = r.saved + r.len - 1
        BY <1>2, <3>1, <3>2, <3>6
      <4>2. b1 = b + 1 /\ e1 = e
        BY <2>2, <3>6 DEF j
      <4>3. scan[j].spans = b1 /\ scan[j].saved + scan[j].len - 1 = e1
        BY <2>2, <3>1, <3>3, <4>1, <4>2
      <4> QED BY <2>1, <3>4, <4>3 DEF j, b1, e1
    <3> QED BY <3>5, <3>6
  <2> QED BY <2>5, <2>6
<1> HIDE DEF Q
<1>12. n \in Q
  <2>1. 0..n \subseteq Q
    BY <1>10, <1>11, Induction
  <2> QED BY <2>1
<1>13. CASE n = 0
  <2>1. Cardinality(Begun(p, 0)) = 0 /\ Cardinality(Continued(p, 0)) = 0
    BY CountStepByStep
  <2> QED BY <1>4, <1>13, <2>1 DEF p
<1>14. CASE n # 0
  BY <1>3, <1>12, <1>14 DEF Q, p
<1> QED BY <1>13, <1>14

(* The spans and the entries saved that a flush reports are those of the    *)
(* set of ids it sends: for every set of ids and every width of a sequence  *)
(* number, one that wraps around included.                                  *)
THEOREM SpansExactHolds == Spec => []SpansExact
<1>1. TypeOK => SpansExact
  <2> SUFFICES ASSUME TypeOK PROVE SpansExact
    OBVIOUS
  <2> DEFINE P == {Parts[i] : i \in Parsed(pending)}
             saved == {p \in P : <<p[1], p[2] - 1>> \in P}
             N == Cardinality(P)
             q == Sorted(pending)
  <2> SUFFICES ASSUME N = Cardinality(Parsed(pending))
               PROVE  countContiguousAckSpans(pending) = <<Cardinality(P \ saved), Cardinality(saved)>>
    BY DEF SpansExact
  <2>1. pending \subseteq Id
    BY DEF TypeOK
  <2> HIDE DEF P
  <2>2. /\ IsFiniteSet(P) /\ N \in Nat /\ P \subseteq Place /\ q \in [1..N -> P]
        /\ \A x \in P : \E n \in 1..N : q[n] = x
        /\ \A n, m \in 1..N : n < m => Key(q[n]) < Key(q[m])
    BY <2>1, SortedFacts DEF P
  <2> HIDE DEF N, q
  <2>3. \A k \in 1..N : <<q[k][1], q[k][2] - 1>> \in P <=> Continues(q, k)
    BY <2>2, ContinuesExact
  <2>4. countContiguousAckSpans(pending) = <<Cardinality(Begun(q, N)), Cardinality(Continued(q, N))>>
    BY <2>2, ScanCounts DEF q
  <2>5. \A n, m \in 1..N : q[n] = q[m] => n = m
    <3> SUFFICES ASSUME NEW n \in 1..N, NEW m \in 1..N, q[n] = q[m], n # m PROVE FALSE
      OBVIOUS
    <3>1. Key(q[n]) \in Nat /\ Key(q[n]) = Key(q[m])
      BY <2>2, KeyOrder
    <3>2. n < m \/ m < n
      BY <2>2
    <3>3. Key(q[n]) < Key(q[m]) \/ Key(q[m]) < Key(q[n])
      BY <2>2, <3>2
    <3> QED BY <3>1, <3>3
  <2>6. ASSUME NEW J, J \subseteq 1..N, NEW T, T \subseteq P,
               \A k \in 1..N : k \in J <=> q[k] \in T
        PROVE  Cardinality(J) = Cardinality(T)
    <3> DEFINE h == [k \in J |-> q[k]]
    <3>1. h \in [J -> T]
      BY <2>6
    <3>2. \A a, b \in J : h[a] = h[b] => a = b
      BY <2>5, <2>6
    <3>3. \A t \in T : \E s \in J : h[s] = t
      BY <2>2, <2>6
    <3> HIDE DEF h
    <3>4. h \in Bijection(J, T)
      BY <3>1, <3>2, <3>3, Fun_IsBij
    <3>5. ExistsBijection(J, T)
      BY <3>4, Fun_ExistsBij
    <3>6. IsFiniteSet(J)
      <4>1. J \subseteq 0..N
        BY <2>2, <2>6
      <4> QED BY <2>2, <4>1, BoundedFinite
    <3> QED BY <3>5, <3>6, FS_Bijection
  <2>7. \A k \in 1..N : k \in Continued(q, N) <=> q[k] \in saved
    BY <2>2, <2>3 DEF Continued
  <2>8. \A k \in 1..N : k \in Begun(q, N) <=> q[k] \in P \ saved
    BY <2>2, <2>3 DEF Begun
  <2>9. Continued(q, N) \subseteq 1..N /\ Begun(q, N) \subseteq 1..N
        /\ saved \subseteq P /\ P \ saved \subseteq P
    BY DEF Continued, Begun
  <2> HIDE DEF saved
  <2>10. Cardinality(Continued(q, N)) = Cardinality(saved)
    BY <2>6, <2>7, <2>9
  <2>11. Cardinality(Begun(q, N)) = Cardinality(P \ saved)
    BY <2>6, <2>8, <2>9
  <2> QED BY <2>4, <2>10, <2>11
<1> QED BY <1>1, TypeCorrect, PTL
=============================================================================
