------------------------- MODULE DeadLetter_proofs -------------------------
(***************************************************************************)
(* Proofs about dead letters, for any number of sidecars that scan and of  *)
(* replays under way, any policy and every size of page and request.       *)
(***************************************************************************)
EXTENDS DeadLetter, DataLemmas

Retries == ResolveDLQPolicy.retries

-----------------------------------------------------------------------------
(* What XPENDING and XRANGE return.                                        *)

\* The first members of a set, in order: each once.
LEMMA AscendingFacts ==
    ASSUME NEW S, S \subseteq Nat, IsFiniteSet(S)
    PROVE  LET a == Ascending(S) IN
           /\ a \in Seq(Nat) /\ Len(a) = Cardinality(S)
           /\ \A n \in DOMAIN a : a[n] \in S
           /\ \A n, k \in DOMAIN a : n # k => a[n] # a[k]
<1> DEFINE N == Cardinality(S)
           r(i) == Cardinality({k \in S : k < i})
           a == Ascending(S)
<1>1. N \in Nat
  BY FS_CardinalityType
<1>2. a = [n \in 1..N |-> CHOOSE i \in S : r(i) = n - 1]
  BY DEF Ascending
<1>3. ASSUME NEW n \in 1..N PROVE a[n] \in S /\ r(a[n]) = n - 1
  <2>1. n - 1 \in Nat /\ n - 1 < N
    BY <1>1
  <2>2. \E i \in S : r(i) = n - 1
    BY <2>1, NthMember
  <2> HIDE DEF a, r
  <2> QED BY <1>2, <2>2
<1> HIDE DEF a, r, N
<1>4. a \in [1..N -> Nat] /\ DOMAIN a = 1..N
  BY <1>2, <1>3
<1>5. a \in Seq(Nat) /\ Len(a) = N
  BY <1>1, <1>4
<1>6. ASSUME NEW n \in 1..N, NEW k \in 1..N, n # k PROVE a[n] # a[k]
  <2>1. r(a[n]) = n - 1 /\ r(a[k]) = k - 1
    BY <1>3
  <2> QED BY <1>1, <1>6, <2>1
<1> QED BY <1>3, <1>4, <1>5, <1>6 DEF a, N

\* A request that allows one finds one.
LEMMA FirstFacts ==
    ASSUME NEW S, S \subseteq Nat, NEW n \in Nat
    PROVE  /\ First(S, n) \subseteq S
           /\ S # {} /\ n # 0 => First(S, n) # {}
<1>1. First(S, n) \subseteq S
  BY DEF First
<1>2. ASSUME S # {}, n # 0 PROVE First(S, n) # {}
  <2>1. PICK i \in S : \A y \in S : i <= y
    BY <1>2, LeastMember
  <2>2. {k \in S : k < i} = {}
    <3>1. \A y \in S : ~(y < i)
      BY <2>1
    <3> QED BY <3>1
  <2>3. Cardinality({k \in S : k < i}) < n
    BY <1>2, <2>2, FS_EmptySet
  <2> QED BY <2>3 DEF First
<1> QED BY <1>1, <1>2

\* The last id of a page is one of the page.
LEMMA GreatestFacts ==
    ASSUME NEW n \in Nat, NEW S, S \subseteq 0..n, S # {}
    PROVE  Greatest(S) \in S
BY GreatestMember DEF Greatest

-----------------------------------------------------------------------------
(* Types.                                                                  *)

\* The stream: entries name entries and dead letters that exist, and nothing
\* is known of an entry before the group has handed it out.
LogInv ==
    /\ log \in Seq([orig : Nat, from : Nat]) /\ present \subseteq DOMAIN log
    /\ \A i \in DOMAIN log : log[i].orig <= Len(log) /\ log[i].from <= Len(dlog)
    /\ read \in Nat /\ read <= Len(log)
    /\ pel \subseteq 1..read /\ idle \subseteq pel /\ handled \subseteq 1..read
    /\ count \in Seq(0..MaxClaims) /\ Len(count) = Len(log)
    /\ \A i \in DOMAIN log : i > read => count[i] = 0

\* The dead-letter stream.
LetterInv ==
    /\ dlog \in Seq([src : Nat, orig : Nat]) /\ dpresent \subseteq DOMAIN dlog
    /\ \A d \in DOMAIN dlog : dlog[d].src <= read /\ dlog[d].orig <= Len(log)

\* What a scan still has to move was over-retried when XPENDING was asked, and
\* is there once.
ScanRecord == [pc : {"idle", "page", "entry", "add", "ack"}, todo : Seq(Nat), cursor : Nat, more : BOOLEAN]

MayMove(r) ==
    /\ r.pc \in {"add", "ack"} => r.todo # <<>>
    /\ r.cursor <= read
    /\ \A n \in DOMAIN r.todo : r.todo[n] \in 1..read /\ count[r.todo[n]] >= Retries
    /\ \A n, k \in DOMAIN r.todo : n # k => r.todo[n] # r.todo[k]

ScanInv == scan \in [Scanner -> ScanRecord] /\ \A s \in Scanner : MayMove(scan[s])

\* What a replay still has to do.
ReplayRecord ==
    [pc : {"idle", "letter", "delete"}, todo : Seq(Nat), delete : BOOLEAN, target : Targets \cup {NoTarget}]

MayReplay(r) ==
    /\ r.pc # "idle" => r.todo # <<>>
    /\ \A n \in DOMAIN r.todo : r.todo[n] \in DOMAIN dlog

ReplayInv == replay \in [Replayer -> ReplayRecord] /\ \A p \in Replayer : MayReplay(replay[p])

BoundInv == trouble \in 0..MaxTrouble /\ faults \in 0..trouble

TypeInv == LogInv /\ LetterInv /\ ScanInv /\ ReplayInv /\ BoundInv

-----------------------------------------------------------------------------
(* How the two streams change.                                             *)

\* What a step does to the stream, and to what the group knows of it.
StreamStep ==
    \/ UNCHANGED <<log, count, read, present>>
    \/ Deliver
    \/ \E i \in pel : Claim(i)
    \/ XAdd(Fresh) /\ read' = read
    \/ \E d \in DOMAIN dlog : XAdd(Requeued(d)) /\ read' = read

\* What a step does to the dead-letter stream.
LetterStep ==
    \/ dlog' = dlog /\ dpresent' \subseteq dpresent
    \/ XAddLetter(OthersLetter)
    \/ \E s \in Scanner : scan[s].pc = "add" /\ Copy(Entry(s))

\* XADD leaves a part of the stream, and what it trims has MaxStreamLen newer
\* entries behind it.
LEMMA TrimmedFacts ==
    ASSUME NEW n \in Nat, NEW S, S \subseteq 1..n, NEW R \in Trimmed(S)
    PROVE  R \subseteq S /\ \A k \in S \ R : n - k >= MaxStreamLen
<1>1. R \subseteq S
  BY DEF Trimmed
<1>2. ASSUME NEW k \in S \ R PROVE n - k >= MaxStreamLen
  <2>1. k \in Nat /\ k <= n /\ Cardinality(R) >= MaxStreamLen
    BY <1>2 DEF Trimmed
  <2>2. R \subseteq (k + 1)..n
    <3> SUFFICES ASSUME NEW i \in R PROVE i \in (k + 1)..n
      OBVIOUS
    <3>1. i \in 1..n /\ ~(i < k) /\ i # k
      BY <1>1, <1>2 DEF Trimmed
    <3> QED BY <2>1, <3>1
  <2>3. IsFiniteSet((k + 1)..n) /\ Cardinality((k + 1)..n) = IF k + 1 > n THEN 0 ELSE n - (k + 1) + 1
    BY <2>1, FS_Interval
  <2>4. Cardinality(R) <= Cardinality((k + 1)..n) /\ IsFiniteSet(R)
    BY <2>2, <2>3, FS_Subset
  <2>5. Cardinality(R) \in Nat /\ MaxStreamLen \in Nat
    BY <2>4, FS_CardinalityType, DeadLetterAssumption DEF Loaded
  <2>6. Cardinality((k + 1)..n) = n - k
    BY <2>1, <2>3
  <2> QED BY <2>1, <2>4, <2>5, <2>6
<1> QED BY <1>1, <1>2

\* Members of a scan's and of a replay's list.
LEMMA TodoFacts ==
    ASSUME TypeInv
    PROVE  /\ \A s \in Scanner : scan[s].todo # <<>> =>
                /\ scan[s].todo \in Seq(Nat) /\ 1 \in DOMAIN scan[s].todo
                /\ Entry(s) = scan[s].todo[1]
                /\ Entry(s) \in 1..read /\ count[Entry(s)] >= Retries
           /\ \A p \in Replayer : replay[p].todo # <<>> =>
                /\ replay[p].todo \in Seq(Nat) /\ 1 \in DOMAIN replay[p].todo
                /\ Letter(p) = replay[p].todo[1] /\ Letter(p) \in DOMAIN dlog
<1>1. ASSUME NEW t \in Seq(Nat), t # <<>> PROVE 1 \in DOMAIN t /\ Head(t) = t[1]
  BY <1>1
<1>2. ASSUME NEW s \in Scanner, scan[s].todo # <<>>
      PROVE  /\ scan[s].todo \in Seq(Nat) /\ 1 \in DOMAIN scan[s].todo
             /\ Entry(s) = scan[s].todo[1]
             /\ Entry(s) \in 1..read /\ count[Entry(s)] >= Retries
  <2>1. scan[s].todo \in Seq(Nat)
    BY DEF TypeInv, ScanInv, ScanRecord, MayMove
  <2>2. 1 \in DOMAIN scan[s].todo /\ Entry(s) = scan[s].todo[1]
    BY <1>1, <1>2, <2>1 DEF Entry
  <2> QED BY <2>1, <2>2 DEF TypeInv, ScanInv, ScanRecord, MayMove
<1>3. ASSUME NEW p \in Replayer, replay[p].todo # <<>>
      PROVE  /\ replay[p].todo \in Seq(Nat) /\ 1 \in DOMAIN replay[p].todo
             /\ Letter(p) = replay[p].todo[1] /\ Letter(p) \in DOMAIN dlog
  <2>1. replay[p].todo \in Seq(Nat)
    BY DEF TypeInv, ReplayInv, ReplayRecord, MayReplay
  <2>2. 1 \in DOMAIN replay[p].todo /\ Letter(p) = replay[p].todo[1]
    BY <1>1, <1>3, <2>1 DEF Letter
  <2> QED BY <2>1, <2>2 DEF TypeInv, ReplayInv, ReplayRecord, MayReplay
<1> QED BY <1>2, <1>3

\* Every step changes the streams in one of these ways.
LEMMA StreamsStep == TypeInv /\ [Next]_vars => StreamStep /\ LetterStep
<1> SUFFICES ASSUME TypeInv, [Next]_vars PROVE StreamStep /\ LetterStep
  OBVIOUS
<1> USE DEF streamVars, dlqVars, boundVars
<1>1. CASE Deliver
  BY <1>1 DEF Deliver, StreamStep, LetterStep
<1>2. ASSUME NEW i \in pel, Claim(i) PROVE StreamStep /\ LetterStep
  BY <1>2 DEF Claim, StreamStep, LetterStep
<1>3. ASSUME NEW i \in pel, Ages(i) \/ ConsumerAcks(i) PROVE StreamStep /\ LetterStep
  BY <1>3 DEF Ages, ConsumerAcks, StreamStep, LetterStep
<1>4. CASE Publish \/ OtherLetter
  BY <1>4 DEF Publish, OtherLetter, StreamStep, LetterStep
<1>5. ASSUME NEW s \in Scanner, ScanBegins(s) \/ XPending(s) \/ PageEnds(s) \/ XRange(s) \/ PageFails(s)
      PROVE  StreamStep /\ LetterStep
  BY <1>5 DEF ScanBegins, XPending, PageEnds, XRange, PageFails, StreamStep, LetterStep
<1>6. ASSUME NEW s \in Scanner, XAddDLQ(s) \/ XAck(s) \/ MoveFails(s) PROVE StreamStep /\ LetterStep
  BY <1>6 DEF XAddDLQ, XAck, MoveFails, StreamStep, LetterStep
<1>7. ASSUME NEW p \in Replayer, replayDLQInternal(p) \/ ReplaySkips(p) \/ ReplayDeletes(p)
      PROVE  StreamStep /\ LetterStep
  BY <1>7 DEF replayDLQInternal, ReplaySkips, ReplayDeletes, StreamStep, LetterStep
<1>8. ASSUME NEW p \in Replayer, ReplayAdds(p) \/ ReplayFails(p) PROVE StreamStep /\ LetterStep
  <2>1. AtLetter(p) => Letter(p) \in DOMAIN dlog
    BY TodoFacts DEF AtLetter, TypeInv, ReplayInv, MayReplay
  <2> QED BY <1>8, <2>1 DEF ReplayAdds, ReplayFails, StreamStep, LetterStep
<1>9. CASE UNCHANGED vars
  BY <1>9 DEF vars, StreamStep, LetterStep
<1> QED
  BY <1>1, <1>2, <1>3, <1>4, <1>5, <1>6, <1>7, <1>8, <1>9
     DEF Next, Consumer, scanAndMoveToDLQ, Replays

\* The stream only grows, by a new message or a requeued letter, and no count falls.
LEMMA StreamGrows ==
    ASSUME TypeInv, StreamStep
    PROVE  /\ log' \in Seq([orig : Nat, from : Nat]) /\ present' \subseteq DOMAIN log'
           /\ Len(log) \in Nat /\ Len(log') \in Nat /\ Len(log) <= Len(log')
           /\ DOMAIN log = 1..Len(log) /\ DOMAIN log' = 1..Len(log')
           /\ \A i \in DOMAIN log : log'[i] = log[i]
           /\ \A i \in DOMAIN log' \ DOMAIN log :
                i = Len(log) + 1 /\ (log'[i] = Fresh \/ \E d \in DOMAIN dlog : log'[i] = Requeued(d))
           /\ read' \in Nat /\ read <= read' /\ read' <= Len(log')
           /\ count' \in Seq(0..MaxClaims) /\ Len(count') = Len(log')
           /\ \A i \in 1..read : count'[i] >= count[i] /\ (i \notin pel => count'[i] = count[i])
           /\ \A i \in DOMAIN log' : i > read' => count'[i] = 0
<1>0. /\ log \in Seq([orig : Nat, from : Nat]) /\ present \subseteq DOMAIN log
      /\ count \in Seq(0..MaxClaims) /\ Len(count) = Len(log)
  BY DEF TypeInv, LogInv
<1>1. Len(log) \in Nat /\ DOMAIN log = 1..Len(log) /\ count \in [1..Len(log) -> 0..MaxClaims]
  <2>1. Len(log) \in Nat /\ DOMAIN log = 1..Len(log)
    BY <1>0, SliceFacts
  <2>2. count \in [1..Len(count) -> 0..MaxClaims]
    BY <1>0, SliceFacts
  <2> QED BY <1>0, <2>1, <2>2
<1>b. /\ read \in Nat /\ read <= Len(log) /\ pel \subseteq 1..read
      /\ \A i \in 1..Len(log) : i > read => count[i] = 0
      /\ \A i \in 1..Len(log) : count[i] \in Nat /\ count[i] <= MaxClaims
      /\ MaxClaims \in Nat /\ 1 <= MaxClaims
  <2>1. MaxClaims \in Nat /\ 1 <= MaxClaims
    BY DeadLetterAssumption
  <2>2. \A i \in 1..Len(log) : count[i] \in Nat /\ count[i] <= MaxClaims
    BY <1>1, <2>1
  <2>3. /\ read \in Nat /\ read <= Len(log) /\ pel \subseteq 1..read
        /\ \A i \in DOMAIN log : i > read => count[i] = 0
    BY DEF TypeInv, LogInv
  <2> QED BY <1>1, <2>1, <2>2, <2>3
<1>2. CASE UNCHANGED <<log, count, read, present>>
  BY <1>0, <1>1, <1>b, <1>2
<1>3. CASE Deliver
  <2>1. log' = log /\ present' = present /\ read' = read + 1 /\ read + 1 \in 1..Len(log)
    BY <1>1, <1>b, <1>3 DEF Deliver
  <2>2. count' = count \/ count' = [count EXCEPT ![read + 1] = 1]
    BY <1>3 DEF Deliver
  <2>3. count' \in [1..Len(log) -> 0..MaxClaims]
    <3>1. 1 \in 0..MaxClaims
      BY <1>b
    <3> QED BY <1>1, <2>2, <3>1
  <2>4. count' \in Seq(0..MaxClaims) /\ Len(count') = Len(log)
    BY <1>1, <2>3, FunctionSlice
  <2>5. \A i \in 1..Len(log) : i # read + 1 => count'[i] = count[i]
    BY <1>1, <2>2
  <2>6. \A i \in 1..read : count'[i] >= count[i] /\ (i \notin pel => count'[i] = count[i])
    BY <1>1, <1>b, <2>1, <2>5
  <2>7. \A i \in DOMAIN log' : i > read' => count'[i] = 0
    BY <1>1, <1>b, <2>1, <2>5
  <2>8. read' \in Nat /\ read <= read' /\ read' <= Len(log')
    BY <1>1, <1>b, <2>1
  <2> QED BY <1>0, <1>1, <2>1, <2>4, <2>6, <2>7, <2>8
<1>4. ASSUME NEW i \in pel, Claim(i)
      PROVE  /\ UNCHANGED <<log, present, read>>
             /\ count' \in Seq(0..MaxClaims) /\ Len(count') = Len(log)
             /\ \A j \in 1..read : count'[j] >= count[j] /\ (j \notin pel => count'[j] = count[j])
             /\ \A j \in DOMAIN log' : j > read' => count'[j] = 0
  <2>1. UNCHANGED <<log, present, read>> /\ count' = [count EXCEPT ![i] = @ + 1] /\ count[i] < MaxClaims
    BY <1>4 DEF Claim
  <2>2. i \in 1..Len(log) /\ i <= read /\ count[i] + 1 \in 0..MaxClaims
    BY <1>1, <1>b, <2>1
  <2>3. count' \in [1..Len(log) -> 0..MaxClaims]
    BY <1>1, <2>1, <2>2
  <2>4. count' \in Seq(0..MaxClaims) /\ Len(count') = Len(log)
    BY <1>1, <2>3, FunctionSlice
  <2>5. \A j \in 1..Len(log) : count'[j] = IF j = i THEN count[j] + 1 ELSE count[j]
    BY <1>1, <2>1
  <2>6. \A j \in 1..read : count'[j] >= count[j] /\ (j \notin pel => count'[j] = count[j])
    BY <1>1, <1>b, <2>5
  <2>7. \A j \in DOMAIN log' : j > read' => count'[j] = 0
    BY <1>1, <1>b, <2>1, <2>2, <2>5
  <2> QED BY <2>1, <2>4, <2>6, <2>7
<1>5. CASE \E i \in pel : Claim(i)
  <2>1. PICK i \in pel : Claim(i)
    BY <1>5
  <2>2. UNCHANGED <<log, present, read>> /\ read \in Nat /\ read <= Len(log)
    BY <1>b, <1>4, <2>1
  <2>3. read' \in Nat /\ read <= read' /\ read' <= Len(log') /\ Len(log) <= Len(log')
    BY <1>1, <2>2
  <2> QED BY <1>0, <1>1, <1>4, <2>1, <2>2, <2>3
<1>6. ASSUME NEW e \in [orig : Nat, from : Nat], XAdd(e), read' = read
      PROVE  /\ log' \in Seq([orig : Nat, from : Nat]) /\ Len(log') = Len(log) + 1
             /\ DOMAIN log' = 1..(Len(log) + 1) /\ present' \subseteq DOMAIN log'
             /\ \A i \in 1..Len(log) : log'[i] = log[i]
             /\ log'[Len(log) + 1] = e
             /\ count' \in Seq(0..MaxClaims) /\ Len(count') = Len(log) + 1
             /\ \A i \in 1..Len(log) : count'[i] = count[i]
             /\ count'[Len(log) + 1] = 0
  <2>1. log' = Append(log, e) /\ count' = Append(count, 0) /\ present' \subseteq present \cup {Len(log) + 1}
    BY <1>6 DEF XAdd, Trimmed
  <2>2. 0 \in 0..MaxClaims
    BY <1>b
  <2> DEFINE R == [orig : Nat, from : Nat]
             C == 0..MaxClaims
  <2> HIDE DEF R, C
  <2>3. /\ log' \in Seq(R) /\ Len(log') = Len(log) + 1 /\ DOMAIN log' = 1..(Len(log) + 1)
        /\ \A i \in 1..Len(log) : log'[i] = log[i]
        /\ log'[Len(log) + 1] = e
    BY <1>0, <1>6, <2>1, AppendFacts DEF R
  <2>4. /\ count' \in Seq(C) /\ Len(count') = Len(log) + 1
        /\ \A i \in 1..Len(log) : count'[i] = count[i]
        /\ count'[Len(log) + 1] = 0
    BY <1>0, <2>1, <2>2, AppendFacts DEF C
  <2>5. present' \subseteq 1..(Len(log) + 1)
    BY <1>0, <1>1, <2>1
  <2> QED BY <2>3, <2>4, <2>5 DEF R, C
<1>7. ASSUME NEW e \in [orig : Nat, from : Nat], XAdd(e), read' = read
      PROVE  /\ Len(log') \in Nat /\ Len(log) <= Len(log') /\ DOMAIN log' = 1..Len(log')
             /\ \A i \in DOMAIN log' \ DOMAIN log : i = Len(log) + 1 /\ log'[i] = e
             /\ read' \in Nat /\ read <= read' /\ read' <= Len(log')
             /\ \A i \in 1..read : count'[i] >= count[i] /\ (i \notin pel => count'[i] = count[i])
             /\ \A i \in DOMAIN log' : i > read' => count'[i] = 0
  <2>0. /\ DOMAIN log' = 1..(Len(log) + 1)
        /\ \A i \in 1..Len(log) : count'[i] = count[i]
        /\ count'[Len(log) + 1] = 0
    BY <1>6, <1>7
  <2>1. Len(log') \in Nat /\ Len(log) <= Len(log') /\ DOMAIN log' = 1..Len(log')
    BY <1>1, <1>6, <1>7
  <2>2. \A i \in DOMAIN log' \ DOMAIN log : i = Len(log) + 1
    <3>1. DOMAIN log = 1..Len(log) /\ Len(log) \in Nat
      BY <1>1
    <3> QED BY <2>0, <3>1
  <2>3. read' \in Nat /\ read <= read' /\ read' <= Len(log')
    <3>1. read' = read /\ read \in Nat /\ read <= Len(log)
      BY <1>b, <1>7
    <3> QED BY <1>1, <2>1, <3>1
  <2>4. \A i \in 1..read : count'[i] >= count[i] /\ (i \notin pel => count'[i] = count[i])
    BY <1>1, <1>b, <2>0, <1>7
  <2>5. \A i \in DOMAIN log' : i > read' => count'[i] = 0
    BY <1>1, <1>b, <2>0, <1>7
  <2> QED BY <1>6, <1>7, <2>1, <2>2, <2>3, <2>4, <2>5
<1>8. CASE \E d \in DOMAIN dlog : XAdd(Requeued(d)) /\ read' = read
  <2>1. PICK d \in DOMAIN dlog : XAdd(Requeued(d)) /\ read' = read
    BY <1>8
  <2>2. Requeued(d) \in [orig : Nat, from : Nat]
    <3>1. dlog[d] \in [src : Nat, orig : Nat] /\ d \in Nat
      BY SliceFacts DEF TypeInv, LetterInv
    <3> QED BY <3>1 DEF Requeued
  <2> QED BY <1>1, <1>6, <1>7, <2>1, <2>2
<1>9. CASE XAdd(Fresh) /\ read' = read
  <2>1. Fresh \in [orig : Nat, from : Nat]
    BY DEF Fresh
  <2> QED BY <1>1, <1>6, <1>7, <1>9, <2>1
<1> QED BY <1>2, <1>3, <1>5, <1>8, <1>9 DEF StreamStep

\* The dead-letter stream only grows, by a letter of others or a copy of what a
\* scanner has in hand.
LEMMA LettersGrow ==
    ASSUME TypeInv, LetterStep
    PROVE  /\ dlog' \in Seq([src : Nat, orig : Nat]) /\ dpresent' \subseteq DOMAIN dlog'
           /\ Len(dlog) \in Nat /\ Len(dlog') \in Nat /\ Len(dlog) <= Len(dlog')
           /\ DOMAIN dlog = 1..Len(dlog) /\ DOMAIN dlog' = 1..Len(dlog')
           /\ \A d \in DOMAIN dlog : dlog'[d] = dlog[d]
           /\ \A d \in DOMAIN dlog' \ DOMAIN dlog :
                /\ d = Len(dlog) + 1
                /\ \/ dlog'[d] = OthersLetter
                   \/ \E s \in Scanner : /\ scan[s].pc = "add"
                                         /\ dlog'[d].src = Entry(s) /\ dlog'[d].orig = OriginalID(Entry(s))
<1>0. dlog \in Seq([src : Nat, orig : Nat]) /\ dpresent \subseteq DOMAIN dlog
      /\ Len(dlog) \in Nat /\ DOMAIN dlog = 1..Len(dlog)
  BY DEF TypeInv, LetterInv
<1>1. CASE dlog' = dlog /\ dpresent' \subseteq dpresent
  BY <1>0, <1>1
<1>2. ASSUME NEW x \in [src : Nat, orig : Nat], XAddLetter(x)
      PROVE  /\ dlog' \in Seq([src : Nat, orig : Nat]) /\ dpresent' \subseteq DOMAIN dlog'
             /\ Len(dlog') \in Nat /\ Len(dlog) <= Len(dlog') /\ DOMAIN dlog' = 1..Len(dlog')
             /\ \A d \in DOMAIN dlog : dlog'[d] = dlog[d]
             /\ \A d \in DOMAIN dlog' \ DOMAIN dlog : d = Len(dlog) + 1 /\ dlog'[d] = x
  <2> DEFINE R == [src : Nat, orig : Nat]
  <2>1. dlog' = Append(dlog, x) /\ dpresent' \subseteq dpresent \cup {Len(dlog) + 1}
    BY <1>2 DEF XAddLetter, Trimmed
  <2> HIDE DEF R
  <2>2. /\ dlog' \in Seq(R) /\ Len(dlog') = Len(dlog) + 1 /\ DOMAIN dlog' = 1..(Len(dlog) + 1)
        /\ \A i \in 1..Len(dlog) : dlog'[i] = dlog[i]
        /\ dlog'[Len(dlog) + 1] = x
    BY <1>0, <1>2, <2>1, AppendFacts DEF R
  <2>3. dpresent' \subseteq 1..(Len(dlog) + 1)
    BY <1>0, <2>1
  <2>4. Len(dlog') \in Nat /\ Len(dlog) <= Len(dlog')
        /\ \A d \in DOMAIN dlog' \ DOMAIN dlog : d = Len(dlog) + 1
    <3>1. Len(dlog) \in Nat /\ DOMAIN dlog = 1..Len(dlog)
      BY <1>0
    <3> QED BY <2>2, <3>1
  <2> QED BY <1>0, <2>2, <2>3, <2>4 DEF R
<1>3. CASE XAddLetter(OthersLetter)
  <2>1. OthersLetter \in [src : Nat, orig : Nat]
    BY DEF OthersLetter
  <2> QED BY <1>0, <1>2, <1>3, <2>1
<1>4. CASE \E s \in Scanner : scan[s].pc = "add" /\ Copy(Entry(s))
  <2>1. PICK s \in Scanner : scan[s].pc = "add" /\ Copy(Entry(s))
    BY <1>4
  <2> DEFINE x == [src |-> Entry(s), orig |-> OriginalID(Entry(s))]
  <2>2. Entry(s) \in Nat /\ Entry(s) \in DOMAIN log
    <3>1. Entry(s) \in 1..read
      BY <2>1, TodoFacts DEF TypeInv, ScanInv, ScanRecord, MayMove
    <3>2. read \in Nat /\ read <= Len(log) /\ DOMAIN log = 1..Len(log) /\ Len(log) \in Nat
      BY DEF TypeInv, LogInv
    <3> QED BY <3>1, <3>2
  <2>3. OriginalID(Entry(s)) \in Nat
    <3>1. log[Entry(s)] \in [orig : Nat, from : Nat]
      BY <2>2, SliceFacts DEF TypeInv, LogInv
    <3> QED BY <2>2, <3>1 DEF OriginalID
  <2>4. /\ x \in [src : Nat, orig : Nat] /\ x.src = Entry(s) /\ x.orig = OriginalID(Entry(s))
        /\ XAddLetter(x)
    BY <2>1, <2>2, <2>3 DEF Copy
  <2> HIDE DEF x
  <2> QED BY <1>0, <1>2, <2>1, <2>4
<1> QED BY <1>1, <1>3, <1>4 DEF LetterStep

-----------------------------------------------------------------------------
(* Type correctness.                                                       *)

\* What a step does to the pending list.
PelStep ==
    \/ UNCHANGED <<pel, handled>> /\ idle' \subseteq pel
    \/ Deliver
    \/ \E i \in pel : ConsumerAcks(i)
    \/ \E s \in Scanner : scan[s].pc = "ack" /\ Acks(Entry(s)) /\ handled' = handled

\* Every step changes the pending list in one of these ways.
LEMMA PelSteps == TypeInv /\ [Next]_vars => PelStep
<1> SUFFICES ASSUME TypeInv, [Next]_vars PROVE PelStep
  OBVIOUS
<1> USE DEF streamVars, dlqVars, boundVars
<1>0. idle \subseteq pel
  BY DEF TypeInv, LogInv
<1>1. CASE Deliver \/ Publish \/ OtherLetter \/ UNCHANGED vars
  BY <1>0, <1>1 DEF Publish, OtherLetter, vars, PelStep
<1>2. ASSUME NEW i \in pel, Claim(i) \/ Ages(i) \/ ConsumerAcks(i) PROVE PelStep
  BY <1>0, <1>2 DEF Claim, Ages, PelStep
<1>3. ASSUME NEW s \in Scanner, ScanBegins(s) \/ XPending(s) \/ PageEnds(s) \/ XRange(s) \/ XAddDLQ(s) \/ PageFails(s)
      PROVE  PelStep
  BY <1>0, <1>3 DEF ScanBegins, XPending, PageEnds, XRange, XAddDLQ, PageFails, PelStep
<1>4. ASSUME NEW s \in Scanner, XAck(s) \/ MoveFails(s) PROVE PelStep
  BY <1>0, <1>4 DEF XAck, MoveFails, PelStep
<1>5. ASSUME NEW p \in Replayer, Replays(p) PROVE PelStep
  BY <1>0, <1>5 DEF Replays, replayDLQInternal, ReplaySkips, ReplayAdds, ReplayDeletes, ReplayFails, PelStep
<1> QED BY <1>1, <1>2, <1>3, <1>4, <1>5 DEF Next, Consumer, scanAndMoveToDLQ

\* The stream keeps its types.
LEMMA LogStep == ASSUME TypeInv, StreamStep, LetterStep, PelStep PROVE LogInv'
<1>1. ASSUME NEW i \in DOMAIN log' PROVE log'[i].orig <= Len(log') /\ log'[i].from <= Len(dlog')
  <2>0. /\ Len(log) \in Nat /\ Len(log') \in Nat /\ Len(log) <= Len(log')
        /\ Len(dlog) \in Nat /\ Len(dlog') \in Nat /\ Len(dlog) <= Len(dlog')
    BY StreamGrows, LettersGrow
  <2>1. CASE i \in DOMAIN log
    <3>1. log'[i] = log[i] /\ log[i].orig <= Len(log) /\ log[i].from <= Len(dlog)
      BY <2>1, StreamGrows DEF TypeInv, LogInv
    <3>2. log[i].orig \in Nat /\ log[i].from \in Nat
      <4>1. log[i] \in [orig : Nat, from : Nat]
        BY <2>1, SliceFacts DEF TypeInv, LogInv
      <4> QED BY <4>1
    <3> QED BY <2>0, <3>1, <3>2
  <2>2. CASE i \notin DOMAIN log
    <3>0. CASE log'[i] = Fresh
      BY <2>0, <3>0 DEF Fresh
    <3> SUFFICES ASSUME log'[i] # Fresh PROVE log'[i].orig <= Len(log') /\ log'[i].from <= Len(dlog')
      BY <3>0
    <3>1. PICK d \in DOMAIN dlog : log'[i] = Requeued(d)
      BY <2>2, StreamGrows
    <3>2. dlog[d] \in [src : Nat, orig : Nat] /\ dlog[d].orig <= Len(log) /\ d \in Nat /\ d <= Len(dlog)
      <4>1. dlog[d] \in [src : Nat, orig : Nat] /\ d \in Nat
        BY SliceFacts DEF TypeInv, LetterInv
      <4>2. DOMAIN dlog = 1..Len(dlog) /\ dlog[d].orig <= Len(log)
        BY LettersGrow DEF TypeInv, LetterInv
      <4>3. d <= Len(dlog)
        BY <2>0, <4>2
      <4> QED BY <4>1, <4>2, <4>3
    <3>3. log'[i].orig = dlog[d].orig /\ log'[i].from = d /\ dlog[d].orig \in Nat
      BY <3>1, <3>2 DEF Requeued
    <3> QED BY <2>0, <3>2, <3>3
  <2> QED BY <2>1, <2>2
<1>2. pel' \subseteq 1..read' /\ idle' \subseteq pel' /\ handled' \subseteq 1..read'
  <2>0. pel \subseteq 1..read /\ idle \subseteq pel /\ handled \subseteq 1..read /\ read \in Nat
    BY DEF TypeInv, LogInv
  <2>1. read' \in Nat /\ read <= read'
    BY StreamGrows
  <2>2. 1..read \subseteq 1..read'
    BY <2>0, <2>1
  <2>3. CASE Deliver
    <3>1. read + 1 \in 1..(read + 1)
      BY <2>0
    <3> QED BY <2>0, <2>2, <2>3, <3>1 DEF Deliver
  <2>4. CASE UNCHANGED <<pel, handled>> /\ idle' \subseteq pel
    BY <2>0, <2>2, <2>4
  <2>5. CASE \E i \in pel : ConsumerAcks(i)
    BY <2>0, <2>2, <2>5 DEF ConsumerAcks
  <2>6. CASE \E s \in Scanner : scan[s].pc = "ack" /\ Acks(Entry(s)) /\ handled' = handled
    BY <2>0, <2>2, <2>6 DEF Acks
  <2> QED BY <2>3, <2>4, <2>5, <2>6 DEF PelStep
<1> QED BY <1>1, <1>2, StreamGrows DEF LogInv

\* The dead-letter stream keeps its types.
LEMMA LettersStep == ASSUME TypeInv, StreamStep, LetterStep PROVE LetterInv'
<1>0. /\ Len(log) \in Nat /\ Len(log') \in Nat /\ Len(log) <= Len(log')
      /\ read \in Nat /\ read' \in Nat /\ read <= read'
  BY StreamGrows DEF TypeInv, LogInv
<1>1. ASSUME NEW d \in DOMAIN dlog' PROVE dlog'[d].src <= read' /\ dlog'[d].orig <= Len(log')
  <2>1. CASE d \in DOMAIN dlog
    <3>1. dlog'[d] = dlog[d] /\ dlog[d].src <= read /\ dlog[d].orig <= Len(log)
      BY <2>1, LettersGrow DEF TypeInv, LetterInv
    <3>2. dlog[d] \in [src : Nat, orig : Nat]
      BY <2>1, SliceFacts DEF TypeInv, LetterInv
    <3>3. dlog[d].src \in Nat /\ dlog[d].orig \in Nat
      BY <3>2
    <3> QED BY <1>0, <3>1, <3>3
  <2>2. CASE d \notin DOMAIN dlog
    <3>0. CASE dlog'[d] = OthersLetter
      BY <1>0, <3>0 DEF OthersLetter
    <3> SUFFICES ASSUME dlog'[d] # OthersLetter PROVE dlog'[d].src <= read' /\ dlog'[d].orig <= Len(log')
      BY <3>0
    <3>1. PICK s \in Scanner : /\ scan[s].pc = "add"
                               /\ dlog'[d].src = Entry(s) /\ dlog'[d].orig = OriginalID(Entry(s))
      BY <2>2, LettersGrow
    <3>2. Entry(s) \in 1..read
      BY <3>1, TodoFacts DEF TypeInv, ScanInv, MayMove
    <3>3. Entry(s) \in DOMAIN log /\ read <= Len(log)
      <4>1. DOMAIN log = 1..Len(log) /\ read <= Len(log)
        BY StreamGrows DEF TypeInv, LogInv
      <4> QED BY <1>0, <3>2, <4>1
    <3>4. log[Entry(s)].orig \in Nat /\ log[Entry(s)].orig <= Len(log)
      <4>1. log[Entry(s)] \in [orig : Nat, from : Nat]
        BY <3>3, SliceFacts DEF TypeInv, LogInv
      <4> QED BY <3>3, <4>1 DEF TypeInv, LogInv
    <3>5. OriginalID(Entry(s)) \in Nat /\ OriginalID(Entry(s)) <= Len(log)
      BY <1>0, <3>2, <3>3, <3>4 DEF OriginalID
    <3> QED BY <1>0, <3>1, <3>2, <3>5
  <2> QED BY <2>1, <2>2
<1> QED BY <1>1, LettersGrow DEF LetterInv

\* What a scan may move, it may move later too.
LEMMA MayMoveStays == ASSUME TypeInv, StreamStep, NEW r \in ScanRecord, MayMove(r) PROVE MayMove(r)'
<1>1. /\ read \in Nat /\ read' \in Nat /\ read <= read' /\ read <= Len(log) /\ Len(log) <= Len(log')
      /\ Len(log) \in Nat /\ Len(log') \in Nat
      /\ \A i \in 1..read : count'[i] >= count[i]
  BY StreamGrows DEF TypeInv, LogInv
<1>2. \A i \in 1..read : count[i] \in Nat /\ count'[i] \in Nat
  <2>1. /\ count \in Seq(0..MaxClaims) /\ Len(count) = Len(log)
        /\ count' \in Seq(0..MaxClaims) /\ Len(count') = Len(log')
    BY StreamGrows DEF TypeInv, LogInv
  <2>2. count \in [1..Len(log) -> 0..MaxClaims] /\ count' \in [1..Len(log') -> 0..MaxClaims]
    BY <2>1, SliceFacts
  <2> QED BY <1>1, <2>2
<1>3. Retries \in Nat /\ Retries' = Retries
  BY DeadLetterAssumption DEF Retries, ResolveDLQPolicy, Loaded, Policy
<1>4. ASSUME NEW i \in 1..read, count[i] >= Retries PROVE i \in 1..read' /\ count'[i] >= Retries
  BY <1>1, <1>2, <1>3, <1>4
<1>5. r.cursor <= read'
  BY <1>1 DEF MayMove, ScanRecord
<1> QED BY <1>3, <1>4, <1>5 DEF MayMove

\* A scan that goes on with its next entry.
LEMMA NextEntryMayMove ==
    ASSUME TypeInv, NEW s \in Scanner, scan[s].todo # <<>>
    PROVE  LET r == [scan[s] EXCEPT !.pc = "entry", !.todo = Tail(@)] IN
           /\ r \in ScanRecord /\ MayMove(r) /\ r.pc = "entry" /\ r.todo = Tail(scan[s].todo)
           /\ Elems(scan[s].todo) = Elems(r.todo) \cup {Entry(s)} /\ Entry(s) \notin Elems(r.todo)
<1> DEFINE t == scan[s].todo
           u == Tail(t)
           r == [scan[s] EXCEPT !.pc = "entry", !.todo = Tail(@)]
<1>1. scan[s] \in ScanRecord /\ MayMove(scan[s]) /\ t \in Seq(Nat)
  BY DEF TypeInv, ScanInv, ScanRecord
<1>2. /\ u \in Seq(Nat) /\ Len(u) = Len(t) - 1 /\ Len(t) \in Nat \ {0}
      /\ \A i \in 1..(Len(t) - 1) : u[i] = t[i + 1]
      /\ Elems(t) = Elems(u) \cup {Head(t)}
  <2> HIDE DEF t
  <2>1. t # <<>>
    BY DEF t
  <2> QED BY <1>1, <2>1, ElemsHeadTail
<1>3. r \in ScanRecord /\ r.pc = "entry" /\ r.todo = u /\ r.cursor = scan[s].cursor
  BY <1>1, <1>2 DEF ScanRecord
<1>4. DOMAIN u = 1..(Len(t) - 1) /\ DOMAIN t = 1..Len(t)
  BY <1>1, <1>2, SliceFacts
<1>5. \A i \in DOMAIN u : i \in Nat /\ i + 1 \in DOMAIN t /\ u[i] = t[i + 1] /\ i + 1 # 1
  BY <1>2, <1>4
<1> HIDE DEF r, u
<1>6. MayMove(r)
  <2>1. \A n \in DOMAIN u : u[n] \in 1..read /\ count[u[n]] >= Retries
    BY <1>1, <1>5 DEF MayMove
  <2>2. ASSUME NEW n \in DOMAIN u, NEW k \in DOMAIN u, n # k PROVE u[n] # u[k]
    <3>1. n + 1 # k + 1
      BY <1>5, <2>2
    <3> QED BY <1>1, <1>5, <3>1 DEF MayMove
  <2> QED BY <1>1, <1>3, <2>1, <2>2 DEF MayMove
<1>7. Entry(s) \notin Elems(u)
  <2>1. Entry(s) = t[1] /\ 1 \in DOMAIN t
    BY TodoFacts
  <2>2. ASSUME NEW i \in DOMAIN u PROVE u[i] # t[1]
    BY <1>1, <1>5, <2>1 DEF MayMove
  <2> QED BY <2>1, <2>2 DEF Elems
<1> QED BY <1>2, <1>3, <1>6, <1>7 DEF r, u, Entry

\* What a scan takes from an answer of XPENDING: pending entries, each once.
LEMMA XPendingMayMove ==
    ASSUME TypeInv, NEW s \in Scanner
    PROVE  LET page == First({i \in pel : i > scan[s].cursor}, ScanBatch)
               r == [pc |-> "entry", todo |-> Ascending({i \in page : Qualifies(i)}),
                     cursor |-> Greatest(page), more |-> MorePages(page)]
           IN  page # {} => r \in ScanRecord /\ MayMove(r) /\ Elems(r.todo) \subseteq pel
<1> DEFINE page == First({i \in pel : i > scan[s].cursor}, ScanBatch)
           Q == {i \in page : Qualifies(i)}
           t == Ascending(Q)
           r == [pc |-> "entry", todo |-> t, cursor |-> Greatest(page), more |-> MorePages(page)]
<1> SUFFICES ASSUME page # {} PROVE r \in ScanRecord /\ MayMove(r) /\ Elems(t) \subseteq pel
  OBVIOUS
<1>1. pel \subseteq 1..read /\ read \in Nat
  BY DEF TypeInv, LogInv
<1>2. page \subseteq pel
  BY DEF First
<1>3. page \subseteq 0..read /\ Q \subseteq 0..read /\ Q \subseteq Nat
  <2>1. 1..read \subseteq 0..read /\ 0..read \subseteq Nat
    BY <1>1
  <2> HIDE DEF page
  <2>2. Q \subseteq page
    OBVIOUS
  <2> HIDE DEF Q
  <2> QED BY <1>1, <1>2, <2>1, <2>2
<1>4. IsFiniteSet(Q)
  BY <1>1, <1>3, BoundedFinite
<1> HIDE DEF page
<1>5. Greatest(page) \in page
  BY <1>1, <1>3, GreatestFacts
<1>6. /\ t \in Seq(Nat) /\ \A n \in DOMAIN t : t[n] \in Q
      /\ \A n, k \in DOMAIN t : n # k => t[n] # t[k]
  <2> HIDE DEF Q
  <2> QED BY <1>3, <1>4, AscendingFacts
<1>7. Greatest(page) \in Nat /\ Greatest(page) <= read
  <2>1. Greatest(page) \in 0..read
    BY <1>3, <1>5
  <2> QED BY <1>1, <2>1
<1> HIDE DEF t
<1>8. r \in ScanRecord
  BY <1>6, <1>7 DEF ScanRecord, MorePages
<1>9. \A n \in DOMAIN t : t[n] \in 1..read /\ count[t[n]] >= Retries /\ t[n] \in pel
  BY <1>1, <1>2, <1>6 DEF Qualifies, Retries
<1>10. MayMove(r)
  BY <1>6, <1>7, <1>9 DEF MayMove
<1> QED BY <1>8, <1>9, <1>10 DEF Elems

\* The scans keep their types.
LEMMA ScanStep == ASSUME TypeInv, [Next]_vars, StreamStep PROVE ScanInv'
<1> USE DEF streamVars, dlqVars, boundVars
<1>0. scan \in [Scanner -> ScanRecord] /\ \A s \in Scanner : MayMove(scan[s])
  BY DEF TypeInv, ScanInv
<1>1. ASSUME UNCHANGED scan PROVE ScanInv'
  BY <1>0, <1>1, MayMoveStays DEF ScanInv
<1>2. ASSUME NEW s \in Scanner, NEW r \in ScanRecord, MayMove(r), Scans(s, r) PROVE ScanInv'
  <2>1. scan' \in [Scanner -> ScanRecord]
    BY <1>0, <1>2 DEF Scans
  <2>2. ASSUME NEW u \in Scanner PROVE scan'[u] = r \/ scan'[u] = scan[u]
    BY <1>0, <1>2 DEF Scans
  <2>3. ASSUME NEW u \in Scanner PROVE scan'[u] \in ScanRecord /\ MayMove(scan'[u])
    BY <1>0, <1>2, <2>2
  <2>4. ASSUME NEW u \in Scanner PROVE MayMove(scan[u])'
    <3>1. MayMove(r)' /\ MayMove(scan[u])
      BY <1>0, <1>2, MayMoveStays
    <3> DEFINE x == scan[u]
    <3>2. ASSUME NEW y \in ScanRecord, MayMove(y), scan'[u] = y PROVE MayMove(scan[u])'
      BY <3>2, MayMoveStays DEF MayMove
    <3> QED BY <1>0, <1>2, <2>2, <3>2
  <2> QED BY <2>1, <2>4 DEF ScanInv
<1>3. ASSUME NEW s \in Scanner, ScanStops(s) PROVE ScanInv'
  <2> DEFINE r == [pc |-> "idle", todo |-> <<>>, cursor |-> 0, more |-> FALSE]
  <2>1. r \in ScanRecord
    BY DEF ScanRecord
  <2>2. DOMAIN r.todo = {} /\ r.pc = "idle" /\ r.cursor = 0
    OBVIOUS
  <2>3. MayMove(r)
    <3>1. 0 <= read
      BY DEF TypeInv, LogInv
    <3> QED BY <2>2, <3>1 DEF MayMove
  <2>4. Scans(s, r)
    BY <1>3 DEF ScanStops
  <2> HIDE DEF r
  <2> QED BY <1>2, <2>1, <2>3, <2>4
<1>4. ASSUME NEW s \in Scanner, scan[s].todo # <<>>, NextEntry(s) PROVE ScanInv'
  <2> DEFINE r == [scan[s] EXCEPT !.pc = "entry", !.todo = Tail(@)]
  <2>1. r \in ScanRecord /\ MayMove(r)
    BY <1>4, NextEntryMayMove
  <2>2. Scans(s, r)
    BY <1>4 DEF NextEntry
  <2> HIDE DEF r
  <2> QED BY <1>2, <2>1, <2>2
<1>5. ASSUME NEW s \in Scanner, NEW pc \in {"page", "add", "ack"},
             pc # "page" => scan[s].todo # <<>>, Scans(s, [scan[s] EXCEPT !.pc = pc])
      PROVE  ScanInv'
  <2> DEFINE r == [scan[s] EXCEPT !.pc = pc]
  <2>1. r \in ScanRecord /\ r.todo = scan[s].todo /\ r.cursor = scan[s].cursor /\ r.pc = pc
    BY <1>0 DEF ScanRecord
  <2> HIDE DEF r
  <2>2. MayMove(r)
    BY <1>0, <1>5, <2>1 DEF MayMove
  <2>3. Scans(s, r)
    BY <1>5 DEF r
  <2> QED BY <1>2, <2>1, <2>2, <2>3
<1>6. ASSUME NEW s \in Scanner, XPending(s) PROVE ScanInv'
  <2> DEFINE page == First({i \in pel : i > scan[s].cursor}, ScanBatch)
             r == [pc |-> "entry", todo |-> Ascending({i \in page : Qualifies(i)}),
                   cursor |-> Greatest(page), more |-> MorePages(page)]
  <2>1. CASE page = {}
    BY <1>3, <1>6, <2>1 DEF XPending
  <2>2. CASE page # {}
    <3>1. r \in ScanRecord /\ MayMove(r)
      BY <2>2, XPendingMayMove
    <3>2. Scans(s, r)
      BY <1>6, <2>2 DEF XPending
    <3> HIDE DEF r
    <3> QED BY <1>2, <3>1, <3>2
  <2> QED BY <2>1, <2>2
<1>7. ASSUME NEW s \in Scanner, ScanBegins(s) \/ PageEnds(s) \/ PageFails(s) PROVE ScanInv'
  BY <1>3, <1>5, <1>7 DEF ScanBegins, PageEnds, PageFails
<1>8. ASSUME NEW s \in Scanner, XRange(s) PROVE ScanInv'
  BY <1>4, <1>5, <1>8 DEF XRange
<1>9. ASSUME NEW s \in Scanner, XAddDLQ(s) \/ XAck(s) \/ MoveFails(s) PROVE ScanInv'
  <2>1. scan[s].todo # <<>>
    BY <1>0, <1>9 DEF XAddDLQ, XAck, MoveFails, MayMove
  <2> QED BY <1>4, <1>5, <1>9, <2>1 DEF XAddDLQ, XAck, MoveFails
<1>10. CASE Publish \/ OtherLetter \/ Deliver \/ UNCHANGED vars
  BY <1>1, <1>10 DEF Publish, OtherLetter, Deliver, vars
<1>11. ASSUME NEW i \in pel, Claim(i) \/ Ages(i) \/ ConsumerAcks(i) PROVE ScanInv'
  BY <1>1, <1>11 DEF Claim, Ages, ConsumerAcks
<1>12. ASSUME NEW p \in Replayer, Replays(p) PROVE ScanInv'
  BY <1>1, <1>12 DEF Replays, replayDLQInternal, ReplaySkips, ReplayAdds, ReplayDeletes, ReplayFails
<1> QED
  BY <1>6, <1>7, <1>8, <1>9, <1>10, <1>11, <1>12 DEF Next, Consumer, scanAndMoveToDLQ

\* The replays keep their types.
LEMMA ReplayStep == ASSUME TypeInv, [Next]_vars, LetterStep PROVE ReplayInv'
<1> USE DEF streamVars, dlqVars, boundVars
<1>0. replay \in [Replayer -> ReplayRecord] /\ \A p \in Replayer : MayReplay(replay[p])
  BY DEF TypeInv, ReplayInv
<1>1. DOMAIN dlog \subseteq DOMAIN dlog' /\ DOMAIN dlog \subseteq Nat
  BY LettersGrow
<1>2. ASSUME NEW p \in Replayer, NEW r \in ReplayRecord, MayReplay(r), replay' = [replay EXCEPT ![p] = r]
      PROVE  ReplayInv'
  BY <1>0, <1>1, <1>2 DEF ReplayInv, MayReplay
<1>3. ASSUME UNCHANGED replay PROVE ReplayInv'
  BY <1>0, <1>1, <1>3 DEF ReplayInv, MayReplay
<1>4. ASSUME NEW p \in Replayer, ReplayStops(p) PROVE ReplayInv'
  <2> DEFINE r == [pc |-> "idle", todo |-> <<>>, delete |-> FALSE, target |-> NoTarget]
  <2>1. r \in ReplayRecord /\ r.pc = "idle" /\ DOMAIN r.todo = {}
    BY DEF ReplayRecord
  <2>2. MayReplay(r)
    BY <2>1 DEF MayReplay
  <2>3. replay' = [replay EXCEPT ![p] = r]
    BY <1>4 DEF ReplayStops
  <2> HIDE DEF r
  <2> QED BY <1>2, <2>1, <2>2, <2>3
<1>5. ASSUME NEW p \in Replayer, replay[p].todo # <<>>, NextLetter(p) PROVE ReplayInv'
  <2>1. CASE Len(replay[p].todo) = 1
    BY <1>4, <1>5, <2>1 DEF NextLetter
  <2>2. CASE Len(replay[p].todo) # 1
    <3> DEFINE t == replay[p].todo
               u == Tail(t)
               r == [replay[p] EXCEPT !.todo = u, !.pc = "letter"]
    <3>1. replay[p] \in ReplayRecord /\ MayReplay(replay[p]) /\ t \in Seq(Nat)
      BY <1>0 DEF ReplayRecord
    <3>2. /\ u \in Seq(Nat) /\ Len(u) = Len(t) - 1 /\ Len(t) \in Nat \ {0}
          /\ \A i \in 1..(Len(t) - 1) : u[i] = t[i + 1]
      <4> HIDE DEF t
      <4>1. t # <<>>
        BY <1>5 DEF t
      <4> QED BY <3>1, <4>1, ElemsHeadTail
    <3>3. u # <<>>
      <4>1. Len(u) # 0
        BY <2>2, <3>2
      <4>2. Len(<<>>) = 0
        OBVIOUS
      <4> HIDE DEF u
      <4> QED BY <4>1, <4>2
    <3>4. r \in ReplayRecord /\ r.todo = u
      BY <3>1, <3>2 DEF ReplayRecord
    <3>5. DOMAIN u = 1..(Len(t) - 1) /\ DOMAIN t = 1..Len(t)
      BY <3>1, <3>2, SliceFacts
    <3>6. \A i \in DOMAIN u : i + 1 \in DOMAIN t /\ u[i] = t[i + 1]
      BY <3>2, <3>5
    <3>7. MayReplay(r)
      <4> HIDE DEF u
      <4>1. \A i \in DOMAIN u : u[i] \in DOMAIN dlog
        BY <3>1, <3>6 DEF MayReplay
      <4> HIDE DEF r
      <4> QED BY <3>3, <3>4, <4>1 DEF MayReplay
    <3>8. replay' = [replay EXCEPT ![p] = r]
      <4>1. replay' = [replay EXCEPT ![p].todo = Tail(@), ![p].pc = "letter"]
        BY <1>5, <2>2 DEF NextLetter
      <4> QED BY <1>0, <4>1 DEF ReplayRecord
    <3> HIDE DEF r
    <3> QED BY <1>2, <3>4, <3>7, <3>8
  <2> QED BY <2>1, <2>2
<1>6. ASSUME NEW p \in Replayer, replayDLQInternal(p) PROVE ReplayInv'
  <2>1. PICK from \in dpresent, delete \in BOOLEAN, target \in Targets :
            replay' = [replay EXCEPT ![p] = [pc |-> "letter", delete |-> delete, target |-> target,
                           todo |-> Ascending(First({d \in dpresent : d >= from}, ReplayCount))]]
    BY <1>6 DEF replayDLQInternal
  <2> DEFINE D == {d \in dpresent : d >= from}
             S == First(D, ReplayCount)
             t == Ascending(S)
             r == [pc |-> "letter", delete |-> delete, target |-> target, todo |-> t]
  <2>2. dpresent \subseteq 1..Len(dlog) /\ Len(dlog) \in Nat /\ DOMAIN dlog = 1..Len(dlog)
    BY LettersGrow DEF TypeInv, LetterInv
  <2>3. D \subseteq Nat /\ D # {} /\ D \subseteq 0..Len(dlog) /\ D \subseteq DOMAIN dlog
    <3>1. 1..Len(dlog) \subseteq 0..Len(dlog) /\ 0..Len(dlog) \subseteq Nat
      BY <2>2
    <3>2. from \in Nat /\ from \in dpresent
      BY <2>2, <3>1
    <3>3. from >= from
      BY <3>2
    <3>4. from \in D /\ D \subseteq dpresent
      BY <3>2, <3>3
    <3> HIDE DEF D
    <3> QED BY <2>2, <3>1, <3>4
  <2>4. S \subseteq D /\ S # {}
    <3> HIDE DEF D
    <3> QED BY <2>3, FirstFacts, DeadLetterAssumption
  <2> HIDE DEF D, S
  <2>5. IsFiniteSet(S) /\ S \subseteq Nat
    BY <2>2, <2>3, <2>4, BoundedFinite
  <2>6. t \in Seq(Nat) /\ Len(t) = Cardinality(S) /\ \A n \in DOMAIN t : t[n] \in S
    BY <2>5, AscendingFacts
  <2> HIDE DEF t
  <2>7. t # <<>>
    <3>1. Cardinality(S) # 0
      BY <2>4, <2>5, FS_EmptySet
    <3> QED BY <2>6, <3>1
  <2>8. r \in ReplayRecord /\ r.todo = t
    BY <2>6 DEF ReplayRecord
  <2>9. replay' = [replay EXCEPT ![p] = r]
    BY <2>1 DEF D, S, t
  <2> HIDE DEF r
  <2>10. MayReplay(r)
    BY <2>3, <2>4, <2>6, <2>7, <2>8 DEF MayReplay
  <2> QED BY <1>2, <2>8, <2>9, <2>10
<1>7. ASSUME NEW p \in Replayer, ReplaySkips(p) \/ ReplayAdds(p) \/ ReplayDeletes(p) PROVE ReplayInv'
  <2>1. replay[p].todo # <<>>
    BY <1>0, <1>7 DEF ReplaySkips, ReplayAdds, ReplayDeletes, AtLetter, MayReplay
  <2>2. ASSUME replay' = [replay EXCEPT ![p].pc = "delete"] PROVE ReplayInv'
    <3> DEFINE r == [replay[p] EXCEPT !.pc = "delete"]
    <3>1. r \in ReplayRecord /\ r.todo = replay[p].todo /\ replay' = [replay EXCEPT ![p] = r]
      BY <1>0, <2>2 DEF ReplayRecord
    <3> HIDE DEF r
    <3>2. MayReplay(r)
      BY <1>0, <2>1, <3>1 DEF MayReplay
    <3> QED BY <1>2, <3>1, <3>2
  <2> QED BY <1>5, <1>7, <2>1, <2>2 DEF ReplaySkips, ReplayAdds, ReplayDeletes
<1>8. ASSUME NEW p \in Replayer, ReplayFails(p) PROVE ReplayInv'
  BY <1>4, <1>8 DEF ReplayFails
<1>9. CASE Publish \/ OtherLetter \/ Deliver \/ UNCHANGED vars
  BY <1>3, <1>9 DEF Publish, OtherLetter, Deliver, vars
<1>10. ASSUME NEW i \in pel, Claim(i) \/ Ages(i) \/ ConsumerAcks(i) PROVE ReplayInv'
  BY <1>3, <1>10 DEF Claim, Ages, ConsumerAcks
<1>11. ASSUME NEW s \in Scanner, scanAndMoveToDLQ(s) \/ PageFails(s) \/ MoveFails(s) PROVE ReplayInv'
  BY <1>3, <1>11 DEF scanAndMoveToDLQ, ScanBegins, XPending, PageEnds, XRange, XAddDLQ, XAck, PageFails, MoveFails
<1> QED
  BY <1>6, <1>7, <1>8, <1>9, <1>10, <1>11 DEF Next, Consumer, Replays

\* The bounds of the model hold.
LEMMA BoundStep == ASSUME TypeInv, [Next]_vars PROVE BoundInv' /\ faults' >= faults
<1> USE DEF streamVars, dlqVars, boundVars
<1>0. trouble \in 0..MaxTrouble /\ faults \in 0..trouble /\ MaxTrouble \in Nat
  BY DeadLetterAssumption DEF TypeInv, BoundInv
<1>1. ASSUME UNCHANGED <<trouble, faults>> PROVE BoundInv' /\ faults' >= faults
  BY <1>0, <1>1 DEF BoundInv
<1>2. ASSUME Trouble, faults' \in {faults, faults + 1} PROVE BoundInv' /\ faults' >= faults
  BY <1>0, <1>2 DEF BoundInv, Trouble
<1>3. CASE Deliver \/ Publish \/ OtherLetter \/ UNCHANGED vars
  BY <1>1, <1>2, <1>3 DEF Deliver, Publish, OtherLetter, vars
<1>4. ASSUME NEW i \in pel, Claim(i) \/ Ages(i) \/ ConsumerAcks(i) PROVE BoundInv' /\ faults' >= faults
  BY <1>1, <1>4 DEF Claim, Ages, ConsumerAcks
<1>5. ASSUME NEW s \in Scanner, scanAndMoveToDLQ(s) \/ PageFails(s) PROVE BoundInv' /\ faults' >= faults
  BY <1>1, <1>2, <1>5
     DEF scanAndMoveToDLQ, ScanBegins, XPending, PageEnds, XRange, XAddDLQ, XAck, PageFails
<1>6. ASSUME NEW s \in Scanner, MoveFails(s) PROVE BoundInv' /\ faults' >= faults
  BY <1>1, <1>2, <1>6 DEF MoveFails, Fault
<1>7. ASSUME NEW p \in Replayer, Replays(p) PROVE BoundInv' /\ faults' >= faults
  BY <1>1, <1>2, <1>7 DEF Replays, replayDLQInternal, ReplaySkips, ReplayAdds, ReplayDeletes, ReplayFails
<1> QED BY <1>3, <1>4, <1>5, <1>6, <1>7 DEF Next, Consumer

\* The sidecars start with these types.
LEMMA TypeInit == Init => TypeInv
<1> SUFFICES ASSUME Init PROVE TypeInv
  OBVIOUS
<1>0. Entries \in Nat /\ MaxClaims \in Nat \ {0} /\ MaxTrouble \in Nat
  BY DeadLetterAssumption
<1> DEFINE R == [orig : Nat, from : Nat]
<1>1. Fresh \in R /\ Fresh.orig = 0 /\ Fresh.from = 0
  BY DEF Fresh
<1> HIDE DEF R
<1>2. /\ log \in [1..Entries -> R] /\ DOMAIN log = 1..Entries /\ \A i \in DOMAIN log : log[i] = Fresh
      /\ count \in [1..Entries -> 0..MaxClaims] /\ \A i \in DOMAIN log : count[i] = 1
  BY <1>0, <1>1 DEF Init
<1>3. /\ log \in Seq(R) /\ Len(log) = Entries
      /\ count \in Seq(0..MaxClaims) /\ Len(count) = Entries
  BY <1>0, <1>2, FunctionSlice
<1>4. read = Entries /\ pel = 1..Entries /\ present = 1..Entries
      /\ dlog = <<>> /\ Len(dlog) = 0 /\ DOMAIN dlog = {} /\ dpresent = {}
      /\ idle = {} /\ handled = {} /\ trouble = 0 /\ faults = 0
  BY DEF Init
<1>5. LogInv
  <2>1. \A i \in DOMAIN log : log[i].orig <= Len(log) /\ log[i].from <= Len(dlog)
    BY <1>0, <1>1, <1>2, <1>3, <1>4
  <2>2. \A i \in DOMAIN log : ~(i > read)
    BY <1>0, <1>2, <1>4
  <2>3. log \in Seq([orig : Nat, from : Nat])
    BY <1>3 DEF R
  <2>4. read \in Nat /\ read <= Len(log)
    BY <1>0, <1>3, <1>4
  <2> QED BY <1>2, <1>3, <1>4, <2>1, <2>2, <2>3, <2>4 DEF LogInv
<1>6. LetterInv
  BY <1>4 DEF LetterInv
<1>7. ScanInv
  <2> DEFINE r == [pc |-> "idle", todo |-> <<>>, cursor |-> 0, more |-> FALSE]
  <2>1. r \in ScanRecord /\ r.pc = "idle" /\ DOMAIN r.todo = {} /\ r.cursor = 0
    BY DEF ScanRecord
  <2>2. scan = [s \in Scanner |-> r]
    BY DEF Init
  <2> HIDE DEF r
  <2>3. MayMove(r)
    BY <1>0, <1>4, <2>1 DEF MayMove
  <2> QED BY <2>1, <2>2, <2>3 DEF ScanInv
<1>8. ReplayInv
  <2> DEFINE r == [pc |-> "idle", todo |-> <<>>, delete |-> FALSE, target |-> NoTarget]
  <2>1. r \in ReplayRecord /\ r.pc = "idle" /\ DOMAIN r.todo = {}
    BY DEF ReplayRecord
  <2>2. replay = [p \in Replayer |-> r]
    BY DEF Init
  <2> HIDE DEF r
  <2>3. MayReplay(r)
    BY <2>1 DEF MayReplay
  <2> QED BY <2>1, <2>2, <2>3 DEF ReplayInv
<1>9. BoundInv
  BY <1>0, <1>4 DEF BoundInv
<1> QED BY <1>5, <1>6, <1>7, <1>8, <1>9 DEF TypeInv

\* The inductive invariant behind all results of this module.
LEMMA TypeInvariant == Spec => []TypeInv
<1>1. TypeInv /\ [Next]_vars => TypeInv'
  BY StreamsStep, PelSteps, LogStep, LettersStep, ScanStep, ReplayStep, BoundStep DEF TypeInv
<1> QED BY <1>1, TypeInit, PTL DEF Spec

\* TypeInv gives TypeOK.
LEMMA TypeInvTypes == TypeInv => TypeOK
<1> SUFFICES ASSUME TypeInv PROVE TypeOK
  OBVIOUS
<1>1. /\ log \in Seq([orig : Nat, from : Nat]) /\ dlog \in Seq([src : Nat, orig : Nat])
      /\ Len(log) \in Nat /\ DOMAIN log = 1..Len(log) /\ Len(dlog) \in Nat /\ DOMAIN dlog = 1..Len(dlog)
  BY SliceFacts DEF TypeInv, LogInv, LetterInv
<1>2. read \in Nat /\ read <= Len(log) /\ read \in 0..Len(log)
  BY <1>1 DEF TypeInv, LogInv
<1>3. log \in Seq([orig : Nat, from : 0..Len(dlog)])
  <2>1. ASSUME NEW i \in DOMAIN log PROVE log[i] \in [orig : Nat, from : 0..Len(dlog)]
    <3>1. log[i] \in [orig : Nat, from : Nat] /\ log[i].from <= Len(dlog)
      BY SliceFacts DEF TypeInv, LogInv
    <3>2. log[i].from \in 0..Len(dlog)
      BY <1>1, <3>1
    <3> QED BY <3>1, <3>2
  <2> QED BY <1>1, <2>1, SliceOf
<1>4. dlog \in Seq([src : 0..Len(log), orig : 0..Len(log)])
  <2>1. ASSUME NEW d \in DOMAIN dlog PROVE dlog[d] \in [src : 0..Len(log), orig : 0..Len(log)]
    <3>1. dlog[d] \in [src : Nat, orig : Nat] /\ dlog[d].src <= read /\ dlog[d].orig <= Len(log)
      BY SliceFacts DEF TypeInv, LetterInv
    <3>2. dlog[d].src \in 0..Len(log) /\ dlog[d].orig \in 0..Len(log)
      BY <1>1, <1>2, <3>1
    <3> QED BY <3>1, <3>2
  <2> QED BY <1>1, <2>1, SliceOf
<1>5. count \in [DOMAIN log -> 0..MaxClaims]
  <2>1. count \in Seq(0..MaxClaims) /\ Len(count) = Len(log)
    BY DEF TypeInv, LogInv
  <2>2. count \in [1..Len(count) -> 0..MaxClaims]
    BY <2>1, SliceFacts
  <2> QED BY <1>1, <2>1, <2>2
<1>6. scan \in [Scanner -> [pc : {"idle", "page", "entry", "add", "ack"}, todo : Seq(1..read),
                            cursor : 0..read, more : BOOLEAN]]
  <2>1. ASSUME NEW s \in Scanner
        PROVE  scan[s] \in [pc : {"idle", "page", "entry", "add", "ack"}, todo : Seq(1..read),
                            cursor : 0..read, more : BOOLEAN]
    <3>1. scan[s] \in ScanRecord /\ MayMove(scan[s])
      BY DEF TypeInv, ScanInv
    <3>2. scan[s].todo \in Seq(Nat) /\ scan[s].cursor \in Nat
      BY <3>1 DEF ScanRecord
    <3>3. scan[s].todo \in Seq(1..read)
      BY <3>1, <3>2, SliceOf DEF MayMove
    <3>4. scan[s].cursor \in 0..read
      BY <1>2, <3>1, <3>2 DEF MayMove
    <3> QED BY <3>1, <3>3, <3>4 DEF ScanRecord
  <2> QED BY <2>1 DEF TypeInv, ScanInv
<1>7. replay \in [Replayer -> [pc : {"idle", "letter", "delete"}, todo : Seq(DOMAIN dlog),
                               delete : BOOLEAN, target : Targets \cup {NoTarget}]]
  <2>1. ASSUME NEW p \in Replayer
        PROVE  replay[p] \in [pc : {"idle", "letter", "delete"}, todo : Seq(DOMAIN dlog),
                              delete : BOOLEAN, target : Targets \cup {NoTarget}]
    <3>1. replay[p] \in ReplayRecord /\ MayReplay(replay[p])
      BY DEF TypeInv, ReplayInv
    <3>2. replay[p].todo \in Seq(Nat)
      BY <3>1 DEF ReplayRecord
    <3>3. replay[p].todo \in Seq(DOMAIN dlog)
      BY <3>1, <3>2, SliceOf DEF MayReplay
    <3> QED BY <3>1, <3>3 DEF ReplayRecord
  <2> QED BY <2>1 DEF TypeInv, ReplayInv
<1>8. /\ present \subseteq DOMAIN log /\ pel \subseteq 1..read /\ idle \subseteq pel
      /\ handled \subseteq 1..read /\ dpresent \subseteq DOMAIN dlog
      /\ \A s \in Scanner : scan[s].pc \in {"add", "ack"} => scan[s].todo # <<>>
      /\ \A p \in Replayer : replay[p].pc # "idle" => replay[p].todo # <<>>
      /\ trouble \in 0..MaxTrouble /\ faults \in 0..trouble
  BY DEF TypeInv, LogInv, LetterInv, ScanInv, MayMove, ReplayInv, MayReplay, BoundInv
<1> QED BY <1>2, <1>3, <1>4, <1>5, <1>6, <1>7, <1>8 DEF TypeOK

(* The variables keep their types: no scan and no replay holds an entry    *)
(* that the group or the dead-letter stream never had.                     *)
THEOREM TypeCorrect == Spec => []TypeOK
BY TypeInvariant, TypeInvTypes, PTL

-----------------------------------------------------------------------------
(* What is moved.                                                          *)

\* OnlyOverRetried is inductive with the types.
LEMMA OverRetriedStep == TypeInv /\ OnlyOverRetried /\ [Next]_vars => OnlyOverRetried'
<1> SUFFICES ASSUME TypeInv, OnlyOverRetried, [Next]_vars, NEW d \in DOMAIN dlog', dlog'[d].src # 0
             PROVE  count'[dlog'[d].src] >= Retries
  BY DEF OnlyOverRetried, Retries, ResolveDLQPolicy
<1>1. StreamStep /\ LetterStep
  BY StreamsStep
<1>2. \A i \in 1..read : count'[i] >= count[i] /\ count[i] \in Nat /\ count'[i] \in Nat
  <2>1. /\ count \in Seq(0..MaxClaims) /\ Len(count) = Len(log)
        /\ count' \in Seq(0..MaxClaims) /\ Len(count') = Len(log')
        /\ Len(log) \in Nat /\ Len(log') \in Nat /\ Len(log) <= Len(log')
        /\ read \in Nat /\ read <= Len(log)
        /\ \A i \in 1..read : count'[i] >= count[i]
    BY <1>1, StreamGrows DEF TypeInv, LogInv
  <2>2. count \in [1..Len(log) -> 0..MaxClaims] /\ count' \in [1..Len(log') -> 0..MaxClaims]
    BY <2>1, SliceFacts
  <2> QED BY <2>1, <2>2
<1>3. Retries \in Nat
  BY DeadLetterAssumption DEF Retries, ResolveDLQPolicy, Loaded, Policy
<1>4. ASSUME NEW i \in 1..read, count[i] >= Retries PROVE count'[i] >= Retries
  BY <1>2, <1>3, <1>4
<1>5. CASE d \in DOMAIN dlog
  <2>1. dlog'[d] = dlog[d]
    BY <1>1, <1>5, LettersGrow
  <2>2. dlog[d] \in [src : Nat, orig : Nat] /\ dlog[d].src <= read /\ read \in Nat
    BY <1>5, SliceFacts DEF TypeInv, LetterInv, LogInv
  <2>3. dlog[d].src \in 1..read
    BY <2>1, <2>2
  <2>4. count[dlog[d].src] >= Retries
    BY <1>5, <2>1 DEF OnlyOverRetried, Retries
  <2> QED BY <1>4, <2>1, <2>3, <2>4
<1>6. CASE d \notin DOMAIN dlog
  <2>0. dlog'[d] # OthersLetter
    BY DEF OthersLetter
  <2>1. PICK s \in Scanner : scan[s].pc = "add" /\ dlog'[d].src = Entry(s)
    BY <1>1, <1>6, <2>0, LettersGrow
  <2>2. Entry(s) \in 1..read /\ count[Entry(s)] >= Retries
    BY <2>1, TodoFacts DEF TypeInv, ScanInv, MayMove
  <2> QED BY <1>4, <2>1, <2>2
<1> QED BY <1>5, <1>6

(* Only what was delivered as often as the policy says is moved, whatever  *)
(* happened between XPENDING and the move.                                 *)
THEOREM OnlyOverRetriedHolds == Spec => []OnlyOverRetried
<1>1. Init => OnlyOverRetried
  <2> SUFFICES ASSUME Init, NEW d \in DOMAIN dlog PROVE dlog[d].src = 0
    BY DEF OnlyOverRetried
  <2> QED BY DEF Init
<1> QED BY <1>1, OverRetriedStep, TypeInvariant, PTL DEF Spec

-----------------------------------------------------------------------------
(* Nothing is lost.                                                        *)

\* A scanner that is about to acknowledge has made its copy, and a replay that
\* is about to delete has requeued.
MovedInv ==
    /\ \A s \in Scanner : scan[s].pc = "ack" => Copies(Entry(s)) # {}
    /\ \A p \in Replayer : replay[p].pc = "delete" => Requeues(Letter(p)) # {}

\* How a scan comes to its XACK.
LEMMA AckStep ==
    ASSUME TypeInv, [Next]_vars, NEW s \in Scanner, scan'[s].pc = "ack"
    PROVE  \/ scan'[s] = scan[s]
           \/ scan[s].pc = "add" /\ scan'[s].todo = scan[s].todo /\ Copy(Entry(s))
<1> USE DEF streamVars, dlqVars, boundVars
<1>0. scan \in [Scanner -> ScanRecord]
  BY DEF TypeInv, ScanInv
<1>1. ASSUME NEW u \in Scanner, NEW r, Scans(u, r), r.pc # "ack" PROVE scan'[s] = scan[s]
  BY <1>0, <1>1 DEF Scans
<1>2. ASSUME NEW u \in Scanner, ScanStops(u) PROVE scan'[s] = scan[s]
  BY <1>1, <1>2 DEF ScanStops
<1>3. ASSUME NEW u \in Scanner, NextEntry(u) PROVE scan'[s] = scan[s]
  <2>1. [scan[u] EXCEPT !.pc = "entry", !.todo = Tail(@)].pc # "ack"
    BY <1>0 DEF ScanRecord
  <2> QED BY <1>1, <1>3, <2>1 DEF NextEntry
<1>4. ASSUME NEW u \in Scanner, NEW pc \in {"page", "add"}, Scans(u, [scan[u] EXCEPT !.pc = pc])
      PROVE  scan'[s] = scan[s]
  <2>1. [scan[u] EXCEPT !.pc = pc].pc # "ack"
    BY <1>0 DEF ScanRecord
  <2> QED BY <1>1, <1>4, <2>1
<1>5. ASSUME NEW u \in Scanner, XPending(u) PROVE scan'[s] = scan[s]
  BY <1>1, <1>2, <1>5 DEF XPending
<1>6. ASSUME NEW u \in Scanner, XAddDLQ(u)
      PROVE  \/ scan'[s] = scan[s]
             \/ scan[s].pc = "add" /\ scan'[s].todo = scan[s].todo /\ Copy(Entry(s))
  <2>1. u # s => scan'[s] = scan[s]
    BY <1>0, <1>6 DEF XAddDLQ, Scans
  <2>2. u = s => scan'[s].todo = scan[s].todo
    BY <1>0, <1>6 DEF XAddDLQ, Scans, ScanRecord
  <2> QED BY <1>6, <2>1, <2>2 DEF XAddDLQ
<1>7. ASSUME NEW u \in Scanner, ScanBegins(u) \/ PageEnds(u) \/ XRange(u) \/ XAck(u) \/ PageFails(u) \/ MoveFails(u)
      PROVE  scan'[s] = scan[s]
  BY <1>2, <1>3, <1>4, <1>7 DEF ScanBegins, PageEnds, XRange, XAck, PageFails, MoveFails
<1>8. CASE Consumer \/ Publish \/ OtherLetter \/ UNCHANGED vars
  BY <1>8 DEF Consumer, Deliver, Claim, Ages, ConsumerAcks, Publish, OtherLetter, vars
<1>9. ASSUME NEW p \in Replayer, Replays(p) PROVE scan'[s] = scan[s]
  BY <1>9 DEF Replays, replayDLQInternal, ReplaySkips, ReplayAdds, ReplayDeletes, ReplayFails
<1> QED BY <1>5, <1>6, <1>7, <1>8, <1>9 DEF Next, scanAndMoveToDLQ

\* How a replay comes to its XDEL, and what an XDEL takes away: all that an XADD
\* does not push out.
LEMMA DeleteStep ==
    ASSUME TypeInv, [Next]_vars
    PROVE  /\ \A p \in Replayer : replay'[p].pc = "delete" =>
                \/ replay'[p] = replay[p]
                \/ AtLetter(p) /\ replay'[p].todo = replay[p].todo /\ XAdd(Requeued(Letter(p)))
           /\ \A d \in DOMAIN dlog' : d \notin dpresent' /\ ~(Len(dlog') - d >= MaxStreamLen) =>
                /\ d \in DOMAIN dlog
                /\ d \in dpresent => \E p \in Replayer : replay[p].pc = "delete" /\ d = Letter(p)
<1> USE DEF streamVars, dlqVars, boundVars
<1> DEFINE A == \A p \in Replayer : replay'[p].pc = "delete" =>
                \/ replay'[p] = replay[p]
                \/ AtLetter(p) /\ replay'[p].todo = replay[p].todo /\ XAdd(Requeued(Letter(p)))
           B == \A d \in DOMAIN dlog' : d \notin dpresent' /\ ~(Len(dlog') - d >= MaxStreamLen) =>
                /\ d \in DOMAIN dlog
                /\ d \in dpresent => \E p \in Replayer : replay[p].pc = "delete" /\ d = Letter(p)
<1>0. replay \in [Replayer -> ReplayRecord]
  BY DEF TypeInv, ReplayInv
<1>1. ASSUME UNCHANGED replay PROVE A
  BY <1>1
<1>2. ASSUME NEW p \in Replayer, NEW r, r.pc # "delete", replay' = [replay EXCEPT ![p] = r] PROVE A
  BY <1>0, <1>2
<1>3. ASSUME NEW p \in Replayer, ReplayStops(p) PROVE A
  BY <1>2, <1>3 DEF ReplayStops
<1>4. ASSUME NEW p \in Replayer, NextLetter(p) PROVE A
  <2>1. ASSUME replay' = [replay EXCEPT ![p].todo = Tail(@), ![p].pc = "letter"] PROVE A
    <3>1. replay'[p].pc # "delete" /\ \A q \in Replayer : q # p => replay'[q] = replay[q]
      BY <1>0, <2>1 DEF ReplayRecord
    <3> QED BY <3>1
  <2> QED BY <1>3, <1>4, <2>1 DEF NextLetter
<1>5. ASSUME dlog' = dlog, dpresent \subseteq dpresent' PROVE B
  BY <1>5
<1>6. ASSUME NEW p \in Replayer, ReplayAdds(p) PROVE A /\ B
  <2>1. ASSUME replay' = [replay EXCEPT ![p].pc = "delete"] PROVE A
    <3>1. replay'[p].todo = replay[p].todo /\ \A q \in Replayer : q # p => replay'[q] = replay[q]
      BY <1>0, <2>1 DEF ReplayRecord
    <3> QED BY <1>6, <3>1 DEF ReplayAdds
  <2> QED BY <1>4, <1>5, <1>6, <2>1 DEF ReplayAdds
<1>7. ASSUME NEW p \in Replayer, replayDLQInternal(p) \/ ReplaySkips(p) PROVE A /\ B
  <2>1. replayDLQInternal(p) => A
    BY <1>2 DEF replayDLQInternal
  <2> QED BY <1>4, <1>5, <1>7, <2>1 DEF replayDLQInternal, ReplaySkips
<1>8. ASSUME NEW p \in Replayer, ReplayDeletes(p) \/ ReplayFails(p) PROVE A /\ B
  <2>1. A
    BY <1>3, <1>4, <1>8 DEF ReplayDeletes, ReplayFails
  <2>2. B
    BY <1>8 DEF ReplayDeletes, ReplayFails
  <2> QED BY <2>1, <2>2
<1>9. ASSUME NEW x, XAddLetter(x) PROVE B
  <2> DEFINE n == Len(dlog) + 1
             S == dpresent \cup {n}
  <2>1. n \in Nat /\ S \subseteq 1..n /\ dpresent' \in Trimmed(S)
    BY <1>9 DEF XAddLetter, TypeInv, LetterInv
  <2>2. Len(dlog') = n /\ \A d \in DOMAIN dlog' : d \in DOMAIN dlog \/ d = n
    BY <1>9 DEF XAddLetter, TypeInv, LetterInv
  <2> HIDE DEF n
  <2>3. \A d \in S \ dpresent' : n - d >= MaxStreamLen
    BY <2>1, TrimmedFacts
  <2> QED BY <2>2, <2>3
<1>10. ASSUME NEW s \in Scanner, scanAndMoveToDLQ(s) \/ PageFails(s) \/ MoveFails(s) PROVE A /\ B
  BY <1>1, <1>5, <1>9, <1>10
     DEF Copy, scanAndMoveToDLQ, ScanBegins, XPending, PageEnds, XRange, XAddDLQ, XAck, PageFails, MoveFails
<1>11. CASE Consumer \/ Publish \/ OtherLetter \/ UNCHANGED vars
  BY <1>1, <1>5, <1>9, <1>11 DEF Consumer, Deliver, Claim, Ages, ConsumerAcks, Publish, OtherLetter, vars
<1>12. A /\ B
  <2>1. CASE \E p \in Replayer : Replays(p)
    BY <1>6, <1>7, <1>8, <2>1 DEF Replays
  <2>2. CASE \E s \in Scanner : scanAndMoveToDLQ(s) \/ PageFails(s) \/ MoveFails(s)
    BY <1>10, <2>2
  <2> QED BY <1>11, <2>1, <2>2 DEF Next
<1> QED BY <1>12

\* A copy stays.
LEMMA CopiesStay ==
    ASSUME TypeInv, LetterStep, NEW i
    PROVE  Copies(i) \subseteq Copies(i)'
BY LettersGrow DEF Copies

\* An entry of the stream keeps its origin.
LEMMA RequeuedStay ==
    ASSUME TypeInv, StreamStep, NEW d
    PROVE  Requeues(d) \subseteq Requeues(d)'
BY StreamGrows DEF Requeues

\* Only XADD takes entries from the stream, the oldest ones.
KeptInv == \A k \in DOMAIN log : InStream(k)

\* KeptInv is inductive with the types.
LEMMA KeptStep == TypeInv /\ KeptInv /\ [Next]_vars => KeptInv'
<1> SUFFICES ASSUME TypeInv, KeptInv, [Next]_vars, NEW k \in DOMAIN log'
             PROVE  k \in present' \/ Len(log') - k >= MaxStreamLen
  BY DEF KeptInv, InStream
<1>0. StreamStep
  BY StreamsStep
<1>1. /\ Len(log) \in Nat /\ Len(log') \in Nat /\ Len(log) <= Len(log')
      /\ DOMAIN log = 1..Len(log) /\ DOMAIN log' = 1..Len(log')
      /\ present \subseteq DOMAIN log /\ MaxStreamLen \in Nat
  BY <1>0, StreamGrows, DeadLetterAssumption DEF TypeInv, LogInv, Loaded
<1>2. CASE UNCHANGED <<log, present>>
  BY <1>2 DEF KeptInv, InStream
<1>3. ASSUME NEW e, XAdd(e) PROVE k \in present' \/ Len(log') - k >= MaxStreamLen
  <2> DEFINE n == Len(log) + 1
             S == present \cup {n}
  <2>1. n \in Nat /\ S \subseteq 1..n /\ present' \in Trimmed(S)
    BY <1>1, <1>3 DEF XAdd
  <2>2. Len(log') = n
    BY <1>3 DEF XAdd, TypeInv, LogInv
  <2> HIDE DEF n
  <2>3. \A j \in S \ present' : n - j >= MaxStreamLen
    BY <2>1, TrimmedFacts
  <2>4. CASE k \in S
    BY <2>2, <2>3, <2>4
  <2>5. CASE k \notin S
    <3>1. k \in DOMAIN log /\ k \in Nat
      BY <1>1, <2>2, <2>5 DEF n
    <3>2. Len(log) - k >= MaxStreamLen
      BY <2>5, <3>1 DEF KeptInv, InStream
    <3> QED BY <1>1, <3>1, <3>2
  <2> QED BY <2>4, <2>5
<1> QED BY <1>0, <1>2, <1>3 DEF StreamStep, Deliver, Claim

\* MovedInv is inductive with the types.
LEMMA MovedStep == TypeInv /\ MovedInv /\ [Next]_vars => MovedInv'
<1> SUFFICES ASSUME TypeInv, MovedInv, [Next]_vars PROVE MovedInv'
  OBVIOUS
<1>0. StreamStep /\ LetterStep
  BY StreamsStep
<1>1. ASSUME NEW s \in Scanner, scan'[s].pc = "ack" PROVE Copies(Entry(s))' # {}
  <2>1. CASE scan'[s] = scan[s]
    <3>1. Entry(s)' = Entry(s) /\ Copies(Entry(s)) # {}
      BY <1>1, <2>1 DEF Entry, MovedInv
    <3>2. Copies(Entry(s))' = {d \in DOMAIN dlog' : dlog'[d].src = Entry(s)}
      BY <3>1 DEF Copies
    <3> QED BY <1>0, <3>1, <3>2, LettersGrow DEF Copies
  <2>2. CASE scan[s].pc = "add" /\ scan'[s].todo = scan[s].todo /\ Copy(Entry(s))
    <3>1. Entry(s)' = Entry(s)
      BY <2>2 DEF Entry
    <3>2. dlog' = Append(dlog, [src |-> Entry(s), orig |-> OriginalID(Entry(s))])
      BY <2>2 DEF Copy, XAddLetter
    <3>3. Len(dlog) \in Nat /\ Len(dlog) + 1 \in DOMAIN dlog' /\ dlog'[Len(dlog) + 1].src = Entry(s)
      BY <3>2 DEF TypeInv, LetterInv
    <3> QED BY <3>1, <3>3 DEF Copies
  <2> QED BY <1>1, <2>1, <2>2, AckStep
<1>2. ASSUME NEW p \in Replayer, replay'[p].pc = "delete"
      PROVE  Requeues(Letter(p))' # {}
  <2>1. CASE replay'[p] = replay[p]
    <3>1. Letter(p)' = Letter(p) /\ Requeues(Letter(p)) # {}
      BY <1>2, <2>1 DEF Letter, MovedInv
    <3>2. Requeues(Letter(p))' = {k \in DOMAIN log' : log'[k].from = Letter(p)}
      BY <3>1 DEF Requeues
    <3> QED BY <1>0, <3>1, <3>2, StreamGrows DEF Requeues
  <2>2. CASE AtLetter(p) /\ replay'[p].todo = replay[p].todo /\ XAdd(Requeued(Letter(p)))
    <3>1. Letter(p)' = Letter(p) /\ log' = Append(log, Requeued(Letter(p)))
      BY <2>2 DEF Letter, XAdd
    <3>2. Len(log) \in Nat /\ Len(log) + 1 \in DOMAIN log' /\ log'[Len(log) + 1] = Requeued(Letter(p))
      BY <3>1 DEF TypeInv, LogInv
    <3>3. Requeued(Letter(p)).from = Letter(p)
      BY DEF Requeued
    <3> QED BY <3>1, <3>2, <3>3 DEF Requeues
  <2> QED BY <1>2, <2>1, <2>2, DeleteStep
<1> QED BY <1>1, <1>2 DEF MovedInv

\* NotLost is inductive with MovedInv and KeptInv.
LEMMA NotLostStep == TypeInv /\ MovedInv /\ NotLost /\ KeptInv' /\ [Next]_vars => NotLost'
<1> SUFFICES ASSUME TypeInv, MovedInv, NotLost, KeptInv', [Next]_vars PROVE NotLost'
  OBVIOUS
<1>0. StreamStep /\ LetterStep /\ PelStep
  BY StreamsStep, PelSteps
<1>1. ASSUME NEW i \in 1..read', count'[i] > 0, i \notin pel' \cup handled' PROVE Copies(i)' # {}
  <2>0. /\ read \in Nat /\ pel \subseteq 1..read /\ read \in Nat /\ read <= Len(log)
        /\ Len(log) \in Nat /\ DOMAIN log = 1..Len(log)
        /\ \A j \in DOMAIN log : j > read => count[j] = 0
    BY <1>0, StreamGrows DEF TypeInv, LogInv
  <2>1. CASE i \notin 1..read
    <3>1. CASE Deliver
      <4>1. i = read + 1 /\ i \in DOMAIN log /\ count[i] = 0
        BY <2>0, <2>1, <3>1 DEF Deliver
      <4>2. i \notin present /\ count' = count
        BY <1>1, <3>1, <4>1 DEF Deliver
      <4> QED BY <1>1, <4>1, <4>2
    <3>2. CASE ~Deliver
      <4>1. read' = read
        BY <1>0, <3>2 DEF StreamStep, Claim
      <4> QED BY <2>1, <4>1
    <3> QED BY <3>1, <3>2
  <2>2. CASE i \in 1..read /\ i \notin pel
    <3>1. count'[i] = count[i]
      BY <1>0, <2>2, StreamGrows
    <3>2. handled \subseteq handled'
      BY <1>0 DEF PelStep, Deliver, ConsumerAcks
    <3>3. Copies(i) # {}
      BY <1>1, <2>2, <3>1, <3>2 DEF NotLost
    <3> QED BY <1>0, <3>3, CopiesStay
  <2>3. CASE i \in pel
    <3>1. CASE UNCHANGED <<pel, handled>> \/ Deliver \/ \E j \in pel : ConsumerAcks(j)
      BY <1>1, <2>3, <3>1 DEF Deliver, ConsumerAcks
    <3>2. CASE \E s \in Scanner : scan[s].pc = "ack" /\ Acks(Entry(s)) /\ handled' = handled
      <4>1. PICK s \in Scanner : scan[s].pc = "ack" /\ Acks(Entry(s))
        BY <3>2
      <4>2. i = Entry(s)
        BY <1>1, <2>3, <4>1 DEF Acks
      <4>3. Copies(i) # {}
        BY <4>1, <4>2 DEF MovedInv
      <4> QED BY <1>0, <4>3, CopiesStay
    <3> QED BY <1>0, <3>1, <3>2 DEF PelStep
  <2> QED BY <2>1, <2>2, <2>3
<1>2. ASSUME NEW d \in DOMAIN dlog' PROVE InDLQ(d)' \/ \E k \in Requeues(d)' : InStream(k)'
  <2>0. /\ Len(dlog) \in Nat /\ Len(dlog') \in Nat /\ Len(dlog) <= Len(dlog') /\ d \in Nat
        /\ MaxStreamLen \in Nat
    BY <1>0, LettersGrow, DeadLetterAssumption DEF Loaded
  <2>1. ASSUME Requeues(d) # {} PROVE \E k \in Requeues(d)' : InStream(k)'
    <3>1. PICK k \in Requeues(d)' : TRUE
      BY <1>0, <2>1, RequeuedStay
    <3>2. k \in DOMAIN log'
      BY DEF Requeues
    <3> QED BY <3>2 DEF KeptInv
  <2>2. CASE InDLQ(d)'
    BY <2>2
  <2>3. CASE ~InDLQ(d)'
    <3>1. /\ d \in DOMAIN dlog
          /\ d \in dpresent => \E p \in Replayer : replay[p].pc = "delete" /\ d = Letter(p)
      BY <2>3, DeleteStep DEF InDLQ
    <3>2. ~(Len(dlog) - d >= MaxStreamLen)
      BY <2>0, <2>3 DEF InDLQ
    <3>3. Requeues(d) # {}
      BY <3>1, <3>2 DEF NotLost, InDLQ, MovedInv
    <3> QED BY <2>1, <3>3
  <2> QED BY <2>2, <2>3
<1> QED BY <1>1, <1>2 DEF NotLost

(* What is no longer pending was acknowledged by a consumer or has a copy,  *)
(* a dead letter that a replay deletes is in the stream again, and only the *)
(* MAXLEN of an XADD, when there are that many newer entries, takes either  *)
(* away.                                                                    *)
THEOREM NotLostHolds == Spec => []NotLost
<1>1. Init => MovedInv
  BY DEF Init, MovedInv
<1>2. Init => KeptInv
  BY DEF Init, KeptInv, InStream
<1>3. Init => NotLost
  BY DEF Init, NotLost
<1> QED BY <1>1, <1>2, <1>3, MovedStep, KeptStep, NotLostStep, TypeInvariant, PTL DEF Spec

-----------------------------------------------------------------------------
(* The original id.                                                        *)

\* A dead letter carries the original id of the entry it copies, an entry that
\* of the letter it came from, and a letter is older than the entry it became.
LinkInv ==
    /\ \A d \in DOMAIN dlog :
        IF dlog[d].src = 0 THEN dlog[d].orig = 0 ELSE dlog[d].orig = OriginalID(dlog[d].src)
    /\ \A i \in DOMAIN log :
        IF log[i].from = 0 THEN log[i].orig = 0
        ELSE log[i].orig = dlog[log[i].from].orig /\ dlog[log[i].from].src < i

\* LinkInv is inductive with the types.
LEMMA LinkStep == TypeInv /\ LinkInv /\ [Next]_vars => LinkInv'
<1> SUFFICES ASSUME TypeInv, LinkInv, [Next]_vars PROVE LinkInv'
  OBVIOUS
<1>0. StreamStep /\ LetterStep
  BY StreamsStep
<1>1. /\ read \in Nat /\ read <= Len(log) /\ Len(log) \in Nat /\ DOMAIN log = 1..Len(log)
      /\ Len(dlog) \in Nat /\ DOMAIN dlog = 1..Len(dlog)
      /\ \A i \in DOMAIN log : i \in DOMAIN log' /\ log'[i] = log[i]
      /\ \A d \in DOMAIN dlog : d \in DOMAIN dlog' /\ dlog'[d] = dlog[d]
  <2>1. /\ read \in Nat /\ read <= Len(log) /\ Len(log) \in Nat /\ DOMAIN log = 1..Len(log)
        /\ Len(dlog) \in Nat /\ DOMAIN dlog = 1..Len(dlog)
    BY StreamGrows, LettersGrow DEF TypeInv, LogInv
  <2>2. \A i \in DOMAIN log : i \in DOMAIN log' /\ log'[i] = log[i]
    BY <1>0, StreamGrows
  <2>3. \A d \in DOMAIN dlog : d \in DOMAIN dlog' /\ dlog'[d] = dlog[d]
    BY <1>0, LettersGrow
  <2> QED BY <2>1, <2>2, <2>3
<1>2. \A i \in DOMAIN log : OriginalID(i)' = OriginalID(i)
  BY <1>1 DEF OriginalID
<1>3. ASSUME NEW d \in DOMAIN dlog
      PROVE  dlog[d].src \in Nat /\ dlog[d].src <= read /\ (dlog[d].src # 0 => dlog[d].src \in DOMAIN log)
  <2>1. dlog[d] \in [src : Nat, orig : Nat] /\ dlog[d].src <= read
    BY SliceFacts DEF TypeInv, LetterInv
  <2> QED BY <1>1, <2>1
<1>4. ASSUME NEW d \in DOMAIN dlog'
      PROVE  IF dlog'[d].src = 0 THEN dlog'[d].orig = 0 ELSE dlog'[d].orig = OriginalID(dlog[d].src)'
  <2>1. CASE d \in DOMAIN dlog
    <3> DEFINE k == dlog[d].src
    <3>1. dlog'[d] = dlog[d]
      BY <1>1, <2>1
    <3>3. IF k = 0 THEN dlog[d].orig = 0 ELSE dlog[d].orig = OriginalID(k)
      BY <2>1 DEF LinkInv
    <3>4. OriginalID(dlog[d].src)' = IF log'[k].orig # 0 THEN log'[k].orig ELSE k
      BY <3>1 DEF OriginalID
    <3>5. k # 0 => OriginalID(k) = IF log'[k].orig # 0 THEN log'[k].orig ELSE k
      BY <1>1, <1>3, <2>1 DEF OriginalID
    <3> QED BY <3>1, <3>3, <3>4, <3>5
  <2>2. CASE d \notin DOMAIN dlog
    <3>0. CASE dlog'[d] = OthersLetter
      BY <3>0 DEF OthersLetter
    <3> SUFFICES ASSUME dlog'[d] # OthersLetter
                 PROVE  IF dlog'[d].src = 0 THEN dlog'[d].orig = 0
                        ELSE dlog'[d].orig = OriginalID(dlog[d].src)'
      BY <3>0
    <3>1. PICK s \in Scanner : /\ scan[s].pc = "add"
                               /\ dlog'[d].src = Entry(s) /\ dlog'[d].orig = OriginalID(Entry(s))
      BY <1>0, <2>2, LettersGrow
    <3>2. Entry(s) \in 1..read
      BY <3>1, TodoFacts DEF TypeInv, ScanInv, MayMove
    <3>3. Entry(s) \in DOMAIN log /\ Entry(s) # 0
      BY <1>1, <3>2
    <3>4. log'[Entry(s)] = log[Entry(s)]
      BY <1>1, <3>3
    <3>5. OriginalID(dlog[d].src)' = IF log'[Entry(s)].orig # 0 THEN log'[Entry(s)].orig ELSE Entry(s)
      BY <3>1 DEF OriginalID
    <3> QED BY <3>1, <3>3, <3>4, <3>5 DEF OriginalID
  <2> QED BY <2>1, <2>2
<1>5. ASSUME NEW i \in DOMAIN log'
      PROVE  IF log'[i].from = 0 THEN log'[i].orig = 0
             ELSE log'[i].orig = dlog'[log'[i].from].orig /\ dlog'[log'[i].from].src < i
  <2>1. CASE i \in DOMAIN log
    <3>1. log'[i] = log[i] /\ log[i].from <= Len(dlog)
      BY <1>1, <2>1 DEF TypeInv, LogInv
    <3>2. log[i].from \in Nat
      <4>1. log[i] \in [orig : Nat, from : Nat]
        BY <2>1, SliceFacts DEF TypeInv, LogInv
      <4> QED BY <4>1
    <3>3. log[i].from # 0 => log[i].from \in DOMAIN dlog
      BY <1>1, <3>1, <3>2
    <3>4. log[i].from # 0 => dlog'[log[i].from] = dlog[log[i].from]
      BY <1>1, <3>3
    <3>5. IF log[i].from = 0 THEN log[i].orig = 0
          ELSE log[i].orig = dlog[log[i].from].orig /\ dlog[log[i].from].src < i
      BY <2>1 DEF LinkInv
    <3> QED BY <3>1, <3>4, <3>5
  <2>2. CASE i \notin DOMAIN log
    <3>0. CASE log'[i] = Fresh
      BY <3>0 DEF Fresh
    <3> SUFFICES ASSUME log'[i] # Fresh
                 PROVE  IF log'[i].from = 0 THEN log'[i].orig = 0
                        ELSE log'[i].orig = dlog'[log'[i].from].orig /\ dlog'[log'[i].from].src < i
      BY <3>0
    <3>1. PICK d \in DOMAIN dlog : log'[i] = Requeued(d)
      BY <1>0, <2>2, StreamGrows
    <3>2. i = Len(log) + 1
      BY <1>0, <2>2, StreamGrows
    <3>3. log'[i].from = d /\ log'[i].orig = dlog[d].orig
      BY <3>1 DEF Requeued
    <3>4. d # 0 /\ dlog'[d] = dlog[d]
      BY <1>1
    <3>5. dlog[d].src < i
      BY <1>1, <1>3, <3>2
    <3> QED BY <3>3, <3>4, <3>5
  <2> QED BY <2>1, <2>2
<1> QED BY <1>4, <1>5 DEF LinkInv

\* The recursion of Origin ends, at the id the entry carries or at its own.
LEMMA OriginIsCarried == TypeInv /\ LinkInv => \A k \in DOMAIN log : Origin[k] = OriginalID(k)
<1> SUFFICES ASSUME TypeInv, LinkInv PROVE \A k \in DOMAIN log : Origin[k] = OriginalID(k)
  OBVIOUS
<1> DEFINE Step(f, i) == IF log[i].from = 0 THEN i
                         ELSE IF dlog[log[i].from].src = 0 THEN i ELSE f[dlog[log[i].from].src]
           g == [i \in DOMAIN log |-> OriginalID(i)]
<1>1. /\ read \in Nat /\ read <= Len(log) /\ Len(log) \in Nat /\ DOMAIN log = 1..Len(log)
      /\ Len(dlog) \in Nat /\ DOMAIN dlog = 1..Len(dlog)
  BY SliceFacts DEF TypeInv, LogInv, LetterInv
<1>2. ASSUME NEW i \in DOMAIN log, log[i].from # 0
      PROVE  /\ log[i].from \in DOMAIN dlog
             /\ dlog[log[i].from].src # 0 => dlog[log[i].from].src \in DOMAIN log
             /\ dlog[log[i].from].src \in Nat /\ dlog[log[i].from].src < i
  <2>1. log[i] \in [orig : Nat, from : Nat] /\ log[i].from <= Len(dlog)
    BY SliceFacts DEF TypeInv, LogInv
  <2>2. log[i].from \in DOMAIN dlog
    BY <1>1, <1>2, <2>1
  <2> DEFINE d == log[i].from
  <2>3. dlog[d] \in [src : Nat, orig : Nat] /\ dlog[d].src <= read
    BY <2>2, SliceFacts DEF TypeInv, LetterInv
  <2>4. dlog[d].src \in Nat /\ (dlog[d].src # 0 => dlog[d].src \in DOMAIN log)
    BY <1>1, <2>3
  <2> QED BY <1>2, <2>2, <2>4 DEF LinkInv
<1>3. ASSUME NEW i \in DOMAIN log PROVE OriginalID(i) = Step(g, i)
  <2>1. CASE log[i].from = 0
    BY <2>1 DEF LinkInv, OriginalID
  <2>2. CASE log[i].from # 0
    <3> DEFINE d == log[i].from
               k == dlog[d].src
    <3>1. log[i].orig = dlog[d].orig /\ d \in DOMAIN dlog
      BY <1>2, <2>2 DEF LinkInv
    <3>2. IF k = 0 THEN dlog[d].orig = 0 ELSE dlog[d].orig = OriginalID(k)
      BY <3>1 DEF LinkInv
    <3>3. CASE k = 0
      BY <2>2, <3>1, <3>2, <3>3 DEF OriginalID
    <3>4. CASE k # 0
      <4>1. k \in DOMAIN log /\ g[k] = OriginalID(k)
        BY <1>2, <2>2, <3>4
      <4>2. OriginalID(k) # 0
        BY <3>4 DEF OriginalID
      <4>3. OriginalID(i) = dlog[d].orig
        BY <3>1, <3>2, <3>4, <4>2 DEF OriginalID
      <4> HIDE DEF g
      <4> QED BY <2>2, <3>2, <3>4, <4>1, <4>3
    <3> QED BY <3>3, <3>4
  <2> QED BY <2>1, <2>2
<1>4. g = [i \in DOMAIN log |-> Step(g, i)]
  BY <1>3
<1>5. Origin = [i \in DOMAIN log |-> Step(Origin, i)]
  <2> HIDE DEF g
  <2> QED BY <1>4 DEF Origin
<1> DEFINE Bad == {i \in DOMAIN log : Origin[i] # OriginalID(i)}
<1> SUFFICES ASSUME Bad # {} PROVE FALSE
  OBVIOUS
<1>6. PICK i \in Bad : \A y \in Bad : i <= y
  <2>1. Bad \subseteq Nat
    BY <1>1
  <2> HIDE DEF Bad
  <2> QED BY <2>1, LeastMember
<1>7. Origin[i] = Step(Origin, i) /\ i \in DOMAIN log /\ Origin[i] # OriginalID(i)
  BY <1>5
<1>8. log[i].from # 0 /\ dlog[log[i].from].src # 0
  BY <1>3, <1>7
<1> DEFINE k == dlog[log[i].from].src
<1>9. k \in DOMAIN log /\ k \in Nat /\ k < i /\ i \in Nat
  BY <1>1, <1>2, <1>7, <1>8
<1>10. k \notin Bad
  BY <1>6, <1>9
<1>11. Origin[k] = OriginalID(k) /\ g[k] = OriginalID(k)
  BY <1>9, <1>10
<1>12. OriginalID(i) = g[k] /\ Origin[i] = Origin[k]
  BY <1>3, <1>7, <1>8
<1> QED BY <1>7, <1>11, <1>12

(* dlq_original_id of a dead letter names the entry that was published     *)
(* first, however often the message was moved and replayed.                *)
THEOREM LineageHolds == Spec => []Lineage
<1>1. Init => LinkInv
  BY DEF Init, Fresh, LinkInv
<1>2. TypeInv /\ LinkInv => Lineage
  <2> SUFFICES ASSUME TypeInv, LinkInv, NEW d \in DOMAIN dlog, dlog[d].src # 0
               PROVE  dlog[d].orig = Origin[dlog[d].src]
    BY DEF Lineage
  <2>1. dlog[d].src \in DOMAIN log
    <3>1. dlog[d] \in [src : Nat, orig : Nat] /\ dlog[d].src <= read
      BY SliceFacts DEF TypeInv, LetterInv
    <3>2. read \in Nat /\ read <= Len(log) /\ Len(log) \in Nat /\ DOMAIN log = 1..Len(log)
      BY SliceFacts DEF TypeInv, LogInv
    <3> QED BY <3>1, <3>2
  <2> QED BY <2>1, OriginIsCarried DEF LinkInv
<1> QED BY <1>1, <1>2, LinkStep, TypeInvariant, PTL DEF Spec

-----------------------------------------------------------------------------
(* How often an entry is copied.                                           *)

\* A scan that has copied i and not acknowledged it yet, and one that has i
\* still to copy.
HasCopied(r, i) == r.pc = "ack" /\ Head(r.todo) = i
WillCopy(r, i) == i \in Elems(r.todo) /\ ~HasCopied(r, i)

AtAck(i) == {s \in Scanner : HasCopied(scan[s], i)}
Due(i) == {s \in Scanner : WillCopy(scan[s], i)}

\* While i is pending, each copy has its scanner at the XACK or a failure.
\* Once it is not, no scan takes it up again.
CopyInv ==
    \A i \in Nat \ {0} :
        IF i \in pel THEN Cardinality(Copies(i)) <= Cardinality(AtAck(i)) + faults
        ELSE Cardinality(Copies(i)) + Cardinality(Due(i)) <= Cardinality(Scanner) + faults

\* The sets that CopyInv counts.
LEMMA CopySets ==
    ASSUME TypeInv, NEW i
    PROVE  /\ IsFiniteSet(Copies(i)) /\ Cardinality(Copies(i)) \in Nat
           /\ IsFiniteSet(AtAck(i)) /\ Cardinality(AtAck(i)) \in Nat
           /\ IsFiniteSet(Due(i)) /\ Cardinality(Due(i)) \in Nat
           /\ Cardinality(Scanner) \in Nat /\ faults \in Nat
           /\ Cardinality(AtAck(i)) + Cardinality(Due(i)) <= Cardinality(Scanner)
<1>1. IsFiniteSet(Copies(i))
  <2>1. Len(dlog) \in Nat /\ DOMAIN dlog = 1..Len(dlog)
    BY SliceFacts DEF TypeInv, LetterInv
  <2>2. Copies(i) \subseteq 0..Len(dlog)
    BY <2>1 DEF Copies
  <2> QED BY <2>1, <2>2, BoundedFinite
<1>2. IsFiniteSet(Scanner) /\ AtAck(i) \in SUBSET Scanner /\ Due(i) \in SUBSET Scanner
  BY DeadLetterAssumption DEF AtAck, Due
<1>3. IsFiniteSet(AtAck(i)) /\ IsFiniteSet(Due(i))
  BY <1>2, FS_Subset
<1>4. Cardinality(AtAck(i)) + Cardinality(Due(i)) <= Cardinality(Scanner)
  <2> DEFINE A == AtAck(i)
             D == Due(i)
             U == A \cup D
  <2>1. A \cap D = {} /\ U \in SUBSET Scanner
    BY <1>2 DEF AtAck, Due, WillCopy
  <2> HIDE DEF A, D
  <2>2. Cardinality(U) = Cardinality(A) + Cardinality(D) - Cardinality(A \cap D)
    BY <1>3, FS_Union DEF A, D
  <2>3. Cardinality(A \cap D) = 0
    BY <2>1, FS_EmptySet
  <2>4. Cardinality(U) <= Cardinality(Scanner)
    BY <1>2, <2>1, FS_Subset
  <2>5. Cardinality(A) \in Nat /\ Cardinality(D) \in Nat
    BY <1>3, FS_CardinalityType DEF A, D
  <2>6. Cardinality(U) = Cardinality(A) + Cardinality(D)
    BY <2>2, <2>3, <2>5
  <2> QED BY <2>4, <2>6 DEF A, D
<1>5. faults \in Nat
  BY DEF TypeInv, BoundInv
<1> QED BY <1>1, <1>2, <1>3, <1>4, <1>5, FS_CardinalityType

\* What a scanner's move does to the two sets.
LEMMA ScannerMoves ==
    ASSUME TypeInv, NEW u \in Scanner, NEW r, Scans(u, r), NEW i
    PROVE  /\ HasCopied(r, i) => AtAck(i)' = AtAck(i) \cup {u}
           /\ ~HasCopied(r, i) => AtAck(i)' = AtAck(i) \ {u}
           /\ WillCopy(r, i) => Due(i)' = Due(i) \cup {u}
           /\ ~WillCopy(r, i) => Due(i)' = Due(i) \ {u}
<1>1. scan'[u] = r /\ \A s \in Scanner : s # u => scan'[s] = scan[s]
  BY DEF TypeInv, ScanInv, Scans
<1>2. AtAck(i)' = {s \in Scanner : HasCopied(scan'[s], i)}
  BY DEF AtAck, HasCopied
<1>3. Due(i)' = {s \in Scanner : WillCopy(scan'[s], i)}
  BY DEF Due, WillCopy, HasCopied, Elems
<1> QED BY <1>1, <1>2, <1>3 DEF AtAck, Due

\* A scanner that goes on with its next entry has no copy open, and no more to
\* copy than before.
LEMMA NextEntrySets ==
    ASSUME TypeInv, NEW u \in Scanner, scan[u].todo # <<>>, NextEntry(u), NEW i
    PROVE  /\ AtAck(i)' = AtAck(i) \ {u} /\ Due(i)' \subseteq Due(i)
           /\ u \in AtAck(i) <=> scan[u].pc = "ack" /\ i = Entry(u)
<1> DEFINE r == [scan[u] EXCEPT !.pc = "entry", !.todo = Tail(@)]
<1>1. /\ r.pc = "entry" /\ Elems(scan[u].todo) = Elems(r.todo) \cup {Entry(u)}
      /\ Entry(u) \notin Elems(r.todo)
  BY NextEntryMayMove
<1>2. Scans(u, r)
  BY DEF NextEntry
<1> HIDE DEF r
<1>3. ~HasCopied(r, i)
  BY <1>1 DEF HasCopied
<1>4. WillCopy(r, i) => WillCopy(scan[u], i)
  BY <1>1 DEF WillCopy, HasCopied, Entry
<1>5. WillCopy(scan[u], i) => u \in Due(i)
  BY DEF Due
<1>6. Due(i)' \subseteq Due(i)
  BY <1>2, <1>4, <1>5, ScannerMoves
<1>7. u \in AtAck(i) <=> scan[u].pc = "ack" /\ i = Entry(u)
  BY DEF AtAck, HasCopied, Entry
<1> QED BY <1>2, <1>3, <1>6, <1>7, ScannerMoves

\* CopyInv is inductive with the types.
LEMMA CopyStep == TypeInv /\ CopyInv /\ [Next]_vars => CopyInv'
<1> SUFFICES ASSUME TypeInv, CopyInv, [Next]_vars, NEW i \in Nat \ {0}
             PROVE  IF i \in pel' THEN Cardinality(Copies(i)') <= Cardinality(AtAck(i)') + faults'
                    ELSE Cardinality(Copies(i)') + Cardinality(Due(i)') <= Cardinality(Scanner) + faults'
  BY DEF CopyInv
<1> USE DEF streamVars, dlqVars, boundVars
<1> DEFINE G == IF i \in pel' THEN Cardinality(Copies(i)') <= Cardinality(AtAck(i)') + faults'
                ELSE Cardinality(Copies(i)') + Cardinality(Due(i)') <= Cardinality(Scanner) + faults'
           c == Cardinality(Copies(i))
           k == Cardinality(AtAck(i))
           d == Cardinality(Due(i))
           n == Cardinality(Scanner)
<1>0. /\ c \in Nat /\ k \in Nat /\ d \in Nat /\ n \in Nat /\ faults \in Nat
      /\ IsFiniteSet(Copies(i)) /\ IsFiniteSet(AtAck(i)) /\ IsFiniteSet(Due(i))
      /\ k + d <= n
  BY CopySets
<1>1. c + d <= n + faults /\ (i \in pel => c <= k + faults)
  BY <1>0 DEF CopyInv
<1>2. scan \in [Scanner -> ScanRecord] /\ \A s \in Scanner : MayMove(scan[s])
  BY DEF TypeInv, ScanInv
<1>3. dlog' = dlog => Copies(i)' = Copies(i)
  BY DEF Copies
\* A part of Due(i) is not larger.
<1>4. ASSUME Due(i)' \subseteq Due(i) PROVE Cardinality(Due(i)') \in Nat /\ Cardinality(Due(i)') <= d
  BY <1>0, <1>4, FS_Subset, FS_CardinalityType
\* Steps that neither copy nor acknowledge.
<1>5. ASSUME Copies(i)' = Copies(i), AtAck(i)' = AtAck(i), faults' = faults, i \in pel' => i \in pel,
             i \notin pel' => Due(i)' \subseteq Due(i)
      PROVE  G
  <2>1. CASE i \in pel'
    BY <1>1, <1>5, <2>1
  <2>2. CASE i \notin pel'
    <3>1. Cardinality(Due(i)') \in Nat /\ Cardinality(Due(i)') <= d
      BY <1>4, <1>5, <2>2
    <3> DEFINE e == Cardinality(Due(i)')
    <3>2. e \in Nat /\ e <= d
      BY <3>1
    <3> HIDE DEF c, k, d, n, e
    <3>3. c + e <= n + faults
      BY <1>0, <1>1, <3>2
    <3> QED BY <1>5, <2>2, <3>3 DEF c, n, e
  <2> QED BY <2>1, <2>2
\* The scanners do nothing.
<1>6. ASSUME UNCHANGED <<scan, dlog, faults>>, i \in pel' => i \in pel \/ i = read + 1 PROVE G
  <2>1. AtAck(i)' = AtAck(i) /\ Due(i)' = Due(i) /\ Copies(i)' = Copies(i)
    BY <1>6 DEF AtAck, Due, Copies
  <2>2. CASE i \in pel' => i \in pel
    BY <1>5, <1>6, <2>1, <2>2
  <2>3. CASE i = read + 1 /\ i \in pel'
    <3>1. Copies(i) = {}
      <4> SUFFICES ASSUME NEW x \in DOMAIN dlog, dlog[x].src = read + 1 PROVE FALSE
        BY <2>3 DEF Copies
      <4>1. dlog[x] \in [src : Nat, orig : Nat] /\ dlog[x].src <= read /\ read \in Nat
        BY SliceFacts DEF TypeInv, LetterInv, LogInv
      <4> QED BY <4>1
    <3>2. Cardinality(Copies(i)') = 0
      BY <2>1, <3>1, FS_EmptySet
    <3>3. 0 <= k + faults
      <4> HIDE DEF k
      <4> QED BY <1>0
    <3> QED BY <1>6, <2>1, <2>3, <3>2, <3>3
  <2> QED BY <1>6, <2>2, <2>3
<1>7. CASE Consumer \/ Publish \/ UNCHANGED vars
  BY <1>6, <1>7 DEF Consumer, Deliver, Claim, Ages, ConsumerAcks, Publish, vars
<1>o. CASE OtherLetter
  <2>1. Copies(i)' = Copies(i)
    <3>1. /\ \A x \in DOMAIN dlog : x \in DOMAIN dlog' /\ dlog'[x] = dlog[x]
          /\ \A x \in DOMAIN dlog' : x \in DOMAIN dlog \/ dlog'[x] = OthersLetter
      BY <1>o DEF OtherLetter, XAddLetter, TypeInv, LetterInv
    <3>2. OthersLetter.src # i
      BY DEF OthersLetter
    <3> QED BY <3>1, <3>2 DEF Copies
  <2>2. UNCHANGED <<scan, faults, pel>>
    BY <1>o DEF OtherLetter
  <2>3. AtAck(i)' = AtAck(i) /\ Due(i)' = Due(i)
    BY <2>2 DEF AtAck, Due
  <2> QED BY <1>5, <2>1, <2>2, <2>3
<1>8. ASSUME NEW p \in Replayer, Replays(p) PROVE G
  BY <1>6, <1>8 DEF Replays, replayDLQInternal, ReplaySkips, ReplayAdds, ReplayDeletes, ReplayFails
\* A scan stops, or turns to its next page or to the move of an entry.
<1>9. ASSUME NEW u \in Scanner, scan[u].pc # "ack", NEW r, Scans(u, r), r.pc # "ack",
             i \in pel \/ (WillCopy(r, i) => WillCopy(scan[u], i)),
             UNCHANGED <<pel, dlog, faults>>
      PROVE  G
  <2>1. ~HasCopied(r, i) /\ u \notin AtAck(i)
    BY <1>9 DEF HasCopied, AtAck
  <2>2. AtAck(i)' = AtAck(i)
    BY <1>9, <2>1, ScannerMoves
  <2>3. WillCopy(scan[u], i) => u \in Due(i)
    BY DEF Due
  <2>4. i \notin pel => Due(i)' \subseteq Due(i)
    BY <1>9, <2>3, ScannerMoves
  <2> QED BY <1>3, <1>5, <1>9, <2>2, <2>4
<1>10. ASSUME NEW u \in Scanner, scan[u].pc # "ack", ScanStops(u), UNCHANGED <<pel, dlog, faults>> PROVE G
  <2> DEFINE r == [pc |-> "idle", todo |-> <<>>, cursor |-> 0, more |-> FALSE]
  <2>1. r.pc # "ack" /\ Elems(r.todo) = {}
    BY DEF Elems
  <2>2. Scans(u, r)
    BY <1>10 DEF ScanStops
  <2> HIDE DEF r
  <2>3. ~WillCopy(r, i)
    BY <2>1 DEF WillCopy
  <2> QED BY <1>9, <1>10, <2>1, <2>2, <2>3
<1>11. ASSUME NEW u \in Scanner, scan[u].pc # "ack", NEW pc \in {"page", "add"},
              Scans(u, [scan[u] EXCEPT !.pc = pc]), UNCHANGED <<pel, dlog, faults>>
       PROVE  G
  <2> DEFINE r == [scan[u] EXCEPT !.pc = pc]
  <2>1. r.pc # "ack" /\ r.todo = scan[u].todo /\ Scans(u, r)
    BY <1>2, <1>11 DEF ScanRecord
  <2> HIDE DEF r
  <2>2. WillCopy(r, i) => WillCopy(scan[u], i)
    BY <1>11, <2>1 DEF WillCopy, HasCopied
  <2> QED BY <1>9, <1>11, <2>1, <2>2
<1>12. ASSUME NEW u \in Scanner, ScanBegins(u) \/ PageEnds(u) \/ PageFails(u) PROVE G
  BY <1>10, <1>11, <1>12 DEF ScanBegins, PageEnds, PageFails
<1>13. ASSUME NEW u \in Scanner, XPending(u) PROVE G
  <2> DEFINE page == First({j \in pel : j > scan[u].cursor}, ScanBatch)
             r == [pc |-> "entry", todo |-> Ascending({j \in page : Qualifies(j)}),
                   cursor |-> Greatest(page), more |-> MorePages(page)]
  <2>1. scan[u].pc # "ack" /\ UNCHANGED <<pel, dlog, faults>>
    BY <1>13 DEF XPending
  <2>2. CASE page = {}
    BY <1>10, <1>13, <2>1, <2>2 DEF XPending
  <2>3. CASE page # {}
    <3>1. Elems(r.todo) \subseteq pel /\ r.pc # "ack"
      BY <2>3, XPendingMayMove
    <3>2. Scans(u, r)
      BY <1>13, <2>3 DEF XPending
    <3> HIDE DEF r
    <3>3. i \in pel \/ ~WillCopy(r, i)
      BY <3>1 DEF WillCopy
    <3> QED BY <1>9, <2>1, <3>1, <3>2, <3>3
  <2> QED BY <2>2, <2>3
\* A move ends without a copy, before the XACK.
<1>14. ASSUME NEW u \in Scanner, scan[u].pc # "ack", scan[u].todo # <<>>, NextEntry(u),
              UNCHANGED <<pel, dlog, faults>>
       PROVE  G
  <2>1. Due(i)' \subseteq Due(i) /\ AtAck(i)' = AtAck(i) \ {u} /\ u \notin AtAck(i)
    BY <1>14, NextEntrySets
  <2>2. AtAck(i)' = AtAck(i)
    BY <2>1
  <2> QED BY <1>3, <1>5, <1>14, <2>1, <2>2
<1>15. ASSUME NEW u \in Scanner, XRange(u) PROVE G
  BY <1>11, <1>14, <1>15 DEF XRange
\* XACK: the entry leaves the pending list, if it is still there.
<1>16. ASSUME NEW u \in Scanner, scan[u].pc = "ack", Acks(Entry(u)), NextEntry(u), UNCHANGED <<dlog, faults>>
       PROVE  G
  <2>1. scan[u].todo # <<>>
    BY <1>2, <1>16 DEF MayMove
  <2>2. Due(i)' \subseteq Due(i) /\ AtAck(i)' = AtAck(i) \ {u} /\ (u \in AtAck(i) <=> i = Entry(u))
    BY <1>16, <2>1, NextEntrySets
  <2>3. CASE i # Entry(u)
    BY <1>3, <1>5, <1>16, <2>2, <2>3 DEF Acks
  <2>4. CASE i = Entry(u)
    <3>1. i \notin pel'
      BY <1>16, <2>4 DEF Acks
    <3> DEFINE e == Cardinality(Due(i)')
    <3>2. e \in Nat /\ e <= d
      BY <1>4, <2>2
    <3> HIDE DEF c, k, d, n, e
    <3>3. c + e <= n + faults
      BY <1>0, <1>1, <3>2
    <3> QED BY <1>3, <1>16, <3>1, <3>3 DEF c, n, e
  <2> QED BY <2>3, <2>4
<1>17. ASSUME NEW u \in Scanner, XAck(u) PROVE G
  BY <1>16, <1>17 DEF XAck
\* The copy.
<1>18. ASSUME NEW e, Copy(e)
       PROVE  /\ i # e => Copies(i)' = Copies(i)
              /\ i = e => Cardinality(Copies(i)') = c + 1
  <2>1. dlog' = Append(dlog, [src |-> e, orig |-> OriginalID(e)]) /\ dlog \in Seq([src : Nat, orig : Nat])
    BY <1>18 DEF Copy, XAddLetter, TypeInv, LetterInv
  <2>2. /\ Len(dlog) \in Nat /\ DOMAIN dlog = 1..Len(dlog) /\ DOMAIN dlog' = 1..(Len(dlog) + 1)
        /\ \A x \in DOMAIN dlog : dlog'[x] = dlog[x]
        /\ dlog'[Len(dlog) + 1].src = e
    BY <2>1
  <2>3. \A x \in DOMAIN dlog' : x \in DOMAIN dlog \/ x = Len(dlog) + 1
    BY <2>2
  <2>4. Len(dlog) + 1 \notin DOMAIN dlog /\ Len(dlog) + 1 \in DOMAIN dlog' /\ DOMAIN dlog \subseteq DOMAIN dlog'
    BY <2>2
  <2>5. i # e => Copies(i)' = Copies(i)
    BY <2>2, <2>3, <2>4 DEF Copies
  <2>6. i = e => Copies(i)' = Copies(i) \cup {Len(dlog) + 1}
    BY <2>2, <2>3, <2>4 DEF Copies
  <2>7. Len(dlog) + 1 \notin Copies(i)
    BY <2>4 DEF Copies
  <2>8. i = e => Cardinality(Copies(i)') = c + 1
    <3> DEFINE C == Copies(i)
               x == Len(dlog) + 1
    <3> HIDE DEF x
    <3>1. IsFiniteSet(C) /\ x \notin C
      BY <1>0, <2>7 DEF x
    <3> HIDE DEF C
    <3>2. Cardinality(C \cup {x}) = Cardinality(C) + 1
      BY <3>1, FS_AddElement
    <3> QED BY <2>6, <3>2 DEF C, x
  <2> QED BY <2>5, <2>8
<1>19. ASSUME NEW u \in Scanner, XAddDLQ(u) PROVE G
  <2> DEFINE r == [scan[u] EXCEPT !.pc = "ack"]
  <2>1. r.pc = "ack" /\ r.todo = scan[u].todo /\ Scans(u, r) /\ scan[u].pc = "add"
    BY <1>2, <1>19 DEF XAddDLQ, ScanRecord
  <2>2. UNCHANGED <<pel, faults>> /\ Copy(Entry(u)) /\ scan[u].todo # <<>>
    BY <1>2, <1>19 DEF XAddDLQ, MayMove
  <2>3. u \notin AtAck(i) /\ (u \in Due(i) <=> i \in Elems(scan[u].todo))
    BY <2>1 DEF AtAck, Due, WillCopy, HasCopied
  <2> HIDE DEF r
  <2>4. CASE i # Entry(u)
    <3>1. ~HasCopied(r, i) /\ (WillCopy(r, i) <=> i \in Elems(scan[u].todo))
      BY <2>1, <2>4 DEF HasCopied, WillCopy, Entry
    <3>2. AtAck(i)' = AtAck(i) /\ Due(i)' = Due(i)
      BY <2>1, <2>3, <3>1, ScannerMoves
    <3> QED BY <1>5, <1>18, <2>2, <2>4, <3>2
  <2>5. CASE i = Entry(u)
    <3>1. HasCopied(r, i) /\ ~WillCopy(r, i)
      BY <2>1, <2>5 DEF HasCopied, WillCopy, Entry
    <3>2. i \in Elems(scan[u].todo)
      BY <2>2, <2>5, TodoFacts DEF Elems
    <3>3. AtAck(i)' = AtAck(i) \cup {u} /\ Due(i)' = Due(i) \ {u} /\ u \in Due(i)
      BY <2>1, <2>3, <3>1, <3>2, ScannerMoves
    <3>4. Cardinality(AtAck(i)') = k + 1
      <4> DEFINE A == AtAck(i)
      <4>1. IsFiniteSet(A) /\ u \notin A
        BY <1>0, <2>3
      <4> HIDE DEF A
      <4>2. Cardinality(A \cup {u}) = Cardinality(A) + 1
        BY <4>1, FS_AddElement
      <4> QED BY <3>3, <4>2 DEF A
    <3>5. Cardinality(Due(i)') = d - 1
      <4> DEFINE D == Due(i)
      <4>1. IsFiniteSet(D) /\ u \in D
        BY <1>0, <3>3
      <4> HIDE DEF D
      <4>2. Cardinality(D \ {u}) = Cardinality(D) - 1
        BY <4>1, FS_RemoveElement
      <4> QED BY <3>3, <4>2 DEF D
    <3>6. Cardinality(Copies(i)') = c + 1
      BY <1>18, <2>2, <2>5
    <3> HIDE DEF c, k, d, n
    <3>7. (c + 1) + (d - 1) <= n + faults /\ (i \in pel => c + 1 <= (k + 1) + faults)
      BY <1>0, <1>1
    <3> QED BY <2>2, <3>4, <3>5, <3>6, <3>7 DEF n
  <2> QED BY <2>4, <2>5
\* A failure pays for the copy that is made again, or for the entry that stays.
<1>20. ASSUME NEW u \in Scanner, scan[u].pc = "add", Fault, Copy(Entry(u)), NextEntry(u), UNCHANGED pel
       PROVE  G
  <2>1. scan[u].todo # <<>>
    BY <1>2, <1>20 DEF MayMove
  <2>2. Due(i)' \subseteq Due(i) /\ AtAck(i)' = AtAck(i)
    <3>1. Due(i)' \subseteq Due(i) /\ AtAck(i)' = AtAck(i) \ {u} /\ u \notin AtAck(i)
      BY <1>20, <2>1, NextEntrySets
    <3> QED BY <3>1
  <2> DEFINE e == Cardinality(Due(i)')
             f == Cardinality(Copies(i)')
  <2>3. e \in Nat /\ e <= d
    BY <1>4, <2>2
  <2>4. f = c \/ f = c + 1
    BY <1>18, <1>20
  <2>5. faults' = faults + 1
    BY <1>20 DEF Fault
  <2> HIDE DEF c, k, d, n, e, f
  <2>6. f + e <= n + (faults + 1) /\ (i \in pel => f <= k + (faults + 1))
    BY <1>0, <1>1, <2>3, <2>4
  <2> QED BY <1>20, <2>2, <2>5, <2>6 DEF n, k, e, f
<1>21. ASSUME NEW u \in Scanner, scan[u].pc = "ack", Fault, NextEntry(u), UNCHANGED <<pel, dlog>>
       PROVE  G
  <2>1. scan[u].todo # <<>>
    BY <1>2, <1>21 DEF MayMove
  <2>2. Due(i)' \subseteq Due(i) /\ AtAck(i)' = AtAck(i) \ {u}
    BY <1>21, <2>1, NextEntrySets
  <2> DEFINE e == Cardinality(Due(i)')
             f == Cardinality(AtAck(i)')
  <2>3. e \in Nat /\ e <= d
    BY <1>4, <2>2
  <2>4. f \in Nat /\ f >= k - 1
    <3> DEFINE A == AtAck(i)
               B == A \ {u}
    <3>1. IsFiniteSet(A)
      BY <1>0
    <3> HIDE DEF A
    <3>2. IsFiniteSet(B) /\ Cardinality(B) = IF u \in A THEN Cardinality(A) - 1 ELSE Cardinality(A)
      BY <3>1, FS_RemoveElement
    <3>3. Cardinality(B) \in Nat /\ Cardinality(A) \in Nat
      BY <3>1, <3>2, FS_CardinalityType
    <3>4. Cardinality(B) >= Cardinality(A) - 1
      BY <3>2, <3>3
    <3> QED BY <2>2, <3>3, <3>4 DEF A
  <2>5. faults' = faults + 1
    BY <1>21 DEF Fault
  <2> HIDE DEF c, k, d, n, e, f
  <2>6. c + e <= n + (faults + 1) /\ (i \in pel => c <= f + (faults + 1))
    BY <1>0, <1>1, <2>3, <2>4
  <2> QED BY <1>3, <1>21, <2>5, <2>6 DEF c, n, e, f
<1>22. ASSUME NEW u \in Scanner, MoveFails(u) PROVE G
  <2>1. CASE scan[u].pc = "entry" /\ scan[u].todo # <<>> /\ UNCHANGED <<pel, idle, dlqVars, boundVars>>
    BY <1>14, <1>22, <2>1 DEF MoveFails
  <2>2. CASE scan[u].pc = "add" /\ UNCHANGED <<pel, idle, dlqVars, boundVars>>
    BY <1>2, <1>14, <1>22, <2>2 DEF MoveFails, MayMove
  <2>3. CASE scan[u].pc = "add" /\ Fault /\ Copy(Entry(u)) /\ UNCHANGED <<pel, idle>>
    BY <1>20, <1>22, <2>3 DEF MoveFails
  <2>4. CASE scan[u].pc = "ack" /\ Fault /\ UNCHANGED <<pel, idle, dlqVars>>
    BY <1>21, <1>22, <2>4 DEF MoveFails
  <2>5. CASE scan[u].pc = "ack" /\ Acks(Entry(u)) /\ UNCHANGED <<dlqVars, boundVars>>
    BY <1>16, <1>22, <2>5 DEF MoveFails
  <2> QED BY <1>22, <2>1, <2>2, <2>3, <2>4, <2>5 DEF MoveFails
<1>23. ASSUME NEW u \in Scanner, scanAndMoveToDLQ(u) \/ PageFails(u) PROVE G
  BY <1>12, <1>13, <1>15, <1>17, <1>19, <1>23 DEF scanAndMoveToDLQ
<1> QED BY <1>o, <1>7, <1>8, <1>22, <1>23 DEF Next

(* An entry is copied at most once by each sidecar, but for failures after *)
(* the copy, for any number of sidecars that scan at the same time.        *)
THEOREM CopiesBoundedHolds == Spec => []CopiesBounded
<1>1. Init => CopyInv
  <2> SUFFICES ASSUME Init, NEW i \in Nat \ {0}
               PROVE  IF i \in pel THEN Cardinality(Copies(i)) <= Cardinality(AtAck(i)) + faults
                      ELSE Cardinality(Copies(i)) + Cardinality(Due(i)) <= Cardinality(Scanner) + faults
    BY DEF CopyInv
  <2>1. Copies(i) = {}
    BY DEF Init, Copies
  <2>2. Due(i) = {}
    <3>1. \A s \in Scanner : scan[s].todo = <<>>
      BY DEF Init
    <3>2. Elems(<<>>) = {}
      BY DEF Elems
    <3> QED BY <3>1, <3>2 DEF Due, WillCopy
  <2>3. Cardinality(AtAck(i)) \in Nat /\ Cardinality(Scanner) \in Nat /\ faults \in Nat
    BY TypeInit, CopySets
  <2>4. Cardinality(Copies(i)) = 0 /\ Cardinality(Due(i)) = 0
    BY <2>1, <2>2, FS_EmptySet
  <2> QED BY <2>3, <2>4
<1>2. TypeInv /\ CopyInv => CopiesBounded
  <2> SUFFICES ASSUME TypeInv, CopyInv, NEW i \in DOMAIN log
               PROVE  Cardinality(Copies(i)) <= Cardinality(Scanner) + faults
    BY DEF CopiesBounded
  <2>1. i \in Nat \ {0}
    BY SliceFacts DEF TypeInv, LogInv
  <2> DEFINE c == Cardinality(Copies(i))
             k == Cardinality(AtAck(i))
             d == Cardinality(Due(i))
             n == Cardinality(Scanner)
  <2>2. c \in Nat /\ k \in Nat /\ d \in Nat /\ n \in Nat /\ faults \in Nat /\ k + d <= n
    BY CopySets
  <2>3. c <= k + faults \/ c + d <= n + faults
    BY <2>1 DEF CopyInv
  <2> HIDE DEF c, k, d, n
  <2>4. c <= n + faults
    BY <2>2, <2>3
  <2> QED BY <2>4 DEF c, n
<1> QED BY <1>1, <1>2, CopyStep, TypeInvariant, PTL DEF Spec
=============================================================================
