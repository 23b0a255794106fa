------------------------ MODULE ConsumerGroup_proofs ------------------------
(***************************************************************************)
(* Proofs about reading through a consumer group, for any number of        *)
(* readers, entries, losses and failures.                                  *)
(***************************************************************************)
EXTENDS ConsumerGroup, DataLemmas

-----------------------------------------------------------------------------
(* What XREADGROUP hands out.                                              *)

\* The youngest entry of an answer.
Youngest == CHOOSE e \in NextEntries : \A f \in NextEntries : f <= e

\* An answer has a youngest entry, and holds every entry of the stream from
\* the position of the group up to it: the COUNT limit cuts at the end only.
LEMMA NextEntriesContiguous ==
    ASSUME TypeOK, NextEntries # {}
    PROVE  /\ NextEntries \subseteq entries
           /\ Youngest \in NextEntries
           /\ \A e \in NextEntries : e <= Youngest /\ group.last < e
           /\ \A e \in entries : group.last < e /\ e <= Youngest => e \in NextEntries
<1>1. added \in Nat /\ entries \subseteq 0..added /\ group.last \in Nat
  BY GroupAssumption DEF TypeOK
<1>2. NextEntries \subseteq 0..added /\ NextEntries \subseteq entries
  BY <1>1 DEF NextEntries
<1>3. \E e \in NextEntries : \A f \in NextEntries : f <= e
  BY <1>1, <1>2, GreatestMember
<1>4. Youngest \in NextEntries /\ \A f \in NextEntries : f <= Youngest
  BY <1>3 DEF Youngest
<1>5. ASSUME NEW e \in entries, group.last < e, e <= Youngest
      PROVE  e \in NextEntries
  <2> DEFINE Older(x) == {f \in entries : group.last < f /\ f < x}
  <2>0. Youngest \in Nat /\ e \in Nat /\ \A f \in entries : f \in Nat
    BY <1>1, <1>2, <1>4
  <2>1. Older(e) \in SUBSET Older(Youngest) /\ Older(Youngest) \subseteq 0..added
    <3>1. \A f \in entries : f < e => f < Youngest
      BY <1>5, <2>0
    <3> QED BY <1>1, <3>1
  <2>2. IsFiniteSet(Older(Youngest))
    BY <1>1, <2>1, BoundedFinite
  <2>3. /\ Cardinality(Older(e)) <= Cardinality(Older(Youngest))
        /\ Cardinality(Older(e)) \in Nat /\ Cardinality(Older(Youngest)) \in Nat
    BY <2>1, <2>2, FS_Subset, FS_CardinalityType
  <2>4. Cardinality(Older(Youngest)) < ReadCount
    BY <1>4 DEF NextEntries
  <2>5. Cardinality(Older(e)) < ReadCount
    BY <2>3, <2>4, GroupAssumption
  <2> QED BY <1>5, <2>5 DEF NextEntries
<1> QED BY <1>2, <1>4, <1>5 DEF NextEntries

-----------------------------------------------------------------------------
(* Types.                                                                  *)

\* A group that Redis does not have has no position.
GroupInv == ~group.exists => group = NoGroup

TypeInv == TypeOK /\ GroupInv

\* The sidecar starts with a cache and a group that have the types of TypeOK.
LEMMA TypeInit == Init => TypeInv
<1> SUFFICES ASSUME Init PROVE TypeInv
  OBVIOUS
<1>1. 0 \in 0..MaxAdded /\ 0 \in 0..MaxLosses /\ 0 \in 0..MaxFaults /\ 0 \in 0..0
  BY GroupAssumption
<1>2. group \in [exists : BOOLEAN, last : 0..added] /\ GroupInv
  BY <1>1 DEF Init, NoGroup, GroupInv
<1> QED BY <1>1, <1>2 DEF Init, TypeInv, TypeOK

\* A step of a reader to another program point keeps the type of rd.
LEMMA GoType ==
    ASSUME TypeOK, NEW r \in Reader,
           NEW pc \in {"idle", "ensure", "create", "remember", "read", "forget", "error"},
           Go(r, pc)
    PROVE  rd' \in [Reader -> [pc : {"idle", "ensure", "create", "remember", "read", "forget", "error"},
                               retry : BOOLEAN]]
BY DEF TypeOK, Go

\* What Deliver does to the group and its pending list.
LEMMA DeliverType ==
    ASSUME TypeInv, Deliver
    PROVE  /\ group' = [exists |-> TRUE, last |-> Youngest]
           /\ Youngest \in 0..added /\ group.last < Youngest
           /\ NextEntries \subseteq 1..Youngest /\ pel' \subseteq 1..Youngest
<1>1. NextEntries # {} /\ group.exists /\ group \in [exists : BOOLEAN, last : 0..added]
  BY DEF Deliver, TypeInv, TypeOK
<1>2. group' = [group EXCEPT !.last = Youngest] /\ pel' = pel \cup NextEntries
  BY DEF Deliver, Youngest
<1>3. /\ NextEntries \subseteq entries /\ Youngest \in NextEntries
      /\ \A e \in NextEntries : e <= Youngest /\ group.last < e
  BY <1>1, NextEntriesContiguous DEF TypeInv
<1>4. entries \subseteq 1..added /\ added \in Nat /\ pel \subseteq 1..group.last
  BY GroupAssumption DEF TypeInv, TypeOK
<1>5. Youngest \in 1..added /\ group.last < Youngest
  BY <1>3, <1>4
<1>6. NextEntries \subseteq 1..Youngest
  BY <1>3, <1>4, <1>5
<1>7. pel \subseteq 1..Youngest
  BY <1>1, <1>4, <1>5
<1>8. group' = [exists |-> TRUE, last |-> Youngest]
  BY <1>1, <1>2
<1>9. pel' \subseteq 1..Youngest
  BY <1>2, <1>6, <1>7
<1> QED BY <1>4, <1>5, <1>6, <1>8, <1>9

\* Every step of a reader, a producer, a client or Redis keeps the types.
LEMMA TypeStep == TypeInv /\ [Next]_vars => TypeInv'
<1> SUFFICES ASSUME TypeInv, [Next]_vars PROVE TypeInv'
  OBVIOUS
<1>0. TypeOK /\ GroupInv
  BY DEF TypeInv
<1> USE <1>0 DEF TypeInv, redisVars, boundVars
<1>1. ASSUME NEW r \in Reader, Begin(r) PROVE TypeInv'
  BY <1>1 DEF Begin, TypeOK, GroupInv
<1>2. ASSUME NEW r \in Reader, isConsumerGroupEnsured(r) PROVE TypeInv'
  BY <1>2, GoType DEF isConsumerGroupEnsured, TypeOK, GroupInv
<1>3. ASSUME group' \in {group, IF group.exists THEN group ELSE Created}
      PROVE  /\ group' \in [exists : BOOLEAN, last : 0..added]
             /\ pel \subseteq 1..group'.last /\ GroupInv'
  <2>1. added \in Nat /\ group \in [exists : BOOLEAN, last : 0..added]
    BY GroupAssumption DEF TypeOK
  <2>2. CASE group' = group
    BY <2>1, <2>2 DEF TypeOK, GroupInv
  <2>3. CASE group' # group
    <3>1. ~group.exists /\ group' = Created
      BY <1>3, <2>3
    <3>2. pel = {}
      BY <3>1 DEF TypeOK, GroupInv, NoGroup
    <3> QED BY <2>1, <3>1, <3>2 DEF Created, GroupInv
  <2> QED BY <2>2, <2>3
<1>4. ASSUME NEW r \in Reader, XGroupCreate(r) PROVE TypeInv'
  BY <1>3, <1>4, GoType DEF XGroupCreate, TypeOK
<1>5. ASSUME NEW r \in Reader, XGroupCreateFails(r) PROVE TypeInv'
  BY <1>3, <1>5, GoType DEF XGroupCreateFails, Fails, TypeOK
<1>6. ASSUME NEW r \in Reader, rememberConsumerGroup(r) PROVE TypeInv'
  BY <1>6, GoType DEF rememberConsumerGroup, Busy, TypeOK, GroupInv
<1>7. ASSUME Deliver, added' = added
      PROVE  /\ group' \in [exists : BOOLEAN, last : 0..added']
             /\ pel' \subseteq 1..group'.last /\ GroupInv'
             /\ NextEntries \subseteq 1..added
  <2>1. group'.last = Youngest /\ group'.exists
    BY <1>7, DeliverType
  <2>2. NextEntries \subseteq entries
    BY DEF NextEntries
  <2> QED BY <1>7, <2>1, <2>2, DeliverType DEF TypeOK, GroupInv
<1>8. ASSUME NEW r \in Reader, ReadEvents(r) PROVE TypeInv'
  BY <1>7, <1>8, GoType DEF ReadEvents, TypeOK
<1>9. ASSUME NEW r \in Reader, SendFails(r) PROVE TypeInv'
  BY <1>7, <1>9, GoType DEF SendFails, TypeOK
<1>10. ASSUME NEW r \in Reader, ReadNothing(r) PROVE TypeInv'
  BY <1>10, GoType DEF ReadNothing, TypeOK, GroupInv
<1>11. ASSUME NEW r \in Reader, ReadFails(r) PROVE TypeInv'
  <2>1. rd' \in [Reader -> [pc : {"idle", "ensure", "create", "remember", "read", "forget", "error"},
                            retry : BOOLEAN]]
    BY <1>11, GoType DEF ReadFails, Fails
  <2>2. CASE UNCHANGED <<group, pel, faults>>
    BY <1>11, <2>1, <2>2 DEF ReadFails, TypeOK, GroupInv
  <2>3. CASE Deliver /\ faults < MaxFaults /\ faults' = faults + 1
    BY <1>7, <1>11, <2>1, <2>3, GroupAssumption DEF ReadFails, TypeOK
  <2> QED BY <1>11, <2>2, <2>3 DEF ReadFails
<1>12. ASSUME NEW r \in Reader, ReadNoGroup(r) PROVE TypeInv'
  BY <1>12, GoType DEF ReadNoGroup, Fails, TypeOK, GroupInv
<1>13. ASSUME NEW r \in Reader, forgetEnsuredConsumerGroup(r) PROVE TypeInv'
  BY <1>13 DEF forgetEnsuredConsumerGroup, Forgotten, TypeOK, GroupInv
<1>14. CASE Add
  BY <1>14, GroupAssumption DEF Add, TypeOK, GroupInv, NoGroup
<1>15. ASSUME NEW e \in pel, Ack(e) PROVE TypeInv'
  BY <1>15 DEF Ack, TypeOK, GroupInv
<1>16. CASE Lose
  BY <1>16, GroupAssumption DEF Lose, Busy, NoGroup, TypeOK, GroupInv
<1>17. CASE Listen
  BY <1>17 DEF Listen, TypeOK, GroupInv
<1>18. CASE UNCHANGED vars
  BY <1>18 DEF vars, TypeOK, GroupInv
<1> QED
  BY <1>1, <1>2, <1>4, <1>5, <1>6, <1>8, <1>9, <1>10, <1>11, <1>12, <1>13, <1>14, <1>15,
     <1>16, <1>17, <1>18 DEF Next, Calls

\* TypeInv holds throughout.
LEMMA TypeInvariant == Spec => []TypeInv
BY TypeInit, TypeStep, PTL DEF Spec

(* The variables keep their types: the group never points behind the       *)
(* youngest entry, and nothing is pending that it has not passed.          *)
THEOREM TypeCorrect == Spec => []TypeOK
<1>1. TypeInv => TypeOK
  BY DEF TypeInv
<1> QED BY <1>1, TypeInvariant, PTL

-----------------------------------------------------------------------------
(* The position of the group.                                              *)

\* A delivery skips nothing: what the group passes becomes pending.
LEMMA DeliverSkipsNothing ==
    ASSUME TypeInv, NoSkip, Deliver, entries' = entries, got \subseteq got'
    PROVE  NoSkip'
<1> SUFFICES ASSUME NEW e \in entries, e <= Youngest PROVE e \in got' \cup pel'
  BY DeliverType DEF NoSkip
<1>1. NextEntries # {} /\ group.exists /\ pel' = pel \cup NextEntries
  BY DEF Deliver
<1>2. e \in Nat /\ group.last \in Nat
  BY GroupAssumption DEF TypeInv, TypeOK
<1>3. CASE e <= group.last
  BY <1>1, <1>3 DEF NoSkip
<1>4. CASE ~(e <= group.last)
  BY <1>1, <1>2, <1>4, NextEntriesContiguous DEF TypeInv
<1> QED BY <1>3, <1>4

(* Whatever the group has passed was handed to a client or is pending:     *)
(* through losses of the group or the stream, two readers that make the    *)
(* group again at the same time, failed reads and events nobody takes.     *)
THEOREM NoSkipHolds == Spec => []NoSkip
<1>1. Init => NoSkip
  BY DEF Init, NoSkip
<1>2. TypeInv /\ NoSkip /\ [Next]_vars => NoSkip'
  <2> SUFFICES ASSUME TypeInv, NoSkip, [Next]_vars PROVE NoSkip'
    OBVIOUS
  <2>0. entries \subseteq 1..added /\ added \in Nat /\ group.last \in 0..added
    BY GroupAssumption DEF TypeInv, TypeOK
  <2> USE DEF redisVars, boundVars
  <2>1. ASSUME NEW r \in Reader, ReadEvents(r) \/ SendFails(r) PROVE NoSkip'
    BY <2>1, DeliverSkipsNothing DEF ReadEvents, SendFails
  <2>2. ASSUME NEW r \in Reader, ReadFails(r) PROVE NoSkip'
    BY <2>2, DeliverSkipsNothing DEF ReadFails, NoSkip
  <2>3. ASSUME NEW r \in Reader, XGroupCreate(r) \/ XGroupCreateFails(r) PROVE NoSkip'
    <3>1. group' = group \/ group'.last = 0
      BY <2>3 DEF XGroupCreate, XGroupCreateFails, Created
    <3>2. entries' = entries /\ pel' = pel /\ got' = got
      BY <2>3 DEF XGroupCreate, XGroupCreateFails
    <3>3. CASE group' = group
      BY <3>2, <3>3 DEF NoSkip
    <3>4. CASE group'.last = 0
      <4>1. \A e \in entries : ~(e <= 0)
        BY <2>0
      <4> QED BY <3>2, <3>4, <4>1 DEF NoSkip
    <3> QED BY <3>1, <3>3, <3>4
  <2>4. CASE Add
    BY <2>0, <2>4 DEF Add, NoSkip
  <2>5. ASSUME NEW e \in pel, Ack(e) PROVE NoSkip'
    BY <2>5 DEF Ack, NoSkip
  <2>6. CASE Lose
    BY <2>6 DEF Lose, NoGroup, NoSkip
  <2>7. CASE UNCHANGED <<entries, group, pel, got>>
    BY <2>7 DEF NoSkip
  <2> QED
    BY <2>1, <2>2, <2>3, <2>4, <2>5, <2>6, <2>7
       DEF Next, Calls, Begin, isConsumerGroupEnsured, rememberConsumerGroup, ReadNothing,
           ReadNoGroup, forgetEnsuredConsumerGroup, Listen, vars
<1> QED BY <1>1, <1>2, TypeInvariant, PTL DEF Spec

-----------------------------------------------------------------------------
(* The retry of consumeGroupOnce.                                          *)

\* A second try that nothing crossed finds the cache empty, makes the group,
\* and still has it when it reads.
SecondTry ==
    \A r \in Reader : rd[r].retry /\ r \notin noise =>
        /\ At(r, "ensure") => ~ensured
        /\ At(r, "remember") \/ At(r, "read") => group.exists

RetryInv == RetryHeals /\ SecondTry

(* A read fails for its client only if its call met a failure of Redis, a  *)
(* loss of the group, or another reader that brought the cache entry back. *)
THEOREM RetryHealsHolds == Spec => []RetryHeals
<1>1. Init => RetryInv
  BY DEF Init, RetryInv, RetryHeals, SecondTry, At
<1>2. TypeInv /\ RetryInv /\ [Next]_vars => RetryInv'
  <2> SUFFICES ASSUME TypeInv, RetryInv, [Next]_vars PROVE RetryInv'
    OBVIOUS
  <2>0. rd \in [Reader -> [pc : {"idle", "ensure", "create", "remember", "read", "forget", "error"},
                           retry : BOOLEAN]]
    BY DEF TypeInv, TypeOK
  <2> USE <2>0 DEF redisVars, boundVars, RetryInv, RetryHeals, SecondTry, At, Go
  <2>1. ASSUME NEW r \in Reader, Begin(r) PROVE RetryInv'
    BY <2>1 DEF Begin
  <2>2. ASSUME NEW r \in Reader, isConsumerGroupEnsured(r) PROVE RetryInv'
    BY <2>2 DEF isConsumerGroupEnsured
  <2>3. ASSUME NEW r \in Reader, XGroupCreate(r) PROVE RetryInv'
    <3>1. group'.exists
      BY <2>3 DEF XGroupCreate, Created
    <3> QED BY <2>3, <3>1 DEF XGroupCreate
  <2>4. ASSUME NEW r \in Reader, XGroupCreateFails(r) PROVE RetryInv'
    <3>1. group.exists => group'.exists
      BY <2>4 DEF XGroupCreateFails
    <3> QED BY <2>4, <3>1 DEF XGroupCreateFails, Fails
  <2>5. ASSUME NEW r \in Reader, rememberConsumerGroup(r) PROVE RetryInv'
    BY <2>5 DEF rememberConsumerGroup, Busy
  <2>6. ASSUME Deliver PROVE group'.exists
    BY <2>6, DeliverType
  <2>7. ASSUME NEW r \in Reader, ReadEvents(r) \/ SendFails(r) PROVE RetryInv'
    BY <2>6, <2>7 DEF ReadEvents, SendFails
  <2>8. ASSUME NEW r \in Reader, ReadNothing(r) PROVE RetryInv'
    BY <2>8 DEF ReadNothing
  <2>9. ASSUME NEW r \in Reader, ReadFails(r) PROVE RetryInv'
    <3>1. group.exists => group'.exists
      BY <2>6, <2>9 DEF ReadFails
    <3> QED BY <2>9, <3>1 DEF ReadFails, Fails
  <2>10. ASSUME NEW r \in Reader, ReadNoGroup(r) PROVE RetryInv'
    BY <2>10 DEF ReadNoGroup, Fails
  <2>11. ASSUME NEW r \in Reader, forgetEnsuredConsumerGroup(r) PROVE RetryInv'
    BY <2>11 DEF forgetEnsuredConsumerGroup, Forgotten
  <2>12. CASE Lose
    BY <2>12 DEF Lose, Busy
  <2>13. CASE UNCHANGED <<group, ensured, rd, noise>>
    BY <2>13
  <2> QED
    BY <2>1, <2>2, <2>3, <2>4, <2>5, <2>7, <2>8, <2>9, <2>10, <2>11, <2>12, <2>13
       DEF Next, Calls, Add, Ack, Listen, vars
<1>3. RetryInv => RetryHeals
  BY DEF RetryInv
<1> QED BY <1>1, <1>2, <1>3, TypeInvariant, PTL DEF Spec
=============================================================================
