------------------------- MODULE Dispatcher_proofs -------------------------
(***************************************************************************)
(* Proofs about the consume dispatchers, for any number of subscribers,    *)
(* dispatchers and events, any buffer and any drop limit.                  *)
(***************************************************************************)
EXTENDS Dispatcher, TLAPS

-----------------------------------------------------------------------------
(* Types.                                                                  *)

\* Taking the first element off a sequence, and putting one behind it.
LEMMA HeadTailType ==
    ASSUME NEW S, NEW q \in Seq(S), q # <<>>
    PROVE  Head(q) \in S /\ Tail(q) \in Seq(S)
OBVIOUS

LEMMA AppendType ==
    ASSUME NEW S, NEW q \in Seq(S), NEW e \in S
    PROVE  Append(q, e) \in Seq(S) /\ Len(Append(q, e)) = Len(q) + 1
OBVIOUS

\* With no dispatcher yet, the state has the types of TypeOK.
LEMMA TypeInit == Init => TypeOK
<1> SUFFICES ASSUME Init PROVE TypeOK
  OBVIOUS
<1>1. <<>> \in Seq(1..MaxEvents) /\ Len(<<>>) = 0
  OBVIOUS
<1>2. [s \in Sub |-> 0] \in [Sub -> Nat]
  OBVIOUS
<1>3. rpc \in [Sub -> Rpc]
  BY DEF Init, Rpc
<1>4. rd \in [Disp -> Reader]
  BY <1>1, <1>2 DEF Init, Reader, NoEvictions
<1>5. closing \in [pc : {"no", "stop", "end"}, d : {None} \cup Disp]
  BY DEF Init
<1>6. chan \in [Sub -> Seq(1..MaxEvents)] /\ \A s \in Sub : Len(chan[s]) <= Buffer
  <2>1. 0 <= Buffer
    BY DispatcherAssumption
  <2> QED BY <1>1, <2>1 DEF Init
<1>7. 0 \in 0..MaxDisp /\ 0 \in 0..MaxEvents /\ 0 \in 0..0
  BY DispatcherAssumption
<1> QED BY <1>2, <1>3, <1>4, <1>5, <1>6, <1>7 DEF Init, TypeOK

\* An RPC that goes on keeps its type and the dispatcher it has.
LEMMA GoType ==
    ASSUME rpc \in [Sub -> Rpc], NEW s \in Sub,
           NEW pc \in {"new", "got", "loop", "remove", "unlink", "stop", "end"}, Go(s, pc)
    PROVE  /\ rpc' \in [Sub -> Rpc]
           /\ rpc'[s].pc = pc /\ rpc'[s].d = rpc[s].d
           /\ \A t \in Sub \ {s} : rpc'[t] = rpc[t]
<1>1. [rpc[s] EXCEPT !.pc = pc] \in Rpc
  BY DEF Rpc
<1> QED BY <1>1 DEF Go, Rpc

\* A read loop that goes on keeps its type.
LEMMA ReadType ==
    ASSUME rd \in [Disp -> Reader], NEW d \in Disp,
           NEW pc \in {"off", "top", "read", "fanlock", "fan", "exit"}, Read(d, pc)
    PROVE  rd' \in [Disp -> Reader]
<1>1. [rd[d] EXCEPT !.pc = pc] \in Reader
  BY DEF Reader
<1> QED BY <1>1 DEF Read

\* Closing channels keeps the types of the subscribers' state.
LEMMA CloseType ==
    ASSUME TypeOK, NEW d \in Disp, NEW S \in SUBSET Sub, CloseChannels(d, S)
    PROVE  /\ reg' \in [Disp -> SUBSET Sub] /\ open' \subseteq Sub
           /\ drops' \in [Sub -> Nat] /\ panic' \in BOOLEAN
BY DEF CloseChannels, TypeOK

\* Every step of an RPC, of the manager or of a read loop keeps the types.
LEMMA TypeStep == TypeOK /\ [Next]_vars => TypeOK'
<1> SUFFICES ASSUME TypeOK, [Next]_vars PROVE TypeOK'
  OBVIOUS
<1> USE DispatcherAssumption DEF mgrVars, subVars
<1>1. CASE \E s \in Sub : getOrCreate(s)
  <2> PICK s \in Sub : getOrCreate(s)
    BY <1>1
  <2>1. CASE closing.pc # "no"
    BY <2>1, GoType DEF TypeOK, getOrCreate
  <2>2. CASE closing.pc = "no" /\ cur # None
    <3>1. [pc |-> "got", d |-> cur] \in Rpc
      BY DEF Rpc, TypeOK
    <3> QED BY <2>2, <3>1 DEF TypeOK, getOrCreate
  <2>3. CASE closing.pc = "no" /\ cur = None
    <3>1. made + 1 \in Disp /\ made + 1 \in 0..MaxDisp
      BY <2>3 DEF getOrCreate, TypeOK, Disp
    <3>2. [pc |-> "got", d |-> made + 1] \in Rpc
      BY <3>1 DEF Rpc
    <3>3. rd' \in [Disp -> Reader]
      BY <2>3, <3>1, ReadType DEF TypeOK, getOrCreate
    <3> QED BY <2>3, <3>1, <3>2, <3>3 DEF TypeOK, getOrCreate
  <2> QED BY <2>1, <2>2, <2>3
<1>2. CASE \E s \in Sub : subscribe(s)
  <2> PICK s \in Sub : subscribe(s)
    BY <1>2
  <2>1. rpc' \in [Sub -> Rpc]
    BY GoType DEF TypeOK, subscribe
  <2> QED BY <2>1 DEF TypeOK, subscribe
<1>3. CASE \E s \in Sub : Receive(s)
  <2> PICK s \in Sub : Receive(s)
    BY <1>3
  <2>1. /\ Tail(chan[s]) \in Seq(1..MaxEvents)
        /\ Len(Tail(chan[s])) <= Buffer
    BY DEF Receive, TypeOK
  <2> QED BY <2>1 DEF TypeOK, Receive
<1>4. CASE \E s \in Sub : Leave(s)
  BY <1>4, GoType DEF TypeOK, Leave
<1>5. CASE \E s \in Sub : StreamClosed(s)
  BY <1>5, GoType DEF TypeOK, StreamClosed
<1>6. CASE \E s \in Sub : removeSubscriber(s)
  <2> PICK s \in Sub : removeSubscriber(s)
    BY <1>6
  <2>1. rpc' \in [Sub -> Rpc]
    BY GoType DEF TypeOK, removeSubscriber
  <2>2. CASE rpc[s].d \in Disp
    <3>1. reg[rpc[s].d] \cap {s} \in SUBSET Sub
      OBVIOUS
    <3> QED BY <2>1, <2>2, <3>1, CloseType DEF TypeOK, removeSubscriber
  <2>3. CASE rpc[s].d \notin Disp
    <3>1. reg' = reg
      BY <2>3 DEF TypeOK, removeSubscriber, CloseChannels
    <3> QED BY <2>1, <3>1 DEF TypeOK, removeSubscriber, CloseChannels
  <2> QED BY <2>2, <2>3
<1>7. CASE \E s \in Sub : removeIfSame(s)
  BY <1>7, GoType DEF TypeOK, removeIfSame
<1>8. CASE \E s \in Sub : StopReturns(s)
  BY <1>8, GoType DEF TypeOK, StopReturns
<1>9. CASE \E d \in Disp : StopCancels(d)
  BY <1>9 DEF TypeOK, StopCancels
<1>10. CASE \E d \in Disp : StopCloses(d)
  <2> PICK d \in Disp : StopCloses(d)
    BY <1>10
  <2>1. reg[d] \in SUBSET Sub
    BY DEF TypeOK
  <2> QED BY <2>1, CloseType DEF TypeOK, StopCloses
<1>11. CASE \E d \in Disp : ReadBegins(d)
  BY <1>11, ReadType DEF TypeOK, ReadBegins
<1>12. CASE \E d \in Disp : ReadExits(d)
  BY <1>12, ReadType DEF TypeOK, ReadExits
<1>13. CASE \E d \in Disp : ReadNothing(d)
  BY <1>13, ReadType DEF TypeOK, ReadNothing
<1>14. CASE \E d \in Disp : ReadEvents(d)
  <2> PICK d \in Disp : ReadEvents(d)
    BY <1>14
  <2> DEFINE n == IF added - read < ReadCount THEN added - read ELSE ReadCount
  <2>1. n \in Nat /\ read + n \in 0..added
    BY DEF TypeOK
  <2>2. [i \in 1..n |-> read + i] \in Seq(1..MaxEvents)
    <3>1. read \in Nat /\ added \in Nat /\ added <= MaxEvents /\ MaxEvents \in Nat
      BY DispatcherAssumption DEF TypeOK
    <3> HIDE DEF n
    <3>2. \A i \in 1..n : read + i \in 1..MaxEvents
      BY <2>1, <3>1
    <3> QED BY <2>1, <3>2
  <2>3. [pc |-> "fanlock", evict |-> NoEvictions, events |-> [i \in 1..n |-> read + i]] \in Reader
    <3>1. NoEvictions \in [Sub -> Nat]
      BY DEF NoEvictions
    <3> QED BY <2>2, <3>1 DEF Reader
  <2>4. rd' \in [Disp -> Reader] /\ read' \in 0..added
    BY <2>1, <2>3 DEF ReadEvents, TypeOK
  <2> QED BY <2>4 DEF TypeOK, ReadEvents
<1>15. CASE \E d \in Disp : FanOutBegins(d)
  BY <1>15, ReadType DEF TypeOK, FanOutBegins
<1>16. CASE \E d \in Disp : FanOutEvent(d)
  <2> PICK d \in Disp : FanOutEvent(d)
    BY <1>16
  <2> DEFINE full == FullChannels(d)
  <2>1. rd[d] \in Reader /\ rd[d].events # <<>>
    BY DEF TypeOK, FanOutEvent
  <2>2. /\ Head(rd[d].events) \in 1..MaxEvents
        /\ Tail(rd[d].events) \in Seq(1..MaxEvents)
    <3>1. rd[d].events \in Seq(1..MaxEvents)
      BY <2>1 DEF Reader
    <3> QED BY <2>1, <3>1, HeadTailType
  <2>3. chan' \in [Sub -> Seq(1..MaxEvents)] /\ \A s \in Sub : Len(chan'[s]) <= Buffer
    <3> DEFINE e == Head(rd[d].events)
    <3>1. chan' = [s \in Sub |-> IF s \in reg[d] \ full THEN Append(chan[s], e) ELSE chan[s]]
      BY DEF FanOutEvent
    <3>2. \A s \in Sub : s \in reg[d] \ full => Len(chan[s]) + 1 <= Buffer
      BY DEF TypeOK, FullChannels
    <3> HIDE DEF e, full
    <3>3. e \in 1..MaxEvents
      BY <2>2 DEF e
    <3>4. \A s \in Sub : chan'[s] \in Seq(1..MaxEvents) /\ Len(chan'[s]) <= Buffer
      <4> TAKE s \in Sub
      <4>1. CASE s \in reg[d] \ full
        <5>1. chan'[s] = Append(chan[s], e)
          BY <3>1, <4>1
        <5>2. chan[s] \in Seq(1..MaxEvents)
          BY DEF TypeOK
        <5> QED BY <3>2, <3>3, <4>1, <5>1, <5>2, AppendType
      <4>2. CASE s \notin reg[d] \ full
        BY <3>1, <4>2 DEF TypeOK
      <4> QED BY <4>1, <4>2
    <3> QED BY <3>1, <3>4
  <2>4. drops' \in [Sub -> Nat]
    BY DEF TypeOK, FanOutEvent
  <2>5. rd' \in [Disp -> Reader]
    <3> DEFINE more(s) == IF s \in {t \in full : drops[t] + 1 >= MaxDrops} THEN 1 ELSE 0
               ev == [s \in Sub |-> rd[d].evict[s] + more(s)]
    <3>1. ev \in [Sub -> Nat]
      BY <2>1 DEF Reader
    <3>2. [[rd[d] EXCEPT !.events = Tail(@)] EXCEPT !.evict = ev] \in Reader
      BY <2>1, <2>2, <3>1 DEF Reader
    <3>3. rd' = [rd EXCEPT ![d] = [[rd[d] EXCEPT !.events = Tail(@)] EXCEPT !.evict = ev]]
      BY <2>1 DEF FanOutEvent, TypeOK, Reader
    <3> QED BY <3>2, <3>3 DEF TypeOK
  <2>6. panic' \in BOOLEAN
    BY DEF FanOutEvent
  <2> QED BY <2>3, <2>4, <2>5, <2>6 DEF TypeOK, FanOutEvent
<1>17. CASE \E d \in Disp : FanOutReturns(d)
  <2> PICK d \in Disp : FanOutReturns(d)
    BY <1>17
  <2>1. {s \in reg[d] : rd[d].evict[s] > 0} \in SUBSET Sub
    BY DEF TypeOK
  <2>2. rd' \in [Disp -> Reader]
    <3>1. rd[d] \in Reader /\ NoEvictions \in [Sub -> Nat]
      BY DEF TypeOK, NoEvictions
    <3>2. [[rd[d] EXCEPT !.pc = "top"] EXCEPT !.evict = NoEvictions] \in Reader
      BY <3>1 DEF Reader
    <3>3. rd' = [rd EXCEPT ![d] = [[rd[d] EXCEPT !.pc = "top"] EXCEPT !.evict = NoEvictions]]
      BY <3>1 DEF FanOutReturns, TypeOK, Reader
    <3> QED BY <3>2, <3>3 DEF TypeOK
  <2> QED BY <2>1, <2>2, CloseType DEF TypeOK, FanOutReturns
<1>18. CASE Close
  BY <1>18 DEF TypeOK, Close
<1>19. CASE CloseReturns
  BY <1>19 DEF TypeOK, CloseReturns
<1>20. CASE AddEvent
  BY <1>20 DEF TypeOK, AddEvent
<1>21. CASE UNCHANGED vars
  BY <1>21 DEF TypeOK, vars
<1> QED
  BY <1>1, <1>2, <1>3, <1>4, <1>5, <1>6, <1>7, <1>8, <1>9, <1>10, <1>11, <1>12, <1>13,
     <1>14, <1>15, <1>16, <1>17, <1>18, <1>19, <1>20, <1>21 DEF Next, Handler, ReadLoop

(* The dispatchers' variables keep their types; in particular no channel    *)
(* ever holds more events than its buffer.                                 *)
THEOREM TypeCorrect == Spec => []TypeOK
BY TypeInit, TypeStep, PTL DEF Spec

-----------------------------------------------------------------------------
(* The dispatcher in the map.                                              *)

\* A dispatcher is in the map, or was, once it was created, and only then can
\* an RPC have it.
MadeInv ==
    /\ cur \in 0..made
    /\ \A s \in Sub : rpc[s].d \in 0..made
    /\ \A s \in Sub : rpc[s].pc \notin {"new", "end"} => rpc[s].d # None
    /\ \A d \in Disp : d > made => stop[d] = "no" /\ reg[d] = {}

\* A closed manager has no dispatcher, and Close stops the one it found.
ClosedInv ==
    /\ closing.pc # "no" => cur = None
    /\ closing.pc = "stop" => closing.d \in 1..made

\* The dispatcher that is being stopped is no longer in the map.
UnlinkedInv == \A d \in Disp : Stopping(d) => cur # d

MapInv == TypeOK /\ MadeInv /\ ClosedInv /\ UnlinkedInv /\ CurrentRuns /\ NoLeak

\* The subscribers in a dispatcher's map are the ones its RPCs put there, and
\* their channels are open.
RegInv ==
    \A d \in Disp : \A s \in reg[d] :
        s \in open /\ rpc[s].d = d /\ rpc[s].pc \in {"loop", "remove"}

ChannelInv == TypeOK /\ RegInv /\ NoPanic

\* The part of the types that the map's invariant is about.
LEMMA MapTypes ==
    ASSUME TypeOK
    PROVE  /\ made \in Nat /\ made <= MaxDisp /\ None = 0
           /\ 1..made \subseteq Disp /\ 0..made \subseteq {None} \cup Disp
           /\ \A d \in Disp : d \in Nat /\ d > 0 /\ (d > made <=> d \notin 1..made)
           /\ stop \in [Disp -> {"no", "cancelled", "closed"}]
           /\ reg \in [Disp -> SUBSET Sub]
           /\ rpc \in [Sub -> Rpc]
           /\ closing \in [pc : {"no", "stop", "end"}, d : {None} \cup Disp]
BY DispatcherAssumption DEF TypeOK, Disp, None

\* A step that leaves the map, Close, the stops and the RPCs that stop alone
\* preserves the invariant.
LEMMA MapFrame ==
    ASSUME MapInv, TypeOK', UNCHANGED <<mgrVars, stop>>,
           \A d \in Disp : reg'[d] \subseteq reg[d],
           \A s \in Sub : rpc'[s].d = rpc[s].d,
           \A s \in Sub : rpc[s].pc \in {"new", "end"} => rpc'[s].pc \in {"new", "end"},
           \A s \in Sub : rpc'[s].pc = "stop" <=> rpc[s].pc = "stop"
    PROVE  MapInv'
<1>0. TypeOK /\ made \in Nat /\ 1..made \subseteq Disp
  BY MapTypes DEF MapInv
<1>1. \A d \in Disp : Stopping(d)' <=> Stopping(d)
  BY DEF Stopping, MapInv, TypeOK, Rpc, mgrVars
<1>2. MadeInv'
  BY <1>0, <1>1 DEF mgrVars, MapInv, MadeInv
<1>3. ClosedInv'
  BY <1>0, <1>1 DEF mgrVars, MapInv, MadeInv, ClosedInv
<1>4. UnlinkedInv'
  BY <1>0, <1>1 DEF mgrVars, MapInv, UnlinkedInv
<1>5. CurrentRuns'
  BY <1>0, <1>1 DEF mgrVars, MapInv, MadeInv, CurrentRuns
<1>6. NoLeak'
  BY <1>0, <1>1 DEF mgrVars, MapInv, MadeInv, NoLeak
<1> QED BY <1>2, <1>3, <1>4, <1>5, <1>6 DEF MapInv

\* MapInv is inductive.
THEOREM MapInductive == Spec => []MapInv
<1>1. Init => MapInv
  BY TypeInit, DispatcherAssumption DEF Init, MapInv, MadeInv, ClosedInv, UnlinkedInv, CurrentRuns,
     NoLeak, Stopping, None, Disp
<1>2. MapInv /\ [Next]_vars => MapInv'
  <2> SUFFICES ASSUME MapInv, [Next]_vars PROVE MapInv'
    OBVIOUS
  <2>0. TypeOK /\ TypeOK'
    BY TypeStep DEF MapInv
  <2> USE DEF mgrVars, subVars
  <2>1. CASE \E s \in Sub : getOrCreate(s)
    <3> PICK s \in Sub : getOrCreate(s)
      BY <2>1
    <3>1. CASE closing.pc # "no"
      BY <2>0, <3>1, GoType, MapFrame DEF getOrCreate, TypeOK
    <3>2. CASE closing.pc = "no" /\ cur # None
      <4>1. \A t \in Sub : rpc'[t] = IF t = s THEN [pc |-> "got", d |-> cur] ELSE rpc[t]
        BY <2>0, <3>2 DEF getOrCreate, TypeOK
      <4>2. \A d \in Disp : Stopping(d)' <=> Stopping(d)
        BY <3>2, <4>1 DEF getOrCreate, Stopping
      <4>3. MadeInv'
        BY <2>0, <3>2, <4>1, <4>2, MapTypes DEF getOrCreate, MapInv, MadeInv
      <4>4. ClosedInv'
        BY <2>0, <3>2, <4>1, <4>2, MapTypes DEF getOrCreate, MapInv, MadeInv, ClosedInv
      <4>5. UnlinkedInv'
        BY <2>0, <3>2, <4>1, <4>2, MapTypes DEF getOrCreate, MapInv, UnlinkedInv
      <4>6. CurrentRuns'
        BY <2>0, <3>2, <4>1, <4>2, MapTypes DEF getOrCreate, MapInv, MadeInv, CurrentRuns
      <4>7. NoLeak'
        BY <2>0, <3>2, <4>1, <4>2, MapTypes DEF getOrCreate, MapInv, MadeInv, NoLeak
      <4> QED BY <2>0, <4>3, <4>4, <4>5, <4>6, <4>7 DEF MapInv
    <3>3. CASE closing.pc = "no" /\ cur = None
      <4>1. \A t \in Sub : rpc'[t] = IF t = s THEN [pc |-> "got", d |-> made + 1] ELSE rpc[t]
        BY <2>0, <3>3 DEF getOrCreate, TypeOK
      <4>2. \A d \in Disp : Stopping(d)' <=> Stopping(d)
        BY <3>3, <4>1 DEF getOrCreate, Stopping
      <4>3. \A d \in Disp : Stopping(d) => d <= made
        BY <2>0 DEF Stopping, MapInv, MadeInv, ClosedInv, TypeOK, Disp
      <4>4. \A d \in Disp : d <= made => cur' # d
        BY <2>0, <3>3, MapTypes DEF getOrCreate
      <4>5. MadeInv'
        BY <2>0, <3>3, <4>1, <4>2, <4>3, MapTypes DEF getOrCreate, MapInv, MadeInv
      <4>6. ClosedInv'
        BY <2>0, <3>3, <4>1, <4>2, <4>3, MapTypes DEF getOrCreate, MapInv, MadeInv, ClosedInv
      <4>7. UnlinkedInv'
        BY <4>2, <4>3, <4>4 DEF UnlinkedInv
      <4>8. CurrentRuns'
        <5>1. cur' = made + 1 /\ made < MaxDisp /\ stop' = stop
          BY <3>3 DEF getOrCreate
        <5>2. made + 1 \in Disp /\ made + 1 > made
          BY <2>0, <5>1, DispatcherAssumption DEF TypeOK, Disp
        <5> QED BY <5>1, <5>2 DEF MapInv, MadeInv, CurrentRuns
      <4>9. NoLeak'
        BY <2>0, <3>3, <4>1, <4>2, <4>3, MapTypes DEF getOrCreate, MapInv, MadeInv, NoLeak
      <4> QED BY <2>0, <4>5, <4>6, <4>7, <4>8, <4>9 DEF MapInv
    <3> QED BY <3>1, <3>2, <3>3
  <2>2. CASE \E s \in Sub : subscribe(s)
    <3> PICK s \in Sub : subscribe(s)
      BY <2>2
    <3>1. /\ rpc'[s].pc = "loop" /\ rpc'[s].d = rpc[s].d
          /\ \A t \in Sub \ {s} : rpc'[t] = rpc[t]
      BY <2>0, GoType DEF subscribe, TypeOK
    <3>2. rpc[s].d \in 1..made
      BY <2>0, MapTypes DEF subscribe, MapInv, MadeInv
    <3>3. \A d \in Disp : Stopping(d)' <=> Stopping(d)
      BY <2>0, <3>1 DEF subscribe, Stopping, TypeOK, Rpc
    <3>4. MadeInv'
      BY <2>0, <3>1, <3>2, <3>3, MapTypes DEF subscribe, MapInv, MadeInv
    <3>5. ClosedInv'
      BY <2>0, <3>1, <3>2, <3>3, MapTypes DEF subscribe, MapInv, MadeInv, ClosedInv
    <3>6. UnlinkedInv'
      BY <2>0, <3>1, <3>2, <3>3, MapTypes DEF subscribe, MapInv, UnlinkedInv
    <3>7. CurrentRuns'
      BY <2>0, <3>1, <3>2, <3>3, MapTypes DEF subscribe, MapInv, MadeInv, CurrentRuns
    <3>8. NoLeak'
      BY <2>0, <3>1, <3>2, <3>3, MapTypes DEF subscribe, MapInv, MadeInv, NoLeak
    <3> QED BY <2>0, <3>4, <3>5, <3>6, <3>7, <3>8 DEF MapInv
  <2>3. CASE \E s \in Sub : Receive(s)
    BY <2>0, <2>3, MapFrame DEF Receive
  <2>4. CASE \E s \in Sub : Leave(s)
    <3> PICK s \in Sub : Leave(s)
      BY <2>4
    <3>1. /\ rpc'[s].pc = "remove" /\ rpc'[s].d = rpc[s].d
          /\ \A t \in Sub \ {s} : rpc'[t] = rpc[t]
      BY <2>0, GoType DEF Leave, TypeOK
    <3>2. rpc[s].pc = "loop" /\ reg' = reg /\ UNCHANGED <<mgrVars, stop>>
      BY DEF Leave, subVars
    <3> QED BY <2>0, <3>1, <3>2, MapFrame
  <2>5. CASE \E s \in Sub : StreamClosed(s)
    <3> PICK s \in Sub : StreamClosed(s)
      BY <2>5
    <3>1. /\ rpc'[s].pc = "remove" /\ rpc'[s].d = rpc[s].d
          /\ \A t \in Sub \ {s} : rpc'[t] = rpc[t]
      BY <2>0, GoType DEF StreamClosed, TypeOK
    <3>2. rpc[s].pc = "loop" /\ reg' = reg /\ UNCHANGED <<mgrVars, stop>>
      BY DEF StreamClosed, subVars
    <3> QED BY <2>0, <3>1, <3>2, MapFrame
  <2>6. CASE \E s \in Sub : removeSubscriber(s)
    <3> PICK s \in Sub : removeSubscriber(s)
      BY <2>6
    <3>1. /\ rpc'[s].pc \in {"unlink", "end"} /\ rpc'[s].d = rpc[s].d
          /\ \A t \in Sub \ {s} : rpc'[t] = rpc[t]
      BY <2>0, GoType DEF removeSubscriber, TypeOK
    <3>2. \A d \in Disp : reg'[d] \subseteq reg[d]
      BY <2>0 DEF removeSubscriber, CloseChannels, TypeOK
    <3>3. \A d \in Disp : Stopping(d)' <=> Stopping(d)
      BY <2>0, <3>1 DEF removeSubscriber, Stopping, TypeOK, Rpc
    <3>4. MadeInv'
      BY <2>0, <3>1, <3>2, <3>3, MapTypes DEF removeSubscriber, MapInv, MadeInv
    <3>5. ClosedInv'
      BY <2>0, <3>1, <3>2, <3>3, MapTypes DEF removeSubscriber, MapInv, MadeInv, ClosedInv
    <3>6. UnlinkedInv'
      BY <2>0, <3>1, <3>2, <3>3, MapTypes DEF removeSubscriber, MapInv, UnlinkedInv
    <3>7. CurrentRuns'
      BY <2>0, <3>1, <3>2, <3>3, MapTypes DEF removeSubscriber, MapInv, MadeInv, CurrentRuns
    <3>8. NoLeak'
      BY <2>0, <3>1, <3>2, <3>3, MapTypes DEF removeSubscriber, MapInv, MadeInv, NoLeak
    <3> QED BY <2>0, <3>4, <3>5, <3>6, <3>7, <3>8 DEF MapInv
  <2>7. CASE \E s \in Sub : removeIfSame(s)
    <3> PICK s \in Sub : removeIfSame(s)
      BY <2>7
    <3>1. /\ rpc'[s].pc = "stop" /\ rpc'[s].d = rpc[s].d
          /\ \A t \in Sub \ {s} : rpc'[t] = rpc[t]
      BY <2>0, GoType DEF removeIfSame, TypeOK
    <3>2. \A d \in Disp : Stopping(d)' <=> Stopping(d) \/ d = rpc[s].d
      BY <2>0, <3>1 DEF removeIfSame, Stopping, TypeOK, Rpc
    <3>3. MadeInv'
      BY <2>0, <3>1, <3>2, MapTypes DEF removeIfSame, MapInv, MadeInv
    <3>4. ClosedInv'
      BY <2>0, <3>1, <3>2, MapTypes DEF removeIfSame, MapInv, MadeInv, ClosedInv
    <3>5. UnlinkedInv'
      BY <2>0, <3>1, <3>2, MapTypes DEF removeIfSame, MapInv, UnlinkedInv
    <3>6. CurrentRuns'
      BY <2>0, <3>1, <3>2, MapTypes DEF removeIfSame, MapInv, MadeInv, CurrentRuns
    <3>7. NoLeak'
      BY <2>0, <3>1, <3>2, MapTypes DEF removeIfSame, MapInv, MadeInv, NoLeak
    <3> QED BY <2>0, <3>3, <3>4, <3>5, <3>6, <3>7 DEF MapInv
  <2>8. CASE \E s \in Sub : StopReturns(s)
    <3> PICK s \in Sub : StopReturns(s)
      BY <2>8
    <3>1. /\ rpc'[s].pc = "end" /\ rpc'[s].d = rpc[s].d
          /\ \A t \in Sub \ {s} : rpc'[t] = rpc[t]
      BY <2>0, GoType DEF StopReturns, TypeOK
    <3>2. \A d \in Disp : /\ Stopping(d)' => Stopping(d)
                          /\ Stopping(d) => Stopping(d)' \/ stop[d] = "closed"
      BY <2>0, <3>1 DEF StopReturns, Stopping, TypeOK, Rpc
    <3>3. MadeInv'
      BY <2>0, <3>1, <3>2, MapTypes DEF StopReturns, MapInv, MadeInv
    <3>4. ClosedInv'
      BY <2>0, <3>1, <3>2, MapTypes DEF StopReturns, MapInv, MadeInv, ClosedInv
    <3>5. UnlinkedInv'
      BY <2>0, <3>1, <3>2, MapTypes DEF StopReturns, MapInv, UnlinkedInv
    <3>6. CurrentRuns'
      BY <2>0, <3>1, <3>2, MapTypes DEF StopReturns, MapInv, MadeInv, CurrentRuns
    <3>7. NoLeak'
      BY <2>0, <3>1, <3>2, MapTypes DEF StopReturns, MapInv, MadeInv, NoLeak
    <3> QED BY <2>0, <3>3, <3>4, <3>5, <3>6, <3>7 DEF MapInv
  <2>9. CASE \E d \in Disp : StopCancels(d)
    BY <2>0, <2>9 DEF StopCancels, MapInv, MadeInv, ClosedInv, UnlinkedInv, CurrentRuns, NoLeak,
       Stopping, TypeOK, Disp, None
  <2>10. CASE \E d \in Disp : StopCloses(d)
    <3> PICK d \in Disp : StopCloses(d)
      BY <2>10
    <3>1. \A e \in Disp : /\ reg'[e] \subseteq reg[e]
                          /\ stop'[e] = IF e = d THEN "closed" ELSE stop[e]
      BY <2>0 DEF StopCloses, CloseChannels, TypeOK
    <3>2. d <= made /\ d # cur
      BY <2>0 DEF StopCloses, MapInv, MadeInv, CurrentRuns, None, TypeOK, Disp
    <3>3. \A e \in Disp : Stopping(e)' <=> Stopping(e)
      BY DEF StopCloses, Stopping
    <3>4. MadeInv'
      BY <2>0, <3>1, <3>2, <3>3, MapTypes DEF StopCloses, MapInv, MadeInv
    <3>5. ClosedInv'
      BY <2>0, <3>1, <3>2, <3>3, MapTypes DEF StopCloses, MapInv, MadeInv, ClosedInv
    <3>6. UnlinkedInv'
      BY <2>0, <3>1, <3>2, <3>3, MapTypes DEF StopCloses, MapInv, UnlinkedInv
    <3>7. CurrentRuns'
      BY <2>0, <3>1, <3>2, <3>3, MapTypes DEF StopCloses, MapInv, MadeInv, CurrentRuns
    <3>8. NoLeak'
      BY <2>0, <3>1, <3>2, <3>3, MapTypes DEF StopCloses, MapInv, MadeInv, NoLeak
    <3> QED BY <2>0, <3>4, <3>5, <3>6, <3>7, <3>8 DEF MapInv
  <2>11. CASE \E d \in Disp : ReadBegins(d)
    BY <2>0, <2>11, MapFrame DEF ReadBegins
  <2>12. CASE \E d \in Disp : ReadExits(d)
    BY <2>0, <2>12, MapFrame DEF ReadExits
  <2>13. CASE \E d \in Disp : ReadNothing(d)
    BY <2>0, <2>13, MapFrame DEF ReadNothing
  <2>14. CASE \E d \in Disp : ReadEvents(d)
    BY <2>0, <2>14, MapFrame DEF ReadEvents
  <2>15. CASE \E d \in Disp : FanOutBegins(d)
    BY <2>0, <2>15, MapFrame DEF FanOutBegins
  <2>16. CASE \E d \in Disp : FanOutEvent(d)
    BY <2>0, <2>16, MapFrame DEF FanOutEvent
  <2>17. CASE \E d \in Disp : FanOutReturns(d)
    <3>1. \A d \in Disp : reg'[d] \subseteq reg[d]
      BY <2>0, <2>17 DEF FanOutReturns, CloseChannels, TypeOK
    <3> QED BY <2>0, <2>17, <3>1, MapFrame DEF FanOutReturns
  <2>18. CASE Close
    <3>1. /\ closing'.pc = IF cur = None THEN "end" ELSE "stop"
          /\ closing'.d = cur /\ cur' = None
      BY <2>18 DEF Close
    <3>2. \A d \in Disp : Stopping(d)' <=> Stopping(d) \/ d = cur
      BY <2>0, <2>18 DEF Close, Stopping, None, Disp
    <3>3. MadeInv'
      BY <2>0, <2>18, <3>1, <3>2, MapTypes DEF Close, MapInv, MadeInv
    <3>4. ClosedInv'
      BY <2>0, <2>18, <3>1, <3>2, MapTypes DEF Close, MapInv, MadeInv, ClosedInv
    <3>5. UnlinkedInv'
      BY <2>0, <2>18, <3>1, <3>2, MapTypes DEF Close, MapInv, UnlinkedInv
    <3>6. CurrentRuns'
      BY <2>0, <2>18, <3>1, <3>2, MapTypes DEF Close, MapInv, MadeInv, CurrentRuns
    <3>7. NoLeak'
      BY <2>0, <2>18, <3>1, <3>2, MapTypes DEF Close, MapInv, MadeInv, NoLeak
    <3> QED BY <2>0, <3>3, <3>4, <3>5, <3>6, <3>7 DEF MapInv
  <2>19. CASE CloseReturns
    <3>1. closing'.pc = "end" /\ closing'.d = closing.d
      BY <2>0, <2>19 DEF CloseReturns, TypeOK
    <3>2. \A d \in Disp : /\ Stopping(d)' => Stopping(d)
                          /\ Stopping(d) => Stopping(d)' \/ stop[d] = "closed"
      BY <2>0, <2>19, <3>1 DEF CloseReturns, Stopping, TypeOK
    <3>3. MadeInv'
      BY <2>0, <2>19, <3>1, <3>2, MapTypes DEF CloseReturns, MapInv, MadeInv
    <3>4. ClosedInv'
      BY <2>0, <2>19, <3>1, <3>2, MapTypes DEF CloseReturns, MapInv, MadeInv, ClosedInv
    <3>5. UnlinkedInv'
      BY <2>0, <2>19, <3>1, <3>2, MapTypes DEF CloseReturns, MapInv, UnlinkedInv
    <3>6. CurrentRuns'
      BY <2>0, <2>19, <3>1, <3>2, MapTypes DEF CloseReturns, MapInv, MadeInv, CurrentRuns
    <3>7. NoLeak'
      BY <2>0, <2>19, <3>1, <3>2, MapTypes DEF CloseReturns, MapInv, MadeInv, NoLeak
    <3> QED BY <2>0, <3>3, <3>4, <3>5, <3>6, <3>7 DEF MapInv
  <2>20. CASE AddEvent
    BY <2>0, <2>20, MapFrame DEF AddEvent
  <2>21. CASE UNCHANGED vars
    BY <2>0, <2>21, MapFrame DEF vars
  <2> QED
    BY <2>1, <2>2, <2>3, <2>4, <2>5, <2>6, <2>7, <2>8, <2>9, <2>10, <2>11, <2>12, <2>13,
       <2>14, <2>15, <2>16, <2>17, <2>18, <2>19, <2>20, <2>21 DEF Next, Handler, ReadLoop
<1> QED BY <1>1, <1>2, PTL DEF Spec

(* A Subscribe that finds a dispatcher in the map finds one that runs: stop *)
(* is only called on a dispatcher that has left the map.                   *)
THEOREM CurrentRunsHolds == Spec => []CurrentRuns
<1>1. MapInv => CurrentRuns
  BY DEF MapInv
<1> QED BY <1>1, MapInductive, PTL

(* A dispatcher that has left the map is being stopped or was stopped, for  *)
(* every order of leaving clients, new clients and Close.                  *)
THEOREM NoLeakHolds == Spec => []NoLeak
<1>1. MapInv => NoLeak
  BY DEF MapInv
<1> QED BY <1>1, MapInductive, PTL

-----------------------------------------------------------------------------
(* The subscribers' channels.                                              *)

\* Closing channels of registered subscribers panics neither now nor later.
LEMMA CloseRegistered ==
    ASSUME ChannelInv, NEW d \in Disp, NEW S \in SUBSET reg[d], CloseChannels(d, S),
           \A s \in Sub : rpc'[s].d = rpc[s].d,
           \A e \in Disp : \A s \in reg'[e] : rpc'[s].pc = rpc[s].pc
    PROVE  RegInv' /\ NoPanic'
<1>1. reg \in [Disp -> SUBSET Sub] /\ S \subseteq Sub /\ S \subseteq open /\ ~panic
  BY DEF ChannelInv, TypeOK, RegInv, NoPanic
<1>2. \A e \in Disp : reg'[e] = IF e = d THEN reg[e] \ S ELSE reg[e]
  BY <1>1 DEF CloseChannels
<1>3. \A e \in Disp : \A s \in reg'[e] : s \notin S
  <2> TAKE e \in Disp
  <2> TAKE s \in reg'[e]
  <2>1. CASE e = d
    BY <1>2, <2>1
  <2>2. CASE e # d
    <3>1. s \in reg[e] /\ rpc[s].d = e
      BY <1>2, <2>2 DEF ChannelInv, RegInv
    <3>2. s \in S => rpc[s].d = d
      BY DEF ChannelInv, RegInv
    <3> QED BY <2>2, <3>1, <3>2
  <2> QED BY <2>1, <2>2
<1>4. RegInv'
  BY <1>1, <1>2, <1>3 DEF ChannelInv, RegInv, CloseChannels
<1>5. NoPanic'
  BY <1>1 DEF CloseChannels, NoPanic
<1> QED BY <1>4, <1>5

\* A step that leaves the subscriber maps, the channels' state and the RPCs of
\* the registered subscribers alone preserves the invariant.
LEMMA ChannelFrame ==
    ASSUME ChannelInv, TypeOK', UNCHANGED <<reg, open, panic>>,
           \A s \in Sub : \/ rpc'[s] = rpc[s]
                          \/ rpc[s].pc \notin {"loop", "remove"}
                          \/ rpc'[s].d = rpc[s].d /\ rpc'[s].pc \in {"loop", "remove"}
    PROVE  ChannelInv'
<1>1. \A d \in Disp : reg[d] \subseteq Sub
  BY DEF ChannelInv, TypeOK
<1> QED BY <1>1 DEF ChannelInv, RegInv, NoPanic

\* ChannelInv is inductive.
THEOREM ChannelInductive == Spec => []ChannelInv
<1>1. Init => ChannelInv
  BY TypeInit DEF Init, ChannelInv, RegInv, NoPanic
<1>2. ChannelInv /\ MapInv /\ [Next]_vars => ChannelInv'
  <2> SUFFICES ASSUME ChannelInv, MapInv, [Next]_vars PROVE ChannelInv'
    OBVIOUS
  <2>0. TypeOK /\ TypeOK' /\ rpc \in [Sub -> Rpc] /\ reg \in [Disp -> SUBSET Sub]
    BY TypeStep DEF MapInv, TypeOK
  <2> USE DEF mgrVars, subVars
  <2>1. CASE \E s \in Sub : getOrCreate(s)
    <3> PICK s \in Sub : getOrCreate(s)
      BY <2>1
    <3>1. rpc[s].pc = "new" /\ \A t \in Sub \ {s} : rpc'[t] = rpc[t]
      BY <2>0, GoType DEF getOrCreate
    <3> QED BY <2>0, <3>1, ChannelFrame DEF getOrCreate
  <2>2. CASE \E s \in Sub : subscribe(s)
    <3> PICK s \in Sub : subscribe(s)
      BY <2>2
    <3>1. /\ rpc'[s].pc = "loop" /\ rpc'[s].d = rpc[s].d
          /\ \A t \in Sub \ {s} : rpc'[t] = rpc[t]
      BY <2>0, GoType DEF subscribe
    <3>2. \A d \in Disp : reg'[d] = IF d = rpc[s].d THEN reg[d] \cup {s} ELSE reg[d]
      BY <2>0 DEF subscribe
    <3>3. RegInv'
      BY <2>0, <3>1, <3>2 DEF subscribe, ChannelInv, RegInv
    <3>4. NoPanic'
      BY DEF subscribe, ChannelInv, NoPanic
    <3> QED BY <2>0, <3>3, <3>4 DEF ChannelInv
  <2>3. CASE \E s \in Sub : Receive(s)
    BY <2>0, <2>3, ChannelFrame DEF Receive
  <2>4. CASE \E s \in Sub : Leave(s)
    BY <2>0, <2>4, GoType, ChannelFrame DEF Leave
  <2>5. CASE \E s \in Sub : StreamClosed(s)
    BY <2>0, <2>5, GoType, ChannelFrame DEF StreamClosed
  <2>6. CASE \E s \in Sub : removeSubscriber(s)
    <3> PICK s \in Sub : removeSubscriber(s)
      BY <2>6
    <3>1. /\ rpc'[s].d = rpc[s].d
          /\ \A t \in Sub \ {s} : rpc'[t] = rpc[t]
      BY <2>0, GoType DEF removeSubscriber
    <3>2. rpc[s].d \in Disp
      BY <2>0, MapTypes DEF removeSubscriber, MapInv, MadeInv
    <3>3. \A d \in Disp : s \notin reg'[d] /\ reg'[d] \subseteq Sub
      BY <2>0, <3>2 DEF removeSubscriber, CloseChannels, ChannelInv, RegInv
    <3>4. \A d \in Disp : \A t \in reg'[d] : rpc'[t].pc = rpc[t].pc
      BY <3>1, <3>3
    <3>5. \A t \in Sub : rpc'[t].d = rpc[t].d
      BY <3>1
    <3>6. RegInv' /\ NoPanic'
      BY <3>2, <3>4, <3>5, CloseRegistered DEF removeSubscriber
    <3> QED BY <2>0, <3>6 DEF ChannelInv
  <2>7. CASE \E s \in Sub : removeIfSame(s)
    BY <2>0, <2>7, GoType, ChannelFrame DEF removeIfSame
  <2>8. CASE \E s \in Sub : StopReturns(s)
    BY <2>0, <2>8, GoType, ChannelFrame DEF StopReturns
  <2>9. CASE \E d \in Disp : StopCancels(d)
    BY <2>0, <2>9, ChannelFrame DEF StopCancels
  <2>10. CASE \E d \in Disp : StopCloses(d)
    <3>1. RegInv' /\ NoPanic'
      BY <2>10, CloseRegistered DEF StopCloses
    <3> QED BY <2>0, <3>1 DEF ChannelInv
  <2>11. CASE \E d \in Disp : ReadBegins(d)
    BY <2>0, <2>11, ChannelFrame DEF ReadBegins
  <2>12. CASE \E d \in Disp : ReadExits(d)
    BY <2>0, <2>12, ChannelFrame DEF ReadExits
  <2>13. CASE \E d \in Disp : ReadNothing(d)
    BY <2>0, <2>13, ChannelFrame DEF ReadNothing
  <2>14. CASE \E d \in Disp : ReadEvents(d)
    BY <2>0, <2>14, ChannelFrame DEF ReadEvents
  <2>15. CASE \E d \in Disp : FanOutBegins(d)
    BY <2>0, <2>15, ChannelFrame DEF FanOutBegins
  <2>16. CASE \E d \in Disp : FanOutEvent(d)
    <3> PICK d \in Disp : FanOutEvent(d)
      BY <2>16
    <3>1. reg[d] \subseteq open
      BY DEF ChannelInv, RegInv
    <3>2. ~panic /\ ~panic'
      BY <3>1 DEF FanOutEvent, ChannelInv, NoPanic
    <3> QED BY <2>0, <3>2 DEF FanOutEvent, ChannelInv, RegInv, NoPanic
  <2>17. CASE \E d \in Disp : FanOutReturns(d)
    <3> PICK d \in Disp : FanOutReturns(d)
      BY <2>17
    <3>1. {s \in reg[d] : rd[d].evict[s] > 0} \in SUBSET reg[d]
      OBVIOUS
    <3>2. RegInv' /\ NoPanic'
      BY <3>1, CloseRegistered DEF FanOutReturns
    <3> QED BY <2>0, <3>2 DEF ChannelInv
  <2>18. CASE Close
    BY <2>0, <2>18, ChannelFrame DEF Close
  <2>19. CASE CloseReturns
    BY <2>0, <2>19, ChannelFrame DEF CloseReturns
  <2>20. CASE AddEvent
    BY <2>0, <2>20, ChannelFrame DEF AddEvent
  <2>21. CASE UNCHANGED vars
    BY <2>0, <2>21, ChannelFrame DEF vars
  <2> QED
    BY <2>1, <2>2, <2>3, <2>4, <2>5, <2>6, <2>7, <2>8, <2>9, <2>10, <2>11, <2>12, <2>13,
       <2>14, <2>15, <2>16, <2>17, <2>18, <2>19, <2>20, <2>21 DEF Next, Handler, ReadLoop
<1> QED BY <1>1, <1>2, MapInductive, PTL DEF Spec

(* No goroutine closes a channel twice or sends on a closed one, whichever *)
(* of eviction, a leaving client, stop and Close comes first.              *)
THEOREM NoPanicHolds == Spec => []NoPanic
<1>1. ChannelInv => NoPanic
  BY DEF ChannelInv
<1> QED BY <1>1, ChannelInductive, PTL
=============================================================================
