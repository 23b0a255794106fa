---------------------------- MODULE DurableQueue ----------------------------
(***************************************************************************)
(* What the write-ahead log promises the publish path, with no files,      *)
(* locks or processes: messages are stored, the caller is promised a       *)
(* stored message, a replay hands stored messages to Redis oldest first,   *)
(* and a message leaves the store only after Redis has it.                 *)
(***************************************************************************)
EXTENDS Sequences, Naturals

CONSTANT Msg

VARIABLES queue,      \* stored messages, oldest first
          promised,   \* messages whose publisher was told "queued"
          delivered   \* messages that Redis has received at least once

vars == <<queue, promised, delivered>>

Stored == {queue[i] : i \in DOMAIN queue}

Init == queue = <<>> /\ promised = {} /\ delivered = {}

Store(m) ==
    /\ queue' = Append(queue, m)
    /\ UNCHANGED <<promised, delivered>>

Promise(m) ==
    /\ m \in Stored \cup delivered
    /\ promised' = promised \cup {m}
    /\ UNCHANGED <<queue, delivered>>

\* Redis receives the i-th stored message: all older ones were received.
Deliver(i) ==
    /\ \A j \in 1..(i - 1) : queue[j] \in delivered
    /\ delivered' = delivered \cup {queue[i]}
    /\ UNCHANGED <<queue, promised>>

\* The k oldest messages are dropped: all of them were received.
Retire(k) ==
    /\ \A j \in 1..k : queue[j] \in delivered
    /\ queue' = SubSeq(queue, k + 1, Len(queue))
    /\ UNCHANGED <<promised, delivered>>

Next ==
    \/ \E m \in Msg : Store(m) \/ Promise(m)
    \/ \E i \in 1..Len(queue) : Deliver(i) \/ Retire(i)

Spec == Init /\ [][Next]_vars

\* A promised message is stored or already delivered.
AtLeastOnce == promised \subseteq Stored \cup delivered

\* Every promised message reaches Redis.
Drained == \A m \in Msg : m \in promised ~> m \in delivered
=============================================================================
