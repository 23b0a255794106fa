---------------------------- MODULE ConsumerGroup ----------------------------
(***************************************************************************)
(* Reading through a consumer group, internal/service/consume.go: the      *)
(* cache of groups that are known to exist, ensureConsumerGroup,           *)
(* consumeGroupOnce with its one retry (HTTP reads and the stateless       *)
(* Subscribe), and the same calls in the read loop of a dispatcher.  Redis *)
(* may lose the group, or the stream with it, behind the cache.            *)
(***************************************************************************)
EXTENDS Naturals, FiniteSets

CONSTANTS
    Reader,     \* goroutines that read the group
    Loops,      \* those of them that are dispatchers' read loops
    ReadCount,  \* entries per XREADGROUP
    MaxAdded,   \* bound on the entries added to the stream
    MaxLosses,  \* bound on the times Redis loses the group
    MaxFaults   \* bound on the failing reads that did execute

ASSUME GroupAssumption ==
    /\ Loops \subseteq Reader
    /\ ReadCount \in Nat \ {0}
    /\ {MaxAdded, MaxLosses, MaxFaults} \subseteq Nat

NoGroup == [exists |-> FALSE, last |-> 0]

VARIABLES
    entries, added,   \* entries of the stream, number of the youngest
    group,            \* the group in Redis: does it exist, last entry handed out
    pel,              \* entries pending in the group
    ensured,          \* the key is in consumerGroupsEnsured
    rd,               \* rd[r]: where the reader stands; its second try
    listening,        \* the dispatcher has a subscriber
    got,              \* entries some client or dispatcher was handed
    losses, faults,   \* losses and executed failures so far
    noise             \* history: readers whose call crossed a loss, a failure of
                      \* Redis or another reader's rememberConsumerGroup

redisVars == <<entries, added, group, pel>>
boundVars == <<losses, faults>>
vars == <<redisVars, ensured, rd, listening, got, boundVars, noise>>

Init ==
    /\ entries = {} /\ added = 0 /\ group = NoGroup /\ pel = {}
    /\ ensured = FALSE /\ listening = TRUE /\ got = {}
    /\ rd = [r \in Reader |-> [pc |-> "idle", retry |-> FALSE]]
    /\ losses = 0 /\ faults = 0 /\ noise = {}

At(r, pc) == rd[r].pc = pc
Go(r, pc) == rd' = [rd EXCEPT ![r].pc = pc]
Busy == {r \in Reader : ~At(r, "idle") /\ ~At(r, "error")}

\* A failed call tells its client; a loop pauses and goes round again.
Fails(r) == Go(r, IF r \in Loops THEN "idle" ELSE "error")

-----------------------------------------------------------------------------
(* The reader's goroutine.                                                 *)

\* A new consumeGroupOnce, or the next round of a loop that has a subscriber.
Begin(r) ==
    /\ At(r, "idle") \/ At(r, "error")
    /\ r \in Loops => listening
    /\ rd' = [rd EXCEPT ![r] = [pc |-> "ensure", retry |-> FALSE]]
    /\ noise' = noise \ {r}
    /\ UNCHANGED <<redisVars, ensured, listening, got, boundVars>>

isConsumerGroupEnsured(r) ==
    /\ At(r, "ensure")
    /\ Go(r, IF ensured THEN "read" ELSE "create")
    /\ UNCHANGED <<redisVars, ensured, listening, got, boundVars, noise>>

\* Mutant: the group starts beyond the last entry.
CreatedBeyond == [exists |-> TRUE, last |-> added + 1]

\* Mutant: the group starts behind what is in the stream.
CreatedAtEnd == [exists |-> TRUE, last |-> added]

\* XGROUP CREATE ... 0
Created == [exists |-> TRUE, last |-> 0]

\* XGROUP CREATE MKSTREAM succeeds, or says BUSYGROUP.
XGroupCreate(r) ==
    /\ At(r, "create")
    /\ group' = IF group.exists THEN group ELSE Created
    /\ Go(r, "remember")
    /\ UNCHANGED <<entries, added, pel, ensured, listening, got, boundVars, noise>>

\* Any other error; Redis may have made the group.
XGroupCreateFails(r) ==
    /\ At(r, "create")
    /\ group' \in {group, IF group.exists THEN group ELSE Created}
    /\ Fails(r)
    /\ noise' = noise \cup {r}
    /\ UNCHANGED <<entries, added, pel, ensured, listening, got, boundVars>>

rememberConsumerGroup(r) ==
    /\ At(r, "remember")
    /\ ensured' = TRUE
    /\ Go(r, "read")
    /\ noise' = noise \cup (Busy \ {r})
    /\ UNCHANGED <<redisVars, listening, got, boundVars>>

\* XREADGROUP with ">": the next entries, at most COUNT of them.
NextEntries ==
    {e \in entries : e > group.last /\ Cardinality({f \in entries : group.last < f /\ f < e}) < ReadCount}

Deliver ==
    /\ group.exists /\ NextEntries # {}
    /\ group' = [group EXCEPT !.last = CHOOSE e \in NextEntries : \A f \in NextEntries : f <= e]
    /\ pel' = pel \cup NextEntries

\* The events go to the client, or to fanOut, which drops them when the last
\* subscriber has left during the read.
ReadEvents(r) ==
    /\ At(r, "read") /\ Deliver
    /\ got' = IF r \in Loops /\ ~listening THEN got ELSE got \cup NextEntries
    /\ Go(r, "idle")
    /\ UNCHANGED <<entries, added, ensured, listening, boundVars, noise>>

\* The stateless Subscribe sends one by one, and stops where Send fails.
SendFails(r) ==
    /\ At(r, "read") /\ r \notin Loops /\ Deliver
    /\ \E e \in NextEntries : got' = got \cup {f \in NextEntries : f < e}
    /\ Go(r, "idle")
    /\ UNCHANGED <<entries, added, ensured, listening, boundVars, noise>>

\* redis.Nil after the block time.
ReadNothing(r) ==
    /\ At(r, "read") /\ group.exists
    /\ Go(r, "idle")
    /\ UNCHANGED <<redisVars, ensured, listening, got, boundVars, noise>>

\* Another error, a cancelled context too; Redis may have handed entries out.
ReadFails(r) ==
    /\ At(r, "read")
    /\ \/ UNCHANGED <<group, pel, faults>>
       \/ Deliver /\ faults < MaxFaults /\ faults' = faults + 1
    /\ Fails(r)
    /\ noise' = noise \cup {r}
    /\ UNCHANGED <<entries, added, ensured, listening, got, losses>>

\* Mutant: consumeGroupOnce does not try again.
ReadNoGroupGivesUp(r) ==
    /\ At(r, "read") /\ ~group.exists
    /\ Fails(r)
    /\ UNCHANGED <<redisVars, ensured, listening, got, boundVars, noise>>

\* NOGROUP: forget the group and create it again, once; a loop always.
ReadNoGroup(r) ==
    /\ At(r, "read") /\ ~group.exists
    /\ IF rd[r].retry THEN Fails(r) ELSE Go(r, "forget")
    /\ UNCHANGED <<redisVars, ensured, listening, got, boundVars, noise>>

\* Mutant: the cache keeps the group.
KeepEnsured == ensured

Forgotten == FALSE

forgetEnsuredConsumerGroup(r) ==
    /\ At(r, "forget")
    /\ ensured' = Forgotten
    /\ rd' = [rd EXCEPT ![r] = IF r \in Loops THEN [pc |-> "idle", retry |-> FALSE]
                                               ELSE [pc |-> "ensure", retry |-> TRUE]]
    /\ UNCHANGED <<redisVars, listening, got, boundVars, noise>>

Calls(r) ==
    \/ isConsumerGroupEnsured(r) \/ XGroupCreate(r) \/ rememberConsumerGroup(r)
    \/ ReadEvents(r) \/ ReadNothing(r) \/ ReadNoGroup(r) \/ forgetEnsuredConsumerGroup(r)

-----------------------------------------------------------------------------
(* Producers, clients, and a Redis that loses data.                        *)

Add ==
    /\ added < MaxAdded
    /\ added' = added + 1 /\ entries' = entries \cup {added + 1}
    /\ UNCHANGED <<group, pel, ensured, rd, listening, got, boundVars, noise>>

Ack(e) ==
    /\ e \in pel \cap got
    /\ pel' = pel \ {e}
    /\ UNCHANGED <<entries, added, group, ensured, rd, listening, got, boundVars, noise>>

\* The group is gone, alone or with the stream.
Lose ==
    /\ group.exists /\ losses < MaxLosses
    /\ group' = NoGroup /\ pel' = {} /\ entries' \in {entries, {}}
    /\ losses' = losses + 1
    /\ noise' = noise \cup Busy
    /\ UNCHANGED <<added, ensured, rd, listening, got, faults>>

Listen ==
    /\ listening' = ~listening
    /\ UNCHANGED <<redisVars, ensured, rd, got, boundVars, noise>>

Next ==
    \/ \E r \in Reader : Begin(r) \/ Calls(r) \/ SendFails(r) \/ XGroupCreateFails(r) \/ ReadFails(r)
    \/ Add \/ (\E e \in pel : Ack(e)) \/ Lose \/ Listen

Spec == Init /\ [][Next]_vars

\* Loops go round, clients poll, and a read that finds entries each time is not
\* empty each time.
Fairness == \A r \in Reader :
    SF_vars(Begin(r)) /\ WF_vars(Calls(r)) /\ SF_vars(ReadEvents(r))

\* Redis stops failing at some time.
RecoverySpec ==
    Spec /\ Fairness /\ <>[][\A r \in Reader : ~XGroupCreateFails(r) /\ ~ReadFails(r)]_vars

-----------------------------------------------------------------------------
TypeOK ==
    /\ added \in 0..MaxAdded /\ entries \subseteq 1..added
    /\ group \in [exists : BOOLEAN, last : 0..added]
    /\ pel \subseteq 1..group.last /\ got \subseteq 1..added
    /\ ensured \in BOOLEAN /\ listening \in BOOLEAN
    /\ rd \in [Reader -> [pc : {"idle", "ensure", "create", "remember", "read", "forget", "error"},
                          retry : BOOLEAN]]
    /\ losses \in 0..MaxLosses /\ faults \in 0..MaxFaults /\ noise \subseteq Reader

\* Whatever the group has passed was handed to a client or is still pending in
\* it: making a lost group again skips nothing that was added meanwhile, and a
\* read whose answer nobody takes leaves its entries where they can be claimed.
NoSkip ==
    group.exists => \A e \in entries : e <= group.last => e \in got \cup pel

\* The one retry of consumeGroupOnce is enough: a call fails only if it met a
\* failure of Redis, a loss of the group, or a rememberConsumerGroup of another
\* reader that brought the stale cache entry back.
RetryHeals == \A r \in Reader : At(r, "error") => r \in noise

\* An entry is handed out, or pending in the group, or lost by Redis: the cache
\* never keeps the readers away from a group that is gone.
Delivered == \A e \in 1..MaxAdded : e \in entries ~> e \in got \cup pel \/ e \notin entries
=============================================================================
