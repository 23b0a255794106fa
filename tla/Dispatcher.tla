----------------------------- MODULE Dispatcher -----------------------------
(***************************************************************************)
(* The consume dispatchers of internal/service/dispatcher.go for one       *)
(* stream and consumer group: the manager's map entry, the dispatchers     *)
(* that fill it one after another, their read loops, fanOut, eviction and  *)
(* backpressure, and the Subscribe RPCs of internal/service/grpc.go.       *)
(*                                                                         *)
(* m.mu and subscribersMu protect short sections that are one step each,   *)
(* except fanOut, whose events are separate steps: receiving from a        *)
(* channel needs no lock.  rd[d].pc = "fan" means fanOut has the lock.     *)
(***************************************************************************)
EXTENDS Naturals, Sequences, FiniteSets

CONSTANTS
    Sub,        \* Subscribe RPCs
    MaxDisp,    \* bound on the dispatchers created for the key
    MaxEvents,  \* bound on the events added to the stream
    ReadCount,  \* events per XREADGROUP
    Buffer,     \* subscriberBuffer
    MaxDrops    \* dispatcherMaxConsecutiveDrops

ASSUME DispatcherAssumption ==
    {MaxDisp, MaxEvents, ReadCount, Buffer, MaxDrops} \subseteq Nat \ {0}

Disp == 1..MaxDisp
None == 0

VARIABLES
    cur,        \* the dispatcher in m.dispatchers, or None
    made,       \* dispatchers created so far
    closing,    \* where manager.Close stands, and the dispatcher it stops
    stop,       \* stop[d]: "no", "cancelled" (d.ctx), "closed" (channels too)
    reg,        \* reg[d]: the keys of d.subscribers
    chan,       \* chan[s]: the events in the channel of s
    open,       \* the subscribers whose channel was made and not closed
    drops,      \* dropCounts
    rpc,        \* rpc[s]: where the RPC of s stands, and its dispatcher
    rd,         \* rd[d]: where the read loop stands, its events, and how often
                \* each subscriber is in removeSubscribers
    added,      \* events in the stream
    read,       \* events the group has handed out
    panic       \* a closed channel was closed or sent to

mgrVars == <<cur, made, closing>>
subVars == <<reg, chan, open, drops>>
vars == <<mgrVars, stop, subVars, rpc, rd, added, read, panic>>

NoEvictions == [s \in Sub |-> 0]

Init ==
    /\ cur = None /\ made = 0 /\ closing = [pc |-> "no", d |-> None]
    /\ stop = [d \in Disp |-> "no"]
    /\ reg = [d \in Disp |-> {}]
    /\ chan = [s \in Sub |-> <<>>] /\ open = {} /\ drops = [s \in Sub |-> 0]
    /\ rpc = [s \in Sub |-> [pc |-> "new", d |-> None]]
    /\ rd = [d \in Disp |-> [pc |-> "off", events |-> <<>>, evict |-> NoEvictions]]
    /\ added = 0 /\ read = 0 /\ panic = FALSE

Fanning(d) == rd[d].pc = "fan"
Go(s, pc) == rpc' = [rpc EXCEPT ![s].pc = pc]
Read(d, pc) == rd' = [rd EXCEPT ![d].pc = pc]

\* For every s of S: delete from d.subscribers and d.dropCounts, close(ch).
CloseChannels(d, S) ==
    /\ reg' = [reg EXCEPT ![d] = @ \ S]
    /\ open' = open \ S
    /\ drops' = [s \in Sub |-> IF s \in S THEN 0 ELSE drops[s]]
    /\ panic' = (panic \/ ~(S \subseteq open))

-----------------------------------------------------------------------------
(* Subscribe RPCs.                                                         *)

\* getOrCreate, under m.mu.
getOrCreate(s) ==
    /\ rpc[s].pc = "new"
    /\ IF closing.pc # "no"
       THEN Go(s, "end") /\ UNCHANGED <<cur, made, rd>>
       ELSE IF cur # None
       THEN rpc' = [rpc EXCEPT ![s] = [pc |-> "got", d |-> cur]] /\ UNCHANGED <<cur, made, rd>>
       ELSE /\ made < MaxDisp
            /\ made' = made + 1 /\ cur' = made + 1
            /\ rpc' = [rpc EXCEPT ![s] = [pc |-> "got", d |-> made + 1]]
            /\ Read(made + 1, "top")
    /\ UNCHANGED <<closing, stop, subVars, added, read, panic>>

\* subscribe, under subscribersMu.  Nothing looks at d.ctx.
subscribe(s) ==
    /\ rpc[s].pc = "got" /\ ~Fanning(rpc[s].d)
    /\ reg' = [reg EXCEPT ![rpc[s].d] = @ \cup {s}]
    /\ open' = open \cup {s}
    /\ drops' = [drops EXCEPT ![s] = 0]
    /\ Go(s, "loop")
    /\ UNCHANGED <<mgrVars, stop, chan, rd, added, read, panic>>

Receive(s) ==
    /\ rpc[s].pc = "loop" /\ chan[s] # <<>>
    /\ chan' = [chan EXCEPT ![s] = Tail(@)]
    /\ UNCHANGED <<mgrVars, stop, reg, open, drops, rpc, rd, added, read, panic>>

\* The client is gone, or Send failed.
Leave(s) ==
    /\ rpc[s].pc = "loop"
    /\ Go(s, "remove")
    /\ UNCHANGED <<mgrVars, stop, subVars, rd, added, read, panic>>

\* "dispatcher stream closed"
StreamClosed(s) ==
    /\ rpc[s].pc = "loop" /\ s \notin open /\ chan[s] = <<>>
    /\ Go(s, "remove")
    /\ UNCHANGED <<mgrVars, stop, subVars, rd, added, read, panic>>

\* Mutant: the dispatcher is stopped without leaving the map first.
removeSubscriberStops(s) ==
    LET d == rpc[s].d
        S == reg[d] \cap {s}
    IN  /\ rpc[s].pc = "remove" /\ ~Fanning(d)
        /\ CloseChannels(d, S)
        /\ Go(s, IF reg[d] \ S = {} THEN "stop" ELSE "end")
        /\ UNCHANGED <<mgrVars, stop, chan, rd, added, read>>

\* The deferred subscription.Close.
removeSubscriber(s) ==
    LET d == rpc[s].d
        S == reg[d] \cap {s}
    IN  /\ rpc[s].pc = "remove" /\ ~Fanning(d)
        /\ CloseChannels(d, S)
        /\ Go(s, IF reg[d] \ S = {} THEN "unlink" ELSE "end")
        /\ UNCHANGED <<mgrVars, stop, chan, rd, added, read>>

\* Mutant: the dispatcher leaves the map and its stop is forgotten.
removeIfSameForgets(s) ==
    /\ rpc[s].pc = "unlink"
    /\ cur' = IF cur = rpc[s].d THEN None ELSE cur
    /\ Go(s, "end")
    /\ UNCHANGED <<made, closing, stop, subVars, rd, added, read, panic>>

removeIfSame(s) ==
    /\ rpc[s].pc = "unlink"
    /\ cur' = IF cur = rpc[s].d THEN None ELSE cur
    /\ Go(s, "stop")
    /\ UNCHANGED <<made, closing, stop, subVars, rd, added, read, panic>>

\* stop() runs once; a second caller waits for the first.
StopReturns(s) ==
    /\ rpc[s].pc = "stop" /\ stop[rpc[s].d] = "closed"
    /\ Go(s, "end")
    /\ UNCHANGED <<mgrVars, stop, subVars, rd, added, read, panic>>

Handler(s) ==
    \/ getOrCreate(s) \/ subscribe(s) \/ StreamClosed(s)
    \/ removeSubscriber(s) \/ removeIfSame(s) \/ StopReturns(s)

-----------------------------------------------------------------------------
(* Manager Close, and stop of a dispatcher.                                *)

\* Mutant: Close empties the map and stops nothing.
CloseForgets ==
    /\ closing.pc = "no"
    /\ closing' = [pc |-> "end", d |-> cur]
    /\ cur' = None
    /\ UNCHANGED <<made, stop, subVars, rpc, rd, added, read, panic>>

Close ==
    /\ closing.pc = "no"
    /\ closing' = [pc |-> IF cur = None THEN "end" ELSE "stop", d |-> cur]
    /\ cur' = None
    /\ UNCHANGED <<made, stop, subVars, rpc, rd, added, read, panic>>

CloseReturns ==
    /\ closing.pc = "stop" /\ stop[closing.d] = "closed"
    /\ closing' = [closing EXCEPT !.pc = "end"]
    /\ UNCHANGED <<cur, made, stop, subVars, rpc, rd, added, read, panic>>

Stopping(d) ==
    \/ closing = [pc |-> "stop", d |-> d]
    \/ \E s \in Sub : rpc[s] = [pc |-> "stop", d |-> d]

StopCancels(d) ==
    /\ Stopping(d) /\ stop[d] = "no"
    /\ stop' = [stop EXCEPT ![d] = "cancelled"]
    /\ UNCHANGED <<mgrVars, subVars, rpc, rd, added, read, panic>>

StopCloses(d) ==
    /\ stop[d] = "cancelled" /\ ~Fanning(d)
    /\ CloseChannels(d, reg[d])
    /\ stop' = [stop EXCEPT ![d] = "closed"]
    /\ UNCHANGED <<mgrVars, chan, rpc, rd, added, read>>

-----------------------------------------------------------------------------
(* The read loop.                                                          *)

\* Mutant: a small buffer has a threshold of 0.
ThresholdUnclamped == (9 * Buffer) \div 10

\* int(0.9 * buffer), at least 1
Threshold == IF (9 * Buffer) \div 10 = 0 THEN 1 ELSE (9 * Buffer) \div 10

subscribersBackpressured(d) == \E s \in reg[d] : Len(chan[s]) >= Threshold

\* With a subscriber and no backpressure the loop issues XREADGROUP.
ReadBegins(d) ==
    /\ rd[d].pc = "top" /\ stop[d] = "no"
    /\ reg[d] # {} /\ ~subscribersBackpressured(d)
    /\ Read(d, "read")
    /\ UNCHANGED <<mgrVars, stop, subVars, rpc, added, read, panic>>

ReadExits(d) ==
    /\ rd[d].pc \in {"top", "read"} /\ stop[d] # "no"
    /\ Read(d, "exit")
    /\ UNCHANGED <<mgrVars, stop, subVars, rpc, added, read, panic>>

\* redis.Nil after the block time, or an error and a pause.
ReadNothing(d) ==
    /\ rd[d].pc = "read"
    /\ Read(d, "top")
    /\ UNCHANGED <<mgrVars, stop, subVars, rpc, added, read, panic>>

\* XREADGROUP hands the group's next events out, at most COUNT of them.
ReadEvents(d) ==
    LET n == IF added - read < ReadCount THEN added - read ELSE ReadCount
    IN  /\ rd[d].pc = "read" /\ n > 0
        /\ read' = read + n
        /\ rd' = [rd EXCEPT ![d] = [pc |-> "fanlock", evict |-> NoEvictions,
                                    events |-> [i \in 1..n |-> read + i]]]
        /\ UNCHANGED <<mgrVars, stop, subVars, rpc, added, panic>>

FanOutBegins(d) ==
    /\ rd[d].pc = "fanlock"
    /\ Read(d, "fan")
    /\ UNCHANGED <<mgrVars, stop, subVars, rpc, added, read, panic>>

\* Mutant: a channel counts as full one event late.
FullChannelsLate(d) == {s \in reg[d] : Len(chan[s]) > Buffer}

FullChannels(d) == {s \in reg[d] : Len(chan[s]) = Buffer}

\* One event to every subscriber: a full channel drops it.
FanOutEvent(d) ==
    /\ Fanning(d) /\ rd[d].events # <<>>
    /\ LET full == FullChannels(d)
           out  == {s \in full : drops[s] + 1 >= MaxDrops}
       IN  /\ chan' = [s \in Sub |-> IF s \in reg[d] \ full
                                     THEN Append(chan[s], Head(rd[d].events)) ELSE chan[s]]
           /\ drops' = [s \in Sub |-> IF s \in full THEN drops[s] + 1
                                      ELSE IF s \in reg[d] THEN 0 ELSE drops[s]]
           /\ rd' = [rd EXCEPT ![d].events = Tail(@),
                                ![d].evict = [s \in Sub |-> @[s] + (IF s \in out THEN 1 ELSE 0)]]
           /\ panic' = (panic \/ ~(reg[d] \subseteq open))
    /\ UNCHANGED <<mgrVars, stop, reg, open, rpc, added, read>>

\* Mutant: every mention in removeSubscribers closes the channel.
FanOutClosesAll(d) ==
    /\ Fanning(d) /\ rd[d].events = <<>>
    /\ LET out == {s \in Sub : rd[d].evict[s] > 0}
       IN  /\ reg' = [reg EXCEPT ![d] = @ \ out]
           /\ open' = open \ out
           /\ panic' = (panic \/ \E s \in out : rd[d].evict[s] > 1)
    /\ rd' = [rd EXCEPT ![d].pc = "top", ![d].evict = NoEvictions]
    /\ UNCHANGED <<mgrVars, stop, chan, drops, rpc, added, read>>

\* removeSubscribers may name a subscriber several times; it is closed once.
FanOutReturns(d) ==
    /\ Fanning(d) /\ rd[d].events = <<>>
    /\ CloseChannels(d, {s \in reg[d] : rd[d].evict[s] > 0})
    /\ rd' = [rd EXCEPT ![d].pc = "top", ![d].evict = NoEvictions]
    /\ UNCHANGED <<mgrVars, stop, chan, rpc, added, read>>

ReadLoop(d) ==
    \/ ReadBegins(d) \/ ReadExits(d)
    \/ FanOutBegins(d) \/ FanOutEvent(d) \/ FanOutReturns(d)

AddEvent ==
    /\ added < MaxEvents
    /\ added' = added + 1
    /\ UNCHANGED <<mgrVars, stop, subVars, rpc, rd, read, panic>>

Next ==
    \/ \E s \in Sub : Handler(s) \/ Receive(s) \/ Leave(s)
    \/ \E d \in Disp : StopCancels(d) \/ StopCloses(d) \/ ReadLoop(d)
                      \/ ReadNothing(d) \/ ReadEvents(d)
    \/ Close \/ CloseReturns \/ AddEvent

Spec == Init /\ [][Next]_vars

\* Goroutines keep running, and XREADGROUP hands out what there is.  Clients
\* need not read, leave or come.
Fairness ==
    /\ \A s \in Sub : WF_vars(Handler(s))
    /\ \A d \in Disp : WF_vars(StopCancels(d) \/ StopCloses(d)) /\ WF_vars(ReadLoop(d))
                         /\ SF_vars(ReadEvents(d))
    /\ WF_vars(CloseReturns)

FairSpec == Spec /\ Fairness

\* Clients that read what they are sent.
ReadingSpec == FairSpec /\ \A s \in Sub : WF_vars(Receive(s))

-----------------------------------------------------------------------------
Rpc == [pc : {"new", "got", "loop", "remove", "unlink", "stop", "end"}, d : {None} \cup Disp]

Reader == [pc : {"off", "top", "read", "fanlock", "fan", "exit"},
           events : Seq(1..MaxEvents), evict : [Sub -> Nat]]

TypeOK ==
    /\ cur \in {None} \cup Disp /\ made \in 0..MaxDisp
    /\ closing \in [pc : {"no", "stop", "end"}, d : {None} \cup Disp]
    /\ stop \in [Disp -> {"no", "cancelled", "closed"}]
    /\ reg \in [Disp -> SUBSET Sub] /\ open \subseteq Sub /\ drops \in [Sub -> Nat]
    /\ chan \in [Sub -> Seq(1..MaxEvents)] /\ \A s \in Sub : Len(chan[s]) <= Buffer
    /\ rpc \in [Sub -> Rpc] /\ rd \in [Disp -> Reader]
    /\ added \in 0..MaxEvents /\ read \in 0..added /\ panic \in BOOLEAN

\* No channel is closed twice or sent to after close, whatever the order of
\* eviction, a leaving client, stop and a second dispatcher.
NoPanic == ~panic

\* A Subscribe that finds a dispatcher in the map finds one that runs.
CurrentRuns == cur # None => stop[cur] = "no"

\* A dispatcher that left the map is being stopped: no read loop keeps taking
\* events of the group with nobody to stop it.
NoLeak == \A d \in 1..made : stop[d] = "no" => cur = d \/ Stopping(d)

\* Once the manager is closed every read loop ends.
Shutdown == closing.pc # "no" ~> \A d \in 1..made : rd[d].pc = "exit"

\* While a subscriber listens, the events of the stream are read.
Listens(s) == rpc[s].pc = "loop" /\ cur # None /\ rpc[s].d = cur
Served == \A s \in Sub : Listens(s) /\ read < added ~> read = added \/ ~Listens(s)

\* While the manager is open, a subscriber of a stopped dispatcher is told that
\* the stream is closed, and does not wait on a channel nobody fills.
Told ==
    \A s \in Sub : rpc[s].pc = "loop" /\ stop[rpc[s].d] = "closed"
                    ~> rpc[s].pc # "loop" \/ closing.pc # "no"
=============================================================================
