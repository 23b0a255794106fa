----------------------------- MODULE DeadLetter -----------------------------
(***************************************************************************)
(* Dead letters: scanAndMoveToDLQ and movePendingEntryToDLQ of             *)
(* internal/service/service.go, run by one or more sidecars over the       *)
(* pending list of a consumer group, against consumers that take, claim    *)
(* and acknowledge entries; and replayDLQInternal of dlq_replay.go, which  *)
(* puts dead letters back into the stream.                                 *)
(*                                                                         *)
(* One stream, its dead-letter stream and one group.  Entry ids are the    *)
(* positions of log and dlog.  Every Redis call is a step of its own, and  *)
(* may fail, executed or not; a sidecar that dies in the middle of a move  *)
(* is a move whose next call fails.  Each XADD may trim its stream.        *)
(***************************************************************************)
EXTENDS Naturals, Sequences, FiniteSets

CONSTANTS
    Scanner,      \* sidecars that scan the group
    Replayer,     \* ReplayDLQ calls under way, in the RPC or the HTTP handler
    Stream,       \* name of the stream
    PublishStreams, ConsumeStreams,  \* streams the sidecar may publish to and read; empty: any
    Targets,      \* target_stream of the requests; NoTarget: none
    Policies,     \* DLQStreamPolicies, by stream
    Default,      \* DLQMaxRetries, and whether DLQMinIdle is above 0
    ScanBatch,    \* DLQScanBatch
    ReplayCount,  \* count of the requests
    MaxStreamLen, \* cfg.MaxStreamLen, the MAXLEN of every XADD to the two streams
    Entries,      \* entries in the stream, all delivered once, when the sidecars start
    MaxClaims,    \* bound on the deliveries of an entry
    MaxLog,       \* bound: no replay begins and nothing is published in a longer log
    MaxTrouble    \* bound on the ReplayDLQ calls, publishes, letters of others, scans that
                  \* overlap another one, and failures that leave an entry to be copied again

NoTarget == ""

\* What ParseDLQStreamPolicies makes of an entry: max_retries, and whether
\* min_idle_ms is above 0.
Policy == [retries : Nat, minIdle : BOOLEAN]

\* The settings that config.Load lets through.
Loaded ==
    /\ Default \in Policy
    /\ \A s \in DOMAIN Policies : Policies[s] \in Policy
    /\ {ScanBatch, MaxStreamLen} \subseteq Nat \ {0}

\* A list that is empty allows every stream, and tracks none.
trackedStreamsForDLQ == ConsumeStreams \cup PublishStreams

\* runDLQLoop runs, and its scans come to the stream.
Scanning == Default.retries > 0 /\ Stream \in trackedStreamsForDLQ

IsStreamAllowed(target) == PublishStreams = {} \/ target \in PublishStreams

\* Of the streams a replay may publish to, the model has one.
ASSUME DeadLetterAssumption ==
    /\ \A t \in Targets \ {NoTarget} : IsStreamAllowed(t) => t = Stream
    /\ Loaded /\ Scanning
    /\ ReplayCount \in Nat \ {0}
    /\ {Entries, MaxLog, MaxTrouble} \subseteq Nat /\ MaxClaims \in Nat \ {0}
    /\ IsFiniteSet(Scanner)

VARIABLES
    log,        \* the stream: dlq_original_id and the dead letter it came from, or 0
    present,    \* entries of log that are not trimmed
    read,       \* entries the group has handed out
    pel,        \* entries pending in the group
    count,      \* count[i]: how often i was delivered
    idle,       \* pending entries that nobody has touched for DLQMinIdle
    handled,    \* entries a consumer acknowledged
    dlog,       \* the dead-letter stream: source entry (0: of others), dlq_original_id
    dpresent,   \* entries of dlog that are neither deleted nor trimmed
    scan,       \* scan[s]: where the sidecar's scan stands
    replay,     \* replay[p]: where the replay stands
    trouble,    \* what MaxTrouble bounds, so far
    faults      \* history: failures that left an entry to be copied again

streamVars == <<log, present, read, pel, count, idle, handled>>
dlqVars == <<dlog, dpresent>>
boundVars == <<trouble, faults>>
vars == <<streamVars, dlqVars, scan, replay, boundVars>>

\* A message as it was published, and a letter of others: without dlq_ fields, or
\* with ones that do not name the stream.
Fresh == [orig |-> 0, from |-> 0]
OthersLetter == [src |-> 0, orig |-> 0]

Init ==
    /\ log = [i \in 1..Entries |-> Fresh] /\ present = 1..Entries
    /\ read = Entries /\ pel = 1..Entries /\ count = [i \in 1..Entries |-> 1]
    /\ idle = {} /\ handled = {}
    /\ dlog = <<>> /\ dpresent = {}
    /\ scan = [s \in Scanner |-> [pc |-> "idle", todo |-> <<>>, cursor |-> 0, more |-> FALSE]]
    /\ replay = [p \in Replayer |-> [pc |-> "idle", todo |-> <<>>, delete |-> FALSE, target |-> NoTarget]]
    /\ trouble = 0 /\ faults = 0

Trouble == trouble < MaxTrouble /\ trouble' = trouble + 1

\* The members of S, ascending.
Ascending(S) == [n \in 1..Cardinality(S) |-> CHOOSE i \in S : Cardinality({k \in S : k < i}) = n - 1]

\* The first n members of S.
First(S, n) == {i \in S : Cardinality({k \in S : k < i}) < n}

Greatest(S) == CHOOSE i \in S : \A k \in S : k <= i

\* XADD MAXLEN ~: what may be left of a stream with the entries S.  The oldest go,
\* as many as Redis likes, but MaxStreamLen entries stay.
Trimmed(S) ==
    {R \in SUBSET S : /\ R = S \/ Cardinality(R) >= MaxStreamLen
                      /\ \A i \in R, k \in S : i < k => k \in R}

-----------------------------------------------------------------------------
(* Consumers, publishers, and others that use the dead-letter stream.      *)

Deliver ==
    /\ read < Len(log)
    /\ read' = read + 1
    /\ IF read + 1 \in present
       THEN pel' = pel \cup {read + 1} /\ count' = [count EXCEPT ![read + 1] = 1]
       ELSE UNCHANGED <<pel, count>>
    /\ UNCHANGED <<log, present, idle, handled, dlqVars, scan, replay, boundVars>>

\* A consumer claims an entry that another one left.
Claim(i) ==
    /\ i \in pel /\ count[i] < MaxClaims
    /\ count' = [count EXCEPT ![i] = @ + 1]
    /\ idle' = idle \ {i}
    /\ UNCHANGED <<log, present, read, pel, handled, dlqVars, scan, replay, boundVars>>

Ages(i) ==
    /\ i \in pel \ idle
    /\ idle' = idle \cup {i}
    /\ UNCHANGED <<log, present, read, pel, count, handled, dlqVars, scan, replay, boundVars>>

ConsumerAcks(i) ==
    /\ i \in pel
    /\ pel' = pel \ {i} /\ idle' = idle \ {i}
    /\ handled' = handled \cup {i}
    /\ UNCHANGED <<log, present, read, count, dlqVars, scan, replay, boundVars>>

XAdd(entry) ==
    /\ log' = Append(log, entry) /\ count' = Append(count, 0)
    /\ present' \in Trimmed(present \cup {Len(log) + 1})

Publish ==
    /\ Len(log) < MaxLog
    /\ Trouble
    /\ XAdd(Fresh)
    /\ UNCHANGED <<read, pel, idle, handled, dlqVars, scan, replay, faults>>

XAddLetter(letter) ==
    /\ dlog' = Append(dlog, letter)
    /\ dpresent' \in Trimmed(dpresent \cup {Len(dlog) + 1})

\* A dead letter of another stream, another group or another program.
OtherLetter ==
    /\ Trouble
    /\ XAddLetter(OthersLetter)
    /\ UNCHANGED <<streamVars, scan, replay, faults>>

Consumer == Deliver \/ (\E i \in pel : Claim(i) \/ Ages(i) \/ ConsumerAcks(i))

-----------------------------------------------------------------------------
(* The scan.                                                               *)

ResolveDLQPolicy == IF Stream \in DOMAIN Policies THEN Policies[Stream] ELSE Default

\* Mutant: the delivery count is not looked at.
QualifiesIdle(i) == ResolveDLQPolicy.minIdle => i \in idle

\* What XPENDING says of i reaches the policy.
Qualifies(i) ==
    /\ count[i] >= ResolveDLQPolicy.retries
    /\ ResolveDLQPolicy.minIdle => i \in idle

Scans(s, next) == scan' = [scan EXCEPT ![s] = next]
ScanStops(s) == Scans(s, [pc |-> "idle", todo |-> <<>>, cursor |-> 0, more |-> FALSE])
NextEntry(s) == Scans(s, [scan[s] EXCEPT !.pc = "entry", !.todo = Tail(@)])
Entry(s) == Head(scan[s].todo)

\* The timer fires; XINFO GROUPS lists the group.
ScanBegins(s) ==
    /\ scan[s].pc = "idle"
    /\ Scans(s, [scan[s] EXCEPT !.pc = "page"])
    /\ IF \A t \in Scanner : scan[t].pc = "idle" THEN UNCHANGED trouble ELSE Trouble
    /\ UNCHANGED <<streamVars, dlqVars, replay, faults>>

\* Mutant: a full page is the last one.
MorePagesNever(page) == FALSE

MorePages(page) == Cardinality(page) = ScanBatch

\* XPENDING from behind the cursor.  The entries to move are chosen by what it
\* says now; everything after uses this answer.
XPending(s) ==
    LET page == First({i \in pel : i > scan[s].cursor}, ScanBatch)
    IN  /\ scan[s].pc = "page"
        /\ IF page = {} THEN ScanStops(s)
           ELSE Scans(s, [pc |-> "entry", todo |-> Ascending({i \in page : Qualifies(i)}),
                          cursor |-> Greatest(page), more |-> MorePages(page)])
        /\ UNCHANGED <<streamVars, dlqVars, replay, boundVars>>

PageEnds(s) ==
    /\ scan[s].pc = "entry" /\ scan[s].todo = <<>>
    /\ IF scan[s].more THEN Scans(s, [scan[s] EXCEPT !.pc = "page"]) ELSE ScanStops(s)
    /\ UNCHANGED <<streamVars, dlqVars, replay, boundVars>>

\* movePendingEntryToDLQ: a trimmed entry is left alone.
XRange(s) ==
    /\ scan[s].pc = "entry" /\ scan[s].todo # <<>>
    /\ IF Entry(s) \in present THEN Scans(s, [scan[s] EXCEPT !.pc = "add"]) ELSE NextEntry(s)
    /\ UNCHANGED <<streamVars, dlqVars, replay, boundVars>>

\* Mutant: the scanner's own dlq_original_id wins.
OriginalIDNew(i) == i

\* The message's own fields are written over those the scanner sets.
OriginalID(i) == IF log[i].orig # 0 THEN log[i].orig ELSE i

Copy(i) == XAddLetter([src |-> i, orig |-> OriginalID(i)])

XAddDLQ(s) ==
    /\ scan[s].pc = "add"
    /\ Copy(Entry(s))
    /\ Scans(s, [scan[s] EXCEPT !.pc = "ack"])
    /\ UNCHANGED <<streamVars, replay, boundVars>>

Acks(i) == pel' = pel \ {i} /\ idle' = idle \ {i}

\* Mutant: the moved entry stays pending.
XAckForgotten(s) ==
    /\ scan[s].pc = "ack"
    /\ NextEntry(s)
    /\ UNCHANGED <<streamVars, dlqVars, replay, boundVars>>

XAck(s) ==
    /\ scan[s].pc = "ack"
    /\ Acks(Entry(s))
    /\ NextEntry(s)
    /\ UNCHANGED <<log, present, read, count, handled, dlqVars, replay, boundVars>>

\* XINFO GROUPS or XPENDING fails: no more of this group in this scan.
PageFails(s) ==
    /\ scan[s].pc = "page"
    /\ ScanStops(s)
    /\ UNCHANGED <<streamVars, dlqVars, replay, boundVars>>

Fault == Trouble /\ faults' = faults + 1

\* Mutant: the entry is acknowledged although the copy failed.
MoveFailsAcked(s) ==
    /\ scan[s].pc = "add"
    /\ Acks(Entry(s))
    /\ NextEntry(s)
    /\ UNCHANGED <<log, present, read, count, handled, dlqVars, replay, boundVars>>

\* XRANGE, XADD or XACK fails: the scan goes on with the next entry.
MoveFails(s) ==
    /\ \/ scan[s].pc = "entry" /\ scan[s].todo # <<>> /\ UNCHANGED <<pel, idle, dlqVars, boundVars>>
       \/ scan[s].pc = "add" /\ UNCHANGED <<pel, idle, dlqVars, boundVars>>
       \/ scan[s].pc = "add" /\ Fault /\ Copy(Entry(s)) /\ UNCHANGED <<pel, idle>>
       \/ scan[s].pc = "ack" /\ Fault /\ UNCHANGED <<pel, idle, dlqVars>>
       \/ scan[s].pc = "ack" /\ Acks(Entry(s)) /\ UNCHANGED <<dlqVars, boundVars>>
    /\ NextEntry(s)
    /\ UNCHANGED <<log, present, read, count, handled, replay>>

scanAndMoveToDLQ(s) ==
    ScanBegins(s) \/ XPending(s) \/ PageEnds(s) \/ XRange(s) \/ XAddDLQ(s) \/ XAck(s)

-----------------------------------------------------------------------------
(* Replay.                                                                 *)

Letter(p) == Head(replay[p].todo)
ReplayStops(p) ==
    replay' = [replay EXCEPT ![p] = [pc |-> "idle", todo |-> <<>>, delete |-> FALSE, target |-> NoTarget]]

\* Mutant: the loop runs once more.
NextLetterLate(p) == replay' = [replay EXCEPT ![p].todo = Tail(@), ![p].pc = "letter"]

NextLetter(p) ==
    IF Len(replay[p].todo) = 1 THEN ReplayStops(p)
    ELSE replay' = [replay EXCEPT ![p].todo = Tail(@), ![p].pc = "letter"]

\* A request with any start: XRANGE takes the first dead letters from there.
replayDLQInternal(p) ==
    /\ replay[p].pc = "idle" /\ Len(log) < MaxLog
    /\ Trouble
    /\ \E from \in dpresent, delete \in BOOLEAN, target \in Targets :
        replay' = [replay EXCEPT ![p] = [pc |-> "letter", delete |-> delete, target |-> target,
                       todo |-> Ascending(First({d \in dpresent : d >= from}, ReplayCount))]]
    /\ UNCHANGED <<streamVars, dlqVars, scan, faults>>

\* The request's target, or dlq_original_stream if the dead letter has it.
Target(p) ==
    IF replay[p].target = NoTarget /\ dlog[Letter(p)].src # 0 THEN Stream ELSE replay[p].target

AtLetter(p) == replay[p].pc = "letter"
Skipped(p) == Target(p) = NoTarget \/ ~IsStreamAllowed(Target(p))

ReplaySkips(p) ==
    /\ AtLetter(p) /\ Skipped(p)
    /\ NextLetter(p)
    /\ UNCHANGED <<streamVars, dlqVars, scan, boundVars>>

Requeued(d) == [orig |-> dlog[d].orig, from |-> d]

ReplayAdds(p) ==
    /\ AtLetter(p) /\ ~Skipped(p)
    /\ XAdd(Requeued(Letter(p)))
    /\ IF replay[p].delete THEN replay' = [replay EXCEPT ![p].pc = "delete"] ELSE NextLetter(p)
    /\ UNCHANGED <<read, pel, idle, handled, dlqVars, scan, boundVars>>

ReplayDeletes(p) ==
    /\ replay[p].pc = "delete"
    /\ dpresent' = dpresent \ {Letter(p)}
    /\ NextLetter(p)
    /\ UNCHANGED <<streamVars, dlog, scan, boundVars>>

\* XADD or XDEL fails, executed or not: the call ends with an error.
ReplayFails(p) ==
    /\ \/ AtLetter(p) /\ ~Skipped(p) /\ UNCHANGED <<log, count, present, dpresent>>
       \/ AtLetter(p) /\ ~Skipped(p) /\ XAdd(Requeued(Letter(p))) /\ UNCHANGED dpresent
       \/ replay[p].pc = "delete" /\ UNCHANGED <<log, count, present, dpresent>>
       \/ /\ replay[p].pc = "delete" /\ dpresent' = dpresent \ {Letter(p)}
          /\ UNCHANGED <<log, count, present>>
    /\ ReplayStops(p)
    /\ UNCHANGED <<read, pel, idle, handled, dlog, scan, boundVars>>

Replays(p) == replayDLQInternal(p) \/ ReplaySkips(p) \/ ReplayAdds(p) \/ ReplayDeletes(p) \/ ReplayFails(p)

Next ==
    \/ Consumer \/ Publish \/ OtherLetter
    \/ \E s \in Scanner : scanAndMoveToDLQ(s) \/ PageFails(s) \/ MoveFails(s)
    \/ \E p \in Replayer : Replays(p)

Spec == Init /\ [][Next]_vars

\* The scan timer of each sidecar keeps firing, and at some time Redis stops
\* failing.
RecoverySpec ==
    /\ Spec /\ \A s \in Scanner : WF_vars(scanAndMoveToDLQ(s))
    /\ <>[][\A s \in Scanner : ~PageFails(s) /\ ~MoveFails(s)]_vars

-----------------------------------------------------------------------------
TypeOK ==
    /\ log \in Seq([orig : Nat, from : 0..Len(dlog)]) /\ present \subseteq DOMAIN log
    /\ read \in 0..Len(log) /\ pel \subseteq 1..read /\ idle \subseteq pel
    /\ count \in [DOMAIN log -> 0..MaxClaims] /\ handled \subseteq 1..read
    /\ dlog \in Seq([src : 0..Len(log), orig : 0..Len(log)]) /\ dpresent \subseteq DOMAIN dlog
    /\ scan \in [Scanner -> [pc : {"idle", "page", "entry", "add", "ack"}, todo : Seq(1..read),
                            cursor : 0..read, more : BOOLEAN]]
    /\ \A s \in Scanner : scan[s].pc \in {"add", "ack"} => scan[s].todo # <<>>
    /\ replay \in [Replayer -> [pc : {"idle", "letter", "delete"}, todo : Seq(DOMAIN dlog),
                               delete : BOOLEAN, target : Targets \cup {NoTarget}]]
    /\ \A p \in Replayer : replay[p].pc # "idle" => replay[p].todo # <<>>
    /\ trouble \in 0..MaxTrouble /\ faults \in 0..trouble

Copies(i) == {d \in DOMAIN dlog : dlog[d].src = i}

Requeues(d) == {k \in DOMAIN log : log[k].from = d}

\* Entry k of log, dead letter d of dlog: there, or pushed out by MaxStreamLen
\* newer ones.
InStream(k) == k \in present \/ Len(log) - k >= MaxStreamLen
InDLQ(d) == d \in dpresent \/ Len(dlog) - d >= MaxStreamLen

\* An entry that was delivered, that no consumer acknowledged and that is no
\* longer pending has a copy.  A dead letter is in the dead-letter stream or has
\* been put into the stream again, and either leaves its stream only when
\* MaxStreamLen newer entries push it out: no failing call, no second sidecar, no
\* replay and no consumer that acknowledges in the middle of a move loses it.
NotLost ==
    /\ \A i \in 1..read : count[i] > 0 /\ i \notin pel \cup handled => Copies(i) # {}
    /\ \A d \in DOMAIN dlog : InDLQ(d) \/ \E k \in Requeues(d) : InStream(k)

\* An entry is copied at most once by each sidecar, but for failures after the
\* copy: a sidecar with an old answer of XPENDING does not go on copying.
CopiesBounded == \A i \in DOMAIN log : Cardinality(Copies(i)) <= Cardinality(Scanner) + faults

\* Only what was delivered as often as the policy says is moved, whatever
\* happened between XPENDING and the move.
OnlyOverRetried == \A d \in DOMAIN dlog : dlog[d].src # 0 => count[dlog[d].src] >= ResolveDLQPolicy.retries

\* The first life of entry i: where its message was before any dead letter.
Origin[i \in DOMAIN log] ==
    IF log[i].from = 0 THEN i
    ELSE IF dlog[log[i].from].src = 0 THEN i ELSE Origin[dlog[log[i].from].src]

\* dlq_original_id of a dead letter names the entry that was published first,
\* however often the message was moved and replayed.
Lineage == \A d \in DOMAIN dlog : dlog[d].src # 0 => dlog[d].orig = Origin[dlog[d].src]

\* A pending entry that has reached the policy and is still in the stream leaves
\* the pending list or is claimed again, wherever in the list it is: time and
\* again there is none.
Stuck(i) == i \in pel \cap present /\ Qualifies(i)
StuckLeaves == []<>(\A i \in pel : ~Stuck(i))
=============================================================================
