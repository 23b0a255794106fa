-------------------------------- MODULE WAL --------------------------------
(***************************************************************************)
(* The write-ahead log of internal/wal/wal.go: a file of JSON lines, the   *)
(* mutex l.mu, the atomic line counter l.depth, Append, Replay with its    *)
(* rewrite, and New after a process crash.  One message is one Append      *)
(* call; a client that tries again sends another message.                  *)
(*                                                                         *)
(* A step ends wherever another goroutine, a crash or a failing system     *)
(* call can be observed.  A crash is a process crash: what write(2) took   *)
(* stays in the file.                                                      *)
(***************************************************************************)
EXTENDS Integers, Sequences

CONSTANTS
    Msg,          \* publish requests that reach Append
    Corrupt,      \* what json.Unmarshal makes of a line that is not an Entry
    Size,         \* Size[m]: bytes of m's line, newline included
    MaxEntries,   \* l.maxEntries, 0 = unlimited
    MaxBytes,     \* l.maxBytes, 0 = unlimited
    ReplayBatch,  \* maxEntries argument of Replay, > 0
    CountLimit,   \* longest line the scanner of countFileLines takes
    ReplayLimit,  \* longest line the scanner of Replay takes
    TornWrites,   \* can f.Write fail after writing part of a line?
    ReadErrors,   \* can reading the file fail during Replay?
    MaxCrashes    \* bound on process crashes

ASSUME WALAssumption ==
    /\ Corrupt \notin Msg
    /\ Size \in [Msg -> Nat \ {0, 1}]
    /\ MaxEntries \in Nat /\ MaxBytes \in Nat
    /\ ReplayBatch \in Nat \ {0}
    /\ CountLimit \in Nat /\ ReplayLimit \in Nat
    /\ TornWrites \in BOOLEAN /\ ReadErrors \in BOOLEAN
    /\ MaxCrashes \in Nat

VARIABLES
    file,        \* the lines of the WAL file
    depth,       \* l.depth
    mu,          \* holder of l.mu
    call,        \* call[m]: where the Append of m stands
    up,          \* the sidecar process is running
    crashes,
    rpc,         \* where Replay stands
    pos,         \* Replay: number of the line the scanner returns next
    replayed, remaining, processing,   \* Replay's locals
    delivered    \* messages Redis has received through Replay

logVars    == <<file, depth>>
replayVars == <<rpc, pos, replayed, remaining, processing>>
vars == <<file, depth, mu, call, up, crashes, replayVars, delivered>>

-----------------------------------------------------------------------------
\* entry: what the line decodes to; holds: the messages whose whole JSON text
\* lies in it; nl: it ends with a newline; size: its bytes, newline included.
Line == [entry : Msg \cup {Corrupt}, holds : SUBSET Msg, nl : BOOLEAN, size : Nat]

EntryLine(m) == [entry |-> m, holds |-> {m}, nl |-> TRUE, size |-> Size[m]]

\* The first k bytes of m's line.  Only the text without the newline decodes.
TornLine(m, k) ==
    LET whole == k = Size[m] - 1
    IN  [entry |-> IF whole THEN m ELSE Corrupt,
         holds |-> IF whole THEN {m} ELSE {},
         nl    |-> FALSE,
         size  |-> k]

\* O_APPEND writes behind the last byte: behind an unterminated last line the
\* two texts become one line, which no longer decodes.
WriteLine(f, l) ==
    IF f = <<>> \/ f[Len(f)].nl
    THEN Append(f, l)
    ELSE [f EXCEPT ![Len(f)] =
            [entry |-> Corrupt, holds |-> @.holds \cup l.holds,
             nl |-> l.nl, size |-> @.size + l.size]]

\* A line as rewrite stores it: every line gets its newline.
Rewritten(l) == [entry |-> l.entry, holds |-> l.holds, nl |-> TRUE,
                 size |-> l.size + (IF l.nl THEN 0 ELSE 1)]

\* bufio.Scanner gives up on a line that does not fit its buffer.
Fits(l, limit) == Rewritten(l).size <= limit

\* Bytes(f)[n]: the size of the first n lines.
Bytes(f) ==
    LET sum[n \in 0..Len(f)] == IF n = 0 THEN 0 ELSE sum[n - 1] + f[n].size
    IN  sum

fileSizeLocked(f) == Bytes(f)[Len(f)]

Holds(f) == UNION {f[i].holds : i \in DOMAIN f}
Entries(f) == {f[i].entry : i \in DOMAIN f} \ {Corrupt}
Acked == {m \in Msg : call[m] = "ok"}

-----------------------------------------------------------------------------
Init ==
    /\ file = <<>> /\ depth = 0 /\ mu = "free"
    /\ call = [m \in Msg |-> "new"]
    /\ up = TRUE /\ crashes = 0
    /\ rpc = "idle" /\ pos = 1
    /\ replayed = 0 /\ remaining = <<>> /\ processing = FALSE
    /\ delivered = {}

\* Mutant: the limit is met one entry late.
EntryLimitLate == MaxEntries > 0 /\ depth > MaxEntries

EntryLimit == MaxEntries > 0 /\ depth >= MaxEntries

\* Mutant: the new line's own bytes are not counted.
ByteLimitOfFile(m) == MaxBytes > 0 /\ fileSizeLocked(file) > MaxBytes

ByteLimit(m) == MaxBytes > 0 /\ fileSizeLocked(file) + Size[m] > MaxBytes

\* Append takes l.mu for its whole body; a call that fails is one step.
AppendBegins(m) == up /\ mu = "free" /\ call[m] = "new"

\* ErrWALFull or ErrWALDiskFull.
AppendRefused(m) ==
    /\ AppendBegins(m)
    /\ EntryLimit \/ ByteLimit(m)
    /\ call' = [call EXCEPT ![m] = "full"]
    /\ UNCHANGED <<logVars, mu, up, crashes, replayVars, delivered>>

\* A system call fails and nothing is written.
AppendFails(m) ==
    /\ AppendBegins(m)
    /\ call' = [call EXCEPT ![m] = "failed"]
    /\ UNCHANGED <<logVars, mu, up, crashes, replayVars, delivered>>

\* f.Write fails after some of the bytes, on a disk that fills up.
AppendTorn(m) ==
    /\ TornWrites
    /\ AppendBegins(m)
    /\ ~EntryLimit /\ ~ByteLimit(m)
    /\ \E k \in 1..(Size[m] - 1) : file' = WriteLine(file, TornLine(m, k))
    /\ call' = [call EXCEPT ![m] = "failed"]
    /\ UNCHANGED <<depth, mu, up, crashes, replayVars, delivered>>

AppendWrites(m) ==
    /\ AppendBegins(m)
    /\ ~EntryLimit /\ ~ByteLimit(m)
    /\ file' = WriteLine(file, EntryLine(m))
    /\ mu' = "append"
    /\ call' = [call EXCEPT ![m] = "written"]
    /\ UNCHANGED <<depth, up, crashes, replayVars, delivered>>

AppendReturns(m) ==
    /\ call[m] = "written"
    /\ depth' = depth + 1
    /\ mu' = "free"
    /\ call' = [call EXCEPT ![m] = "ok"]
    /\ UNCHANGED <<file, up, crashes, replayVars, delivered>>

-----------------------------------------------------------------------------
\* Replay holds l.mu from its first line to its return.
ReplayBegins ==
    /\ up /\ mu = "free"
    /\ mu' = "replay" /\ rpc' = "scan" /\ pos' = 1
    /\ replayed' = 0 /\ remaining' = <<>> /\ processing' = TRUE
    /\ UNCHANGED <<logVars, call, up, crashes, delivered>>

\* The scanner has returned the line at pos, which is then decided upon.
Scanning == rpc = "scan" /\ pos \in DOMAIN file /\ Fits(file[pos], ReplayLimit)

Keep == remaining' = Append(remaining, Rewritten(file[pos])) /\ pos' = pos + 1

\* Mutant: one entry more than maxEntries.
BatchDoneLate == replayed > ReplayBatch

BatchDone == replayed >= ReplayBatch

\* Mutant: a line that does not decode is skipped, not kept.
ReplayKeepsEntries ==
    /\ Scanning
    /\ ~processing \/ BatchDone \/ file[pos].entry = Corrupt
    /\ IF file[pos].entry = Corrupt THEN pos' = pos + 1 /\ UNCHANGED remaining ELSE Keep
    /\ processing' = (processing /\ ~BatchDone)
    /\ UNCHANGED <<logVars, mu, call, up, crashes, rpc, replayed, delivered>>

\* After the batch or a failure every line is kept, before that the ones that
\* do not decode.
ReplayKeeps ==
    /\ Scanning
    /\ ~processing \/ BatchDone \/ file[pos].entry = Corrupt
    /\ Keep
    /\ processing' = (processing /\ ~BatchDone)
    /\ UNCHANGED <<logVars, mu, call, up, crashes, rpc, replayed, delivered>>

Publishing(m) ==
    Scanning /\ processing /\ ~BatchDone /\ file[pos].entry = m

ReplayPublishes(m) ==
    /\ Publishing(m)
    /\ delivered' = delivered \cup {m}
    /\ replayed' = replayed + 1
    /\ pos' = pos + 1
    /\ UNCHANGED <<logVars, mu, call, up, crashes, rpc, remaining, processing>>

\* Mutant: Replay goes on behind an entry that failed.
ReplayPassesFailure(m) ==
    /\ Publishing(m)
    /\ Keep
    /\ UNCHANGED <<logVars, mu, call, up, crashes, rpc, replayed, processing, delivered>>

\* XADD fails.  After a timeout Redis may have executed it all the same.
ReplayPublishFails(m) ==
    /\ Publishing(m)
    /\ delivered' \in {delivered, delivered \cup {m}}
    /\ Keep
    /\ processing' = FALSE
    /\ UNCHANGED <<logVars, mu, call, up, crashes, rpc, replayed>>

Unlock == mu' = "free" /\ rpc' = "idle"

\* A line too long for the scanner, or a read error: Replay returns at once.
ReplayScanFails ==
    /\ rpc = "scan" /\ pos \in DOMAIN file
    /\ ReadErrors \/ ~Fits(file[pos], ReplayLimit)
    /\ Unlock
    /\ UNCHANGED <<logVars, call, up, crashes, pos, replayed, remaining, processing, delivered>>

ReplayScanned ==
    /\ rpc = "scan" /\ pos = Len(file) + 1
    /\ IF replayed = 0 /\ remaining = <<>> THEN Unlock ELSE rpc' = "rewrite" /\ UNCHANGED mu
    /\ UNCHANGED <<logVars, call, up, crashes, pos, replayed, remaining, processing, delivered>>

\* Mutant: rewrite truncates the log itself before it writes.
WriteInPlace ==
    /\ rpc = "rewrite"
    /\ rpc' = "rename"
    /\ file' = <<>>
    /\ UNCHANGED <<depth, mu, call, up, crashes, pos, replayed, remaining, processing, delivered>>

\* rewrite writes a temporary file, which nothing else reads, and renames it.
WriteTmp ==
    /\ rpc = "rewrite"
    /\ rpc' = "rename"
    /\ UNCHANGED <<logVars, mu, call, up, crashes, pos, replayed, remaining, processing, delivered>>

\* Mutant: the entries are counted off although the old file stays.
RewriteFailsCounted ==
    /\ rpc \in {"rewrite", "rename"}
    /\ Unlock
    /\ depth' = depth - replayed
    /\ UNCHANGED <<file, call, up, crashes, pos, replayed, remaining, processing, delivered>>

RewriteFails ==
    /\ rpc \in {"rewrite", "rename"}
    /\ Unlock
    /\ UNCHANGED <<logVars, call, up, crashes, pos, replayed, remaining, processing, delivered>>

Rename ==
    /\ rpc = "rename"
    /\ file' = remaining
    /\ rpc' = "return"
    /\ UNCHANGED <<depth, mu, call, up, crashes, pos, replayed, remaining, processing, delivered>>

\* Mutant: the mutex is not released.
ReplayReturnsLocked ==
    /\ rpc = "return"
    /\ depth' = depth - replayed
    /\ rpc' = "idle"
    /\ UNCHANGED <<file, mu, call, up, crashes, pos, replayed, remaining, processing, delivered>>

ReplayReturns ==
    /\ rpc = "return"
    /\ depth' = depth - replayed
    /\ Unlock
    /\ UNCHANGED <<file, call, up, crashes, pos, replayed, remaining, processing, delivered>>

-----------------------------------------------------------------------------
Crash ==
    /\ up /\ crashes < MaxCrashes
    /\ up' = FALSE /\ crashes' = crashes + 1
    /\ Unlock
    /\ call' = [m \in Msg |-> IF call[m] = "written" THEN "failed" ELSE call[m]]
    /\ UNCHANGED <<logVars, pos, replayed, remaining, processing, delivered>>

\* New counts the lines, unless the scanner of countFileLines fails.
Countable == \A i \in DOMAIN file : Fits(file[i], CountLimit)

New ==
    /\ ~up /\ Countable
    /\ depth' = Len(file)
    /\ up' = TRUE
    /\ UNCHANGED <<file, mu, call, crashes, replayVars, delivered>>

NewFails == ~up /\ ~Countable /\ UNCHANGED vars

Replay ==
    \/ ReplayBegins \/ ReplayKeeps
    \/ \E m \in Msg : ReplayPublishes(m) \/ ReplayPublishFails(m)
    \/ ReplayScanFails \/ ReplayScanned
    \/ WriteTmp \/ RewriteFails \/ Rename \/ ReplayReturns

Next ==
    \/ \E m \in Msg : AppendRefused(m) \/ AppendFails(m) \/ AppendTorn(m)
                     \/ AppendWrites(m) \/ AppendReturns(m)
    \/ Replay
    \/ Crash \/ New \/ NewFails

Spec == Init /\ [][Next]_vars

-----------------------------------------------------------------------------
TypeOK ==
    /\ file \in Seq(Line) /\ remaining \in Seq(Line)
    /\ depth \in Int
    /\ mu \in {"free", "append", "replay"}
    /\ call \in [Msg -> {"new", "written", "ok", "full", "failed"}]
    /\ up \in BOOLEAN /\ crashes \in 0..MaxCrashes
    /\ rpc \in {"idle", "scan", "rewrite", "rename", "return"}
    /\ pos \in Nat \ {0} /\ replayed \in 0..ReplayBatch /\ processing \in BOOLEAN
    /\ delivered \subseteq Msg

\* A message whose Append returned nil is in Redis, or on a line of the file
\* that a later Replay can decode and publish: no failure of Redis, of rewrite
\* or of the process in the middle of a Replay loses it.
AtLeastOnce == \A m \in Acked : m \in delivered \cup Entries(file)

\* Even behind a torn write the text of such a message never leaves the disk
\* before Redis has the message, although no Replay may be able to decode it.
Retained == \A m \in Acked : m \in delivered \cup Holds(file)

\* Whenever l.mu is free the counter that Depth, readyz and the entry limit
\* use is the number of lines of the file.
DepthExact == up /\ mu = "free" => depth = Len(file)

\* The limits hold for the file itself, through crashes, failed rewrites and
\* restarts.
EntriesBounded == MaxEntries > 0 => Len(file) <= MaxEntries
BytesBounded == MaxBytes > 0 => fileSizeLocked(file) <= MaxBytes

\* The log is a durable queue: promised when Append returns, delivered oldest
\* first, retired only after delivery.
Queue == INSTANCE DurableQueue
         WITH queue <- [i \in DOMAIN file |-> file[i].entry], promised <- Acked

IsDurableQueue == Queue!Spec

-----------------------------------------------------------------------------
\* The replay ticker keeps firing, a call that holds l.mu goes on, a crashed
\* sidecar is started again, and at some time Redis and the disk stop failing.
\* A line that does not fit the scanner's buffer is no outage.
Outage ==
    (\E m \in Msg : ReplayPublishFails(m)) \/ RewriteFails \/ (Scanning /\ ReplayScanFails)

Fairness ==
    /\ WF_vars(ReplayBegins) /\ WF_vars(New)
    /\ WF_vars(\E m \in Msg : AppendReturns(m) \/ ReplayPublishes(m))
    /\ WF_vars(ReplayKeeps \/ ReplayScanFails \/ ReplayScanned)
    /\ WF_vars(WriteTmp \/ Rename \/ ReplayReturns)
    /\ <>[][~Outage]_vars

FairSpec == Spec /\ Fairness

\* Every message whose Append returned nil reaches Redis.
Drained == Queue!Drained
=============================================================================
