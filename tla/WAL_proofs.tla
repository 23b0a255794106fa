----------------------------- MODULE WAL_proofs -----------------------------
(***************************************************************************)
(* Proofs about the write-ahead log, for every set of messages, every      *)
(* limit and every number of crashes.                                      *)
(***************************************************************************)
EXTENDS WAL, DataLemmas

-----------------------------------------------------------------------------
(* Lines.                                                                  *)

\* The line Append writes, whole or torn, is a line.
LEMMA LineTypes ==
    ASSUME NEW m \in Msg
    PROVE  /\ EntryLine(m) \in Line
           /\ \A k \in 1..(Size[m] - 1) : TornLine(m, k) \in Line
BY WALAssumption DEF EntryLine, TornLine, Line

\* A file stays a sequence of lines when Append writes behind its last byte.
LEMMA WriteLineType ==
    ASSUME NEW f \in Seq(Line), NEW l \in Line
    PROVE  WriteLine(f, l) \in Seq(Line)
<1>1. CASE f = <<>> \/ f[Len(f)].nl
  BY <1>1 DEF WriteLine
<1>2. CASE ~(f = <<>> \/ f[Len(f)].nl)
  <2> DEFINE merged == [entry |-> Corrupt, holds |-> f[Len(f)].holds \cup l.holds,
                        nl |-> l.nl, size |-> f[Len(f)].size + l.size]
  <2>1. Len(f) \in 1..Len(f)
    BY <1>2
  <2>2. f[Len(f)] \in Line
    BY <2>1
  <2>3. merged \in Line
    BY <2>2 DEF Line
  <2>4. WriteLine(f, l) = [f EXCEPT ![Len(f)] = merged]
    BY <1>2 DEF WriteLine
  <2> QED BY <2>1, <2>3, <2>4
<1> QED BY <1>1, <1>2

\* What rewrite stores for a line is a line.
LEMMA RewrittenType ==
    ASSUME NEW l \in Line
    PROVE  Rewritten(l) \in Line
BY DEF Rewritten, Line

-----------------------------------------------------------------------------
(* Types.                                                                 *)

\* A new log has the types of TypeOK.
LEMMA TypeInit == Init => TypeOK
<1>1. 0 \in 0..MaxCrashes /\ 1 \in Nat \ {0} /\ 0 \in 0..ReplayBatch /\ 0 \in Int
  BY WALAssumption
<1>2. <<>> \in Seq(Line) /\ {} \subseteq Msg
  OBVIOUS
<1> QED BY <1>1, <1>2 DEF Init, TypeOK

\* Every step of Append, Replay, a crash or New keeps the types.
LEMMA TypeStep == TypeOK /\ [Next]_vars => TypeOK'
<1> SUFFICES ASSUME TypeOK, [Next]_vars PROVE TypeOK'
  OBVIOUS
<1> USE WALAssumption DEF TypeOK, logVars, replayVars
<1>1. ASSUME NEW m \in Msg, AppendRefused(m) PROVE TypeOK'
  BY <1>1 DEF AppendRefused
<1>2. ASSUME NEW m \in Msg, AppendFails(m) PROVE TypeOK'
  BY <1>2 DEF AppendFails
<1>3. ASSUME NEW m \in Msg, AppendTorn(m) PROVE TypeOK'
  <2>1. file' \in Seq(Line)
    BY <1>3, LineTypes, WriteLineType DEF AppendTorn
  <2> QED BY <1>3, <2>1 DEF AppendTorn
<1>4. ASSUME NEW m \in Msg, AppendWrites(m) PROVE TypeOK'
  <2>1. file' \in Seq(Line)
    BY <1>4, LineTypes, WriteLineType DEF AppendWrites
  <2> QED BY <1>4, <2>1 DEF AppendWrites
<1>5. ASSUME NEW m \in Msg, AppendReturns(m) PROVE TypeOK'
  BY <1>5 DEF AppendReturns
<1>6. CASE ReplayBegins
  BY <1>6 DEF ReplayBegins
<1>7. ASSUME Scanning, Keep PROVE remaining' \in Seq(Line) /\ pos' \in Nat \ {0}
  BY <1>7, RewrittenType DEF Scanning, Keep
<1>8. CASE ReplayKeeps
  BY <1>7, <1>8 DEF ReplayKeeps
<1>9. ASSUME NEW m \in Msg, ReplayPublishes(m) PROVE TypeOK'
  BY <1>9 DEF ReplayPublishes, Publishing, BatchDone
<1>10. ASSUME NEW m \in Msg, ReplayPublishFails(m) PROVE TypeOK'
  BY <1>7, <1>10 DEF ReplayPublishFails, Publishing
<1>11. CASE ReplayScanFails
  BY <1>11 DEF ReplayScanFails, Unlock
<1>12. CASE ReplayScanned
  BY <1>12 DEF ReplayScanned, Unlock
<1>13. CASE WriteTmp
  BY <1>13 DEF WriteTmp
<1>14. CASE RewriteFails
  BY <1>14 DEF RewriteFails, Unlock
<1>15. CASE Rename
  BY <1>15 DEF Rename
<1>16. CASE ReplayReturns
  BY <1>16 DEF ReplayReturns, Unlock
<1>17. CASE Crash
  <2>1. crashes' \in 0..MaxCrashes
    BY <1>17 DEF Crash
  <2>2. call' \in [Msg -> {"new", "written", "ok", "full", "failed"}]
    BY <1>17 DEF Crash
  <2> QED BY <1>17, <2>1, <2>2 DEF Crash, Unlock
<1>18. CASE New
  BY <1>18 DEF New
<1>19. CASE UNCHANGED vars
  BY <1>19 DEF vars
<1> QED
  BY <1>1, <1>2, <1>3, <1>4, <1>5, <1>6, <1>8, <1>9, <1>10, <1>11, <1>12, <1>13,
     <1>14, <1>15, <1>16, <1>17, <1>18, <1>19 DEF Next, Replay, NewFails

(* The log's variables keep their types: the file is a sequence of lines,  *)
(* whatever tears, merges, rewrites and crashes do to it.                  *)
THEOREM TypeCorrect == Spec => []TypeOK
BY TypeInit, TypeStep, PTL DEF Spec

-----------------------------------------------------------------------------
(* The inductive invariant behind the safety properties.  Its parts about  *)
(* the file hold when no write is torn.                                    *)

\* l.mu is held by the one Append that has written, or by Replay.
LockInv ==
    /\ rpc # "idle" <=> mu = "replay"
    /\ \A m \in Msg : call[m] = "written" => mu = "append"
    /\ \A m, n \in Msg : call[m] = "written" /\ call[n] = "written" => m = n
    /\ mu = "append" => \E m \in Msg : call[m] = "written"
    /\ ~up => mu = "free"

CleanInv ==
    \A i \in 1..Len(file) : file[i].nl /\ file[i].entry \in Msg

\* What Append has written is in Redis or in the file.
StoredInv ==
    \A m \in Msg : call[m] \in {"written", "ok"} =>
        m \in delivered \/ \E i \in 1..Len(file) : file[i].entry = m

\* Up to pos the file is its delivered prefix followed by the kept lines.
ScanInv ==
    rpc \in {"scan", "rewrite", "rename"} =>
        /\ pos <= Len(file) + 1
        /\ rpc # "scan" => pos = Len(file) + 1
        /\ replayed + Len(remaining) = pos - 1
        /\ \A i \in 1..replayed : file[i].entry \in delivered
        /\ \A j \in 1..Len(remaining) : remaining[j] = file[replayed + j]
        /\ processing => Len(remaining) = 0

DepthInv ==
    up => depth = CASE mu = "append" -> Len(file) - 1
                    [] rpc = "return" -> Len(file) + replayed
                    [] OTHER -> Len(file)

IInv == TypeOK /\ LockInv /\ CleanInv /\ StoredInv /\ ScanInv /\ DepthInv

\* rewrite stores a terminated line as it is.
LEMMA CleanRewritten ==
    ASSUME NEW l \in Line, l.nl
    PROVE  Rewritten(l) = l
BY DEF Rewritten, Line

\* Without torn writes an Append adds a line of its own.
LEMMA CleanWrite ==
    ASSUME TypeOK, CleanInv, NEW m \in Msg
    PROVE  WriteLine(file, EntryLine(m)) = Append(file, EntryLine(m))
<1>1. CASE file = <<>>
  BY <1>1 DEF WriteLine
<1>2. CASE file # <<>>
  <2>1. Len(file) \in 1..Len(file)
    BY <1>2 DEF TypeOK
  <2> QED BY <2>1 DEF CleanInv, WriteLine
<1> QED BY <1>1, <1>2

\* Without torn writes Replay keeps a line as it is.
LEMMA CleanKeep ==
    ASSUME TypeOK, CleanInv, Scanning, Keep
    PROVE  remaining' = Append(remaining, file[pos])
<1>1. pos \in 1..Len(file)
  BY DEF Scanning, TypeOK
<1>2. file[pos] \in Line /\ file[pos].nl
  BY <1>1 DEF TypeOK, CleanInv
<1> QED BY <1>2, CleanRewritten DEF Keep

\* IInv is inductive when no write is torn.
THEOREM Inductive ==
    ASSUME TornWrites = FALSE
    PROVE  Spec => []IInv
<1>1. Init => IInv
  <2> SUFFICES ASSUME Init PROVE IInv
    OBVIOUS
  <2>1. TypeOK
    BY TypeInit
  <2>2. Len(file) = 0
    BY DEF Init
  <2> QED BY <2>1, <2>2 DEF Init, IInv, LockInv, CleanInv, StoredInv, ScanInv, DepthInv
<1>2. IInv /\ [Next]_vars => IInv'
  <2> SUFFICES ASSUME IInv, [Next]_vars PROVE IInv'
    OBVIOUS
  <2>0. TypeOK /\ TypeOK'
    BY TypeStep DEF IInv
  <2> USE <2>0 DEF logVars, replayVars
  <2>1. ASSUME NEW m \in Msg, AppendRefused(m) \/ AppendFails(m) PROVE IInv'
    <3>1. UNCHANGED <<logVars, mu, up, crashes, replayVars, delivered>>
      BY <2>1 DEF AppendRefused, AppendFails
    <3>2. \A n \in Msg : /\ call'[n] \in {"written", "ok"} => call[n] \in {"written", "ok"}
                         /\ call'[n] = "written" <=> call[n] = "written"
      BY <2>1 DEF AppendRefused, AppendFails, AppendBegins, TypeOK
    <3>3. CleanInv' /\ ScanInv' /\ DepthInv'
      BY <3>1 DEF IInv, CleanInv, ScanInv, DepthInv
    <3>4. LockInv'
      BY <3>1, <3>2 DEF IInv, LockInv
    <3>5. StoredInv'
      BY <3>1, <3>2 DEF IInv, StoredInv
    <3> QED BY <3>3, <3>4, <3>5 DEF IInv
  <2>2. ASSUME NEW m \in Msg, AppendWrites(m) PROVE IInv'
    <3>1. file' = Append(file, EntryLine(m))
      BY <2>2, CleanWrite DEF AppendWrites, IInv
    <3>2. /\ Len(file') = Len(file) + 1
          /\ \A i \in 1..Len(file) : file'[i] = file[i]
          /\ file'[Len(file')] = EntryLine(m)
      BY <3>1, LineTypes DEF TypeOK
    <3>3. EntryLine(m).nl /\ EntryLine(m).entry = m
      BY DEF EntryLine
    <3>4. LockInv' /\ ScanInv' /\ DepthInv'
      BY <2>2, <3>2 DEF AppendWrites, AppendBegins, IInv, TypeOK, LockInv, ScanInv, DepthInv
    <3>5. CleanInv'
      <4> SUFFICES ASSUME NEW i \in 1..Len(file')
                   PROVE  file'[i].nl /\ file'[i].entry \in Msg
        BY DEF CleanInv
      <4>1. CASE i = Len(file')
        BY <4>1, <3>2, <3>3
      <4>2. CASE i # Len(file')
        <5>1. i \in 1..Len(file)
          BY <4>2, <3>2 DEF TypeOK
        <5>2. file'[i] = file[i]
          BY <5>1, <3>2
        <5> QED BY <5>1, <5>2 DEF IInv, CleanInv
      <4> QED BY <4>1, <4>2
    <3>6. StoredInv'
      <4> SUFFICES ASSUME NEW n \in Msg, call'[n] \in {"written", "ok"}
                   PROVE  n \in delivered' \/ \E i \in 1..Len(file') : file'[i].entry = n
        BY DEF StoredInv
      <4>1. CASE n = m
        <5>1. Len(file') \in 1..Len(file')
          BY <3>2 DEF TypeOK
        <5> QED BY <4>1, <5>1, <3>2, <3>3
      <4>2. CASE n # m
        <5>1. call[n] \in {"written", "ok"}
          BY <4>2, <2>2 DEF AppendWrites, TypeOK
        <5> QED BY <5>1, <2>2, <3>2 DEF AppendWrites, IInv, StoredInv, TypeOK
      <4> QED BY <4>1, <4>2
    <3> QED BY <3>4, <3>5, <3>6 DEF IInv
  <2>3. ASSUME NEW m \in Msg, AppendReturns(m) PROVE IInv'
    <3>1. mu = "append" /\ rpc = "idle"
      BY <2>3 DEF AppendReturns, IInv, LockInv
    <3> QED BY <2>3, <3>1 DEF AppendReturns, IInv, TypeOK,
                LockInv, CleanInv, StoredInv, ScanInv, DepthInv
  <2>4. CASE ReplayBegins
    <3>1. rpc = "idle"
      BY <2>4 DEF ReplayBegins, IInv, LockInv
    <3>2. Len(remaining') = 0
      BY <2>4 DEF ReplayBegins
    <3> QED BY <2>4, <3>1, <3>2 DEF ReplayBegins, IInv, TypeOK,
                LockInv, CleanInv, StoredInv, ScanInv, DepthInv
  <2>5. ASSUME Scanning, Keep, replayed' = replayed, rpc' = rpc, file' = file,
               delivered \subseteq delivered', ~processing'
        PROVE  ScanInv'
    <3>1. remaining' = Append(remaining, file[pos]) /\ pos \in 1..Len(file)
      BY <2>5, CleanKeep DEF Scanning, IInv, TypeOK
    <3>2. /\ Len(remaining') = Len(remaining) + 1
          /\ \A j \in 1..Len(remaining) : remaining'[j] = remaining[j]
          /\ remaining'[Len(remaining')] = file[pos]
      BY <3>1 DEF TypeOK
    <3>3. rpc = "scan" /\ pos' = pos + 1
      BY <2>5 DEF Scanning, Keep
    <3>4. \A j \in 1..Len(remaining') : remaining'[j] = file'[replayed' + j]
      <4> SUFFICES ASSUME NEW j \in 1..Len(remaining')
                   PROVE  remaining'[j] = file[replayed + j]
        BY <2>5
      <4>1. CASE j = Len(remaining')
        <5>1. replayed + j = pos
          BY <4>1, <3>2, <3>3 DEF IInv, ScanInv, TypeOK
        <5> QED BY <5>1, <4>1, <3>2
      <4>2. CASE j # Len(remaining')
        <5>1. j \in 1..Len(remaining)
          BY <4>2, <3>2 DEF TypeOK
        <5> QED BY <5>1, <3>2, <3>3 DEF IInv, ScanInv
      <4> QED BY <4>1, <4>2
    <3>5. pos \in 1..Len(file) /\ replayed + Len(remaining) = pos - 1
          /\ replayed \in Nat /\ Len(remaining) \in Nat /\ Len(file) \in Nat
      <4>1. replayed \in Nat /\ Len(remaining) \in Nat /\ Len(file) \in Nat
        BY WALAssumption DEF TypeOK
      <4>2. replayed + Len(remaining) = pos - 1
        BY <3>3 DEF IInv, ScanInv
      <4> QED BY <3>1, <4>1, <4>2
    <3>6. pos' <= Len(file) + 1 /\ replayed + Len(remaining') = pos' - 1
      BY <3>2, <3>3, <3>5
    <3>7. \A i \in 1..replayed : file[i].entry \in delivered'
      BY <2>5, <3>3 DEF IInv, ScanInv
    <3> QED BY <2>5, <3>3, <3>4, <3>6, <3>7 DEF ScanInv
  <2>6. CASE ReplayKeeps
    <3>1. rpc = "scan" /\ pos \in 1..Len(file)
      BY <2>6 DEF ReplayKeeps, Scanning, TypeOK
    <3>2. ~processing'
      <4>1. file[pos].entry # Corrupt
        BY <3>1, WALAssumption DEF IInv, CleanInv
      <4> QED BY <2>6, <4>1 DEF ReplayKeeps
    <3>3. ScanInv'
      BY <2>5, <2>6, <3>2 DEF ReplayKeeps
    <3> QED BY <2>6, <3>3 DEF ReplayKeeps, IInv, LockInv, CleanInv, StoredInv, DepthInv
  <2>7. ASSUME NEW m \in Msg, ReplayPublishes(m) PROVE IInv'
    <3>1. rpc = "scan" /\ pos \in 1..Len(file) /\ processing /\ file[pos].entry = m
      BY <2>7 DEF ReplayPublishes, Publishing, Scanning, TypeOK
    <3>2. replayed = pos - 1 /\ Len(remaining) = 0
      BY <3>1 DEF IInv, ScanInv, TypeOK
    <3>3. ScanInv'
      BY <2>7, <3>1, <3>2 DEF ReplayPublishes, IInv, ScanInv, TypeOK
    <3> QED BY <2>7, <3>1, <3>3 DEF ReplayPublishes, IInv, LockInv, CleanInv, StoredInv, DepthInv
  <2>8. ASSUME NEW m \in Msg, ReplayPublishFails(m) PROVE IInv'
    <3>1. delivered \subseteq delivered'
      BY <2>8 DEF ReplayPublishFails
    <3>2. ScanInv'
      BY <2>5, <2>8, <3>1 DEF ReplayPublishFails, Publishing
    <3>3. LockInv' /\ CleanInv' /\ DepthInv'
      BY <2>8 DEF ReplayPublishFails, IInv, LockInv, CleanInv, DepthInv
    <3>4. StoredInv'
      BY <2>8, <3>1 DEF ReplayPublishFails, IInv, StoredInv
    <3> QED BY <3>2, <3>3, <3>4 DEF IInv
  <2>9. CASE ReplayScanFails \/ RewriteFails
    BY <2>9 DEF ReplayScanFails, RewriteFails, Unlock, IInv, TypeOK,
                LockInv, CleanInv, StoredInv, ScanInv, DepthInv
  <2>10. CASE ReplayScanned
    BY <2>10 DEF ReplayScanned, Unlock, IInv, TypeOK,
                LockInv, CleanInv, StoredInv, ScanInv, DepthInv
  <2>11. CASE WriteTmp
    BY <2>11 DEF WriteTmp, IInv, TypeOK, LockInv, CleanInv, StoredInv, ScanInv, DepthInv
  <2>12. CASE Rename
    <3>1. /\ pos = Len(file) + 1
          /\ Len(file) = replayed + Len(remaining)
          /\ \A j \in 1..Len(remaining) : remaining[j] = file[replayed + j]
          /\ \A i \in 1..replayed : file[i].entry \in delivered
      BY <2>12 DEF Rename, IInv, ScanInv, TypeOK
    <3>2. CleanInv'
      <4> SUFFICES ASSUME NEW j \in 1..Len(remaining)
                   PROVE  remaining[j].nl /\ remaining[j].entry \in Msg
        BY <2>12 DEF Rename, CleanInv
      <4>1. replayed + j \in 1..Len(file)
        BY <3>1 DEF TypeOK
      <4> QED BY <3>1, <4>1 DEF IInv, CleanInv
    <3>3. StoredInv'
      <4> SUFFICES ASSUME NEW n \in Msg, call'[n] \in {"written", "ok"}, n \notin delivered'
                   PROVE  \E i \in 1..Len(file') : file'[i].entry = n
        BY DEF StoredInv
      <4>1. PICK i \in 1..Len(file) : file[i].entry = n
        BY <2>12 DEF Rename, IInv, StoredInv
      <4>2. i > replayed
        <5>1. i \in Nat /\ i >= 1 /\ replayed \in Nat
          BY <4>1 DEF TypeOK
        <5>2. i \notin 1..replayed
          BY <2>12, <3>1, <4>1 DEF Rename
        <5> QED BY <5>1, <5>2
      <4>3. i - replayed \in 1..Len(remaining) /\ i = replayed + (i - replayed)
        <5>1. /\ i \in Nat /\ i <= Len(file) /\ replayed \in Nat
              /\ Len(remaining) \in Nat /\ Len(file) \in Nat
          BY <4>1, WALAssumption DEF TypeOK
        <5> QED BY <3>1, <4>2, <5>1
      <4>4. remaining[i - replayed] = file[i]
        BY <3>1, <4>3
      <4> QED BY <2>12, <4>1, <4>3, <4>4 DEF Rename
    <3>4. LockInv' /\ ScanInv'
      BY <2>12 DEF Rename, IInv, LockInv, ScanInv
    <3>5. DepthInv'
      BY <2>12, <3>1 DEF Rename, IInv, LockInv, DepthInv, TypeOK
    <3> QED BY <3>2, <3>3, <3>4, <3>5 DEF IInv
  <2>13. CASE ReplayReturns
    BY <2>13 DEF ReplayReturns, Unlock, IInv, TypeOK,
                LockInv, CleanInv, StoredInv, ScanInv, DepthInv
  <2>14. CASE Crash
    <3>1. \A n \in Msg : /\ call'[n] # "written"
                         /\ call'[n] = "ok" => call[n] = "ok"
      BY <2>14 DEF Crash
    <3> QED BY <2>14, <3>1 DEF Crash, Unlock, IInv, TypeOK,
                LockInv, CleanInv, StoredInv, ScanInv, DepthInv
  <2>15. CASE New
    BY <2>15 DEF New, IInv, TypeOK, LockInv, CleanInv, StoredInv, ScanInv, DepthInv
  <2>16. CASE UNCHANGED vars
    BY <2>16 DEF vars, IInv, LockInv, CleanInv, StoredInv, ScanInv, DepthInv
  <2> QED
    BY <2>1, <2>2, <2>3, <2>4, <2>6, <2>7, <2>8, <2>9, <2>10, <2>11, <2>12, <2>13,
       <2>14, <2>15, <2>16 DEF Next, Replay, NewFails, AppendTorn
<1> QED BY <1>1, <1>2, PTL DEF Spec

-----------------------------------------------------------------------------
(* When no write is torn, a message whose Append returned nil is in Redis  *)
(* or on a line that Replay can publish, across failed publishes, failed   *)
(* rewrites and crashes at any step of Replay.                             *)
THEOREM AtLeastOnceHolds ==
    ASSUME TornWrites = FALSE
    PROVE  Spec => []AtLeastOnce
<1>1. IInv => AtLeastOnce
  <2> SUFFICES ASSUME IInv, NEW m \in Acked, m \notin delivered
               PROVE  m \in Entries(file)
    BY DEF AtLeastOnce
  <2>1. m \in Msg /\ call[m] = "ok"
    BY DEF Acked
  <2>2. PICK i \in 1..Len(file) : file[i].entry = m
    BY <2>1 DEF IInv, StoredInv
  <2>3. i \in DOMAIN file
    BY <2>2 DEF IInv, TypeOK
  <2> QED BY <2>1, <2>2, <2>3, WALAssumption DEF Entries
<1> QED BY <1>1, Inductive, PTL

(* When no write is torn, the atomic counter read without the lock agrees  *)
(* with the file whenever the lock is free.                                *)
THEOREM DepthExactHolds ==
    ASSUME TornWrites = FALSE
    PROVE  Spec => []DepthExact
<1>1. IInv => DepthExact
  BY DEF IInv, LockInv, DepthInv, DepthExact
<1> QED BY <1>1, Inductive, PTL

(* When no write is torn, the file never has more lines than the entry     *)
(* limit, although Append compares the limit with the counter only.        *)
THEOREM EntriesBoundedHolds ==
    ASSUME TornWrites = FALSE
    PROVE  Spec => []EntriesBounded
<1>1. Init => EntriesBounded
  BY WALAssumption DEF Init, EntriesBounded
<1>2. IInv /\ EntriesBounded /\ [Next]_vars => EntriesBounded'
  <2> SUFFICES ASSUME IInv, EntriesBounded, [Next]_vars, MaxEntries > 0
               PROVE  Len(file') <= MaxEntries
    BY DEF EntriesBounded
  <2> USE DEF logVars, replayVars
  <2>1. ASSUME NEW m \in Msg, AppendWrites(m) PROVE Len(file') <= MaxEntries
    <3>1. file' = Append(file, EntryLine(m))
      BY <2>1, CleanWrite DEF AppendWrites, IInv
    <3>2. Len(file') = Len(file) + 1
      BY <3>1, LineTypes DEF IInv, TypeOK
    <3>3. depth = Len(file)
      BY <2>1 DEF AppendWrites, AppendBegins, IInv, LockInv, DepthInv
    <3>4. depth < MaxEntries
      BY <2>1, WALAssumption DEF AppendWrites, EntryLimit, IInv, TypeOK
    <3> QED BY <3>2, <3>3, <3>4, WALAssumption DEF IInv, TypeOK
  <2>2. CASE Rename
    BY <2>2, WALAssumption DEF Rename, IInv, ScanInv, TypeOK, EntriesBounded
  <2>3. CASE file' = file
    BY <2>3 DEF EntriesBounded
  <2> QED
    BY <2>1, <2>2, <2>3 DEF Next, Replay, NewFails, vars, AppendRefused, AppendFails, AppendTorn,
       AppendReturns, ReplayBegins, ReplayKeeps, ReplayPublishes, ReplayPublishFails,
       ReplayScanFails, ReplayScanned, WriteTmp, RewriteFails, ReplayReturns, Crash, New
<1> QED BY <1>1, <1>2, Inductive, PTL DEF Spec

-----------------------------------------------------------------------------
(* When no write is torn, the log implements the durable queue: every step *)
(* of Append, Replay, rewrite, a crash and New is a step of the queue or   *)
(* leaves it alone.                                                        *)
THEOREM Refinement ==
    ASSUME TornWrites = FALSE
    PROVE  Spec => IsDurableQueue
<1> DEFINE q == [i \in DOMAIN file |-> file[i].entry]
<1>1. Init => Queue!Init
  BY DEF Init, Queue!Init, Acked
<1>2. IInv /\ IInv' /\ [Next]_vars => [Queue!Next]_(Queue!vars)
  <2> SUFFICES ASSUME IInv, IInv', [Next]_vars
               PROVE  Queue!Next \/ UNCHANGED Queue!vars
    OBVIOUS
  <2> USE DEF logVars, replayVars
  <2>0. /\ file \in Seq(Line) /\ file' \in Seq(Line)
        /\ DOMAIN file = 1..Len(file) /\ DOMAIN file' = 1..Len(file')
        /\ Len(q) = Len(file) /\ q \in Seq(Msg \cup {Corrupt})
    <3>1. /\ file \in Seq(Line) /\ file' \in Seq(Line)
          /\ DOMAIN file = 1..Len(file) /\ DOMAIN file' = 1..Len(file')
      BY DEF IInv, TypeOK
    <3>2. \A i \in DOMAIN file : file[i].entry \in Msg \cup {Corrupt}
      <4> SUFFICES ASSUME NEW i \in DOMAIN file PROVE file[i].entry \in Msg \cup {Corrupt}
        OBVIOUS
      <4>1. file[i] \in Line
        BY <3>1
      <4> QED BY <4>1 DEF Line
    <3>3. Len(file) \in Nat /\ q \in [1..Len(file) -> Msg \cup {Corrupt}]
      BY <3>1, <3>2
    <3> QED BY <3>1, <3>3
  <2>1. ASSUME file' = file, call' = call, delivered' = delivered PROVE UNCHANGED Queue!vars
    BY <2>1 DEF Queue!vars, Acked
  <2>2. ASSUME NEW m \in Msg, AppendRefused(m) \/ AppendFails(m) PROVE UNCHANGED Queue!vars
    <3>1. Acked' = Acked
      BY <2>2 DEF AppendRefused, AppendFails, AppendBegins, Acked, IInv, TypeOK
    <3> QED BY <2>2, <3>1 DEF AppendRefused, AppendFails, Queue!vars
  <2>3. ASSUME NEW m \in Msg, AppendWrites(m) PROVE Queue!Store(m)
    <3>1. file' = Append(file, EntryLine(m))
      BY <2>3, CleanWrite DEF AppendWrites, IInv
    <3>2. /\ Len(file') = Len(file) + 1
          /\ \A i \in 1..Len(file) : file'[i] = file[i]
          /\ file'[Len(file) + 1].entry = m
      BY <3>1, <2>0, LineTypes DEF EntryLine
    <3>3. q' = Append(q, m)
      BY <3>2, <2>0
    <3>4. Acked' = Acked
      BY <2>3 DEF AppendWrites, AppendBegins, Acked, IInv, TypeOK
    <3> QED BY <2>3, <3>3, <3>4 DEF Queue!Store, AppendWrites
  <2>4. ASSUME NEW m \in Msg, AppendReturns(m) PROVE Queue!Promise(m)
    <3>1. Acked' = Acked \cup {m}
      BY <2>4 DEF AppendReturns, Acked, IInv, TypeOK
    <3>2. m \in delivered \/ \E i \in DOMAIN file : file[i].entry = m
      BY <2>4, <2>0 DEF AppendReturns, IInv, StoredInv
    <3>3. m \in Queue!Stored \cup delivered
      BY <3>2 DEF Queue!Stored
    <3> QED BY <2>4, <3>1, <3>3 DEF AppendReturns, Queue!Promise
  <2>5. ASSUME NEW m \in Msg, Publishing(m), delivered' = delivered \cup {m},
               file' = file, call' = call
        PROVE  \E i \in 1..Len(q) : Queue!Deliver(i)
    <3>1. pos \in 1..Len(q) /\ file[pos].entry = m
      BY <2>5, <2>0 DEF Publishing, Scanning
    <3>2. \A j \in 1..(pos - 1) : q[j] \in delivered
      <4>1. replayed = pos - 1
        BY <2>5 DEF Publishing, Scanning, IInv, ScanInv, TypeOK
      <4>2. \A j \in 1..(pos - 1) : j \in DOMAIN file /\ file[j].entry \in delivered
        BY <3>1, <4>1, <2>5, <2>0 DEF Publishing, Scanning, IInv, ScanInv, TypeOK
      <4> QED BY <4>2
    <3>3. Acked' = Acked /\ q' = q /\ q[pos] = m
      BY <2>5, <3>1, <2>0 DEF Acked
    <3> QED BY <2>5, <3>1, <3>2, <3>3 DEF Queue!Deliver
  <2>6. ASSUME NEW m \in Msg, ReplayPublishes(m) PROVE \E i \in 1..Len(q) : Queue!Deliver(i)
    BY <2>5, <2>6 DEF ReplayPublishes
  <2>7. ASSUME NEW m \in Msg, ReplayPublishFails(m)
        PROVE  (\E i \in 1..Len(q) : Queue!Deliver(i)) \/ UNCHANGED Queue!vars
    BY <2>1, <2>5, <2>7 DEF ReplayPublishFails
  <2>8. ASSUME Rename
        PROVE  (\E i \in 1..Len(q) : Queue!Retire(i)) \/ UNCHANGED Queue!vars
    <3>1. /\ Len(file) = replayed + Len(remaining)
          /\ \A j \in 1..Len(remaining) : remaining[j] = file[replayed + j]
          /\ \A i \in 1..replayed : file[i].entry \in delivered
          /\ replayed \in Nat /\ Len(remaining) \in Nat /\ remaining \in Seq(Line)
      BY <2>8 DEF Rename, IInv, ScanInv, TypeOK
    <3>2. Acked' = Acked /\ file' = remaining /\ delivered' = delivered
      BY <2>8 DEF Rename, Acked
    <3>3. CASE replayed = 0
      <4>1. file' = file
        BY <3>1, <3>2, <3>3, <2>0
      <4> QED BY <2>1, <2>8, <4>1, <3>2 DEF Rename
    <3>4. CASE replayed # 0
      <4>1. replayed \in 1..Len(q)
        BY <3>1, <3>4, <2>0
      <4>2. \A j \in 1..replayed : q[j] \in delivered
        BY <3>1, <4>1, <2>0
      <4>3. q' = SubSeq(q, replayed + 1, Len(q))
        <5> DEFINE s == SubSeq(q, replayed + 1, Len(q))
                   r == [i \in DOMAIN remaining |-> remaining[i].entry]
                   n == Len(remaining)
        <5>1. n \in Nat /\ DOMAIN r = 1..n /\ r = [j \in 1..n |-> r[j]]
              /\ \A j \in 1..n : r[j] = remaining[j].entry
          BY <3>1
        <5>2. \A j \in 1..n : replayed + j \in 1..Len(q) /\ q[replayed + j] = remaining[j].entry
          BY <3>1, <2>0
        <5>3. Len(s) = n /\ s \in Seq(Msg \cup {Corrupt}) /\ \A j \in 1..n : s[j] = q[replayed + j]
          <6>1. q \in Seq(Msg \cup {Corrupt}) /\ Len(q) = replayed + n /\ replayed \in Nat /\ n \in Nat
            BY <3>1, <2>0
          <6> HIDE DEF q, n, r
          <6>2. Len(s) = n /\ \A j \in 1..n : s[j] = q[replayed + 1 + j - 1]
            BY <6>1
          <6>3. \A j \in 1..n : replayed + 1 + j - 1 = replayed + j
            BY <6>1
          <6>4. s \in Seq(Msg \cup {Corrupt})
            BY <6>1
          <6> QED BY <6>2, <6>3, <6>4
        <5> HIDE DEF s, r, n
        <5>4. s = [j \in 1..n |-> s[j]]
          BY <5>3
        <5>5. r = s
          BY <5>1, <5>2, <5>3, <5>4
        <5> QED BY <3>2, <5>5 DEF s, r
      <4> QED BY <3>2, <4>1, <4>2, <4>3 DEF Queue!Retire
    <3> QED BY <3>3, <3>4
  <2>9. CASE Crash
    <3>1. Acked' = Acked
      BY <2>9 DEF Crash, Acked, IInv, TypeOK
    <3> QED BY <2>9, <3>1 DEF Crash, Queue!vars
  <2>10. CASE ReplayBegins \/ ReplayKeeps \/ ReplayScanFails \/ ReplayScanned \/ WriteTmp
            \/ RewriteFails \/ ReplayReturns \/ New \/ NewFails \/ UNCHANGED vars
    BY <2>1, <2>10 DEF ReplayBegins, ReplayKeeps, ReplayScanFails, ReplayScanned, WriteTmp,
       RewriteFails, ReplayReturns, New, NewFails, vars
  <2> QED
    BY <2>2, <2>3, <2>4, <2>6, <2>7, <2>8, <2>9, <2>10
       DEF Next, Replay, AppendTorn, Queue!Next
<1> QED BY <1>1, <1>2, Inductive, PTL DEF Spec, IsDurableQueue, Queue!Spec

-----------------------------------------------------------------------------
(* Behind torn writes.  What follows holds whether or not writes are torn. *)

\* A line that decodes holds the text of its entry and no other.
Decodes(f) == \A i \in 1..Len(f) : f[i].entry # Corrupt => f[i].holds = {f[i].entry}

\* What Append has written is in Redis or on the disk, and what Replay has
\* scanned is in Redis or kept.
HoldInv ==
    /\ Decodes(file) /\ Decodes(remaining)
    /\ \A m \in Msg : call[m] \in {"written", "ok"} => m \in delivered \cup Holds(file)
    /\ rpc \in {"scan", "rewrite", "rename"} =>
        /\ pos <= Len(file) + 1
        /\ rpc # "scan" => pos = Len(file) + 1
        /\ \A i \in 1..(pos - 1) : file[i].holds \subseteq delivered \cup Holds(remaining)

\* The newline that rewrite adds to an unterminated last line.
Gap(f) == IF f = <<>> \/ f[Len(f)].nl THEN 0 ELSE 1

\* Only the last line may lack its newline, there is room for that newline, and
\* Replay keeps no more than it has scanned.
SizeInv ==
    /\ \A i \in 1..(Len(file) - 1) : file[i].nl
    /\ MaxBytes > 0 => fileSizeLocked(file) + Gap(file) <= MaxBytes
    /\ rpc \in {"scan", "rewrite", "rename"} =>
        /\ \A i \in 1..Len(remaining) : remaining[i].nl
        /\ fileSizeLocked(remaining) <=
              Bytes(file)[pos - 1] + (IF pos = Len(file) + 1 THEN Gap(file) ELSE 0)

TornInv == LockInv /\ HoldInv /\ SizeInv

\* The sizes of a file add up line by line.
LEMMA BytesUnfold ==
    ASSUME NEW f \in Seq(Line)
    PROVE  /\ Bytes(f) \in [0..Len(f) -> Nat] /\ Bytes(f)[0] = 0
           /\ \A n \in 1..Len(f) : Bytes(f)[n] = Bytes(f)[n - 1] + f[n].size
<1> DEFINE N == Len(f)
           Step(g, n) == IF n = 0 THEN 0 ELSE g[n - 1] + f[n].size
           Good(m) == {g \in [0..m -> Nat] : \A n \in 0..m : g[n] = Step(g, n)}
           sum == CHOOSE g : g = [n \in 0..N |-> Step(g, n)]
<1>1. N \in Nat /\ \A n \in 1..N : f[n] \in Line /\ f[n].size \in Nat
  <2>1. N \in Nat /\ \A n \in 1..N : f[n] \in Line
    OBVIOUS
  <2> QED BY <2>1 DEF Line
<1>2. \A m \in 0..N : Good(m) # {}
  <2> DEFINE M == {m \in Nat : Good(m) # {}}
  <2>1. 0 \in M
    <3>1. [n \in 0..0 |-> 0] \in Good(0)
      OBVIOUS
    <3> QED BY <3>1
  <2>2. ASSUME NEW m \in 0..N, m \in M, m < N PROVE m + 1 \in M
    <3>1. PICK g \in Good(m) : TRUE
      BY <2>2
    <3>a. g \in [0..m -> Nat] /\ \A n \in 0..m : g[n] = Step(g, n)
      BY <3>1
    <3>b. m \in 0..m
      BY <1>1
    <3>2. g \in [0..m -> Nat] /\ g[m] \in Nat /\ \A n \in 0..m : g[n] = Step(g, n)
      <4> HIDE DEF Step, N
      <4> QED BY <3>a, <3>b
    <3> DEFINE h == [n \in 0..(m + 1) |-> IF n = m + 1 THEN g[m] + f[m + 1].size ELSE g[n]]
    <3>3. m + 1 \in 1..N /\ m + 1 \in Nat
      BY <1>1, <2>2
    <3>4. h \in [0..(m + 1) -> Nat]
      BY <1>1, <3>2, <3>3
    <3>5. ASSUME NEW n \in 0..(m + 1) PROVE h[n] = Step(h, n)
      <4>1. CASE n = m + 1
        BY <3>2, <4>1
      <4>2. CASE n # m + 1 /\ n = 0
        BY <3>2, <4>2
      <4>3. CASE n # m + 1 /\ n # 0
        <5>1. n \in 0..m /\ n - 1 \in 0..(m + 1) /\ n - 1 # m + 1
          BY <1>1, <4>3
        <5>2. h[n] = g[n] /\ h[n - 1] = g[n - 1]
          BY <4>3, <5>1
        <5> QED BY <3>2, <5>1, <5>2, <4>3
      <4> QED BY <4>1, <4>2, <4>3
    <3>6. h \in Good(m + 1)
      BY <3>4, <3>5
    <3> QED BY <3>3, <3>6
  <2> HIDE DEF M, N
  <2>3. 0..N \subseteq M
    BY <1>1, <2>1, <2>2, Induction
  <2> QED BY <2>3 DEF M
<1>3. PICK g \in Good(N) : TRUE
  <2>1. N \in 0..N
    BY <1>1
  <2> HIDE DEF Good, N
  <2> QED BY <1>2, <2>1
<1>4. g = [n \in 0..N |-> Step(g, n)]
  BY <1>3
<1>5. sum = [n \in 0..N |-> Step(sum, n)]
  BY <1>4
<1>6. Bytes(f) = sum
  BY DEF Bytes
<1> HIDE DEF sum
<1>7. sum[0] = 0
  <2>1. 0 \in 0..N
    BY <1>1
  <2> QED BY <1>5, <2>1
<1>8. ASSUME NEW n \in 1..N PROVE sum[n] = sum[n - 1] + f[n].size
  <2>1. n \in 0..N /\ n # 0
    BY <1>1
  <2> QED BY <1>5, <2>1
<1>9. \A n \in 0..N : sum[n] \in Nat
  <2> DEFINE Q == {n \in Nat : sum[n] \in Nat}
  <2>1. 0 \in Q
    BY <1>7
  <2>2. ASSUME NEW n \in 0..N, n \in Q, n < N PROVE n + 1 \in Q
    <3>1. n + 1 \in 1..N /\ (n + 1) - 1 = n /\ n + 1 \in Nat
      BY <1>1, <2>2
    <3>2. sum[n + 1] = sum[n] + f[n + 1].size /\ f[n + 1].size \in Nat
      BY <1>1, <1>8, <3>1
    <3> QED BY <2>2, <3>1, <3>2
  <2> HIDE DEF Q, N
  <2>3. 0..N \subseteq Q
    BY <1>1, <2>1, <2>2, Induction
  <2> QED BY <2>3 DEF Q
<1>10. sum \in [0..N -> Nat]
  BY <1>5, <1>9
<1> QED BY <1>6, <1>7, <1>8, <1>10

\* Files with the same first lines have the same first sizes.
LEMMA BytesAgree ==
    ASSUME NEW f \in Seq(Line), NEW g \in Seq(Line), NEW n \in Nat, n <= Len(f), n <= Len(g),
           \A i \in 1..n : f[i] = g[i]
    PROVE  Bytes(f)[n] = Bytes(g)[n]
<1> DEFINE Q == {k \in Nat : Bytes(f)[k] = Bytes(g)[k]}
<1>1. Len(f) \in Nat /\ Len(g) \in Nat
  OBVIOUS
<1>2. 0 \in Q
  BY BytesUnfold
<1>3. ASSUME NEW k \in 0..n, k \in Q, k < n PROVE k + 1 \in Q
  <2>1. k + 1 \in 1..Len(f) /\ k + 1 \in 1..Len(g) /\ k + 1 \in 1..n /\ k + 1 \in Nat /\ (k + 1) - 1 = k
    BY <1>1, <1>3
  <2>2. Bytes(f)[k + 1] = Bytes(f)[k] + f[k + 1].size /\ Bytes(g)[k + 1] = Bytes(g)[k] + g[k + 1].size
    BY <2>1, BytesUnfold
  <2> QED BY <1>3, <2>1, <2>2
<1> HIDE DEF Q
<1>4. 0..n \subseteq Q
  BY <1>2, <1>3, Induction
<1> QED BY <1>4 DEF Q

\* A line behind the others adds its size.
LEMMA BytesAppend ==
    ASSUME NEW f \in Seq(Line), NEW l \in Line
    PROVE  /\ fileSizeLocked(Append(f, l)) = fileSizeLocked(f) + l.size
           /\ fileSizeLocked(f) \in Nat
<1> DEFINE g == Append(f, l)
<1>1. g \in Seq(Line) /\ Len(g) = Len(f) + 1 /\ Len(f) \in Nat
      /\ (\A i \in 1..Len(f) : g[i] = f[i]) /\ g[Len(f) + 1] = l
  BY AppendFacts
<1> HIDE DEF g
<1>2. Bytes(g)[Len(f)] = Bytes(f)[Len(f)]
  <2>1. Len(f) <= Len(f) /\ Len(f) <= Len(g)
    BY <1>1
  <2> QED BY <1>1, <2>1, BytesAgree
<1>3. Len(f) + 1 \in 1..Len(g) /\ (Len(f) + 1) - 1 = Len(f) /\ Len(f) \in 0..Len(f)
  BY <1>1
<1>4. Bytes(g)[Len(f) + 1] = Bytes(g)[Len(f)] + l.size
  BY <1>1, <1>3, BytesUnfold
<1>5. Bytes(f)[Len(f)] \in Nat
  BY <1>3, BytesUnfold
<1> QED BY <1>1, <1>2, <1>4, <1>5 DEF fileSizeLocked, g

\* A write behind the last byte adds what it writes, and its end is the file's.
LEMMA WriteBytes ==
    ASSUME NEW f \in Seq(Line), NEW l \in Line, \A i \in 1..(Len(f) - 1) : f[i].nl
    PROVE  LET g == WriteLine(f, l) IN
           /\ g \in Seq(Line) /\ g # <<>> /\ Len(g) \in Nat
           /\ fileSizeLocked(g) = fileSizeLocked(f) + l.size /\ fileSizeLocked(f) \in Nat
           /\ g[Len(g)].nl = l.nl
           /\ \A i \in 1..(Len(g) - 1) : g[i].nl
<1> DEFINE g == WriteLine(f, l)
<1>0. Len(f) \in Nat /\ fileSizeLocked(f) \in Nat /\ g \in Seq(Line)
  BY BytesAppend, WriteLineType
<1>1. CASE f = <<>> \/ f[Len(f)].nl
  <2>1. g = Append(f, l)
    BY <1>1 DEF WriteLine
  <2> HIDE DEF g
  <2>2. Len(g) = Len(f) + 1 /\ (\A i \in 1..Len(f) : g[i] = f[i]) /\ g[Len(f) + 1] = l
    BY <2>1, AppendFacts
  <2>3. fileSizeLocked(g) = fileSizeLocked(f) + l.size
    BY <2>1, BytesAppend
  <2>4. \A i \in 1..(Len(g) - 1) : g[i].nl
    <3> SUFFICES ASSUME NEW i \in 1..(Len(g) - 1) PROVE g[i].nl
      OBVIOUS
    <3>1. i \in 1..Len(f) /\ Len(f) # 0
      BY <1>0, <2>2
    <3>2. f # <<>>
      BY <3>1
    <3>3. CASE i = Len(f)
      BY <1>1, <2>2, <3>1, <3>2, <3>3
    <3>4. CASE i # Len(f)
      <4>1. i \in 1..(Len(f) - 1)
        BY <1>0, <3>1, <3>4
      <4> QED BY <2>2, <3>1, <4>1
    <3> QED BY <3>3, <3>4
  <2>5. g # <<>> /\ Len(g) \in Nat /\ g[Len(g)].nl = l.nl
    BY <1>0, <2>2
  <2> QED BY <1>0, <2>3, <2>4, <2>5 DEF g
<1>2. CASE ~(f = <<>> \/ f[Len(f)].nl)
  <2> DEFINE last == f[Len(f)]
             merged == [entry |-> Corrupt, holds |-> last.holds \cup l.holds,
                        nl |-> l.nl, size |-> last.size + l.size]
             n == Len(f)
  <2>1. g = [f EXCEPT ![Len(f)] = merged] /\ n \in 1..n /\ n - 1 \in Nat
    BY <1>0, <1>2 DEF WriteLine
  <2>2. last \in Line /\ merged \in Line /\ merged.size = last.size + l.size /\ merged.nl = l.nl
        /\ last.size \in Nat /\ l.size \in Nat
    <3>1. last \in Line
      BY <2>1
    <3> QED BY <3>1 DEF Line
  <2> HIDE DEF merged, g
  <2>3. Len(g) = n /\ g[n] = merged /\ \A i \in 1..(n - 1) : g[i] = f[i]
    BY <1>0, <2>1
  <2>4. Bytes(g)[n - 1] = Bytes(f)[n - 1]
    <3>1. n - 1 <= Len(f) /\ n - 1 <= Len(g)
      BY <1>0, <2>3
    <3>2. n - 1 \in Nat /\ \A i \in 1..(n - 1) : g[i] = f[i]
      BY <2>1, <2>3
    <3> HIDE DEF n
    <3> QED BY <1>0, <3>1, <3>2, BytesAgree
  <2>5. Bytes(g)[n] = Bytes(g)[n - 1] + merged.size /\ Bytes(f)[n] = Bytes(f)[n - 1] + last.size
    <3>1. n \in 1..Len(g) /\ n \in 1..Len(f)
      BY <2>1, <2>3
    <3>2. \A i \in 1..Len(g) : Bytes(g)[i] = Bytes(g)[i - 1] + g[i].size
      BY <1>0, BytesUnfold
    <3>3. \A i \in 1..Len(f) : Bytes(f)[i] = Bytes(f)[i - 1] + f[i].size
      BY BytesUnfold
    <3>4. Bytes(g)[n] = Bytes(g)[n - 1] + g[n].size
      BY <3>1, <3>2
    <3>5. Bytes(f)[n] = Bytes(f)[n - 1] + f[n].size
      BY <3>1, <3>3
    <3> QED BY <2>3, <3>4, <3>5
  <2>6. Bytes(f)[n - 1] \in Nat
    <3>1. n - 1 \in 0..Len(f)
      BY <1>0, <2>1
    <3> QED BY <3>1, BytesUnfold
  <2>7. fileSizeLocked(g) = fileSizeLocked(f) + l.size
    BY <2>2, <2>3, <2>4, <2>5, <2>6 DEF fileSizeLocked
  <2>8. \A i \in 1..(Len(g) - 1) : g[i].nl
    BY <2>3
  <2>9. g # <<>> /\ g[Len(g)].nl = l.nl
    BY <1>0, <2>1, <2>2, <2>3
  <2> QED BY <1>0, <2>3, <2>7, <2>8, <2>9 DEF g
<1> QED BY <1>1, <1>2

\* A write keeps the texts of the file, adds that of the line, and keeps Decodes.
LEMMA WriteHolds ==
    ASSUME NEW f \in Seq(Line), NEW l \in Line, Decodes(f),
           l.entry # Corrupt => l.holds = {l.entry}
    PROVE  /\ Holds(WriteLine(f, l)) = Holds(f) \cup l.holds
           /\ Decodes(WriteLine(f, l))
<1> DEFINE g == WriteLine(f, l)
<1>0. Len(f) \in Nat /\ DOMAIN f = 1..Len(f)
  OBVIOUS
<1>1. CASE f = <<>> \/ f[Len(f)].nl
  <2>1. g = Append(f, l)
    BY <1>1 DEF WriteLine
  <2> HIDE DEF g
  <2>2. /\ Len(g) = Len(f) + 1 /\ DOMAIN g = 1..(Len(f) + 1)
        /\ \A i \in 1..Len(f) : g[i] = f[i]
        /\ g[Len(f) + 1] = l
    BY <2>1, AppendFacts
  <2>3. \A i \in DOMAIN g : (i \in DOMAIN f /\ g[i] = f[i]) \/ g[i] = l
    BY <1>0, <2>2
  <2>4. (\A i \in DOMAIN f : i \in DOMAIN g) /\ Len(f) + 1 \in DOMAIN g
    BY <1>0, <2>2
  <2>5. Holds(g) = Holds(f) \cup l.holds
    BY <1>0, <2>2, <2>3, <2>4 DEF Holds
  <2>6. Decodes(g)
    BY <1>0, <2>2, <2>3 DEF Decodes
  <2> QED BY <2>5, <2>6 DEF g
<1>2. CASE ~(f = <<>> \/ f[Len(f)].nl)
  <2> DEFINE last == f[Len(f)]
             merged == [entry |-> Corrupt, holds |-> last.holds \cup l.holds,
                        nl |-> l.nl, size |-> last.size + l.size]
             n == Len(f)
  <2>1. g = [f EXCEPT ![Len(f)] = merged] /\ n \in 1..n
    BY <1>0, <1>2 DEF WriteLine
  <2>2. merged.holds = last.holds \cup l.holds /\ merged.entry = Corrupt
    OBVIOUS
  <2> HIDE DEF merged, g
  <2>3. Len(g) = n /\ DOMAIN g = DOMAIN f /\ g[n] = merged
        /\ \A i \in DOMAIN f : i # n => g[i] = f[i]
    BY <1>0, <2>1
  <2>4. Holds(g) = Holds(f) \cup l.holds
    <3>1. Holds(g) \subseteq Holds(f) \cup l.holds
      BY <1>0, <2>1, <2>2, <2>3 DEF Holds
    <3>2. Holds(f) \cup l.holds \subseteq Holds(g)
      BY <1>0, <2>1, <2>2, <2>3 DEF Holds
    <3> QED BY <3>1, <3>2
  <2>5. Decodes(g)
    BY <1>0, <2>2, <2>3 DEF Decodes
  <2> QED BY <2>4, <2>5 DEF g
<1> QED BY <1>1, <1>2

\* A kept line adds its texts to the others.
LEMMA AppendHolds ==
    ASSUME NEW f \in Seq(Line), NEW l \in Line, Decodes(f),
           l.entry # Corrupt => l.holds = {l.entry}
    PROVE  Holds(Append(f, l)) = Holds(f) \cup l.holds /\ Decodes(Append(f, l))
<1> DEFINE g == Append(f, l)
<1>1. /\ Len(g) = Len(f) + 1 /\ DOMAIN g = 1..(Len(f) + 1) /\ DOMAIN f = 1..Len(f)
      /\ \A i \in 1..Len(f) : g[i] = f[i]
      /\ g[Len(f) + 1] = l /\ Len(f) \in Nat
  BY AppendFacts
<1> HIDE DEF g
<1>2. \A i \in DOMAIN g : (i \in DOMAIN f /\ g[i] = f[i]) \/ g[i] = l
  BY <1>1
<1>3. (\A i \in DOMAIN f : i \in DOMAIN g) /\ Len(f) + 1 \in DOMAIN g
  BY <1>1
<1>4. Holds(g) = Holds(f) \cup l.holds
  BY <1>1, <1>2, <1>3 DEF Holds
<1>5. Decodes(g)
  BY <1>1, <1>2 DEF Decodes
<1> QED BY <1>4, <1>5 DEF g

\* The mutex has one holder, torn writes or not.
LEMMA LockStep == TypeOK /\ LockInv /\ [Next]_vars => LockInv'
<1> SUFFICES ASSUME TypeOK, LockInv, [Next]_vars PROVE LockInv'
  OBVIOUS
<1> USE DEF TypeOK, LockInv, logVars, replayVars
<1>1. ASSUME NEW m \in Msg, AppendRefused(m) PROVE LockInv'
  BY <1>1 DEF AppendRefused, AppendBegins
<1>2. ASSUME NEW m \in Msg, AppendFails(m) PROVE LockInv'
  BY <1>2 DEF AppendFails, AppendBegins
<1>3. ASSUME NEW m \in Msg, AppendTorn(m) PROVE LockInv'
  BY <1>3 DEF AppendTorn, AppendBegins
<1>4. ASSUME NEW m \in Msg, AppendWrites(m) PROVE LockInv'
  BY <1>4 DEF AppendWrites, AppendBegins
<1>5. ASSUME NEW m \in Msg, AppendReturns(m) PROVE LockInv'
  BY <1>5 DEF AppendReturns
<1>6. CASE ReplayBegins
  BY <1>6 DEF ReplayBegins
<1>7. CASE ReplayKeeps \/ \E m \in Msg : ReplayPublishes(m) \/ ReplayPublishFails(m)
  BY <1>7 DEF ReplayKeeps, ReplayPublishes, ReplayPublishFails, Publishing, Scanning
<1>8. CASE ReplayScanFails \/ RewriteFails \/ ReplayReturns
  BY <1>8 DEF ReplayScanFails, RewriteFails, ReplayReturns, Unlock
<1>9. CASE ReplayScanned
  BY <1>9 DEF ReplayScanned, Unlock
<1>10. CASE WriteTmp \/ Rename
  BY <1>10 DEF WriteTmp, Rename
<1>11. CASE Crash
  <2>1. \A n \in Msg : call'[n] # "written"
    BY <1>11 DEF Crash
  <2> QED BY <1>11, <2>1 DEF Crash, Unlock
<1>12. CASE New
  BY <1>12 DEF New
<1>13. CASE UNCHANGED vars
  BY <1>13 DEF vars
<1> QED
  BY <1>1, <1>2, <1>3, <1>4, <1>5, <1>6, <1>7, <1>8, <1>9, <1>10, <1>11, <1>12, <1>13
     DEF Next, Replay, NewFails

\* The line that Append writes, whole or torn, has the texts it decodes to.
LEMMA AppendedLine ==
    ASSUME NEW m \in Msg
    PROVE  /\ EntryLine(m) \in Line /\ EntryLine(m).nl /\ EntryLine(m).holds = {m}
           /\ EntryLine(m).entry = m /\ EntryLine(m).size = Size[m] /\ Size[m] \in Nat
           /\ \A k \in 1..(Size[m] - 1) :
                /\ TornLine(m, k) \in Line /\ ~TornLine(m, k).nl /\ TornLine(m, k).size = k
                /\ TornLine(m, k).entry # Corrupt => TornLine(m, k).holds = {TornLine(m, k).entry}
<1>1. Size[m] \in Nat
  BY WALAssumption
<1>2. ASSUME NEW k \in 1..(Size[m] - 1)
      PROVE  /\ ~TornLine(m, k).nl /\ TornLine(m, k).size = k
             /\ TornLine(m, k).entry # Corrupt => TornLine(m, k).holds = {TornLine(m, k).entry}
  BY DEF TornLine
<1> QED BY <1>1, <1>2, LineTypes DEF EntryLine

\* No step loses a text that is not yet in Redis.
LEMMA HoldStep ==
    TypeOK /\ TypeOK' /\ LockInv /\ HoldInv /\ [Next]_vars => HoldInv'
<1> SUFFICES ASSUME TypeOK, TypeOK', LockInv, HoldInv, [Next]_vars PROVE HoldInv'
  OBVIOUS
<1> DEFINE Kept == \A i \in 1..(pos - 1) : file[i].holds \subseteq delivered \cup Holds(remaining)
           Stored == \A m \in Msg : call[m] \in {"written", "ok"} => m \in delivered \cup Holds(file)
           Busy == rpc \in {"scan", "rewrite", "rename"}
<1>0. /\ file \in Seq(Line) /\ remaining \in Seq(Line) /\ Len(file) \in Nat /\ pos \in Nat \ {0}
      /\ DOMAIN file = 1..Len(file) /\ Decodes(file) /\ Decodes(remaining) /\ Stored
      /\ Busy => pos <= Len(file) + 1 /\ (rpc # "scan" => pos = Len(file) + 1) /\ Kept
  BY DEF TypeOK, HoldInv
<1> USE DEF logVars, replayVars
<1>1. ASSUME NEW m \in Msg, AppendRefused(m) \/ AppendFails(m) PROVE HoldInv'
  <2>1. \A n \in Msg : call'[n] \in {"written", "ok"} => call[n] \in {"written", "ok"}
    BY <1>1 DEF AppendRefused, AppendFails, TypeOK
  <2> QED BY <1>1, <2>1, <1>0 DEF AppendRefused, AppendFails, HoldInv
<1>2. ASSUME NEW m \in Msg, NEW l \in Line, l.entry # Corrupt => l.holds = {l.entry},
             AppendBegins(m), file' = WriteLine(file, l), UNCHANGED <<replayVars, delivered>>,
             \A n \in Msg : call'[n] \in {"written", "ok"} =>
                call[n] \in {"written", "ok"} \/ n \in l.holds
      PROVE  HoldInv'
  <2>1. Holds(file') = Holds(file) \cup l.holds /\ Decodes(file')
    BY <1>0, <1>2, WriteHolds
  <2>2. rpc' = "idle"
    BY <1>2 DEF AppendBegins, LockInv, TypeOK
  <2>3. \A n \in Msg : call'[n] \in {"written", "ok"} => n \in delivered' \cup Holds(file')
    BY <1>0, <1>2, <2>1
  <2>4. Decodes(remaining')
    BY <1>0, <1>2
  <2> QED BY <2>1, <2>2, <2>3, <2>4 DEF HoldInv
<1>3. ASSUME NEW m \in Msg, AppendTorn(m) PROVE HoldInv'
  <2>1. PICK k \in 1..(Size[m] - 1) : file' = WriteLine(file, TornLine(m, k))
    BY <1>3 DEF AppendTorn
  <2>2. /\ TornLine(m, k) \in Line
        /\ TornLine(m, k).entry # Corrupt => TornLine(m, k).holds = {TornLine(m, k).entry}
    BY AppendedLine
  <2>3. \A n \in Msg : call'[n] \in {"written", "ok"} => call[n] \in {"written", "ok"}
    BY <1>3 DEF AppendTorn, TypeOK
  <2>4. AppendBegins(m) /\ UNCHANGED <<replayVars, delivered>>
    BY <1>3 DEF AppendTorn
  <2> QED BY <2>1, <2>2, <2>3, <2>4, <1>2
<1>4. ASSUME NEW m \in Msg, AppendWrites(m) PROVE HoldInv'
  <2>1. \A n \in Msg : call'[n] \in {"written", "ok"} => call[n] \in {"written", "ok"} \/ n \in {m}
    BY <1>4 DEF AppendWrites, TypeOK
  <2>2. AppendBegins(m) /\ file' = WriteLine(file, EntryLine(m)) /\ UNCHANGED <<replayVars, delivered>>
    BY <1>4 DEF AppendWrites
  <2>3. EntryLine(m) \in Line /\ EntryLine(m).holds = {m} /\ EntryLine(m).entry = m
    BY AppendedLine
  <2> QED BY <2>1, <2>2, <2>3, <1>2
<1>5. ASSUME NEW m \in Msg, AppendReturns(m) PROVE HoldInv'
  <2>1. \A n \in Msg : call'[n] \in {"written", "ok"} => call[n] \in {"written", "ok"}
    BY <1>5 DEF AppendReturns, TypeOK
  <2> QED BY <1>5, <2>1, <1>0 DEF AppendReturns, HoldInv
<1>6. CASE ReplayBegins
  <2>1. remaining' = <<>> /\ pos' = 1 /\ file' = file /\ call' = call /\ delivered' = delivered
        /\ rpc' = "scan"
    BY <1>6 DEF ReplayBegins
  <2>2. Decodes(remaining')
    BY <2>1 DEF Decodes
  <2>3. pos' <= Len(file') + 1 /\ \A i \in 1..(pos' - 1) : FALSE
    BY <2>1, <1>0
  <2> QED BY <2>1, <2>2, <2>3, <1>0 DEF HoldInv
<1>7. ASSUME Scanning, Keep, UNCHANGED <<file, call, rpc>>, delivered \subseteq delivered'
      PROVE  HoldInv'
  <2>1. pos \in 1..Len(file) /\ pos' = pos + 1 /\ rpc = "scan" /\ rpc' = "scan"
    BY <1>0, <1>7 DEF Scanning, Keep
  <2>2. file[pos] \in Line
    BY <1>0, <2>1
  <2> DEFINE l == Rewritten(file[pos])
  <2>3. l \in Line /\ l.holds = file[pos].holds /\ (l.entry # Corrupt => l.holds = {l.entry})
    <3>1. file[pos].entry # Corrupt => file[pos].holds = {file[pos].entry}
      BY <1>0, <2>1 DEF Decodes
    <3> QED BY <2>2, <3>1, RewrittenType DEF Rewritten
  <2>4. remaining' = Append(remaining, l)
    BY <1>7 DEF Keep
  <2> HIDE DEF l
  <2>5. Holds(remaining') = Holds(remaining) \cup l.holds /\ Decodes(remaining')
    BY <1>0, <2>3, <2>4, AppendHolds
  <2>6. \A i \in 1..(pos' - 1) : file'[i].holds \subseteq delivered' \cup Holds(remaining')
    <3> SUFFICES ASSUME NEW i \in 1..(pos' - 1)
                 PROVE  file[i].holds \subseteq delivered' \cup Holds(remaining')
      BY <1>7
    <3>1. CASE i = pos
      BY <2>3, <2>5, <3>1
    <3>2. CASE i # pos
      <4>1. i \in 1..(pos - 1)
        BY <1>0, <2>1, <3>2
      <4>2. file[i].holds \subseteq delivered \cup Holds(remaining)
        BY <1>0, <2>1, <4>1
      <4> QED BY <1>7, <2>5, <4>2
    <3> QED BY <3>1, <3>2
  <2>7. pos' <= Len(file') + 1
    BY <1>0, <1>7, <2>1
  <2>8. \A m \in Msg : call'[m] \in {"written", "ok"} => m \in delivered' \cup Holds(file')
    BY <1>0, <1>7
  <2> QED BY <1>0, <1>7, <2>1, <2>5, <2>6, <2>7, <2>8 DEF HoldInv
<1>8. CASE ReplayKeeps
  BY <1>7, <1>8 DEF ReplayKeeps
<1>9. ASSUME NEW m \in Msg, ReplayPublishFails(m) PROVE HoldInv'
  BY <1>7, <1>9 DEF ReplayPublishFails, Publishing
<1>10. ASSUME NEW m \in Msg, ReplayPublishes(m) PROVE HoldInv'
  <2>1. /\ pos \in 1..Len(file) /\ pos' = pos + 1 /\ rpc = "scan" /\ rpc' = "scan"
        /\ file[pos].entry = m /\ delivered' = delivered \cup {m}
        /\ file' = file /\ call' = call /\ remaining' = remaining
    BY <1>0, <1>10 DEF ReplayPublishes, Publishing, Scanning
  <2>2. file[pos].holds = {m}
    <3>1. m # Corrupt
      BY WALAssumption
    <3> QED BY <1>0, <2>1, <3>1 DEF Decodes
  <2>3. \A i \in 1..(pos' - 1) : file[i].holds \subseteq delivered' \cup Holds(remaining)
    <3> SUFFICES ASSUME NEW i \in 1..(pos' - 1)
                 PROVE  file[i].holds \subseteq delivered' \cup Holds(remaining)
      OBVIOUS
    <3>1. CASE i = pos
      BY <2>1, <2>2, <3>1
    <3>2. CASE i # pos
      <4>1. i \in 1..(pos - 1)
        BY <1>0, <2>1, <3>2
      <4>2. file[i].holds \subseteq delivered \cup Holds(remaining)
        BY <1>0, <2>1, <4>1
      <4> QED BY <2>1, <4>2
    <3> QED BY <3>1, <3>2
  <2>4. pos' <= Len(file') + 1
    BY <1>0, <2>1
  <2>5. \A n \in Msg : call'[n] \in {"written", "ok"} => n \in delivered' \cup Holds(file')
    BY <1>0, <2>1
  <2> QED BY <1>0, <2>1, <2>3, <2>4, <2>5 DEF HoldInv
<1>11. CASE ReplayScanFails \/ RewriteFails \/ ReplayReturns
  <2>1. UNCHANGED <<file, call, remaining, delivered>> /\ rpc' = "idle"
    BY <1>11 DEF ReplayScanFails, RewriteFails, ReplayReturns, Unlock
  <2> QED BY <1>0, <2>1 DEF HoldInv
<1>12. CASE ReplayScanned
  <2>1. UNCHANGED <<file, call, remaining, delivered, pos>> /\ rpc = "scan" /\ pos = Len(file) + 1
    BY <1>12 DEF ReplayScanned
  <2> QED BY <1>0, <2>1 DEF HoldInv
<1>13. CASE WriteTmp
  <2>1. UNCHANGED <<file, call, remaining, delivered, pos>> /\ rpc = "rewrite" /\ rpc' = "rename"
    BY <1>13 DEF WriteTmp
  <2> QED BY <1>0, <2>1 DEF HoldInv
<1>14. CASE Rename
  <2>1. UNCHANGED <<call, remaining, delivered>> /\ file' = remaining /\ rpc = "rename" /\ rpc' = "return"
    BY <1>14 DEF Rename
  <2>2. pos = Len(file) + 1 /\ Kept
    BY <1>0, <2>1
  <2>3. \A i \in DOMAIN file : file[i].holds \subseteq delivered \cup Holds(remaining)
    BY <1>0, <2>2
  <2>4. Holds(file) \subseteq delivered \cup Holds(remaining)
    BY <2>3 DEF Holds
  <2>5. \A n \in Msg : call'[n] \in {"written", "ok"} => n \in delivered' \cup Holds(file')
    BY <1>0, <2>1, <2>4
  <2> QED BY <1>0, <2>1, <2>5 DEF HoldInv
<1>15. CASE Crash
  <2>1. \A n \in Msg : call'[n] \in {"written", "ok"} => call[n] \in {"written", "ok"}
    BY <1>15 DEF Crash
  <2>2. UNCHANGED <<file, remaining, delivered>> /\ rpc' = "idle"
    BY <1>15 DEF Crash, Unlock
  <2> QED BY <1>0, <2>1, <2>2 DEF HoldInv
<1>16. CASE New \/ UNCHANGED vars
  <2>1. UNCHANGED <<file, call, rpc, pos, remaining, delivered>>
    BY <1>16 DEF New, vars
  <2> QED BY <2>1 DEF HoldInv
<1> QED
  BY <1>1, <1>3, <1>4, <1>5, <1>6, <1>8, <1>9, <1>10, <1>11, <1>12, <1>13, <1>14, <1>15, <1>16
     DEF Next, Replay, NewFails

\* A terminated last line, or none, needs no newline.
LEMMA NoGap ==
    ASSUME NEW f \in Seq(Line), \A i \in 1..Len(f) : f[i].nl
    PROVE  Gap(f) = 0
<1>1. CASE f = <<>>
  BY <1>1 DEF Gap
<1>2. CASE f # <<>>
  <2>1. Len(f) \in 1..Len(f)
    BY <1>2
  <2> QED BY <2>1 DEF Gap
<1> QED BY <1>1, <1>2

\* A line that Replay keeps takes its own bytes, and a newline if it is an
\* unterminated last line.
LEMMA KeptSize ==
    ASSUME NEW f \in Seq(Line), NEW p \in 1..Len(f), \A i \in 1..(Len(f) - 1) : f[i].nl
    PROVE  /\ Rewritten(f[p]) \in Line /\ Rewritten(f[p]).nl
           /\ Bytes(f)[p - 1] \in Nat /\ Bytes(f)[p] \in Nat /\ Bytes(f)[p - 1] <= Bytes(f)[p]
           /\ Gap(f) \in {0, 1}
           /\ Bytes(f)[p - 1] + Rewritten(f[p]).size =
                Bytes(f)[p] + (IF p = Len(f) THEN Gap(f) ELSE 0)
<1>1. f[p] \in Line /\ Len(f) \in Nat /\ p - 1 \in 0..Len(f) /\ p \in 0..Len(f)
  OBVIOUS
<1>2. f[p].size \in Nat
  BY <1>1 DEF Line
<1>3. Bytes(f)[p] = Bytes(f)[p - 1] + f[p].size
  BY BytesUnfold
<1>4. Bytes(f)[p - 1] \in Nat /\ Bytes(f)[p] \in Nat
  BY <1>1, BytesUnfold
<1>5. Rewritten(f[p]).size = f[p].size + (IF f[p].nl THEN 0 ELSE 1) /\ Rewritten(f[p]).nl
  BY DEF Rewritten
<1>6. Gap(f) \in {0, 1} /\ (IF f[p].nl THEN 0 ELSE 1) = (IF p = Len(f) THEN Gap(f) ELSE 0)
  <2>1. Gap(f) \in {0, 1}
    BY DEF Gap
  <2>2. CASE p = Len(f)
    <3>1. f # <<>>
      BY <1>1
    <3> QED BY <2>1, <2>2, <3>1 DEF Gap
  <2>3. CASE p # Len(f)
    <3>1. p \in 1..(Len(f) - 1)
      BY <1>1, <2>3
    <3> QED BY <2>1, <2>3, <3>1
  <2> QED BY <2>2, <2>3
<1>7. Rewritten(f[p]) \in Line
  BY <1>1, RewrittenType
<1>8. Bytes(f)[p - 1] <= Bytes(f)[p]
  BY <1>2, <1>3, <1>4
<1>9. Bytes(f)[p - 1] + Rewritten(f[p]).size = Bytes(f)[p] + (IF p = Len(f) THEN Gap(f) ELSE 0)
  <2> DEFINE e == IF f[p].nl THEN 0 ELSE 1
  <2>1. e \in Nat /\ Rewritten(f[p]).size = f[p].size + e
    BY <1>5
  <2>2. e = IF p = Len(f) THEN Gap(f) ELSE 0
    BY <1>6
  <2> HIDE DEF e
  <2>3. Bytes(f)[p - 1] + Rewritten(f[p]).size = Bytes(f)[p] + e
    BY <1>2, <1>3, <1>4, <2>1
  <2> QED BY <2>2, <2>3
<1> QED BY <1>4, <1>5, <1>6, <1>7, <1>8, <1>9

\* Every step leaves room for the newline that rewrite may add.
LEMMA SizeStep ==
    TypeOK /\ TypeOK' /\ LockInv /\ HoldInv /\ SizeInv /\ [Next]_vars => SizeInv'
<1> SUFFICES ASSUME TypeOK, TypeOK', LockInv, HoldInv, SizeInv, [Next]_vars PROVE SizeInv'
  OBVIOUS
<1> DEFINE Busy == rpc \in {"scan", "rewrite", "rename"}
           Extra == IF pos = Len(file) + 1 THEN Gap(file) ELSE 0
<1>0. /\ file \in Seq(Line) /\ remaining \in Seq(Line) /\ Len(file) \in Nat /\ pos \in Nat \ {0}
      /\ MaxBytes \in Nat
      /\ Busy /\ rpc # "scan" => pos = Len(file) + 1
      /\ \A i \in 1..(Len(file) - 1) : file[i].nl
      /\ MaxBytes > 0 => fileSizeLocked(file) + Gap(file) <= MaxBytes
      /\ Busy => (\A i \in 1..Len(remaining) : remaining[i].nl)
                 /\ fileSizeLocked(remaining) <= Bytes(file)[pos - 1] + Extra
  BY WALAssumption DEF TypeOK, HoldInv, SizeInv
<1> USE DEF logVars, replayVars
<1>1. ASSUME UNCHANGED file, rpc' \notin {"scan", "rewrite", "rename"} PROVE SizeInv'
  BY <1>0, <1>1 DEF SizeInv
<1>2. ASSUME UNCHANGED <<file, remaining, pos>>, Busy PROVE SizeInv'
  BY <1>2 DEF SizeInv
<1>3. ASSUME NEW m \in Msg, NEW l \in Line, AppendBegins(m), ~ByteLimit(m),
             file' = WriteLine(file, l), UNCHANGED replayVars,
             l.size + (IF l.nl THEN 0 ELSE 1) <= Size[m], l.size \in Nat
      PROVE  SizeInv'
  <2>1. /\ file' # <<>>
        /\ fileSizeLocked(file') = fileSizeLocked(file) + l.size /\ fileSizeLocked(file) \in Nat
        /\ file'[Len(file')].nl = l.nl
        /\ \A i \in 1..(Len(file') - 1) : file'[i].nl
    BY <1>0, <1>3, WriteBytes
  <2>2. rpc' = "idle"
    BY <1>3 DEF AppendBegins, LockInv, TypeOK
  <2>3. Gap(file') = IF l.nl THEN 0 ELSE 1
    BY <2>1 DEF Gap
  <2>4. MaxBytes > 0 => fileSizeLocked(file) + Size[m] <= MaxBytes
    <3>1. Size[m] \in Nat
      BY AppendedLine
    <3> QED BY <1>0, <1>3, <2>1, <3>1 DEF ByteLimit
  <2>5. MaxBytes > 0 => fileSizeLocked(file') + Gap(file') <= MaxBytes
    <3>1. Size[m] \in Nat
      BY AppendedLine
    <3>2. fileSizeLocked(file') + Gap(file')
            = fileSizeLocked(file) + (l.size + (IF l.nl THEN 0 ELSE 1))
      BY <1>3, <2>1, <2>3
    <3> QED BY <1>0, <1>3, <2>1, <2>4, <3>1, <3>2
  <2> QED BY <2>1, <2>2, <2>5 DEF SizeInv, Gap
<1>4. ASSUME NEW m \in Msg, AppendTorn(m) PROVE SizeInv'
  <2>1. PICK k \in 1..(Size[m] - 1) : file' = WriteLine(file, TornLine(m, k))
    BY <1>4 DEF AppendTorn
  <2>2. TornLine(m, k) \in Line /\ ~TornLine(m, k).nl /\ TornLine(m, k).size = k /\ Size[m] \in Nat
    BY AppendedLine
  <2>3. AppendBegins(m) /\ ~ByteLimit(m) /\ UNCHANGED replayVars
    BY <1>4 DEF AppendTorn
  <2>4. TornLine(m, k).size + (IF TornLine(m, k).nl THEN 0 ELSE 1) <= Size[m]
        /\ TornLine(m, k).size \in Nat
    BY <2>2
  <2> QED BY <2>1, <2>2, <2>3, <2>4, <1>3
<1>5. ASSUME NEW m \in Msg, AppendWrites(m) PROVE SizeInv'
  <2>1. AppendBegins(m) /\ ~ByteLimit(m) /\ file' = WriteLine(file, EntryLine(m))
        /\ UNCHANGED replayVars
    BY <1>5 DEF AppendWrites
  <2>2. EntryLine(m) \in Line /\ EntryLine(m).nl /\ EntryLine(m).size = Size[m] /\ Size[m] \in Nat
    BY AppendedLine
  <2>3. EntryLine(m).size + (IF EntryLine(m).nl THEN 0 ELSE 1) <= Size[m] /\ EntryLine(m).size \in Nat
    BY <2>2
  <2> QED BY <2>1, <2>2, <2>3, <1>3
<1>6. CASE ReplayBegins
  <2>1. remaining' = <<>> /\ pos' = 1 /\ file' = file
    BY <1>6 DEF ReplayBegins
  <2>2. fileSizeLocked(remaining') = 0 /\ Len(remaining') = 0
    <3>1. <<>> \in Seq(Line) /\ Len(<<>>) = 0
      OBVIOUS
    <3> QED BY <2>1, <3>1, BytesUnfold DEF fileSizeLocked
  <2>3. Bytes(file')[pos' - 1] = 0
    BY <1>0, <2>1, BytesUnfold
  <2>4. (IF pos' = Len(file') + 1 THEN Gap(file') ELSE 0) \in {0, 1}
    BY DEF Gap
  <2>5. fileSizeLocked(remaining') <=
            Bytes(file')[pos' - 1] + (IF pos' = Len(file') + 1 THEN Gap(file') ELSE 0)
    BY <2>2, <2>3, <2>4
  <2>6. \A i \in 1..Len(remaining') : remaining'[i].nl
    BY <2>2
  <2>7. (\A i \in 1..(Len(file') - 1) : file'[i].nl)
        /\ (MaxBytes > 0 => fileSizeLocked(file') + Gap(file') <= MaxBytes)
    BY <1>0, <2>1
  <2> HIDE DEF Extra
  <2> QED BY <2>5, <2>6, <2>7 DEF SizeInv
<1>7. ASSUME Scanning
      PROVE  /\ pos \in 1..Len(file) /\ pos # Len(file) + 1 /\ Busy
             /\ fileSizeLocked(remaining) <= Bytes(file)[pos - 1]
             /\ fileSizeLocked(remaining) \in Nat
             /\ Rewritten(file[pos]) \in Line /\ Rewritten(file[pos]).nl
             /\ Bytes(file)[pos - 1] \in Nat /\ Bytes(file)[pos] \in Nat
             /\ Bytes(file)[pos - 1] <= Bytes(file)[pos] /\ Gap(file) \in {0, 1}
             /\ Bytes(file)[pos - 1] + Rewritten(file[pos]).size
                    = Bytes(file)[pos] + (IF pos = Len(file) THEN Gap(file) ELSE 0)
  <2>1. pos \in 1..Len(file) /\ pos # Len(file) + 1 /\ Busy
    BY <1>0, <1>7 DEF Scanning
  <2>2. Bytes(file)[pos - 1] \in Nat
    BY <1>0, <2>1, KeptSize
  <2>3. fileSizeLocked(remaining) <= Bytes(file)[pos - 1]
    <3>1. Extra = 0
      BY <2>1
    <3> HIDE DEF Extra
    <3> QED BY <1>0, <2>1, <2>2, <3>1
  <2>4. fileSizeLocked(remaining) \in Nat
    <3>1. \E l \in Line : TRUE
      BY <1>0, <2>1
    <3> QED BY <1>0, <3>1, BytesAppend
  <2> HIDE DEF Busy, Extra
  <2> QED BY <1>0, <2>1, <2>3, <2>4, KeptSize
<1>8. ASSUME NEW r \in Seq(Line), Scanning, UNCHANGED <<file, rpc>>, pos' = pos + 1,
             remaining' = r, \A i \in 1..Len(r) : r[i].nl,
             fileSizeLocked(r) <= Bytes(file)[pos] + (IF pos = Len(file) THEN Gap(file) ELSE 0)
      PROVE  SizeInv'
  <2>1. pos' - 1 = pos /\ (pos' = Len(file') + 1 <=> pos = Len(file))
    BY <1>0, <1>8
  <2>2. fileSizeLocked(remaining') <=
            Bytes(file')[pos' - 1] + (IF pos' = Len(file') + 1 THEN Gap(file') ELSE 0)
    BY <1>8, <2>1
  <2> HIDE DEF Busy, Extra
  <2> QED BY <1>0, <1>8, <2>2 DEF SizeInv
<1>9. ASSUME Scanning, Keep, UNCHANGED <<file, rpc>> PROVE SizeInv'
  <2> DEFINE l == Rewritten(file[pos])
             r == Append(remaining, l)
  <2>1. l \in Line /\ l.nl
    BY <1>7, <1>9
  <2>2. l.size \in Nat
    BY <2>1 DEF Line
  <2>3. /\ r \in Seq(Line) /\ Len(r) = Len(remaining) + 1 /\ Len(remaining) \in Nat
        /\ \A i \in 1..Len(remaining) : r[i] = remaining[i]
        /\ r[Len(remaining) + 1] = l
    <3> HIDE DEF l
    <3> QED BY <1>0, <2>1, AppendFacts
  <2>4. fileSizeLocked(r) = fileSizeLocked(remaining) + l.size
    <3> HIDE DEF l
    <3> QED BY <1>0, <2>1, BytesAppend
  <2>5. remaining' = r /\ pos' = pos + 1
    BY <1>9 DEF Keep
  <2>6. fileSizeLocked(r) <= Bytes(file)[pos] + (IF pos = Len(file) THEN Gap(file) ELSE 0)
    <3> DEFINE a == fileSizeLocked(remaining)
               b == Bytes(file)[pos - 1]
               c == Bytes(file)[pos] + (IF pos = Len(file) THEN Gap(file) ELSE 0)
    <3>1. a <= b /\ a \in Nat /\ b \in Nat /\ b + l.size = c
      BY <1>7, <1>9
    <3> HIDE DEF a, b, c, l, r
    <3>2. a + l.size <= c
      BY <2>2, <3>1
    <3> QED BY <2>4, <3>2 DEF a, c
  <2> HIDE DEF r, l
  <2>7. \A i \in 1..Len(r) : r[i].nl
    <3> SUFFICES ASSUME NEW i \in 1..Len(r) PROVE r[i].nl
      OBVIOUS
    <3>1. \A j \in 1..Len(remaining) : remaining[j].nl
      BY <1>0, <1>7, <1>9
    <3>2. CASE i = Len(remaining) + 1
      BY <2>1, <2>3, <3>2
    <3>3. CASE i # Len(remaining) + 1
      <4>1. i \in 1..Len(remaining)
        BY <2>3, <3>3
      <4> QED BY <2>3, <3>1, <4>1
    <3> QED BY <3>2, <3>3
  <2> QED BY <1>8, <1>9, <2>3, <2>5, <2>6, <2>7
<1>10. CASE ReplayKeeps
  BY <1>9, <1>10 DEF ReplayKeeps
<1>11. ASSUME NEW m \in Msg, ReplayPublishFails(m) PROVE SizeInv'
  BY <1>9, <1>11 DEF ReplayPublishFails, Publishing
<1>12. ASSUME NEW m \in Msg, ReplayPublishes(m) PROVE SizeInv'
  <2>1. Scanning /\ UNCHANGED <<file, rpc>> /\ pos' = pos + 1 /\ remaining' = remaining
    BY <1>12 DEF ReplayPublishes, Publishing
  <2>2. fileSizeLocked(remaining) <= Bytes(file)[pos] + (IF pos = Len(file) THEN Gap(file) ELSE 0)
    <3> DEFINE a == fileSizeLocked(remaining)
               b == Bytes(file)[pos - 1]
               c == Bytes(file)[pos]
               e == IF pos = Len(file) THEN Gap(file) ELSE 0
    <3>1. a <= b /\ a \in Nat /\ b \in Nat /\ b <= c /\ c \in Nat /\ Gap(file) \in {0, 1}
      BY <1>7, <2>1
    <3>2. e \in {0, 1}
      BY <3>1
    <3> HIDE DEF a, b, c, e
    <3>3. a <= c + e
      BY <3>1, <3>2
    <3> QED BY <3>3 DEF a, c, e
  <2>3. \A i \in 1..Len(remaining) : remaining[i].nl
    BY <1>0, <1>7, <2>1
  <2> QED BY <1>0, <1>8, <2>1, <2>2, <2>3
<1>13. CASE Rename
  <2>1. file' = remaining /\ rpc' = "return" /\ rpc = "rename"
    BY <1>13 DEF Rename
  <2>2. /\ pos = Len(file) + 1 /\ \A i \in 1..Len(remaining) : remaining[i].nl
        /\ fileSizeLocked(remaining) <= fileSizeLocked(file) + Gap(file)
    <3>1. pos = Len(file) + 1 /\ pos - 1 = Len(file) /\ Busy
      BY <1>0, <2>1
    <3> QED BY <1>0, <3>1 DEF fileSizeLocked
  <2>3. Gap(file') = 0
    BY <1>0, <2>1, <2>2, NoGap
  <2>4. fileSizeLocked(file) \in Nat /\ fileSizeLocked(remaining) \in Nat /\ Gap(file) \in {0, 1}
    <3>1. Len(file) \in 0..Len(file) /\ Len(remaining) \in 0..Len(remaining)
      BY <1>0
    <3>2. fileSizeLocked(file) \in Nat
      BY <1>0, <3>1, BytesUnfold DEF fileSizeLocked
    <3>3. fileSizeLocked(remaining) \in Nat
      BY <1>0, <3>1, BytesUnfold DEF fileSizeLocked
    <3> QED BY <3>2, <3>3 DEF Gap
  <2>5. MaxBytes > 0 => fileSizeLocked(file') + Gap(file') <= MaxBytes
    <3>1. fileSizeLocked(file') = fileSizeLocked(remaining)
      BY <2>1
    <3> QED BY <1>0, <2>2, <2>3, <2>4, <3>1
  <2>6. \A i \in 1..(Len(file') - 1) : file'[i].nl
    <3>1. \A i \in 1..(Len(remaining) - 1) : i \in 1..Len(remaining)
      BY <1>0
    <3> QED BY <2>1, <2>2, <3>1
  <2> QED BY <2>1, <2>5, <2>6 DEF SizeInv
<1>14. ASSUME NEW m \in Msg, AppendRefused(m) \/ AppendFails(m) \/ AppendReturns(m) PROVE SizeInv'
  BY <1>14 DEF AppendRefused, AppendFails, AppendReturns, SizeInv
<1>15. CASE ReplayScanFails \/ RewriteFails \/ ReplayReturns \/ Crash
  BY <1>1, <1>15 DEF ReplayScanFails, RewriteFails, ReplayReturns, Crash, Unlock
<1>16. CASE ReplayScanned \/ WriteTmp
  BY <1>2, <1>16 DEF ReplayScanned, WriteTmp
<1>17. CASE New \/ UNCHANGED vars
  BY <1>17 DEF New, vars, SizeInv
<1> QED
  BY <1>4, <1>5, <1>6, <1>10, <1>11, <1>12, <1>13, <1>14, <1>15, <1>16, <1>17
     DEF Next, Replay, NewFails

\* TornInv holds of a new log and is kept by every step.
THEOREM TornInductive == Spec => [](TypeOK /\ TornInv)
<1>1. Init => TypeOK /\ TornInv
  <2> SUFFICES ASSUME Init PROVE TypeOK /\ TornInv
    OBVIOUS
  <2>1. TypeOK /\ file = <<>> /\ Len(file) = 0 /\ remaining = <<>> /\ Len(remaining) = 0
    BY TypeInit DEF Init
  <2>2. LockInv
    BY DEF Init, LockInv
  <2>3. HoldInv
    BY <2>1 DEF Init, HoldInv, Decodes
  <2>4. fileSizeLocked(file) = 0 /\ Gap(file) = 0 /\ MaxBytes \in Nat
    BY <2>1, BytesUnfold, WALAssumption DEF fileSizeLocked, Gap, TypeOK
  <2>5. SizeInv
    BY <2>1, <2>4 DEF Init, SizeInv
  <2> QED BY <2>1, <2>2, <2>3, <2>5 DEF TornInv
<1>2. TypeOK /\ TornInv /\ [Next]_vars => TypeOK' /\ TornInv'
  BY TypeStep, LockStep, HoldStep, SizeStep DEF TornInv
<1> QED BY <1>1, <1>2, PTL DEF Spec

(* The text of a message whose Append returned nil stays on the disk until  *)
(* Redis has the message: torn writes, merged lines, lines that do not      *)
(* decode, failed rewrites and crashes included.                            *)
THEOREM RetainedHolds == Spec => []Retained
<1>1. TypeOK /\ TornInv => Retained
  BY DEF TornInv, HoldInv, Retained, Acked
<1> QED BY <1>1, TornInductive, PTL

(* The file stays within maxBytes although a torn write leaves bytes that    *)
(* Append does not count as an entry, and rewrite adds a newline to a line   *)
(* that had none.                                                            *)
THEOREM BytesBoundedHolds == Spec => []BytesBounded
<1>1. TypeOK /\ TornInv => BytesBounded
  <2> SUFFICES ASSUME TypeOK, TornInv, MaxBytes > 0 PROVE fileSizeLocked(file) <= MaxBytes
    BY DEF BytesBounded
  <2>1. file \in Seq(Line) /\ Len(file) \in 0..Len(file) /\ MaxBytes \in Nat
    BY WALAssumption DEF TypeOK
  <2>2. fileSizeLocked(file) \in Nat /\ Gap(file) \in {0, 1}
    BY <2>1, BytesUnfold DEF fileSizeLocked, Gap
  <2>3. fileSizeLocked(file) + Gap(file) <= MaxBytes
    BY DEF TornInv, SizeInv
  <2> QED BY <2>1, <2>2, <2>3
<1> QED BY <1>1, TornInductive, PTL
=============================================================================
