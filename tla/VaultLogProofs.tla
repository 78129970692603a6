--------------------------- MODULE VaultLogProofs ---------------------------
(***************************************************************************)
(* What VaultLog guarantees for any blobs, connections, quota and bounds,   *)
(* proved with TLAPS: no acked line is lost, whatever the relay crashes in  *)
(* the middle of and whichever call fails, but to the two gaps VaultLog     *)
(* names; open serves all of them; until a gap takes its first line the     *)
(* storage implements DurableLog; the snapshot is never torn and never goes *)
(* backwards; no staging directory outlives its upload.                     *)
(***************************************************************************)
EXTENDS VaultLog, TLAPS, WellFoundedInduction

Running == pc \notin {"down", "open"}

\* append_within is at one of its three calls.
Appending == pc \in {"line", "newline", "sync"}

\* From the publication to the end of the truncation.
Truncating == pc \in {"sweep", "create_tmp", "sync_tmp", "keep_prev", "swap"}

\* Every acked line is behind the published snapshot, one of these, or lost.
Covered(lines) == \A a \in acked : a.seq <= snapJson.seq \/ a \in lines \/ a \in lost

\* The part files a snapshot needs are in its directory.
HasParts(s) == s.parts > 1 => [seq |-> s.seq, count |-> s.parts] \in partDirs

\* Files, and the lines of the files that are missing.
FilesInv ==
    /\ "log" \notin files => log = {} /\ stub = {}
    /\ "tmp" \notin files => tmp = {}
    /\ pc = "swap" => "log" \notin files
    /\ pc = "sync_tmp" => "tmp" \in files
    /\ Appending => "log" \in files
    /\ \A l \in Readable \cup tmp \cup Parsed(before.lines, before.rest) : l.seq <= MaxSeq
    /\ last_seq <= MaxSeq

\* A missing log.jsonl stands for an empty log, but between the two renames and
\* after the second one failed.
MissingLogInv ==
    /\ unswapped => Running
    /\ "log" \notin files /\ tmp # {} =>
           pc \in {"down", "swap"} \/ (unswapped /\ pc \notin {"sync_tmp", "keep_prev"})

\* How far the append is, in terms of the file it found: with its line away, or
\* away in part, that file still holds what was acked.
AppendInv ==
    /\ ~Appending => pending = {} /\ before = File({}, {})
    /\ Appending => /\ last_seq < MaxSeq
                    /\ \E b \in Blob : pending = {[seq |-> last_seq + 1, blob |-> b]}
                    /\ Covered(Parsed(before.lines, before.rest))
    /\ pc = "line" => before = File(log, stub)
    /\ pc = "newline" => log = before.lines /\ stub = Glued(before.rest)
    /\ pc = "sync" => log = Parsed(before.lines, Glued(before.rest)) /\ stub = {}
    /\ pc \in {"newline", "sync"} => LostWith(before.rest, pending) \subseteq lost

\* Where the acked lines are at each step.
CoverInv ==
    /\ Covered(Recoverable)
    /\ pc = "keep_prev" => tmp = Tail(Readable, target.seq)

\* The snapshot on disk, in memory and being published.
SnapInv ==
    /\ snapJson.seq <= MaxSeq
    /\ HasParts(snapJson)
    /\ Running => snapshot = snapJson
    /\ pc \in {"move_parts", "publish"} => /\ snapJson.seq < target.seq
                                           /\ target.seq <= MaxSeq
    /\ pc = "publish" => HasParts(target)
    /\ Truncating => target = snapJson
    /\ \A u \in uploads : u.upto <= MaxSeq

IInv == TypeOK /\ FilesInv /\ MissingLogInv /\ AppendInv /\ CoverInv /\ SnapInv

-----------------------------------------------------------------------------
(* A bounded, nonempty set of naturals has a maximum. *)

LEMMA MaxInSet ==
    ASSUME NEW S \in SUBSET Nat, S # {}, NEW n \in Nat, \A x \in S : x <= n
    PROVE  Max(S) \in S /\ \A x \in S : x <= Max(S)
<1> DEFINE Gaps == {n - x : x \in S}
<1>1. Gaps \subseteq Nat /\ Gaps # {}
  <2>1. \A x \in S : n - x \in Nat
    OBVIOUS
  <2>2. PICK x \in S : TRUE
    OBVIOUS
  <2>3. n - x \in Gaps
    OBVIOUS
  <2> QED BY <2>1, <2>3
<1>2. PICK g \in Gaps : \A h \in Gaps : <<h, g>> \notin OpToRel(<, Nat)
  <2> HIDE DEF Gaps
  <2> QED BY <1>1, WFMin, NatLessThanWellFounded, Zenon
<1>3. \A h \in Gaps : ~(h < g)
  <2> HIDE DEF Gaps
  <2> QED BY <1>1, <1>2, Zenon DEF OpToRel
<1>4. PICK m \in S : g = n - m
  OBVIOUS
<1>5. \A x \in S : m >= x
  BY <1>3, <1>4
<1>6. Max(S) \in S /\ \A y \in S : Max(S) >= y
  BY <1>5, Zenon DEF Max
<1> QED
  BY <1>6

-----------------------------------------------------------------------------
(* The lines of a file                                                      *)

LEMMA FragmentIsNoLine ==
    ASSUME NEW l \in Line
    PROVE  l # Fragment
<1>1. l \in [seq : Nat, blob : Blob]
  BY DEF Line
<1>2. DOMAIN l = {"seq", "blob"}
  BY <1>1
<1>3. DOMAIN Fragment = {"seq"}
  BY DEF Fragment
<1> QED
  BY <1>2, <1>3

\* What a crash or a failed call leaves of an append holds every line of the
\* file it found, but those the gap took.
LEMMA WhatIsLeft ==
    ASSUME NEW lines, NEW rest, NEW line
    PROVE  /\ Parsed(lines, {}) = lines
           /\ Parsed(lines, {Fragment}) = lines
           /\ Parsed(lines, rest) \subseteq lines \cup LostWith(rest, line)
           /\ rest # {} => line \subseteq LostWith(rest, line)
           /\ rest \ {Fragment} \subseteq LostWith(rest, line)
           /\ rest = {} => Parsed(lines, rest) = lines /\ LostWith(rest, line) = {}
BY DEF Parsed, LostWith

\* A record of a file gives back its fields.
LEMMA FileFields ==
    ASSUME NEW lines, NEW rest
    PROVE  File(lines, rest).lines = lines /\ File(lines, rest).rest = rest
BY DEF File

-----------------------------------------------------------------------------
(* The induction                                                            *)

\* The invariant's parts hold of the fresh directory.
LEMMA InitInv == Init => IInv
<1> SUFFICES ASSUME Init PROVE IInv
  OBVIOUS
<1> USE BoundsAssumption DEF Init
<1>1. TypeOK
  BY DEF TypeOK, Line, Snapshot, PartDir, PartStaging, NoSnapshot, PCs, File
<1>2. FilesInv
  BY FileFields DEF FilesInv, Appending, Readable, Parsed
<1>3. MissingLogInv
  BY DEF MissingLogInv, Running
<1>4. CoverInv
  BY DEF CoverInv, Covered
<1>5. AppendInv
  BY DEF AppendInv, Appending
<1>6. SnapInv
  BY DEF SnapInv, HasParts, Running, Truncating, NoSnapshot
<1> QED
  BY <1>1, <1>2, <1>3, <1>4, <1>5, <1>6 DEF IInv

\* What open reads back: the snapshot on disk, and a counter no smaller than
\* any seq on disk.
LEMMA OpenReadsAll ==
    ASSUME IInv
    PROVE  /\ ReadableSnapshot = snapJson
           /\ RecoveredSeq \in Nat
           /\ RecoveredSeq <= MaxSeq
           /\ RecoveredSeq \in {snapJson.seq} \cup Seqs(Readable)
           /\ snapJson.seq <= RecoveredSeq
           /\ \A l \in Readable : l.seq <= RecoveredSeq
<1> USE BoundsAssumption
<1>1. ReadableSnapshot = snapJson
  BY DEF IInv, SnapInv, HasParts, ReadableSnapshot
<1> DEFINE S == {ReadableSnapshot.seq} \cup Seqs(Readable)
<1>0. Readable \subseteq Line
  BY DEF IInv, TypeOK, Readable, Parsed
<1>2. S \in SUBSET Nat /\ S # {}
  BY <1>0, <1>1 DEF IInv, TypeOK, Snapshot, Line, Seqs
<1>3. \A x \in S : x <= MaxSeq
  BY <1>1 DEF IInv, SnapInv, FilesInv, Seqs
<1>4. Max(S) \in S /\ \A x \in S : x <= Max(S)
  <2> HIDE DEF S
  <2> QED BY <1>2, <1>3, MaxInSet
<1>5. RecoveredSeq = Max(S)
  BY DEF RecoveredSeq
<1>6. S = {snapJson.seq} \cup Seqs(Readable) /\ \A l \in Readable : l.seq \in S
  BY <1>1 DEF Seqs
<1> QED
  <2> HIDE DEF S
  <2> QED BY <1>1, <1>2, <1>3, <1>4, <1>5, <1>6

\* An upload with other counters is an upload.
LEMMA PartStagingUpdate ==
    ASSUME NEW u \in PartStaging, NEW n \in Nat, NEW m \in Nat
    PROVE  [u EXCEPT !.next_idx = n, !.total = m] \in PartStaging
BY DEF PartStaging

\* The steps that touch no file of lines and neither start nor end an append.
LinesStill ==
    /\ UNCHANGED <<files, logFile, tmp, pending, before, acked, lost, unswapped>>
    /\ ~Appending /\ ~Appending'
    /\ pc' \notin {"down", "open", "swap", "sync_tmp", "keep_prev"}

\* They keep what is said of the lines, if the snapshot does not go back.
LEMMA StillLines ==
    ASSUME IInv, LinesStill, Running, pc # "swap", snapJson.seq <= snapJson'.seq,
           snapJson'.seq \in Nat, last_seq' = last_seq
    PROVE  FilesInv' /\ MissingLogInv' /\ CoverInv' /\ AppendInv'
<1>1. Readable' = Readable /\ Parsed(before.lines, before.rest)' = Parsed(before.lines, before.rest)
  BY DEF LinesStill, Readable, logFile
<1>2. FilesInv'
  BY <1>1 DEF IInv, FilesInv, LinesStill, logFile
<1>3. MissingLogInv'
  BY DEF IInv, MissingLogInv, LinesStill, Running
<1>4. Recoverable' = Recoverable
  BY <1>1 DEF LinesStill, Recoverable
<1>5. CoverInv'
  <2>1. snapJson.seq \in Nat /\ \A a \in acked : a.seq \in Nat
    BY DEF IInv, TypeOK, Snapshot, Line
  <2>2. Covered(Recoverable)
    BY DEF IInv, CoverInv
  <2>3. Covered(Recoverable)'
    BY <1>4, <2>1, <2>2 DEF Covered, LinesStill
  <2> QED BY <2>3 DEF CoverInv, LinesStill
<1>6. AppendInv'
  BY DEF IInv, AppendInv, LinesStill, Appending
<1> QED
  BY <1>2, <1>3, <1>5, <1>6

\* What a crash leaves of log.jsonl, mid-append or not, still covers what was
\* acked: of the line being written a part, or nothing, but of the lines before
\* it all that no gap took.
LEMMA CrashKeeps ==
    ASSUME IInv, Crash
    PROVE  /\ log' \subseteq Line /\ stub' \subseteq Line \cup {Fragment}
           /\ lost' \subseteq Line /\ lost \subseteq lost'
           /\ \A l \in Readable' : l.seq <= MaxSeq
           /\ "log" \notin files => log' = {} /\ stub' = {}
           /\ Covered(Recoverable)'
<1>a. /\ log \subseteq Line /\ lost \subseteq Line /\ pending \subseteq Line
      /\ stub \subseteq Line \cup {Fragment}
      /\ before.rest \subseteq Line \cup {Fragment} /\ before.lines \subseteq Line
  BY DEF IInv, TypeOK
<1>b. TypeOK /\ FilesInv /\ AppendInv /\ CoverInv /\ UNCHANGED <<files, tmp, snapJson, acked>>
  BY DEF IInv, Crash
<1>1. CASE log' = log /\ stub' = stub /\ lost' = lost
  <2>1. Readable' = Readable /\ Recoverable' = Recoverable
    BY <1>1, <1>b DEF Readable, Recoverable
  <2> QED BY <1>1, <1>a, <1>b, <2>1 DEF FilesInv, CoverInv, Covered
<1>2. CASE pc = "line" /\ log' = log /\ stub' = {Fragment} /\ lost' = lost \cup LostWith(stub, {})
  <2>1. Appending /\ "log" \in files
    BY <1>2, <1>b DEF Appending, FilesInv
  <2>2. Readable' = log /\ Readable \subseteq log \cup LostWith(stub, {})
    BY <1>2, WhatIsLeft DEF Readable
  <2>3. log \subseteq Readable /\ Recoverable = Readable /\ Recoverable' = log
    BY <1>b, <2>1, <2>2 DEF Recoverable, Readable, Parsed
  <2>4. LostWith(stub, {}) \subseteq Line
    BY <1>a DEF LostWith
  <2> QED BY <1>2, <1>a, <1>b, <2>1, <2>2, <2>3, <2>4 DEF FilesInv, CoverInv, Covered
<1>3. CASE pc \in {"newline", "sync"} /\ log' = before.lines /\ lost' = lost
           /\ stub' \in {before.rest, {Fragment}, Glued(before.rest)}
  <2>1. Appending /\ "log" \in files
    BY <1>3, <1>b DEF Appending, FilesInv
  <2>2. /\ LostWith(before.rest, pending) \subseteq lost
        /\ Covered(Parsed(before.lines, before.rest))
        /\ \A l \in pending : l.seq <= MaxSeq
    BY <1>3, <1>b, <2>1, BoundsAssumption DEF AppendInv, TypeOK
  <2>3. /\ Readable' \subseteq Parsed(before.lines, before.rest) \cup pending
        /\ Parsed(before.lines, before.rest) \subseteq Readable' \cup lost
    BY <1>3, <2>2 DEF Readable, Parsed, Glued, LostWith
  <2>4. stub' \subseteq Line \cup {Fragment}
    BY <1>3, <1>a DEF Glued
  <2>5. Covered(Readable)'
    BY <1>3, <1>b, <2>2, <2>3 DEF Covered
  <2>6. Recoverable' = Readable'
    BY <1>b, <2>1 DEF Recoverable
  <2> QED BY <1>3, <1>a, <1>b, <2>1, <2>2, <2>3, <2>4, <2>5, <2>6 DEF FilesInv, Covered
<1>4. PICK file \in Unsynced :
          /\ log' = file.lines /\ stub' = file.rest
          /\ lost' = IF pc = "line" /\ file.rest # stub THEN lost \cup LostWith(stub, {}) ELSE lost
  BY DEF Crash
<1>5. CASE pc = "line"
  <2>1. file = File(log, stub) \/ file = File(log, {Fragment})
    BY <1>4, <1>5 DEF Unsynced
  <2> QED BY <1>1, <1>2, <1>4, <1>5, <2>1, FileFields
<1>6. CASE pc \in {"newline", "sync"}
  <2>1. \/ file = File(log, stub) \/ file = before
        \/ file = File(before.lines, {Fragment}) \/ file = File(before.lines, Glued(before.rest))
    BY <1>4, <1>6 DEF Unsynced
  <2>2. lost' = lost
    BY <1>4, <1>6
  <2> QED BY <1>1, <1>3, <1>4, <1>6, <2>1, <2>2, FileFields
<1>7. CASE ~Appending
  <2>1. file = File(log, stub) /\ pc # "line"
    BY <1>4, <1>7 DEF Unsynced, Appending
  <2> QED BY <1>1, <1>4, <2>1, FileFields
<1> QED
  BY <1>5, <1>6, <1>7 DEF Appending

\* Every step preserves the invariant: one step per action, under it one per
\* conjunct.
LEMMA StepInv == IInv /\ [Next]_vars => IInv'
<1> SUFFICES ASSUME IInv, [Next]_vars PROVE IInv'
  OBVIOUS
<1> USE BoundsAssumption
<1>a. /\ log \subseteq Line /\ Readable \subseteq Line /\ tmp \subseteq Line
      /\ pending \subseteq Line /\ lost \subseteq Line
      /\ Parsed(before.lines, before.rest) \subseteq Line
      /\ stub \subseteq Line \cup {Fragment}
      /\ before.rest \subseteq Line \cup {Fragment} /\ before.lines \subseteq Line
  BY DEF IInv, TypeOK, Readable, Parsed
<1>b. /\ TypeOK /\ FilesInv /\ MissingLogInv /\ AppendInv /\ CoverInv /\ SnapInv
      /\ last_seq \in Nat /\ snapJson.seq \in Nat /\ \A l \in Line : l.seq \in Nat
  BY DEF IInv, TypeOK, Snapshot, Line
<1>c. Appending => "log" \in files /\ Recoverable = Readable
  BY <1>b DEF FilesInv, Recoverable
<1>1. ASSUME NEW b \in Blob, Append(b)
      PROVE  IInv'
  <2> DEFINE line == [seq |-> last_seq + 1, blob |-> b]
  <2>0. /\ line \in Line /\ line.seq = last_seq + 1 /\ pending' = {line}
        /\ pc = "idle" /\ pc' = "line" /\ ~Appending /\ Appending' /\ Running
        /\ before' = File(log, stub) /\ files' = files \cup {"log"} /\ lost' = lost \cup Stranded
        /\ before'.lines = log /\ before'.rest = stub
    BY <1>1, <1>b, FileFields DEF Line, Append, Idle, Appending, Running
  <2>a. Readable' = Readable /\ Parsed(before.lines, before.rest)' = Readable
    BY <2>0, <1>1 DEF Readable, Append, logFile
  <2>b. Covered(Readable)'
    <3>1. CASE "log" \in files
      BY <1>1, <1>b, <2>0, <2>a, <3>1 DEF CoverInv, Covered, Recoverable, Append
    <3>2. CASE "log" \notin files
      <4>1. Covered(tmp)
        BY <1>b, <3>2 DEF CoverInv, Recoverable
      <4>2. tmp = {} \/ Stranded = Tail(tmp, snapJson.seq)
        BY <1>b, <2>0, <3>2 DEF MissingLogInv, Stranded
      <4>3. \A a \in tmp : a.seq <= snapJson.seq \/ a \in lost'
        BY <1>a, <1>b, <2>0, <4>2 DEF Tail
      <4> QED BY <1>1, <2>0, <4>1, <4>3 DEF Covered, Append
    <3> QED BY <3>1, <3>2
  <2>c. line.blob = b /\ line = [seq |-> last_seq + 1, blob |-> b]
    OBVIOUS
  <2>d. before' \in [lines : SUBSET Line, rest : SUBSET (Line \cup {Fragment})]
    BY <1>a, <2>0 DEF File
  <2>e. Stranded \subseteq Line
    BY <1>a DEF Stranded, Tail
  <2>h. last_seq' = last_seq /\ last_seq < MaxSeq
    BY <1>1 DEF Append
  <2> HIDE DEF line
  <2>1. TypeOK'
    BY <2>0, <2>d, <2>e, <1>1 DEF IInv, TypeOK, PCs, Append, logFile
  <2>2. FilesInv'
    BY <1>1, <1>b, <2>0, <2>a DEF FilesInv, Append, logFile
  <2>3. MissingLogInv'
    BY <1>1, <1>b, <2>0 DEF MissingLogInv, Append, Running
  <2>4. CoverInv'
    BY <2>0, <2>b DEF CoverInv, Recoverable
  <2>5. AppendInv'
    <3>1. \E bb \in Blob : pending' = {[seq |-> last_seq' + 1, blob |-> bb]}
      BY <2>0, <2>c, <2>h
    <3>2. before' = File(log', stub') /\ Covered(Parsed(before.lines, before.rest))'
      BY <1>1, <2>0, <2>a, <2>b DEF Append, logFile, Covered
    <3> QED BY <2>0, <2>h, <3>1, <3>2 DEF AppendInv
  <2>6. SnapInv'
    BY <1>1, <1>b DEF SnapInv, HasParts, Running, Truncating, Append, Idle
  <2> QED BY <2>1, <2>2, <2>3, <2>4, <2>5, <2>6 DEF IInv
<1>2. CASE WriteLine
  <2>0. /\ pc = "line" /\ pc' = "newline" /\ Appending /\ Appending' /\ Running /\ Running'
        /\ stub' = Glued(stub) /\ lost' = lost \cup LostWith(stub, pending)
        /\ UNCHANGED <<files, log, tmp, snapJson, partDirs, stagingDirs, memory, top, acked, unswapped>>
    BY <1>2 DEF WriteLine, Appending, Running
  <2>a. before.lines = log /\ before.rest = stub
    BY <1>b, <2>0, FileFields DEF AppendInv
  <2>b. LostWith(stub, pending) \subseteq Line
    BY <1>a DEF LostWith
  <2>c. stub' \subseteq Line \cup {Fragment} /\ stub' \subseteq pending \cup {Fragment}
    BY <1>a, <2>0 DEF Glued
  <2>d. Readable' \subseteq log \cup pending
    BY <2>0, <2>c DEF Readable, Parsed
  <2>e. Covered(Readable)'
    <3>1. Readable \subseteq log \cup LostWith(stub, pending)
      BY WhatIsLeft DEF Readable
    <3>2. log \subseteq Readable'
      BY <2>0 DEF Readable, Parsed
    <3> QED BY <1>b, <1>c, <2>0, <3>1, <3>2 DEF CoverInv, Covered
  <2>f. \A l \in pending : l.seq <= MaxSeq
    BY <1>b, <2>0 DEF AppendInv
  <2>1. TypeOK'
    BY <1>b, <2>0, <2>b, <2>c DEF TypeOK, PCs, memory
  <2>2. FilesInv'
    <3>1. \A l \in Readable' : l.seq <= MaxSeq
      BY <1>b, <2>d, <2>f DEF FilesInv, Readable, Parsed
    <3> QED BY <1>b, <2>0, <3>1 DEF FilesInv, Parsed, memory
  <2>3. MissingLogInv'
    BY <1>b, <2>0 DEF MissingLogInv
  <2>4. CoverInv'
    BY <1>c, <2>0, <2>e DEF CoverInv, Recoverable, Covered
  <2>5. AppendInv'
    BY <1>b, <2>0, <2>a DEF AppendInv, Covered, Parsed, Glued, LostWith, memory
  <2>6. SnapInv'
    BY <1>b, <2>0 DEF SnapInv, HasParts, Truncating, memory
  <2> QED BY <2>1, <2>2, <2>3, <2>4, <2>5, <2>6 DEF IInv
<1>3. CASE EndLine
  <2>0. /\ pc = "newline" /\ pc' = "sync" /\ Appending /\ Appending' /\ Running /\ Running'
        /\ log' = Readable /\ stub' = {}
        /\ UNCHANGED <<files, tmp, snapJson, partDirs, stagingDirs, memory, top, acked, lost, unswapped>>
    BY <1>3 DEF EndLine, Appending, Running, history
  <2>a. Readable' = Readable
    BY <2>0 DEF Readable, Parsed
  <2>1. TypeOK'
    BY <1>a, <1>b, <2>0 DEF TypeOK, PCs, memory
  <2>2. FilesInv'
    BY <1>b, <2>0, <2>a DEF FilesInv, Parsed, memory
  <2>3. MissingLogInv'
    BY <1>b, <2>0 DEF MissingLogInv
  <2>4. CoverInv'
    BY <1>b, <1>c, <2>0, <2>a DEF CoverInv, Recoverable, Covered
  <2>5. AppendInv'
    BY <1>b, <2>0 DEF AppendInv, Covered, Parsed, Glued, LostWith, Readable, memory
  <2>6. SnapInv'
    BY <1>b, <2>0 DEF SnapInv, HasParts, Truncating, memory
  <2> QED BY <2>1, <2>2, <2>3, <2>4, <2>5, <2>6 DEF IInv
<1>4. CASE AppendSynced
  <2>0. /\ pc = "sync" /\ pc' = "idle" /\ Appending /\ ~Appending' /\ Running /\ Running'
        /\ last_seq' = last_seq + 1 /\ top' = last_seq + 1 /\ acked' = acked \cup pending
        /\ pending' = {} /\ before' = File({}, {})
        /\ UNCHANGED <<files, log, stub, tmp, snapJson, partDirs, stagingDirs, snapshot,
                       target, healing, uploads, lost, unswapped>>
    BY <1>4 DEF AppendSynced, Appending, Running, disk, logFile
  <2>a. Readable' = Readable /\ before'.lines = {} /\ before'.rest = {}
    BY <2>0, FileFields DEF Readable
  <2>b. pending \subseteq Readable \cup lost
    <3>1. \A l \in pending : l # Fragment
      BY <1>a, FragmentIsNoLine
    <3>2. CASE before.rest = {}
      BY <1>b, <2>0, <3>1, <3>2 DEF AppendInv, Parsed, Glued, Readable
    <3>3. CASE before.rest # {}
      BY <1>b, <2>0, <3>3 DEF AppendInv, LostWith
    <3> QED BY <3>2, <3>3
  <2>c. before' \in [lines : SUBSET Line, rest : SUBSET (Line \cup {Fragment})]
    BY <2>0 DEF File
  <2>1. TypeOK'
    BY <1>a, <1>b, <2>0, <2>c DEF TypeOK, PCs
  <2>2. FilesInv'
    BY <1>b, <2>0, <2>a DEF FilesInv, AppendInv, Parsed
  <2>3. MissingLogInv'
    BY <1>b, <2>0 DEF MissingLogInv
  <2>4. CoverInv'
    BY <1>b, <1>c, <2>0, <2>a, <2>b DEF CoverInv, Recoverable, Covered
  <2>5. AppendInv'
    BY <2>0 DEF AppendInv, Appending
  <2>6. SnapInv'
    BY <1>b, <2>0 DEF SnapInv, HasParts, Truncating
  <2> QED BY <2>1, <2>2, <2>3, <2>4, <2>5, <2>6 DEF IInv
<1>5. CASE AppendFails
  <2>0. /\ Appending /\ pc' = "idle" /\ ~Appending' /\ Running /\ Running' /\ CutShort
        /\ pending' = {} /\ before' = File({}, {})
        /\ UNCHANGED <<files, log, tmp, snapJson, partDirs, stagingDirs, last_seq,
                       snapshot, target, healing, uploads, top, acked, unswapped>>
    BY <1>5 DEF AppendFails, Appending, Running
  <2>a. before'.lines = {} /\ before'.rest = {}
    BY <2>0, FileFields
  <2>b. before' \in [lines : SUBSET Line, rest : SUBSET (Line \cup {Fragment})]
    BY <2>0 DEF File
  <2>c. /\ stub' \subseteq Line \cup {Fragment} /\ lost' \subseteq Line
        /\ Readable' \subseteq Readable /\ Readable \subseteq Readable' \cup lost' /\ lost \subseteq lost'
    BY <1>a, <2>0 DEF CutShort, LostWith, Readable, Parsed
  <2>1. TypeOK'
    BY <1>b, <2>0, <2>b, <2>c DEF TypeOK, PCs
  <2>2. FilesInv'
    BY <1>b, <2>0, <2>a, <2>c DEF FilesInv, Parsed
  <2>3. MissingLogInv'
    BY <1>b, <2>0 DEF MissingLogInv, FilesInv
  <2>4. CoverInv'
    BY <1>b, <1>c, <2>0, <2>c DEF CoverInv, Recoverable, Covered
  <2>5. AppendInv'
    BY <2>0 DEF AppendInv
  <2>6. SnapInv'
    BY <1>b, <2>0 DEF SnapInv, HasParts, Truncating
  <2> QED BY <2>1, <2>2, <2>3, <2>4, <2>5, <2>6 DEF IInv
<1>6. ASSUME NEW upto \in 1..MaxSeq, NEW size \in 1..SnapshotMax, CompactWithin(upto, size)
      PROVE  IInv'
  <2>0. LinesStill /\ Running /\ pc # "swap" /\ snapJson'.seq \in Nat /\ snapJson.seq <= snapJson'.seq /\ last_seq' = last_seq
    BY <1>6, <1>b DEF CompactWithin, LinesStill, Running, Appending, Idle, disk, memory, logFile, history
  <2>1. TypeOK'
    BY <1>6, <1>b DEF TypeOK, PCs, CompactWithin, disk, memory, logFile, history, Snapshot
  <2>2. FilesInv'
    BY <2>0, StillLines
  <2>3. MissingLogInv'
    BY <2>0, StillLines
  <2>4. CoverInv'
    BY <2>0, StillLines
  <2>5. AppendInv'
    BY <2>0, StillLines
  <2>6. SnapInv'
    BY <1>6, <1>b DEF SnapInv, HasParts, Running, Truncating, CompactWithin, disk, memory, history, Idle, Compactable
  <2> QED BY <2>1, <2>2, <2>3, <2>4, <2>5, <2>6 DEF IInv
<1>7. ASSUME NEW c \in Conn, NEW upto \in 1..MaxSeq, NEW of \in 1..MaxParts, StageParts(c, upto, of)
      PROVE  IInv'
  <2>0. LinesStill /\ Running /\ pc # "swap" /\ snapJson'.seq \in Nat /\ snapJson.seq <= snapJson'.seq /\ last_seq' = last_seq
    BY <1>7, <1>b DEF StageParts, LinesStill, Running, Appending, Idle, disk, memory, logFile, history
  <2>1. TypeOK'
    BY <1>7, <1>b DEF TypeOK, PCs, StageParts, disk, memory, logFile, history, PartStaging
  <2>2. FilesInv'
    BY <2>0, StillLines
  <2>3. MissingLogInv'
    BY <2>0, StillLines
  <2>4. CoverInv'
    BY <2>0, StillLines
  <2>5. AppendInv'
    BY <2>0, StillLines
  <2>6. SnapInv'
    BY <1>7, <1>b DEF SnapInv, HasParts, Running, Truncating, StageParts, disk, memory, history
  <2> QED BY <2>1, <2>2, <2>3, <2>4, <2>5, <2>6 DEF IInv
<1>8. ASSUME NEW u \in uploads, NEW size \in 1..SnapshotMax, AddPart(u, size)
      PROVE  IInv'
  <2>0. [u EXCEPT !.next_idx = @ + 1, !.total = @ + size] \in PartStaging
    <3>1. u \in PartStaging
      BY <1>8 DEF IInv, TypeOK
    <3>2. size \in Nat
      OBVIOUS
    <3>3. u.next_idx + 1 \in Nat /\ u.total + size \in Nat
      BY <3>1, <3>2 DEF PartStaging
    <3> QED BY <3>1, <3>3, PartStagingUpdate
  <2>a. UNCHANGED <<files, log, stub, tmp, snapJson, partDirs, stagingDirs, pc, last_seq, snapshot,
                    pending, before, target, healing, top, acked, lost, unswapped>>
    BY <1>8 DEF AddPart, disk, logFile, history
  <2>b. UNCHANGED <<Readable, Recoverable, Running, Appending, Truncating>>
    BY <2>a DEF Readable, Recoverable, Running, Appending, Truncating
  <2>1. TypeOK'
    BY <2>0, <2>a, <1>8, <1>b DEF TypeOK, AddPart
  <2>2. FilesInv'
    BY <2>a, <2>b, <1>b DEF FilesInv, Parsed
  <2>3. MissingLogInv'
    BY <2>a, <2>b, <1>b DEF MissingLogInv
  <2>4. CoverInv'
    BY <2>a, <2>b, <1>b DEF CoverInv, Covered
  <2>5. AppendInv'
    BY <2>a, <2>b, <1>b DEF AppendInv, Covered, Glued
  <2>6. SnapInv'
    BY <2>0, <2>a, <2>b, <1>8, <1>b DEF SnapInv, HasParts, TypeOK, PartStaging, AddPart
  <2> QED BY <2>1, <2>2, <2>3, <2>4, <2>5, <2>6 DEF IInv
<1>9. ASSUME NEW u \in uploads, DropStaging(u)
      PROVE  IInv'
  <2>a. UNCHANGED <<files, log, stub, tmp, snapJson, partDirs, pc, last_seq, snapshot,
                    pending, before, target, healing, top, acked, lost, unswapped>>
    BY <1>9 DEF DropStaging, logFile, history
  <2>b. UNCHANGED <<Readable, Recoverable, Running, Appending, Truncating>>
    BY <2>a DEF Readable, Recoverable, Running, Appending, Truncating
  <2>1. TypeOK'
    BY <2>a, <1>9, <1>b DEF TypeOK, DropStaging
  <2>2. FilesInv'
    BY <2>a, <2>b, <1>b DEF FilesInv, Parsed
  <2>3. MissingLogInv'
    BY <2>a, <2>b, <1>b DEF MissingLogInv
  <2>4. CoverInv'
    BY <2>a, <2>b, <1>b DEF CoverInv, Covered
  <2>5. AppendInv'
    BY <2>a, <2>b, <1>b DEF AppendInv, Covered, Glued
  <2>6. SnapInv'
    BY <2>a, <2>b, <1>9, <1>b DEF SnapInv, HasParts, DropStaging
  <2> QED BY <2>1, <2>2, <2>3, <2>4, <2>5, <2>6 DEF IInv
<1>10. ASSUME NEW u \in uploads, CommitParts(u)
      PROVE  IInv'
  <2>0. LinesStill /\ Running /\ pc # "swap" /\ snapJson'.seq \in Nat /\ snapJson.seq <= snapJson'.seq /\ last_seq' = last_seq
    BY <1>10, <1>b DEF CommitParts, LinesStill, Running, Appending, Idle, disk, memory, logFile, history
  <2>1. TypeOK'
    BY <1>10, <1>b DEF TypeOK, PCs, CommitParts, disk, memory, logFile, history, Snapshot, PartStaging
  <2>2. FilesInv'
    BY <2>0, StillLines
  <2>3. MissingLogInv'
    BY <2>0, StillLines
  <2>4. CoverInv'
    BY <2>0, StillLines
  <2>5. AppendInv'
    BY <2>0, StillLines
  <2>6. SnapInv'
    BY <1>10, <1>b DEF SnapInv, HasParts, Running, Truncating, CommitParts, disk, memory, history, TypeOK, PartStaging, Idle, StillCompactable, Compactable
  <2> QED BY <2>1, <2>2, <2>3, <2>4, <2>5, <2>6 DEF IInv
<1>11. CASE MoveParts
  <2>0. LinesStill /\ Running /\ pc # "swap" /\ snapJson'.seq \in Nat /\ snapJson.seq <= snapJson'.seq /\ last_seq' = last_seq
    BY <1>11, <1>b DEF MoveParts, LinesStill, Running, Appending, Idle, disk, memory, logFile, history
  <2>1. TypeOK'
    BY <1>11, <1>b DEF TypeOK, PCs, MoveParts, disk, memory, logFile, history, Snapshot, PartDir, PartStaging, Owned
  <2>2. FilesInv'
    BY <2>0, StillLines
  <2>3. MissingLogInv'
    BY <2>0, StillLines
  <2>4. CoverInv'
    BY <2>0, StillLines
  <2>5. AppendInv'
    BY <2>0, StillLines
  <2>6. SnapInv'
    BY <1>11, <1>b DEF SnapInv, HasParts, Running, Truncating, MoveParts, disk, memory, history
  <2> QED BY <2>1, <2>2, <2>3, <2>4, <2>5, <2>6 DEF IInv
<1>12. CASE PublishSnapshot
  <2>0. LinesStill /\ Running /\ pc # "swap" /\ snapJson'.seq \in Nat /\ snapJson.seq <= snapJson'.seq /\ last_seq' = last_seq
    BY <1>12, <1>b DEF PublishSnapshot, LinesStill, Running, Appending, Idle, disk, memory, logFile, history, TypeOK, Snapshot, SnapInv
  <2>1. TypeOK'
    BY <1>12, <1>b DEF TypeOK, PCs, PublishSnapshot, disk, memory, logFile, history
  <2>2. FilesInv'
    BY <2>0, StillLines
  <2>3. MissingLogInv'
    BY <2>0, StillLines
  <2>4. CoverInv'
    BY <2>0, StillLines
  <2>5. AppendInv'
    BY <2>0, StillLines
  <2>6. SnapInv'
    BY <1>12, <1>b DEF SnapInv, HasParts, Running, Truncating, PublishSnapshot, disk, memory, history
  <2> QED BY <2>1, <2>2, <2>3, <2>4, <2>5, <2>6 DEF IInv
<1>13. CASE SweepParts
  <2>0. LinesStill /\ Running /\ pc # "swap" /\ snapJson'.seq \in Nat /\ snapJson.seq <= snapJson'.seq /\ last_seq' = last_seq
    BY <1>13, <1>b DEF SweepParts, LinesStill, Running, Appending, Idle, disk, memory, logFile, history
  <2>1. TypeOK'
    BY <1>13, <1>b DEF TypeOK, PCs, SweepParts, disk, memory, logFile, history
  <2>2. FilesInv'
    BY <2>0, StillLines
  <2>3. MissingLogInv'
    BY <2>0, StillLines
  <2>4. CoverInv'
    BY <2>0, StillLines
  <2>5. AppendInv'
    BY <2>0, StillLines
  <2>6. SnapInv'
    BY <1>13, <1>b DEF SnapInv, HasParts, Running, Truncating, SweepParts, disk, memory, history, StalePartDirs
  <2> QED BY <2>1, <2>2, <2>3, <2>4, <2>5, <2>6 DEF IInv
<1>14. CASE CreateTmp
  <2>0. /\ pc = "create_tmp" /\ pc' = "sync_tmp" /\ ~Appending /\ ~Appending' /\ Running /\ Running'
        /\ files' = files \cup {"tmp"} /\ lost' = lost \cup Stranded
        /\ UNCHANGED <<log, stub, snapJson, partDirs, stagingDirs, last_seq, snapshot, pending,
                       before, target, healing, uploads, top, acked, unswapped>>
    BY <1>14 DEF CreateTmp, Appending, Running, logFile, memory
  <2>a. tmp' \subseteq Tail(Readable, target.seq) /\ tmp' \subseteq Readable
    BY <1>14 DEF CreateTmp, Tail
  <2>b. Readable' = Readable /\ UNCHANGED Parsed(before.lines, before.rest)
    BY <2>0 DEF Readable
  <2>c. "log" \notin files => Readable = {}
    BY <1>b DEF FilesInv, Readable, Parsed
  <2>d. Stranded \subseteq Line
    BY <1>a DEF Stranded, Tail
  <2>1. TypeOK'
    BY <1>a, <1>b, <2>0, <2>a, <2>d DEF TypeOK, PCs
  <2>2. FilesInv'
    BY <1>b, <2>0, <2>a, <2>b DEF FilesInv
  <2>3. MissingLogInv'
    BY <1>b, <2>0, <2>a, <2>c DEF MissingLogInv
  <2>4. CoverInv'
    <3>1. CASE "log" \in files
      BY <1>b, <2>0, <2>b, <3>1 DEF CoverInv, Covered, Recoverable
    <3>2. CASE "log" \notin files
      <4>1. Covered(tmp)
        BY <1>b, <3>2 DEF CoverInv, Recoverable
      <4>2. tmp = {} \/ Stranded = Tail(tmp, snapJson.seq)
        BY <1>b, <2>0, <3>2 DEF MissingLogInv, Stranded
      <4>3. \A a \in tmp : a.seq <= snapJson.seq \/ a \in lost'
        BY <1>a, <1>b, <2>0, <4>2 DEF Tail
      <4> QED BY <2>0, <4>1, <4>3 DEF CoverInv, Covered
    <3> QED BY <3>1, <3>2
  <2>5. AppendInv'
    BY <1>b, <2>0 DEF AppendInv, Appending
  <2>6. SnapInv'
    BY <1>b, <2>0 DEF SnapInv, HasParts, Truncating
  <2> QED BY <2>1, <2>2, <2>3, <2>4, <2>5, <2>6 DEF IInv
<1>15. CASE SyncTmp
  <2>0. /\ pc = "sync_tmp" /\ pc' = "keep_prev" /\ ~Appending /\ ~Appending' /\ Running /\ Running'
        /\ tmp' = Tail(Readable, target.seq)
        /\ UNCHANGED <<files, log, stub, snapJson, partDirs, stagingDirs, last_seq, snapshot, pending,
                       before, target, healing, uploads, top, acked, lost, unswapped>>
    BY <1>15 DEF SyncTmp, Appending, Running, logFile, memory, history
  <2>a. tmp' \subseteq Readable
    BY <2>0 DEF Tail
  <2>b. Readable' = Readable /\ UNCHANGED Parsed(before.lines, before.rest)
    BY <2>0 DEF Readable
  <2>c. "log" \notin files => Readable = {} /\ tmp = {}
    BY <1>b, <2>0 DEF FilesInv, MissingLogInv, Readable, Parsed
  <2>1. TypeOK'
    BY <1>a, <1>b, <2>0, <2>a DEF TypeOK, PCs
  <2>2. FilesInv'
    BY <1>b, <2>0, <2>a, <2>b DEF FilesInv
  <2>3. MissingLogInv'
    BY <1>b, <2>0, <2>a, <2>c DEF MissingLogInv
  <2>4. CoverInv'
    <3>1. Recoverable' = Recoverable
      BY <2>0, <2>a, <2>b, <2>c DEF Recoverable
    <3> QED BY <1>b, <2>0, <2>b, <3>1 DEF CoverInv, Covered
  <2>5. AppendInv'
    BY <1>b, <2>0 DEF AppendInv, Appending
  <2>6. SnapInv'
    BY <1>b, <2>0 DEF SnapInv, HasParts, Truncating
  <2> QED BY <2>1, <2>2, <2>3, <2>4, <2>5, <2>6 DEF IInv
<1>16. CASE KeepPrev
  <2>0. /\ pc = "keep_prev" /\ pc' = "swap" /\ ~Appending /\ ~Appending' /\ Running /\ Running'
        /\ files' = files \ {"log"} /\ log' = {} /\ stub' = {}
        /\ UNCHANGED <<tmp, snapJson, partDirs, stagingDirs, last_seq, snapshot, pending,
                       before, target, healing, uploads, top, acked, lost, unswapped>>
    BY <1>16 DEF KeepPrev, Appending, Running, memory, history
  <2>a. Readable' = {} /\ UNCHANGED Parsed(before.lines, before.rest)
    BY <2>0 DEF Readable, Parsed
  <2>b. target = snapJson /\ tmp = Tail(Readable, snapJson.seq)
    BY <1>b, <2>0 DEF SnapInv, CoverInv, Truncating
  <2>1. TypeOK'
    BY <1>b, <2>0 DEF TypeOK, PCs
  <2>2. FilesInv'
    BY <1>b, <2>0, <2>a DEF FilesInv
  <2>3. MissingLogInv'
    BY <1>b, <2>0 DEF MissingLogInv
  <2>4. CoverInv'
    <3>1. \A a \in Recoverable : a.seq <= snapJson.seq \/ a \in tmp
      BY <1>a, <1>b, <2>b DEF Recoverable, Tail
    <3>2. Recoverable' = tmp
      BY <2>0 DEF Recoverable
    <3> QED BY <1>b, <2>0, <3>1, <3>2 DEF CoverInv, Covered
  <2>5. AppendInv'
    BY <1>b, <2>0 DEF AppendInv, Appending
  <2>6. SnapInv'
    BY <1>b, <2>0 DEF SnapInv, HasParts, Truncating
  <2> QED BY <2>1, <2>2, <2>3, <2>4, <2>5, <2>6 DEF IInv
<1>17. CASE SwapTail
  <2>0. /\ pc = "swap" /\ pc' = "idle" /\ ~Appending /\ ~Appending' /\ Running /\ Running'
        /\ files' = {"log"} /\ log' = tmp /\ tmp' = {} /\ stub' = stub
        /\ target' = NoSnapshot /\ healing' = FALSE /\ stagingDirs' = Owned(uploads)
        /\ UNCHANGED <<snapJson, partDirs, last_seq, snapshot, pending,
                       before, uploads, top, acked, lost, unswapped>>
    BY <1>17 DEF SwapTail, Return, Appending, Running, history
  <2>a. "log" \notin files /\ stub = {}
    BY <1>b, <2>0 DEF FilesInv
  <2>b. Readable' = tmp /\ Recoverable = tmp /\ Recoverable' = tmp
        /\ UNCHANGED Parsed(before.lines, before.rest)
    BY <2>0, <2>a DEF Readable, Parsed, Recoverable
  <2>1. TypeOK'
    BY <1>b, <2>0 DEF TypeOK, PCs, Owned, PartStaging, Snapshot, NoSnapshot
  <2>2. FilesInv'
    BY <1>b, <2>0, <2>a, <2>b DEF FilesInv
  <2>3. MissingLogInv'
    BY <1>b, <2>0 DEF MissingLogInv
  <2>4. CoverInv'
    BY <1>b, <2>0, <2>b DEF CoverInv, Covered
  <2>5. AppendInv'
    BY <1>b, <2>0 DEF AppendInv, Appending
  <2>6. SnapInv'
    BY <1>b, <2>0 DEF SnapInv, HasParts, Truncating
  <2> QED BY <2>1, <2>2, <2>3, <2>4, <2>5, <2>6 DEF IInv
<1>18. CASE SwapFails
  <2>0. /\ pc = "swap" /\ pc' = "idle" /\ ~Appending /\ ~Appending' /\ Running /\ Running'
        /\ target' = NoSnapshot /\ healing' = FALSE /\ stagingDirs' = Owned(uploads)
        /\ unswapped' = TRUE
        /\ UNCHANGED <<files, log, stub, tmp, snapJson, partDirs, last_seq, snapshot, pending,
                       before, uploads, top, acked, lost>>
    BY <1>18 DEF SwapFails, Return, Appending, Running, logFile
  <2>a. UNCHANGED <<Readable, Recoverable, Parsed(before.lines, before.rest)>>
    BY <2>0 DEF Readable, Recoverable
  <2>1. TypeOK'
    BY <1>b, <2>0 DEF TypeOK, PCs, Owned, PartStaging, Snapshot, NoSnapshot
  <2>2. FilesInv'
    BY <1>b, <2>0, <2>a DEF FilesInv
  <2>3. MissingLogInv'
    BY <1>b, <2>0 DEF MissingLogInv
  <2>4. CoverInv'
    BY <1>b, <2>0, <2>a DEF CoverInv, Covered
  <2>5. AppendInv'
    BY <1>b, <2>0 DEF AppendInv, Appending
  <2>6. SnapInv'
    BY <1>b, <2>0 DEF SnapInv, HasParts, Truncating
  <2> QED BY <2>1, <2>2, <2>3, <2>4, <2>5, <2>6 DEF IInv
<1>19. CASE IoError
  <2>0. LinesStill /\ Running /\ pc # "swap" /\ snapJson'.seq \in Nat /\ snapJson.seq <= snapJson'.seq /\ last_seq' = last_seq
    BY <1>19, <1>b DEF IoError, LinesStill, Running, Appending, Idle, disk, memory, logFile, history, Return
  <2>1. TypeOK'
    BY <1>19, <1>b DEF TypeOK, PCs, IoError, disk, memory, logFile, history, Return, Owned, PartStaging, Snapshot, NoSnapshot
  <2>2. FilesInv'
    BY <2>0, StillLines
  <2>3. MissingLogInv'
    BY <2>0, StillLines
  <2>4. CoverInv'
    BY <2>0, StillLines
  <2>5. AppendInv'
    BY <2>0, StillLines
  <2>6. SnapInv'
    BY <1>19, <1>b DEF SnapInv, HasParts, Running, Truncating, IoError, disk, memory, history, Return
  <2> QED BY <2>1, <2>2, <2>3, <2>4, <2>5, <2>6 DEF IInv
<1>20. CASE OpenReplay
  <2>0. /\ pc = "down" /\ pc' = "open" /\ ~Appending /\ ~Appending' /\ ~Running /\ ~Running'
        /\ UNCHANGED <<stub, snapJson, partDirs, stagingDirs, last_seq, snapshot, pending,
                       before, target, healing, uploads, top, acked, lost, unswapped>>
    BY <1>20 DEF OpenReplay, Appending, Running, memory, history
  <2>a. \/ /\ "log" \notin files /\ "tmp" \in files
           /\ files' = {"log"} /\ log' = tmp /\ tmp' = {}
        \/ /\ "log" \in files \/ "tmp" \notin files
           /\ UNCHANGED <<files, log, tmp>>
    BY <1>20 DEF OpenReplay
  <2>b. "log" \notin files => stub = {} /\ log = {} /\ Readable = {}
    BY <1>b DEF FilesInv, Readable, Parsed
  <2>c. /\ Recoverable' = Recoverable /\ Readable' \subseteq Readable \cup tmp
        /\ "log" \notin files' => tmp' = {} /\ log' = {} /\ stub' = {}
        /\ tmp' \subseteq tmp
    BY <1>b, <2>0, <2>a, <2>b DEF FilesInv, Recoverable, Readable, Parsed
  <2>1. TypeOK'
    BY <1>b, <2>0, <2>a DEF TypeOK, PCs
  <2>2. FilesInv'
    BY <1>b, <2>0, <2>a, <2>c DEF FilesInv
  <2>3. MissingLogInv'
    BY <1>b, <2>0, <2>c DEF MissingLogInv
  <2>4. CoverInv'
    BY <1>b, <2>0, <2>c DEF CoverInv, Covered
  <2>5. AppendInv'
    BY <1>b, <2>0 DEF AppendInv, Appending
  <2>6. SnapInv'
    BY <1>b, <2>0 DEF SnapInv, HasParts, Truncating
  <2> QED BY <2>1, <2>2, <2>3, <2>4, <2>5, <2>6 DEF IInv
<1>21. CASE OpenRead
  <2>0. /\ pc = "open" /\ pc' \in {"create_tmp", "idle"} /\ ~Appending /\ ~Appending' /\ Running'
        /\ UNCHANGED <<files, log, stub, tmp, snapJson, pending, before, uploads,
                       acked, lost, unswapped>>
    BY <1>21 DEF OpenRead, Appending, Running, logFile
  <2>a. UNCHANGED <<Readable, Recoverable, Parsed(before.lines, before.rest)>>
    BY <2>0 DEF Readable, Recoverable
  <2>1. TypeOK'
    BY OpenReadsAll, <2>0, <1>21, <1>b DEF TypeOK, PCs, OpenRead, StalePartDirs
  <2>2. FilesInv'
    BY OpenReadsAll, <1>21, <1>b, <2>0, <2>a DEF FilesInv, OpenRead
  <2>3. MissingLogInv'
    BY <1>b, <2>0 DEF MissingLogInv, Running
  <2>4. CoverInv'
    BY <1>b, <2>0, <2>a DEF CoverInv, Covered
  <2>5. AppendInv'
    BY <1>b, <2>0 DEF AppendInv, Appending
  <2>6. SnapInv'
    BY OpenReadsAll, <1>21, <1>b DEF SnapInv, HasParts, Truncating, OpenRead,
       StalePartDirs
  <2> QED BY <2>1, <2>2, <2>3, <2>4, <2>5, <2>6 DEF IInv
<1>22. CASE Crash
  <2>0. /\ pc # "down" /\ pc' = "down" /\ ~Appending' /\ ~Running'
        /\ last_seq' = 0 /\ snapshot' = NoSnapshot /\ pending' = {} /\ before' = File({}, {})
        /\ target' = NoSnapshot /\ healing' = FALSE /\ uploads' = {} /\ unswapped' = FALSE
        /\ UNCHANGED <<files, tmp, snapJson, partDirs, stagingDirs, top, acked>>
    BY <1>22 DEF Crash, Appending, Running
  <2>a. before'.lines = {} /\ before'.rest = {}
    BY <2>0, FileFields
  <2>b. before' \in [lines : SUBSET Line, rest : SUBSET (Line \cup {Fragment})]
    BY <2>0 DEF File
  <2>c. /\ log' \subseteq Line /\ stub' \subseteq Line \cup {Fragment}
        /\ lost' \subseteq Line /\ lost \subseteq lost'
        /\ \A l \in Readable' : l.seq <= MaxSeq
        /\ "log" \notin files => log' = {} /\ stub' = {}
        /\ Covered(Recoverable)'
    BY <1>22, CrashKeeps
  <2>1. TypeOK'
    BY <1>b, <2>0, <2>b, <2>c DEF TypeOK, PCs, Snapshot, NoSnapshot
  <2>2. FilesInv'
    BY <1>b, <2>0, <2>a, <2>c DEF FilesInv, Parsed
  <2>3. MissingLogInv'
    BY <2>0 DEF MissingLogInv
  <2>4. CoverInv'
    BY <2>0, <2>c DEF CoverInv
  <2>5. AppendInv'
    BY <2>0 DEF AppendInv
  <2>6. SnapInv'
    BY <1>b, <2>0 DEF SnapInv, HasParts, Truncating
  <2> QED BY <2>1, <2>2, <2>3, <2>4, <2>5, <2>6 DEF IInv
<1>23. CASE UNCHANGED vars
  <2>a. UNCHANGED <<files, log, stub, tmp, snapJson, partDirs, stagingDirs, pc, last_seq, snapshot,
                    pending, before, target, healing, uploads, top, acked, lost, unswapped>>
    BY <1>23 DEF vars, disk, memory, logFile, history
  <2>b. UNCHANGED <<Readable, Recoverable, Running, Appending, Truncating>>
    BY <2>a DEF Readable, Recoverable, Running, Appending, Truncating
  <2>1. TypeOK'
    BY <2>a, <1>b DEF TypeOK
  <2>2. FilesInv'
    BY <2>a, <2>b, <1>b DEF FilesInv, Parsed
  <2>3. MissingLogInv'
    BY <2>a, <2>b, <1>b DEF MissingLogInv
  <2>4. CoverInv'
    BY <2>a, <2>b, <1>b DEF CoverInv, Covered
  <2>5. AppendInv'
    BY <2>a, <2>b, <1>b DEF AppendInv, Covered, Glued
  <2>6. SnapInv'
    BY <2>a, <2>b, <1>b DEF SnapInv, HasParts
  <2> QED BY <2>1, <2>2, <2>3, <2>4, <2>5, <2>6 DEF IInv
<1> QED
  BY <1>1, <1>2, <1>3, <1>4, <1>5, <1>6, <1>7, <1>8, <1>9, <1>10, <1>11, <1>12, <1>13, <1>14, <1>15, <1>16, <1>17, <1>18, <1>19, <1>20, <1>21, <1>22, <1>23 DEF Next

-----------------------------------------------------------------------------
(* The theorems                                                             *)

\* IInv is an invariant.
THEOREM Invariance == Spec => []IInv
<1>1. Init => IInv
  BY InitInv
<1>2. IInv /\ [Next]_vars => IInv'
  BY StepInv
<1> QED
  BY <1>1, <1>2, PTL DEF Spec

\* Every variable keeps its type.
THEOREM TypeCorrect == Spec => []TypeOK
<1>1. IInv => TypeOK
  BY DEF IInv
<1> QED
  BY <1>1, Invariance, PTL

\* append_within's promise: whatever the relay crashes in the middle of, the two
\* writes and the sync of an append included, and whichever call fails, both
\* renames of rewrite_tail included, an acked line is on disk, or behind the
\* published snapshot, or was taken by one of the two gaps.
THEOREM Durability == Spec => []AckedDurable
<1>1. IInv => AckedDurable
  BY DEF IInv, CoverInv, Covered, AckedDurable
<1> QED
  BY <1>1, Invariance, PTL

\* What open hands to its callers serves every acked line, but to the two gaps
\* and the tail that waits for the next open: log.rs read_since reads log.jsonl
\* alone, snapshot_part the snapshot in memory.
THEOREM Serving == Spec => []AckedServed
<1>1. IInv => AckedServed
  <2> SUFFICES ASSUME IInv, Idle,
                      NEW a \in acked, a.seq > snapshot.seq, a \notin lost
               PROVE  a \in Readable \/ a \in Stranded
    BY DEF AckedServed, IInv, TypeOK, Line, Snapshot
  <2>1. snapshot = snapJson
    BY DEF IInv, SnapInv, Running, Idle
  <2>2. a \in Recoverable
    BY <2>1 DEF IInv, TypeOK, CoverInv, Covered, Line, Snapshot
  <2>3. CASE "log" \in files
    BY <2>2, <2>3 DEF Recoverable
  <2>4. CASE "log" \notin files
    <3>1. a \in tmp /\ unswapped
      BY <2>2, <2>4 DEF Recoverable, IInv, MissingLogInv, Idle
    <3> QED BY <2>1, <2>4, <3>1 DEF Stranded, Tail
  <2> QED BY <2>3, <2>4
<1> QED
  BY <1>1, Invariance, PTL

\* commit_parts' promise: the published snapshot has all its part files.
THEOREM NeverTorn == Spec => []SnapshotComplete
<1>1. IInv => SnapshotComplete
  BY DEF IInv, SnapInv, HasParts, SnapshotComplete
<1> QED
  BY <1>1, Invariance, PTL

\* compact_stale's promise: no interleaving of offers moves the snapshot back.
THEOREM SnapshotForward == Spec => SnapshotAdvances
<1>1. IInv /\ [Next]_vars => [snapJson.seq <= snapJson'.seq]_vars
  <2> SUFFICES ASSUME IInv, Next PROVE snapJson.seq <= snapJson'.seq
    OBVIOUS
  <2>1. snapJson.seq \in Nat
    BY DEF IInv, TypeOK, Snapshot
  <2>2. CASE PublishSnapshot
    BY <2>1, <2>2 DEF PublishSnapshot, IInv, TypeOK, Snapshot, SnapInv
  <2>3. CASE ~PublishSnapshot
    <3>1. snapJson' = snapJson
      BY <2>3 DEF Next, Append, WriteLine, EndLine, AppendSynced, AppendFails,
         CompactWithin, StageParts, AddPart, DropStaging, CommitParts, MoveParts,
         SweepParts, CreateTmp, SyncTmp, KeepPrev, SwapTail, SwapFails, IoError,
         OpenReplay, OpenRead, Crash, disk
    <3> QED BY <2>1, <3>1
  <2> QED BY <2>2, <2>3
<1> QED
  BY <1>1, Invariance, PTL DEF Spec, SnapshotAdvances

-----------------------------------------------------------------------------
(* VaultLog implements DurableLog until a gap takes its first line: the      *)
(* files, renames, staging directories, failed calls and crashes of log.rs   *)
(* add up to a log of consecutive seqs whose prefix a compaction forgets.    *)
(* And the staging directories of chunked uploads never outlive their        *)
(* uploads.                                                                  *)

\* The entries of the abstract log.
Entries == Tail(Recoverable, snapJson.seq)

\* While the vault is open its counter is the highest seq ever counted.
CountedInv == Running => last_seq = top

\* The highest seq counted is never lost: the snapshot or a line still shows it,
\* so that open finds it again.  Beyond it is at most one seq, of lines whose
\* append failed or was cut off.
TopInv ==
    /\ snapJson.seq <= top
    /\ \A l \in Recoverable : l.seq <= top + 1
    /\ top = snapJson.seq \/ \E l \in Recoverable : l.seq = top
    /\ pc \in {"move_parts", "publish"} => target.seq <= top

\* A staging directory comes and goes with its upload, but for the time that
\* an operation or open takes to finish.
StagingInv ==
    /\ pc \in {"down", "open"} => uploads = {}
    /\ pc \in {"idle", "line", "newline", "sync"} => stagingDirs = Owned(uploads)
    /\ \A u, v \in uploads : u.conn = v.conn => u = v

RInv == IInv /\ (lost = {} => CountedInv /\ TopInv)

-----------------------------------------------------------------------------
(* Lemmas                                                                   *)

LEMMA InitRInv == Init => RInv
<1> SUFFICES ASSUME Init PROVE RInv
  OBVIOUS
<1>1. IInv
  BY InitInv
<1>2. CountedInv /\ TopInv
  BY DEF Init, CountedInv, TopInv, Running, NoSnapshot, Recoverable
<1> QED
  BY <1>1, <1>2 DEF RInv

\* The gaps give nothing back.
LEMMA LostGrows ==
    ASSUME [Next]_vars
    PROVE  lost \subseteq lost'
BY DEF Next, Append, WriteLine, EndLine, AppendSynced, AppendFails, CutShort,
   CompactWithin, StageParts, AddPart, DropStaging, CommitParts, MoveParts,
   PublishSnapshot, SweepParts, CreateTmp, SyncTmp, KeepPrev, SwapTail, SwapFails,
   IoError, OpenReplay, OpenRead, Crash, vars, history

\* open counts on from where the vault stopped, or counts one seq more.
LEMMA OpenCounts ==
    ASSUME IInv, CountedInv, TopInv, pc = "open"
    PROVE  /\ RecoveredSeq \in {top, top + 1}
           /\ RecoveredSeq = top + 1 => \E l \in Readable : l.seq = top + 1
           /\ \A l \in Readable : l.seq <= RecoveredSeq
           /\ RecoveredSeq = snapJson.seq \/ \E l \in Readable : l.seq = RecoveredSeq
           /\ snapJson.seq <= RecoveredSeq
           /\ Recoverable = Readable
<1>1. Recoverable = Readable
  BY DEF IInv, FilesInv, MissingLogInv, Running, Recoverable, Readable, Parsed
<1>2. /\ top \in Nat /\ snapJson.seq \in Nat /\ RecoveredSeq \in Nat
      /\ \A l \in Readable : l.seq \in Nat
  BY OpenReadsAll DEF IInv, TypeOK, Snapshot, Line, Readable, Parsed
<1>3. RecoveredSeq = snapJson.seq \/ \E l \in Readable : l.seq = RecoveredSeq
  BY OpenReadsAll DEF Seqs
<1>4. top <= RecoveredSeq
  BY <1>1, <1>2, OpenReadsAll DEF TopInv
<1>5. RecoveredSeq <= top + 1
  BY <1>1, <1>2, <1>3 DEF TopInv
<1>6. RecoveredSeq \in {top, top + 1}
  BY <1>2, <1>4, <1>5
<1>7. RecoveredSeq = top + 1 => \E l \in Readable : l.seq = top + 1
  BY <1>2, <1>3 DEF TopInv
<1> QED
  BY <1>1, <1>3, <1>6, <1>7, OpenReadsAll

-----------------------------------------------------------------------------
(* The counter and the seqs on disk                                         *)

\* The steps that leave what open would find, the published snapshot and the
\* counters alone.
Quiet == UNCHANGED <<Recoverable, snapJson, last_seq, top>>

\* A quiet step keeps the invariant unless it aims at a seq never given out.
LEMMA QuietStep ==
    ASSUME CountedInv, TopInv, Quiet, Running, Running',
           pc' \in {"move_parts", "publish"} => target'.seq <= last_seq
    PROVE  CountedInv' /\ TopInv' /\ UNCHANGED <<snapJson.seq, top, Entries>>
<1>1. CountedInv'
  BY DEF CountedInv, Quiet
<1>2. TopInv'
  BY DEF CountedInv, TopInv, Quiet
<1>3. UNCHANGED <<snapJson.seq, top, Entries>>
  BY DEF Quiet, Entries, Tail
<1> QED
  BY <1>1, <1>2, <1>3

\* A missing log.jsonl is created, or its stranded tail overwritten, and no line
\* is lost: then the snapshot covered all of that tail.
LEMMA CoveredTail ==
    ASSUME IInv, CountedInv, TopInv, Running, pc \notin {"swap", "sync_tmp", "keep_prev"},
           "log" \notin files, Stranded = {}, Recoverable' = {},
           UNCHANGED <<snapJson, last_seq, top>>, Running',
           pc' \notin {"move_parts", "publish"}
    PROVE  CountedInv' /\ TopInv' /\ UNCHANGED <<snapJson.seq, top, Entries>>
<1>1. Recoverable = tmp /\ snapJson.seq \in Nat /\ top \in Nat /\ \A l \in tmp : l.seq \in Nat
  BY DEF Recoverable, IInv, TypeOK, Snapshot, Line
<1>2. \A l \in tmp : l.seq <= snapJson.seq
  <2>1. tmp = {} \/ Tail(tmp, snapJson.seq) = {}
    BY DEF IInv, MissingLogInv, Stranded, Running
  <2> QED BY <1>1, <2>1 DEF Tail
<1>3. top = snapJson.seq
  BY <1>1, <1>2 DEF TopInv
<1>4. Entries = {} /\ Entries' = {}
  BY <1>1, <1>2 DEF Entries, Tail
<1>5. CountedInv' /\ TopInv'
  BY <1>1, <1>3 DEF CountedInv, TopInv
<1> QED
  BY <1>4, <1>5

\* A crash takes no line but the one being appended, as long as none is lost.
LEMMA CrashTakes ==
    ASSUME IInv, Crash, lost' = {}
    PROVE  /\ Readable' \subseteq Readable
           /\ Readable \ Readable' \subseteq pending
<1>1. AppendInv
  BY DEF IInv
<1>2. PICK file \in Unsynced :
          /\ log' = file.lines /\ stub' = file.rest
          /\ lost' = IF pc = "line" /\ file.rest # stub THEN lost \cup LostWith(stub, {}) ELSE lost
  BY DEF Crash
<1>3. CASE log' = log /\ stub' = stub
  BY <1>3 DEF Readable
<1>4. CASE pc = "line"
  <2>1. file = File(log, stub) \/ file = File(log, {Fragment})
    BY <1>2, <1>4 DEF Unsynced
  <2>2. CASE log' = log /\ stub' = {Fragment} /\ stub' # stub
    <3>1. LostWith(stub, {}) = {}
      BY <1>2, <1>4, <2>1, <2>2, FileFields
    <3> QED BY <2>2, <3>1 DEF LostWith, Readable, Parsed
  <2> QED BY <1>2, <1>3, <2>1, <2>2, FileFields
<1>5. CASE pc \in {"newline", "sync"}
  <2>1. \/ file = File(log, stub) \/ file = before
        \/ file = File(before.lines, {Fragment}) \/ file = File(before.lines, Glued(before.rest))
    BY <1>2, <1>5 DEF Unsynced
  <2>2. \E b \in Blob : pending = {[seq |-> last_seq + 1, blob |-> b]}
    BY <1>1, <1>5 DEF AppendInv, Appending
  <2>3. lost = {} /\ before.rest = {}
    BY <1>1, <1>2, <1>5, <2>2 DEF AppendInv, LostWith
  <2>4. Readable = Parsed(before.lines, pending)
    BY <1>1, <1>5, <2>3 DEF AppendInv, Glued, Readable, Parsed
  <2>5. CASE log' = before.lines /\ stub' \in {{}, {Fragment}, pending}
    BY <2>4, <2>5 DEF Readable, Parsed
  <2> QED BY <1>2, <1>3, <2>1, <2>3, <2>5, FileFields DEF Glued
<1>6. CASE ~Appending
  <2>1. file = File(log, stub)
    BY <1>2, <1>6 DEF Unsynced, Appending
  <2> QED BY <1>2, <1>3, <2>1, FileFields
<1> QED
  BY <1>4, <1>5, <1>6 DEF Appending

\* While no line is lost, every step keeps the invariant and is a step of the
\* abstract log or none: one step per action.
LEMMA StepCounts ==
    ASSUME IInv, IInv', CountedInv, TopInv, [Next]_vars, lost = {}, lost' = {}
    PROVE  /\ CountedInv' /\ TopInv'
           /\ Durable!Next \/ UNCHANGED <<snapJson.seq, top, Entries>>
<1> USE BoundsAssumption
<1>a. /\ last_seq \in Nat /\ top \in Nat /\ snapJson.seq \in Nat /\ target.seq \in Nat
      /\ \A l \in Readable \cup tmp \cup pending : l.seq \in Nat
      /\ pending \subseteq Line
  BY DEF IInv, TypeOK, Snapshot, Line, Readable, Parsed
<1>b. TypeOK /\ FilesInv /\ MissingLogInv /\ AppendInv /\ CoverInv /\ SnapInv
  BY DEF IInv
<1>c. /\ Appending => "log" \in files /\ Recoverable = Readable
      /\ \A l \in pending : l # Fragment
  BY <1>a, <1>b, FragmentIsNoLine DEF FilesInv, Recoverable
<1>1. ASSUME NEW b \in Blob, Append(b)
      PROVE  CountedInv' /\ TopInv' /\ UNCHANGED <<snapJson.seq, top, Entries>>
  <2>1. /\ pc = "idle" /\ pc' = "line" /\ Running /\ Running' /\ "log" \in files'
        /\ Stranded = {} /\ Readable' = Readable
        /\ "log" \in files => files' = files
        /\ UNCHANGED <<snapJson, last_seq, top, tmp>>
    BY <1>1 DEF Append, Idle, Running, Readable, logFile
  <2>2. CASE "log" \in files
    <3>1. Quiet
      BY <2>1, <2>2 DEF Quiet, Recoverable
    <3> QED BY <2>1, <3>1, QuietStep
  <2>3. CASE "log" \notin files
    <3>1. Recoverable' = {}
      BY <1>b, <2>1, <2>3 DEF Recoverable, FilesInv, Readable, Parsed
    <3> QED BY <2>1, <2>3, <3>1, CoveredTail
  <2> QED BY <2>2, <2>3
<1>2. CASE WriteLine
  <2>1. /\ pc = "line" /\ pc' = "newline" /\ Appending /\ Running /\ Running'
        /\ stub' = Glued(stub) /\ LostWith(stub, pending) = {}
        /\ UNCHANGED <<files, log, tmp, snapJson, last_seq, top, pending>>
    BY <1>2 DEF WriteLine, Appending, Running, memory
  <2>2. PICK b \in Blob : pending = {[seq |-> last_seq + 1, blob |-> b]}
    BY <1>b, <2>1 DEF AppendInv
  <2> DEFINE line == [seq |-> last_seq + 1, blob |-> b]
  <2>3. last_seq = top /\ line.seq = top + 1 /\ line = [seq |-> top + 1, blob |-> b]
    BY <2>1 DEF CountedInv
  <2>4. stub = {}
    BY <2>1, <2>2 DEF LostWith
  <2>5. Readable' = Readable \cup pending
    BY <1>c, <2>1, <2>4 DEF Readable, Parsed, Glued
  <2>6. Recoverable = Readable /\ Recoverable' = Readable \cup {line}
    BY <1>c, <2>1, <2>2, <2>5 DEF Recoverable
  <2>7. snapJson.seq <= top
    BY DEF TopInv
  <2>8. [seq |-> top + 1, blob |-> b] = line
    BY <2>3
  <2> HIDE DEF line
  <2>9. Entries' = Entries \cup {line}
    BY <1>a, <2>1, <2>3, <2>6, <2>7 DEF Entries, Tail
  <2>10. Durable!Write(b)
    BY <2>1, <2>8, <2>9 DEF Durable!Write, Entries
  <2>11. CountedInv' /\ TopInv'
    BY <1>a, <2>1, <2>3, <2>6 DEF CountedInv, TopInv
  <2> QED BY <2>10, <2>11 DEF Durable!Next
<1>3. CASE EndLine
  <2>1. /\ pc = "newline" /\ pc' = "sync" /\ Running /\ Running' /\ Readable' = Readable
        /\ UNCHANGED <<files, tmp, snapJson, last_seq, top>>
    BY <1>3 DEF EndLine, Running, Readable, Parsed, memory, history
  <2>2. Quiet
    BY <2>1 DEF Quiet, Recoverable
  <2> QED BY <2>1, <2>2, QuietStep
<1>4. CASE AppendSynced
  <2>1. /\ pc = "sync" /\ pc' = "idle" /\ Appending /\ Running /\ Running'
        /\ last_seq' = last_seq + 1 /\ top' = last_seq + 1
        /\ Readable' = Readable /\ UNCHANGED <<files, tmp, snapJson>>
    BY <1>4 DEF AppendSynced, Appending, Running, Readable, disk, logFile
  <2>2. PICK b \in Blob : pending = {[seq |-> last_seq + 1, blob |-> b]}
    BY <1>b, <2>1 DEF AppendInv
  <2>3. PICK line \in pending : line.seq = last_seq + 1
    BY <2>2
  <2>4. last_seq = top
    BY <2>1 DEF CountedInv
  <2>5. line \in Readable
    <3>1. before.rest = {}
      BY <1>b, <2>1, <2>2 DEF AppendInv, LostWith
    <3>2. log = Parsed(before.lines, pending)
      BY <1>b, <2>1, <3>1 DEF AppendInv, Glued
    <3> QED BY <1>c, <3>2 DEF Readable, Parsed
  <2>6. Recoverable = Readable /\ Recoverable' = Readable
    BY <1>c, <2>1 DEF Recoverable
  <2>7. line \in Entries /\ line.seq = top + 1
    BY <1>a, <2>3, <2>4, <2>5, <2>6 DEF Entries, Tail, TopInv
  <2>8. Entries' = Entries
    BY <2>1, <2>6 DEF Entries
  <2>9. Durable!Count
    BY <2>1, <2>4, <2>7, <2>8 DEF Durable!Count, Entries
  <2>10. CountedInv' /\ TopInv'
    BY <1>a, <2>1, <2>3, <2>4, <2>5, <2>6 DEF CountedInv, TopInv
  <2> QED BY <2>9, <2>10 DEF Durable!Next
<1>5. CASE AppendFails
  <2>1. /\ Appending /\ Running /\ Running' /\ pc' = "idle" /\ CutShort
        /\ UNCHANGED <<files, log, tmp, snapJson, last_seq, top>>
    BY <1>5 DEF AppendFails, Appending, Running
  <2>2. Readable' = Readable
    BY <2>1 DEF CutShort, LostWith, Readable, Parsed
  <2>3. Quiet
    BY <2>1, <2>2 DEF Quiet, Recoverable
  <2> QED BY <2>1, <2>3, QuietStep
<1>6. ASSUME UNCHANGED <<files, logFile, tmp, snapJson, last_seq, top>>
      PROVE  Quiet
  BY <1>6 DEF Quiet, Recoverable, Readable, logFile
<1>7. ASSUME NEW upto \in 1..MaxSeq, NEW size \in 1..SnapshotMax, CompactWithin(upto, size)
      PROVE  CountedInv' /\ TopInv' /\ UNCHANGED <<snapJson.seq, top, Entries>>
  <2>1. /\ UNCHANGED <<files, logFile, tmp, snapJson, last_seq, top>>
        /\ Running /\ Running' /\ target'.seq <= last_seq
    BY <1>7 DEF CompactWithin, Compactable, Running, Idle, disk, history
  <2> QED BY <1>6, <2>1, QuietStep
<1>8. ASSUME NEW c \in Conn, NEW upto \in 1..MaxSeq, NEW of \in 1..MaxParts, StageParts(c, upto, of)
      PROVE  CountedInv' /\ TopInv' /\ UNCHANGED <<snapJson.seq, top, Entries>>
  <2>1. /\ UNCHANGED <<files, logFile, tmp, snapJson, last_seq, top>>
        /\ Running /\ Running' /\ pc' = "idle"
    BY <1>8 DEF StageParts, Running, Idle, history
  <2> QED BY <1>6, <2>1, QuietStep
<1>9. ASSUME UNCHANGED <<files, logFile, tmp, snapJson, pc, last_seq, target, top>>
      PROVE  CountedInv' /\ TopInv' /\ UNCHANGED <<snapJson.seq, top, Entries>>
  BY <1>6, <1>9 DEF Quiet, CountedInv, TopInv, Running, Entries, Tail
<1>10. ASSUME NEW u \in uploads, NEW size \in 1..SnapshotMax, AddPart(u, size)
       PROVE  CountedInv' /\ TopInv' /\ UNCHANGED <<snapJson.seq, top, Entries>>
  BY <1>9, <1>10 DEF AddPart, disk, history
<1>11. ASSUME NEW u \in uploads, DropStaging(u)
       PROVE  CountedInv' /\ TopInv' /\ UNCHANGED <<snapJson.seq, top, Entries>>
  BY <1>9, <1>11 DEF DropStaging, history
<1>12. ASSUME NEW u \in uploads, CommitParts(u)
       PROVE  CountedInv' /\ TopInv' /\ UNCHANGED <<snapJson.seq, top, Entries>>
  <2>1. /\ UNCHANGED <<files, logFile, tmp, snapJson, last_seq, top>>
        /\ Running /\ Running'
        /\ pc' \in {"move_parts", "publish"} => target'.seq <= last_seq
    BY <1>12 DEF CommitParts, StillCompactable, Compactable, Running, Idle, history
  <2> QED BY <1>6, <2>1, QuietStep
<1>13. CASE MoveParts
  <2>1. /\ UNCHANGED <<files, logFile, tmp, snapJson, last_seq, top>>
        /\ Running /\ Running' /\ target'.seq <= last_seq
    BY <1>13 DEF MoveParts, Running, memory, history, CountedInv, TopInv
  <2> QED BY <1>6, <2>1, QuietStep
<1>14. CASE PublishSnapshot
  <2>1. /\ pc = "publish" /\ pc' = "sweep" /\ Running /\ Running' /\ snapJson' = target
        /\ UNCHANGED <<files, logFile, tmp, last_seq, top>>
    BY <1>14 DEF PublishSnapshot, Running, history
  <2>2. Recoverable' = Recoverable /\ \A l \in Recoverable : l.seq \in Nat
    BY <1>a, <2>1 DEF Recoverable, Readable, logFile
  <2>3. snapJson.seq < target.seq /\ target.seq <= top
    BY <1>b, <2>1 DEF SnapInv, TopInv
  <2>4. Entries' = {l \in Entries : l.seq > target.seq}
    BY <1>a, <2>1, <2>2, <2>3 DEF Entries, Tail
  <2>5. Durable!Compact(target.seq) /\ target.seq \in 1..top
    BY <1>a, <2>1, <2>3, <2>4 DEF Durable!Compact, Entries
  <2>6. CountedInv' /\ TopInv'
    BY <1>a, <2>1, <2>2, <2>3 DEF CountedInv, TopInv
  <2> QED BY <2>5, <2>6 DEF Durable!Next
<1>15. CASE SweepParts
  <2>1. /\ UNCHANGED <<files, logFile, tmp, snapJson, last_seq, top>>
        /\ Running /\ Running' /\ pc' = "create_tmp"
    BY <1>15 DEF SweepParts, Running, memory, history
  <2> QED BY <1>6, <2>1, QuietStep
<1>16. CASE CreateTmp
  <2>1. /\ pc = "create_tmp" /\ pc' = "sync_tmp" /\ Running /\ Running' /\ Stranded = {}
        /\ Readable' = Readable /\ tmp' \subseteq Readable
        /\ "log" \in files' <=> "log" \in files
        /\ UNCHANGED <<snapJson, last_seq, top>>
    BY <1>16 DEF CreateTmp, Running, Readable, Tail, logFile, memory
  <2>2. CASE "log" \in files
    <3>1. Quiet
      BY <2>1, <2>2 DEF Quiet, Recoverable
    <3> QED BY <2>1, <3>1, QuietStep
  <2>3. CASE "log" \notin files
    <3>1. Recoverable' = {}
      BY <1>b, <2>1, <2>3 DEF Recoverable, FilesInv, Readable, Parsed
    <3> QED BY <2>1, <2>3, <3>1, CoveredTail
  <2> QED BY <2>2, <2>3
<1>17. CASE SyncTmp
  <2>1. /\ pc = "sync_tmp" /\ pc' = "keep_prev" /\ Running /\ Running'
        /\ Readable' = Readable /\ tmp' \subseteq Readable
        /\ UNCHANGED <<files, snapJson, last_seq, top>>
    BY <1>17 DEF SyncTmp, Running, Readable, Tail, logFile, memory, history
  <2>2. "log" \notin files => tmp = {} /\ Readable = {}
    BY <1>b, <2>1 DEF MissingLogInv, FilesInv, Readable, Parsed
  <2>3. Quiet
    BY <2>1, <2>2 DEF Quiet, Recoverable
  <2> QED BY <2>1, <2>3, QuietStep
<1>18. CASE KeepPrev
  <2>1. /\ pc = "keep_prev" /\ pc' = "swap" /\ Running /\ Running' /\ "log" \notin files'
        /\ UNCHANGED <<tmp, snapJson, last_seq, top>>
    BY <1>18 DEF KeepPrev, Running, memory, history
  <2>2. tmp = Tail(Readable, snapJson.seq) /\ Recoverable' = tmp
    BY <1>b, <2>1 DEF CoverInv, SnapInv, Truncating, Recoverable
  <2>3. Recoverable = Readable \/ Recoverable = tmp
    BY DEF Recoverable
  <2>4. Entries' = Entries
    BY <2>1, <2>2, <2>3 DEF Entries, Tail
  <2>5. TopInv'
    BY <1>a, <2>1, <2>2, <2>3 DEF TopInv, Tail
  <2>6. CountedInv'
    BY <2>1 DEF CountedInv
  <2> QED BY <2>1, <2>4, <2>5, <2>6
<1>19. CASE SwapTail
  <2>1. /\ pc = "swap" /\ pc' = "idle" /\ Running /\ Running'
        /\ files' = {"log"} /\ log' = tmp /\ stub' = stub
        /\ UNCHANGED <<snapJson, last_seq, top>>
    BY <1>19 DEF SwapTail, Return, Running, history
  <2>2. Quiet
    BY <1>b, <2>1 DEF FilesInv, Quiet, Recoverable, Readable, Parsed
  <2> QED BY <2>1, <2>2, QuietStep
<1>20. CASE SwapFails \/ IoError
  <2>1. /\ UNCHANGED <<files, logFile, tmp, snapJson, last_seq, top>>
        /\ Running /\ Running' /\ pc' = "idle"
    BY <1>20 DEF SwapFails, IoError, Return, Running, history
  <2> QED BY <1>6, <2>1, QuietStep
<1>21. CASE OpenReplay
  <2>1. /\ pc = "down" /\ pc' = "open" /\ ~Running' /\ UNCHANGED <<stub, snapJson, top>>
    BY <1>21 DEF OpenReplay, Running, memory, history
  <2>2. Recoverable' = Recoverable
    BY <1>b, <1>21 DEF FilesInv, OpenReplay, Recoverable, Readable, Parsed
  <2>3. CountedInv' /\ TopInv'
    BY <2>1, <2>2 DEF CountedInv, TopInv
  <2> QED BY <2>1, <2>2, <2>3 DEF Entries, Tail
<1>22. CASE OpenRead
  <2>1. /\ pc = "open" /\ pc' \in {"create_tmp", "idle"} /\ Readable' = Readable
        /\ last_seq' = RecoveredSeq /\ top' = RecoveredSeq
        /\ UNCHANGED <<files, tmp, snapJson>>
    BY <1>22 DEF OpenRead, Readable, logFile
  <2>2. Recoverable' = Recoverable /\ Recoverable = Readable
    BY <2>1, OpenCounts DEF Recoverable
  <2>3. Entries' = Entries
    BY <2>1, <2>2 DEF Entries
  <2>4. RecoveredSeq \in Nat
    BY OpenReadsAll
  <2>5. CountedInv'
    BY <2>1 DEF CountedInv
  <2>6. TopInv'
    BY <1>a, <2>1, <2>2, <2>4, OpenCounts DEF TopInv
  <2>7. CASE RecoveredSeq = top
    BY <2>1, <2>3, <2>5, <2>6, <2>7
  <2>8. CASE RecoveredSeq = top + 1
    <3>1. PICK l \in Readable : l.seq = top + 1
      BY <2>1, <2>8, OpenCounts
    <3>2. l \in Entries
      BY <1>a, <2>2, <3>1 DEF Entries, Tail, TopInv
    <3>3. Durable!Count
      BY <2>1, <2>3, <2>8, <3>1, <3>2 DEF Durable!Count, Entries
    <3> QED BY <2>5, <2>6, <3>3 DEF Durable!Next
  <2> QED BY <2>1, <2>7, <2>8, OpenCounts
<1>23. CASE Crash
  <2>1. /\ pc' = "down" /\ ~Running' /\ UNCHANGED <<files, tmp, snapJson, top>>
    BY <1>23 DEF Crash, Running
  <2>2. /\ Readable' \subseteq Readable
        /\ Readable \ Readable' \subseteq pending
    BY <1>23, CrashTakes
  <2>3. Appending => last_seq = top /\ \A l \in pending : l.seq = top + 1
    BY <1>b DEF AppendInv, CountedInv, Running, Appending
  <2>4. ~Appending => pending = {}
    BY <1>b DEF AppendInv
  <2>5. /\ Recoverable' \subseteq Recoverable
        /\ \A l \in Recoverable \ Recoverable' : l.seq = top + 1
    BY <1>c, <2>1, <2>2, <2>3, <2>4 DEF Recoverable
  <2>6. CountedInv' /\ TopInv'
    BY <1>a, <2>1, <2>5 DEF CountedInv, TopInv
  <2>7. /\ Entries' \subseteq Entries
        /\ \A l \in Entries \ Entries' : l.seq > top
    BY <1>a, <2>1, <2>5 DEF Entries, Tail
  <2>8. Durable!Vanish
    BY <2>1, <2>7 DEF Durable!Vanish, Entries
  <2> QED BY <2>6, <2>8 DEF Durable!Next
<1>24. CASE UNCHANGED vars
  BY <1>9, <1>24 DEF vars, disk, memory, history
<1> QED
  BY <1>1, <1>2, <1>3, <1>4, <1>5, <1>7, <1>8, <1>10, <1>11, <1>12, <1>13, <1>14,
     <1>15, <1>16, <1>17, <1>18, <1>19, <1>20, <1>21, <1>22, <1>23, <1>24 DEF Next

\* Every step keeps the invariant and, while no line is lost, is a step of the
\* abstract log or none.
LEMMA StepRefines ==
    RInv /\ [Next]_vars =>
        RInv' /\ [lost' = {} => Durable!Next]_(Durable!vars)
<1> SUFFICES ASSUME RInv, [Next]_vars
             PROVE  /\ RInv'
                    /\ lost' = {} => Durable!Next \/ UNCHANGED <<snapJson.seq, top, Entries>>
  BY DEF Durable!vars, Entries
<1>1. IInv /\ IInv'
  BY StepInv DEF RInv
<1>2. CASE lost' = {}
  <2>1. lost = {} /\ CountedInv /\ TopInv
    BY <1>2, LostGrows DEF RInv
  <2>2. /\ CountedInv' /\ TopInv'
        /\ Durable!Next \/ UNCHANGED <<snapJson.seq, top, Entries>>
    BY <1>1, <1>2, <2>1, StepCounts
  <2> QED BY <1>1, <2>2 DEF RInv
<1>3. CASE lost' # {}
  BY <1>1, <1>3 DEF RInv
<1> QED
  BY <1>2, <1>3

-----------------------------------------------------------------------------
(* The theorems                                                             *)

\* log.rs implements the durable log of DurableLog until a gap takes a line: the
\* writes of an append are a step of it, its sync or the open that finds it
\* another, a compaction one (the rename of snapshot.json), and no other call,
\* error, crash or restart shows but by taking a line that was never counted.
THEOREM Refinement == Spec => ImplementsDurableLog
<1>1. Init => RInv
  BY InitRInv
<1>2. RInv /\ [Next]_vars => RInv'
  BY StepRefines
<1>3. Init => Durable!Init
  BY DEF Init, Durable!Init, NoSnapshot, Recoverable, Tail
<1>4. RInv /\ [Next]_vars => [lost' = {} => Durable!Next]_(Durable!vars)
  BY StepRefines
<1> QED
  BY <1>1, <1>2, <1>3, <1>4, PTL DEF Spec, ImplementsDurableLog

-----------------------------------------------------------------------------
(* Staging directories                                                      *)

\* A PartStaging that grows keeps its connection.
LEMMA GrownKeepsConn ==
    ASSUME NEW u \in PartStaging, NEW n, NEW m
    PROVE  [u EXCEPT !.next_idx = n, !.total = m].conn = u.conn
BY DEF PartStaging

LEMMA StagingStep == TypeOK /\ StagingInv /\ [Next]_vars => StagingInv'
<1> SUFFICES ASSUME TypeOK, StagingInv, [Next]_vars PROVE StagingInv'
  OBVIOUS
<1>1. ASSUME NEW c \in Conn, NEW upto \in 1..MaxSeq, NEW of \in 1..MaxParts, StageParts(c, upto, of)
      PROVE  StagingInv'
  <2> DEFINE u == [conn |-> c, upto |-> upto, of |-> of, next_idx |-> 0, total |-> 0]
  <2>1. /\ uploads' = uploads \cup {u} /\ stagingDirs' = stagingDirs \cup {u.conn}
        /\ u.conn \notin Owned(uploads) /\ pc = "idle" /\ pc' = "idle"
    BY <1>1 DEF StageParts, Idle
  <2> HIDE DEF u
  <2> QED BY <2>1 DEF StagingInv, Owned
<1>2. ASSUME NEW u \in uploads, NEW size \in 1..SnapshotMax, AddPart(u, size)
      PROVE  StagingInv'
  <2> DEFINE w == [u EXCEPT !.next_idx = @ + 1, !.total = @ + size]
  <2>0. w.conn = u.conn
    BY <1>2, GrownKeepsConn DEF TypeOK, AddPart
  <2>1. /\ uploads' = (uploads \ {u}) \cup {w}
        /\ pc' = pc /\ stagingDirs' = stagingDirs /\ pc # "down"
    BY <1>2 DEF AddPart, disk
  <2> HIDE DEF w
  <2>2. Owned(uploads') = Owned(uploads)
    BY <2>0, <2>1 DEF Owned
  <2> QED BY <2>0, <2>1, <2>2 DEF StagingInv
<1>3. ASSUME NEW u \in uploads, DropStaging(u)
      PROVE  StagingInv'
  <2>1. uploads' = uploads \ {u} /\ stagingDirs' = stagingDirs \ {u.conn} /\ pc' = pc
    BY <1>3 DEF DropStaging
  <2>2. Owned(uploads') = Owned(uploads) \ {u.conn}
    BY <2>1 DEF StagingInv, Owned
  <2> QED BY <2>1, <2>2 DEF StagingInv
<1>4. ASSUME NEW u \in uploads, CommitParts(u)
      PROVE  StagingInv'
  <2>1. /\ uploads' = uploads \ {u} /\ pc = "idle"
        /\ \/ pc' \in {"publish", "move_parts"}
           \/ pc' = pc /\ stagingDirs' = stagingDirs \ {u.conn}
    BY <1>4 DEF CommitParts, Idle
  <2>2. Owned(uploads') = Owned(uploads) \ {u.conn}
    BY <2>1 DEF StagingInv, Owned
  <2> QED BY <2>1, <2>2 DEF StagingInv
<1>5. CASE SwapTail \/ SwapFails \/ IoError
  BY <1>5 DEF StagingInv, SwapTail, SwapFails, IoError, Return
<1>6. CASE OpenReplay
  BY <1>6 DEF StagingInv, OpenReplay, memory
<1>7. CASE OpenRead
  BY <1>7 DEF StagingInv, Owned, OpenRead
<1>8. CASE Crash
  BY <1>8 DEF StagingInv, Crash
<1>9. ASSUME pc \notin {"down", "open"}, pc' \notin {"down", "open", "idle", "line", "newline", "sync"}, uploads' = uploads
      PROVE  StagingInv'
  BY <1>9 DEF StagingInv
<1>10. ASSUME NEW upto \in 1..MaxSeq, NEW size \in 1..SnapshotMax, CompactWithin(upto, size)
       PROVE  StagingInv'
  BY <1>9, <1>10 DEF CompactWithin, Idle
<1>11. CASE MoveParts \/ PublishSnapshot \/ SweepParts \/ CreateTmp \/ SyncTmp \/ KeepPrev
  BY <1>9, <1>11 DEF MoveParts, PublishSnapshot, SweepParts, CreateTmp, SyncTmp, KeepPrev,
     memory
<1>12. ASSUME NEW b \in Blob, Append(b)
       PROVE  StagingInv'
  BY <1>12 DEF StagingInv, Append, Idle
<1>13. CASE WriteLine \/ EndLine \/ AppendSynced \/ AppendFails
  BY <1>13 DEF StagingInv, WriteLine, EndLine, AppendSynced, AppendFails, disk, memory
<1>14. CASE UNCHANGED vars
  BY <1>14 DEF StagingInv, vars, disk, memory
<1> QED
  BY <1>1, <1>2, <1>3, <1>4, <1>5, <1>6, <1>7, <1>8, <1>10, <1>11, <1>12, <1>13, <1>14
     DEF Next

\* PartStaging's Drop and open's sweep together: once the vault serves, each
\* staging directory belongs to a live upload.
THEOREM NoOrphans == Spec => []NoOrphanStaging
<1>1. Init => StagingInv
  BY DEF Init, StagingInv
<1>2. TypeOK /\ StagingInv /\ [Next]_vars => StagingInv'
  BY StagingStep
<1>3. StagingInv => NoOrphanStaging
  BY DEF StagingInv, NoOrphanStaging, Idle
<1> QED
  BY <1>1, <1>2, <1>3, TypeCorrect, PTL DEF Spec

=============================================================================
