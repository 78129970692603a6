------------------------------ MODULE VaultLog ------------------------------
(***************************************************************************)
(* One vault's storage at the relay: crates/tacitus-relay/src/log.rs.       *)
(*                                                                          *)
(* The directory holds log.jsonl (the tail), snapshot.json (the compacted   *)
(* prefix), snapshot.parts.<seq>/ (the bytes of a multi-part snapshot) and  *)
(* snapshot.staging.*/ (uploads in progress).  Every operation holds the    *)
(* vault's mutex, so operations do not interleave with one another, but     *)
(* each is a sequence of file system calls: one action per call that a      *)
(* crash or an I/O error can separate from the next.                        *)
(*                                                                          *)
(* log.jsonl is the set of its parseable lines and what follows its last    *)
(* newline: nothing, a whole line, or a text that is no line.  Lines are    *)
(* appended with seqs that never fall, so the first line has the least seq  *)
(* and the last the greatest; a line that cannot be parsed is no line.      *)
(*                                                                          *)
(* A definition marked "mutant" is used by nothing: it is the slip that the *)
(* definition after it could have, and that one of the properties notices.  *)
(***************************************************************************)
EXTENDS Naturals, FiniteSets, FiniteSetsExt

CONSTANTS
    Blob,         \* sealed payloads
    Conn,         \* connections that may upload a chunked snapshot
    MaxSeq,       \* bound: no append beyond this seq
    MaxParts,     \* bound: parts of one chunked upload
    Quota,        \* quota_bytes, a line and a unit of snapshot each count 1
    SnapshotMax   \* SNAPSHOT_MAX, the cap on one frame's blob

ASSUME BoundsAssumption ==
    /\ MaxSeq \in Nat
    /\ MaxParts \in Nat
    /\ Quota \in Nat
    /\ SnapshotMax \in Nat

VARIABLES
    \* the disk, which survives a crash
    files,        \* which of log.jsonl and log.jsonl.tmp exist
    log,          \* the finished, parseable lines of log.jsonl, {} when it is missing
    stub,         \* what follows its last newline: {}, a line, or the Fragment
    tmp,          \* the parseable lines of log.jsonl.tmp, {} when it is missing
    snapJson,     \* snapshot.json, NoSnapshot when it is missing
    partDirs,     \* the snapshot.parts.<seq> directories
    stagingDirs,  \* the snapshot.staging.* directories, by the connection's name
    \* the process
    pc,           \* what the holder of the vault's mutex does next
    last_seq,     \* VaultLog::last_seq
    snapshot,     \* VaultLog::snapshot
    pending,      \* the line an append is writing
    before,       \* log.jsonl as that append found it
    target,       \* the snapshot being published or truncated up to
    healing,      \* the truncation is open()'s
    uploads,      \* each connection's PartStaging
    \* history, read by no action's guard
    top,          \* the highest seq given to a line, as last counted
    acked,        \* the lines whose append returned Ok
    lost,         \* the lines that one of the two known gaps took
    unswapped     \* the second rename failed in this process

logFile == <<log, stub>>
disk == <<files, logFile, tmp, snapJson, partDirs, stagingDirs>>
memory == <<last_seq, snapshot, pending, before, target, healing, uploads>>
history == <<top, acked, lost, unswapped>>
vars == <<disk, pc, memory, history>>

Line == [seq : Nat, blob : Blob]
Snapshot == [seq : Nat, parts : Nat, size : Nat]
PartDir == [seq : Nat, count : Nat]
PartStaging == [conn : Conn, upto : Nat, of : Nat, next_idx : Nat, total : Nat]

NoSnapshot == [seq |-> 0, parts |-> 0, size |-> 0]

\* Text that serde_json parses as no line: a line cut short, or two on one line.
Fragment == [seq |-> 0]
File(lines, rest) == [lines |-> lines, rest |-> rest]

-----------------------------------------------------------------------------
(* What the operations read.                                                *)

Seqs(lines) == {l.seq : l \in lines}

\* What raw.lines() and serde_json find: the last line needs no newline.
Parsed(lines, rest) == lines \cup (rest \ {Fragment})
Readable == Parsed(log, stub)

\* The lines rewrite_tail keeps.
Tail(lines, upto) == {l \in lines : l.seq > upto}

\* What only log.jsonl.tmp holds after a failed second rename.
Stranded == IF unswapped /\ "log" \notin files THEN Tail(tmp, snapJson.seq) ELSE {}

Idle == pc = "idle"

\* check_compactable: neither compact_stale nor compact_ahead.
Compactable(upto) == snapshot.seq < upto /\ upto <= last_seq

\* The same check when an upload is complete: the snapshot may have moved on
\* while its parts arrived.
CommitUnchecked(u) == TRUE   \* mutant: only stage_parts_within checks
StillCompactable(u) == Compactable(u.upto)

\* part_cap_violation: one part's cap, and the quota over all parts.
PartFits(u, size) == size <= SnapshotMax /\ u.total + size <= Quota

\* The directories owned by a live PartStaging.
OwnedBySeq(ups) == {u.upto : u \in ups}   \* mutant: named as snapshot.parts is
Owned(ups) == {u.conn : u \in ups}

\* sweep_part_dirs: the directories of every snapshot but one.
SweepAll(keep) == partDirs   \* mutant: keep_seq is ignored
StalePartDirs(keep) == {d \in partDirs : d.seq # keep}

\* open() reads a v2 snapshot only if every part file is present.
ReadableSnapshot ==
    IF snapJson.parts > 1 /\ [seq |-> snapJson.seq, count |-> snapJson.parts] \notin partDirs
    THEN NoSnapshot
    ELSE snapJson

\* open: last_seq, from the log's last line and the snapshot.
LogSeqOnly == Max({0} \cup Seqs(Readable))   \* mutant: a fully compacted log restarts at 0
RecoveredSeq == Max({ReadableSnapshot.seq} \cup Seqs(Readable))

-----------------------------------------------------------------------------
Init ==
    /\ files = {}
    /\ log = {}
    /\ stub = {}
    /\ tmp = {}
    /\ snapJson = NoSnapshot
    /\ partDirs = {}
    /\ stagingDirs = {}
    /\ pc = "down"
    /\ last_seq = 0
    /\ snapshot = NoSnapshot
    /\ pending = {}
    /\ before = File({}, {})
    /\ target = NoSnapshot
    /\ healing = FALSE
    /\ uploads = {}
    /\ top = 0
    /\ acked = {}
    /\ lost = {}
    /\ unswapped = FALSE

-----------------------------------------------------------------------------
(* append_within                                                            *)

\* Quota check and seq; log.jsonl is opened, and created if it is missing, also
\* over a tail that a failed rename left behind.  (Lines that cannot be parsed
\* are not counted here: the model appends wherever the code does.)
Append(b) ==
    /\ Idle
    /\ last_seq < MaxSeq
    /\ Cardinality(Readable) < Quota
    /\ pending' = {[seq |-> last_seq + 1, blob |-> b]}
    /\ before' = File(log, stub)
    /\ files' = files \cup {"log"}
    /\ lost' = lost \cup Stranded
    /\ pc' = "line"
    /\ UNCHANGED <<logFile, tmp, snapJson, partDirs, stagingDirs, last_seq, snapshot,
                   target, healing, uploads, top, acked, unswapped>>

\* What the file ends with once the line is written after that.
Glued(rest) == IF rest = {} THEN pending ELSE {Fragment}

\* A line written onto an unfinished one is lost, and a whole one with it.
LostWith(rest, line) == IF rest = {} THEN {} ELSE (rest \ {Fragment}) \cup line

\* write_all(line).
WriteLine ==
    /\ pc = "line"
    /\ stub' = Glued(stub)
    /\ lost' = lost \cup LostWith(stub, pending)
    /\ pc' = "newline"
    /\ UNCHANGED <<files, log, tmp, snapJson, partDirs, stagingDirs, memory,
                   top, acked, unswapped>>

\* write_all("\n").
EndLine ==
    /\ pc = "newline"
    /\ log' = Readable
    /\ stub' = {}
    /\ pc' = "sync"
    /\ UNCHANGED <<files, tmp, snapJson, partDirs, stagingDirs, memory, history>>

\* sync_data returned: only now does last_seq move and the caller see Ok(seq).
AppendSynced ==
    /\ pc = "sync"
    /\ last_seq' = last_seq + 1
    /\ top' = last_seq + 1
    /\ acked' = acked \cup pending
    /\ pending' = {}
    /\ before' = File({}, {})
    /\ pc' = "idle"
    /\ UNCHANGED <<disk, snapshot, target, healing, uploads, lost, unswapped>>

\* write_all may have written a part of the line when it fails.
CutShort ==
    \/ UNCHANGED <<stub, lost>>
    \/ pc = "line" /\ stub' = {Fragment} /\ lost' = lost \cup LostWith(stub, {})

\* One of the three calls fails: the connection is told so, what was written
\* stays, and last_seq does not move.
AppendFails ==
    /\ pc \in {"line", "newline", "sync"}
    /\ CutShort
    /\ pending' = {}
    /\ before' = File({}, {})
    /\ pc' = "idle"
    /\ UNCHANGED <<files, log, tmp, snapJson, partDirs, stagingDirs, last_seq,
                   snapshot, target, healing, uploads, top, acked, unswapped>>

-----------------------------------------------------------------------------
(* Compaction: compact_within, stage_parts_within, PartStaging::add,        *)
(* commit_parts, publish_snapshot, sweep_part_dirs, rewrite_tail.           *)

\* mutant: PartStaging has no Drop.
ReturnKeepingStaging ==
    /\ pc' = "idle"
    /\ healing' = FALSE
    /\ target' = NoSnapshot
    /\ UNCHANGED stagingDirs

\* An operation returns; a PartStaging it consumed removes its directory.
Return ==
    /\ pc' = "idle"
    /\ healing' = FALSE
    /\ target' = NoSnapshot
    /\ stagingDirs' = Owned(uploads)

\* A single-blob offer, from a Compact frame; a refused one changes nothing.
CompactWithin(upto, size) ==
    /\ Idle
    /\ size <= SnapshotMax
    /\ size <= Quota
    /\ Compactable(upto)
    /\ target' = [seq |-> upto, parts |-> 1, size |-> size]
    /\ pc' = "publish"
    /\ UNCHANGED <<disk, last_seq, snapshot, pending, before, healing, uploads, history>>

\* The first CompactPart of an offer opens a staging directory.
StageParts(c, upto, of) ==
    /\ Idle
    /\ c \notin Owned(uploads)
    /\ of > 0
    /\ Compactable(upto)
    /\ uploads' = uploads \cup
           {[conn |-> c, upto |-> upto, of |-> of, next_idx |-> 0, total |-> 0]}
    /\ stagingDirs' = stagingDirs \cup {c}
    /\ UNCHANGED <<files, logFile, tmp, snapJson, partDirs, pc, last_seq, snapshot,
                   pending, before, target, healing, history>>

\* One part's file is written; not under the mutex, so at any moment.
AddPart(u, size) ==
    /\ pc # "down"
    /\ u \in uploads
    /\ u.next_idx < u.of
    /\ PartFits(u, size)
    /\ uploads' = (uploads \ {u}) \cup
           {[u EXCEPT !.next_idx = @ + 1, !.total = @ + size]}
    /\ UNCHANGED <<disk, pc, last_seq, snapshot, pending, before, target, healing, history>>

\* A refused part, a part out of order or a lost connection drops the staging.
DropStaging(u) ==
    /\ u \in uploads
    /\ u.next_idx < u.of
    /\ uploads' = uploads \ {u}
    /\ stagingDirs' = stagingDirs \ {u.conn}
    /\ UNCHANGED <<files, logFile, tmp, snapJson, partDirs, pc, last_seq, snapshot,
                   pending, before, target, healing, history>>

\* The last part arrived.  Another connection may have compacted meanwhile:
\* the offer is checked again, and a stale one is dropped.
CommitParts(u) ==
    /\ Idle
    /\ u \in uploads
    /\ u.next_idx = u.of
    /\ uploads' = uploads \ {u}
    /\ \/ /\ StillCompactable(u)
          /\ target' = [seq |-> u.upto, parts |-> u.of, size |-> u.total]
          /\ pc' = IF u.of = 1 THEN "publish" ELSE "move_parts"
          /\ partDirs' = IF u.of = 1 THEN partDirs
                                     ELSE {d \in partDirs : d.seq # u.upto}
          /\ UNCHANGED stagingDirs
       \/ /\ ~StillCompactable(u)
          /\ stagingDirs' = stagingDirs \ {u.conn}
          /\ UNCHANGED <<pc, target, partDirs>>
    /\ UNCHANGED <<files, logFile, tmp, snapJson, last_seq, snapshot, pending, before,
                   healing, history>>

\* The staging directory is renamed to snapshot.parts.<seq>.
MoveParts ==
    /\ pc = "move_parts"
    /\ partDirs' = partDirs \cup {[seq |-> target.seq, count |-> target.parts]}
    /\ stagingDirs' = Owned(uploads)
    /\ pc' = "publish"
    /\ UNCHANGED <<files, logFile, tmp, snapJson, memory, history>>

\* snapshot.json.tmp is synced and renamed: the commit point.
PublishSnapshot ==
    /\ pc = "publish"
    /\ snapJson' = target
    /\ snapshot' = target
    /\ pc' = "sweep"
    /\ UNCHANGED <<files, logFile, tmp, partDirs, stagingDirs, last_seq, pending,
                   before, target, healing, uploads, history>>

\* sweep_part_dirs(upto, false), best effort: a directory may stay.
SweepParts ==
    /\ pc = "sweep"
    /\ \E swept \in SUBSET StalePartDirs(target.seq) : partDirs' = partDirs \ swept
    /\ pc' = "create_tmp"
    /\ UNCHANGED <<files, logFile, tmp, snapJson, stagingDirs, memory, history>>

\* rewrite_tail truncates log.jsonl.tmp, a stranded tail included, and copies
\* lines of log.jsonl, none if it is missing: a prefix is there...
CreateTmp ==
    /\ pc = "create_tmp"
    /\ files' = files \cup {"tmp"}
    /\ \E k \in 0..(last_seq + 1) :
           tmp' = {l \in Tail(Readable, target.seq) : l.seq <= k}
    /\ lost' = lost \cup Stranded
    /\ pc' = "sync_tmp"
    /\ UNCHANGED <<logFile, snapJson, partDirs, stagingDirs, memory, top, acked, unswapped>>

\* mutant: the renames do not wait for the copy.
SwapUnsynced ==
    /\ pc = "sync_tmp"
    /\ pc' = "keep_prev"
    /\ UNCHANGED <<disk, memory, history>>

\* ... then all of them, each with its newline, synced.
SyncTmp ==
    /\ pc = "sync_tmp"
    /\ tmp' = Tail(Readable, target.seq)
    /\ pc' = "keep_prev"
    /\ UNCHANGED <<files, logFile, snapJson, partDirs, stagingDirs, memory, history>>

\* log.jsonl becomes log.prev.jsonl: for a moment there is no log.jsonl.
KeepPrev ==
    /\ pc = "keep_prev"
    /\ files' = files \ {"log"}
    /\ log' = {}
    /\ stub' = {}
    /\ pc' = "swap"
    /\ UNCHANGED <<tmp, snapJson, partDirs, stagingDirs, memory, history>>

\* log.jsonl.tmp becomes log.jsonl, and the operation (or open) is done.
SwapTail ==
    /\ pc = "swap"
    /\ files' = {"log"}
    /\ log' = tmp
    /\ tmp' = {}
    /\ Return
    /\ UNCHANGED <<stub, snapJson, partDirs, last_seq, snapshot, pending, before,
                   uploads, history>>

\* That rename fails: log.jsonl stays missing, beside its tail in log.jsonl.tmp,
\* and the error goes to the connection, which lives on.
SwapFails ==
    /\ pc = "swap"
    /\ ~healing
    /\ Return
    /\ unswapped' = TRUE
    /\ UNCHANGED <<files, logFile, tmp, snapJson, partDirs, last_seq, snapshot,
                   pending, before, uploads, top, acked, lost>>

\* Any earlier call of a compaction fails, likewise.  (In open, a failing call
\* leaves the vault closed: to the disk and the next open that is a crash.)
IoError ==
    /\ pc \in {"move_parts", "publish", "create_tmp", "sync_tmp", "keep_prev"}
    /\ ~healing
    /\ Return
    /\ UNCHANGED <<files, logFile, tmp, snapJson, partDirs, last_seq, snapshot,
                   pending, before, uploads, history>>

-----------------------------------------------------------------------------
(* Crash, and open                                                          *)

\* What a crash can leave of the writes of an append that were not synced: all
\* of them, none, a part of the line, or the line without its newline.
Unsynced ==
    CASE pc = "line" ->
             {File(log, stub), File(log, {Fragment})}
      [] pc \in {"newline", "sync"} ->
             {File(log, stub), before, File(before.lines, {Fragment}),
              File(before.lines, Glued(before.rest))}
      [] OTHER ->
             {File(log, stub)}

\* The relay dies anywhere.
Crash ==
    /\ pc # "down"
    /\ pc' = "down"
    /\ \E file \in Unsynced :
           /\ log' = file.lines
           /\ stub' = file.rest
           /\ lost' = IF pc = "line" /\ file.rest # stub
                      THEN lost \cup LostWith(stub, {})
                      ELSE lost
    /\ last_seq' = 0
    /\ snapshot' = NoSnapshot
    /\ pending' = {}
    /\ before' = File({}, {})
    /\ target' = NoSnapshot
    /\ healing' = FALSE
    /\ uploads' = {}
    /\ unswapped' = FALSE
    /\ UNCHANGED <<files, tmp, snapJson, partDirs, stagingDirs, top, acked>>

\* mutant: log.jsonl.tmp is left alone.
OpenWithoutReplay ==
    /\ pc = "down"
    /\ pc' = "open"
    /\ UNCHANGED <<disk, memory, history>>

\* open, first step: a crash between rewrite_tail's renames is replayed.
OpenReplay ==
    /\ pc = "down"
    /\ pc' = "open"
    /\ IF "log" \notin files /\ "tmp" \in files
       THEN files' = {"log"} /\ log' = tmp /\ tmp' = {}
       ELSE UNCHANGED <<files, log, tmp>>
    /\ UNCHANGED <<stub, snapJson, partDirs, stagingDirs, memory, history>>

\* open, the rest: snapshot and last_seq are read back, leftovers swept, and a
\* truncation that a crash cut off is started again.
OpenRead ==
    /\ pc = "open"
    /\ snapshot' = ReadableSnapshot
    /\ last_seq' = RecoveredSeq
    /\ top' = RecoveredSeq
    /\ partDirs' = partDirs \ StalePartDirs(ReadableSnapshot.seq)
    /\ stagingDirs' = {}
    /\ IF \E l \in Readable : l.seq <= ReadableSnapshot.seq
       THEN pc' = "create_tmp" /\ healing' = TRUE /\ target' = ReadableSnapshot
       ELSE pc' = "idle" /\ UNCHANGED <<healing, target>>
    /\ UNCHANGED <<files, logFile, tmp, snapJson, pending, before, uploads,
                   acked, lost, unswapped>>

-----------------------------------------------------------------------------
Next ==
    \/ \E b \in Blob : Append(b)
    \/ WriteLine
    \/ EndLine
    \/ AppendSynced
    \/ AppendFails
    \/ \E upto \in 1..MaxSeq, size \in 1..SnapshotMax : CompactWithin(upto, size)
    \/ \E c \in Conn, upto \in 1..MaxSeq, of \in 1..MaxParts : StageParts(c, upto, of)
    \/ \E u \in uploads, size \in 1..SnapshotMax : AddPart(u, size)
    \/ \E u \in uploads : DropStaging(u)
    \/ \E u \in uploads : CommitParts(u)
    \/ MoveParts
    \/ PublishSnapshot
    \/ SweepParts
    \/ CreateTmp
    \/ SyncTmp
    \/ KeepPrev
    \/ SwapTail
    \/ SwapFails
    \/ IoError
    \/ Crash
    \/ OpenReplay
    \/ OpenRead

Spec == Init /\ [][Next]_vars

-----------------------------------------------------------------------------
(* Properties                                                               *)

PCs == {"down", "open", "idle", "line", "newline", "sync", "move_parts", "publish", "sweep",
        "create_tmp", "sync_tmp", "keep_prev", "swap"}

\* Types of the disk, the process and the history.
TypeOK ==
    /\ files \subseteq {"log", "tmp"}
    /\ log \subseteq Line
    /\ stub \subseteq Line \cup {Fragment}
    /\ tmp \subseteq Line
    /\ snapJson \in Snapshot
    /\ partDirs \subseteq PartDir
    /\ stagingDirs \subseteq Conn
    /\ pc \in PCs
    /\ last_seq \in Nat
    /\ snapshot \in Snapshot
    /\ pending \subseteq Line
    /\ before \in [lines : SUBSET Line, rest : SUBSET (Line \cup {Fragment})]
    /\ target \in Snapshot
    /\ healing \in BOOLEAN
    /\ uploads \subseteq PartStaging
    /\ top \in Nat
    /\ acked \subseteq Line
    /\ lost \subseteq Line
    /\ unswapped \in BOOLEAN

\* The lines the next open finds: it replays a missing log.jsonl from the tmp.
Recoverable == IF "log" \in files THEN Readable ELSE tmp

\* "An acked update survives a relay crash" (append_within): at every moment,
\* mid-compaction and after any crash or failed call included, an acked line is
\* covered by the published snapshot or can be read back from the disk.  Two
\* gaps of the code are excepted, and nothing else: a line written onto an
\* unfinished one, and a tail stranded by a failed rename and then replaced.
AckedDurable ==
    \A a \in acked : a.seq <= snapJson.seq \/ a \in Recoverable \/ a \in lost

\* append_within's comment, log.rs:471-472: "Fsynced - an acked update survives
\* a relay crash."  Neither append_within nor open looks at how log.jsonl ends:
\* an update appended after an append that was cut short is acked, and is in no
\* line anyone can read.
AckedUpdateSurvivesCrash ==
    \A a \in acked : a.seq <= snapJson.seq \/ a \in Recoverable

\* Whenever the vault is open for a request, read_since and the snapshot serve
\* every acked line: open, and every operation that failed, has put the files
\* back where the readers look.  The two gaps are excepted, and until the next
\* open so is a tail stranded in log.jsonl.tmp.
AckedServed ==
    Idle => \A a \in acked :
        a.seq <= snapshot.seq \/ a \in Readable \/ a \in lost \/ a \in Stranded

\* Never a torn snapshot (commit_parts): whatever snapshot.json names has all
\* its part files, at every step of every commit and after any crash.
SnapshotComplete ==
    snapJson.parts > 1 =>
        [seq |-> snapJson.seq, count |-> snapJson.parts] \in partDirs

\* Interrupted uploads leave nothing behind once the vault serves again: each
\* staging directory belongs to a live upload, and each live upload has one.
NoOrphanStaging == Idle => stagingDirs = Owned(uploads)

\* Two offers may race; the published snapshot still never goes backwards.
SnapshotAdvances == [][snapJson.seq <= snapJson'.seq]_vars

\* The files, renames, failed calls and crashes implement the storage DurableLog
\* promises, until one of the two gaps takes its first line: write_all is the
\* write, the sync or the next open counts it, the snapshot's rename is the
\* compaction, and every other step is invisible.  A seq that a restart forgot
\* and gave out again would be no step of it.
Durable == INSTANCE DurableLog WITH
    base <- snapJson.seq,
    entries <- Tail(Recoverable, snapJson.seq)

ImplementsDurableLog ==
    Durable!Init /\ [][lost' = {} => Durable!Next]_(Durable!vars)

=============================================================================
