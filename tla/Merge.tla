------------------------------- MODULE Merge --------------------------------
(***************************************************************************)
(* How the edits of several devices meet (tacitus-sync): the scan that     *)
(* turns a file into CRDT operations (scan.rs, docs.rs, merge.rs), the     *)
(* tombstones (manifest.rs), the receipt of other devices' updates         *)
(* (engine.rs) and the apply that writes the merged state back into the    *)
(* vault (apply.rs), with the crash points between the files they persist. *)
(*                                                                         *)
(* A text is the set of atoms (say, lines) in it.  A document is the set   *)
(* of operations that inserted atoms and the set of those since deleted;   *)
(* its state vector names the insertions only, as yrs's does.  The relay's *)
(* log delivers every payload to every device, once and in order: how it   *)
(* does that is the subject of VaultLog, Fanout and Outbox.                *)
(*                                                                         *)
(* A definition marked "mutant" is used by nothing: it is the slip that    *)
(* the definition after it could have, and a property notices.             *)
(***************************************************************************)
EXTENDS Naturals, Sequences, FiniteSets

CONSTANTS
    Device,      \* numbers, as the CRDT's client ids are
    Item,        \* keys n:<note> and m:<memory>
    None,        \* no file, no document, no tombstone, no shadow entry
    MaxEdits,    \* bound: writes and deletions by the users
    MaxCrashes   \* bound: processes that die

ASSUME MergeAssumption ==
    /\ Device \subseteq Nat \ {0} /\ None \notin Device /\ "manifest" \notin Item
    /\ {MaxEdits, MaxCrashes} \subseteq Nat

VARIABLES
    \* on each device's disk
    file,       \* the vault: text or None
    saved,      \* state.json, the shadow as last saved
    docs,       \* docs/<item>.yrs
    tombs,      \* docs/manifest.yrs
    outbox,     \* outbox.jsonl
    queue,      \* apply_queue.json
    cursor,     \* cursor.json
    \* in each device's process
    shadow,     \* the shadow as last scanned or applied
    pc,         \* where the sync thread is
    todo,       \* a scan's delta, or the writes of an apply
    updates,    \* the payload a scan is folding
    \* the relay
    log,
    \* the users
    trash,      \* the text a deleted note had
    edits, crashes,
    \* history
    wanted,     \* <<device, item, atom>>: typed there and never taken out by anybody
    slips       \* what has happened that a CRDT cannot mend

disk == <<saved, docs, tombs, outbox, queue, cursor>>
memory == <<shadow, pc, todo, updates>>
users == <<trash, edits, crashes, wanted>>
vars == <<file, disk, memory, log, users, slips>>

Manifest == "manifest"
Empty == [i \in {} |-> None]      \* no item

-----------------------------------------------------------------------------
(* Documents and tombstones                                                *)

\* Operations: boot operations have an identity that follows from the content,
\* so that two devices with the same file make the same ones.
BootOps(text) == {[atom |-> a, dev |-> None, at |-> text] : a \in text}
NewOps(d, doc, atoms) ==
    LET clock == Cardinality({o.at : o \in {p \in doc.ops : p.dev = d}})
    IN  {[atom |-> a, dev |-> d, at |-> {clock + 1}] : a \in atoms}

TextOf(doc) == {o.atom : o \in doc.ops \ doc.dels}

\* mutant: an update is taken for a full state, and what it lacks is gone.
MergeFull(doc, u) ==
    IF doc = None THEN u
    ELSE [ops |-> doc.ops \union u.ops, dels |-> doc.dels \union u.dels \union (doc.ops \ u.ops)]

\* apply_update_bytes
MergeDoc(doc, u) ==
    IF doc = None THEN u ELSE [ops |-> doc.ops \union u.ops, dels |-> doc.dels \union u.dels]

\* A Y.Map keeps one of two concurrent values of a key, the same one everywhere.
Beats(t, u) == t.rank > u.rank \/ (t.rank = u.rank /\ t.by > u.by)
MergeTomb(t, u) == IF t = None \/ (u # None /\ Beats(u, t)) THEN u ELSE t

\* mutant: what a deletion has seen is not looked at.
CoversAny(tomb, doc) == tomb # None

\* manifest::covers
Covers(tomb, doc) == tomb # None /\ doc.ops \subseteq tomb.sv

\* DocStore::materialize
Materialize(d, i) ==
    IF docs[d][i] = None \/ Covers(tombs[d][i], docs[d][i]) THEN None ELSE TextOf(docs[d][i])

\* apply_local_text and apply_splices: the document becomes the file's text.
ApplyLocalText(d, doc, text) ==
    IF doc = None THEN [ops |-> BootOps(text), dels |-> {}]
    ELSE [ops  |-> doc.ops \union NewOps(d, doc, text \ TextOf(doc)),
          dels |-> doc.dels \union {o \in doc.ops : o.atom \notin text}]

\* mutant: the state vector is taken after the transaction.
UpdateAfter(doc, after) == IF doc = None THEN after ELSE [after EXCEPT !.ops = {}]

\* The update since the state before: the new operations, and every deletion.
UpdateSince(doc, after) ==
    IF doc = None THEN after ELSE [after EXCEPT !.ops = @ \ doc.ops]

\* manifest::record_delete, at the document's state vector.
RecordDelete(d, tomb, doc) ==
    LET seen == IF doc = None THEN {} ELSE doc.ops
    IN  IF tomb = None THEN [rank |-> 1, by |-> d, sv |-> seen]
        ELSE [rank |-> tomb.rank + 1, by |-> d, sv |-> tomb.sv \union seen]

-----------------------------------------------------------------------------
(* The shadow: the text last seen, and whether the (mtime, size) recorded  *)
(* with it are still the file's.                                           *)

Entry(text, same) == [text |-> text, same |-> same]
TextIn(entry) == IF entry = None THEN None ELSE entry.text
Stale(entry) == IF entry = None THEN None ELSE [entry EXCEPT !.same = FALSE]

Payload(d, us, ts) == [dev |-> d, docs |-> us, tombs |-> ts]
NoUpdates == [docs |-> Empty, tombs |-> Empty]

Init ==
    /\ file = [d \in Device |-> [i \in Item |-> None]]
    /\ saved = [d \in Device |-> [i \in Item |-> None]]
    /\ docs = [d \in Device |-> [i \in Item |-> None]]
    /\ tombs = [d \in Device |-> [i \in Item |-> None]]
    /\ outbox = [d \in Device |-> <<>>]
    /\ queue = [d \in Device |-> {}]
    /\ cursor = [d \in Device |-> 0]
    /\ shadow = saved
    /\ pc = [d \in Device |-> "start"]
    /\ todo = [d \in Device |-> Empty]
    /\ updates = [d \in Device |-> NoUpdates]
    /\ log = <<>>
    /\ trash = [d \in Device |-> [i \in Item |-> None]]
    /\ edits = 0 /\ crashes = 0
    /\ wanted = {}
    /\ slips = {}

-----------------------------------------------------------------------------
(* What a payload carries, and what a CRDT cannot mend                     *)

Dirty(p) == DOMAIN p.docs \union IF p.tombs = Empty THEN {} ELSE {Manifest}

\* A document or a tombstone holds everything the payload says of it.
HasDoc(doc, u) == doc # None /\ u.ops \subseteq doc.ops /\ u.dels \subseteq doc.dels
HasTomb(t, u) == t # None /\ (t = u \/ Beats(t, u))
Holds(d, p) ==
    /\ \A i \in DOMAIN p.docs : HasDoc(docs[d][i], p.docs[i])
    /\ \A i \in DOMAIN p.tombs : HasTomb(tombs[d][i], p.tombs[i])

\* apply_dirty: a manifest update can affect any item.
Candidates(d, keys) ==
    (keys \intersect Item)
        \union IF Manifest \in keys THEN {i \in Item : docs[d][i] # None} ELSE {}

\* Merged into d's documents and not yet known to be in its files.
Unapplied(d) ==
    queue[d] \union
        IF cursor[d] < Len(log) /\ log[cursor[d] + 1].dev # d /\ Holds(d, log[cursor[d] + 1])
        THEN Dirty(log[cursor[d] + 1]) ELSE {}

\* A user has edited a file while what others did to it was merged and not shown.
Clash(d, i) ==
    /\ i \in Candidates(d, Unapplied(d)) /\ docs[d][i] # None
    /\ file[d][i] # Materialize(d, i)
    /\ file[d][i] # TextIn(saved[d][i])
    /\ TextOf(docs[d][i]) # TextIn(saved[d][i])

Note(slip) ==
    slips' = slips \union slip \union
        {s \in {"raced"} : \E d \in Device, i \in Item : Clash(d, i)'}

-----------------------------------------------------------------------------
(* The users, at any time                                                  *)

\* The write falls between an apply's check and its write.
TooLate(d, i) == {s \in {"overwritten"} : pc[d] = "write" /\ i \in DOMAIN todo[d]}

\* The write gives a file the bytes last seen there, after an apply has passed it over
\* because it was edited: the next scan sees no edit, and nothing else looks again.
Restored(d, i, text) ==
    {s \in {"restored"} :
        /\ text # Materialize(d, i)
        /\ pc[d] \in {"write", "stat", "clear"} \/ i \notin Candidates(d, Unapplied(d))
        /\ \/ text = TextIn(shadow[d][i]) /\ (pc[d] = "fold" => i \notin DOMAIN todo[d])
           \/ text = TextIn(saved[d][i]) /\ updates[d] = NoUpdates}

\* A write by anybody but the sync thread: the recorded stat no longer fits.
UserWrites(d, i, text) ==
    /\ edits < MaxEdits
    /\ edits' = edits + 1
    /\ file' = [file EXCEPT ![d][i] = text]
    /\ shadow' = [shadow EXCEPT ![d][i] = Stale(@)]
    /\ saved' = [saved EXCEPT ![d][i] = Stale(@)]
    /\ UNCHANGED <<docs, tombs, outbox, queue, cursor, pc, todo, updates, log, crashes>>
    /\ Note(TooLate(d, i) \union Restored(d, i, text))

Without(i, text) == {w \in wanted : w[2] # i \/ w[3] \notin text}

Type(d, i) ==
    /\ UserWrites(d, i, {edits + 1} \union IF file[d][i] = None THEN {} ELSE file[d][i])
    /\ wanted' = wanted \union {<<d, i, edits + 1>>}
    /\ UNCHANGED trash

Erase(d, i) ==
    /\ file[d][i] # None
    /\ \E a \in file[d][i] :
        /\ UserWrites(d, i, file[d][i] \ {a})
        /\ wanted' = Without(i, {a})
    /\ UNCHANGED trash

Delete(d, i) ==
    /\ file[d][i] # None
    /\ UserWrites(d, i, None)
    /\ trash' = [trash EXCEPT ![d][i] = file[d][i]]
    /\ wanted' = Without(i, file[d][i])

\* A deleted note comes back with the bytes it had.
Undelete(d, i) ==
    /\ file[d][i] = None
    /\ trash[d][i] # None
    /\ UserWrites(d, i, trash[d][i])
    /\ trash' = [trash EXCEPT ![d][i] = None]
    /\ UNCHANGED wanted

-----------------------------------------------------------------------------
(* The scan (tick_scan_with_updates)                                       *)

\* scan: deleted items, and those whose stat differs from the recorded one.
Gone(d) == {i \in Item : shadow[d][i] # None /\ file[d][i] = None}
ToRead(d) == {i \in Item : file[d][i] # None
                             /\ (shadow[d][i] = None \/ ~shadow[d][i].same)}
Changed(d) == {i \in ToRead(d) : file[d][i] # TextIn(shadow[d][i])}

\* The scan reads the vault and updates the shadow in memory.  A scan that
\* finds nothing is left out, but for the one a session starts with.
Scan(d) ==
    /\ pc[d] = "start" \/ (pc[d] = "idle" /\ Gone(d) \union ToRead(d) # {})
    /\ todo' = [todo EXCEPT ![d] = [i \in Gone(d) \union Changed(d) |-> file[d][i]]]
    /\ shadow' = [shadow EXCEPT ![d] = [i \in Item |->
            IF i \in Gone(d) THEN None
            ELSE IF i \in ToRead(d) THEN Entry(file[d][i], TRUE)
            ELSE @[i]]]
    /\ pc' = [pc EXCEPT ![d] = "fold"]
    /\ UNCHANGED <<file, disk, updates, log, users>>
    /\ Note({})

\* Created and modified items first: each document is persisted as it is folded.
FoldItem(d, i) ==
    /\ pc[d] = "fold"
    /\ i \in DOMAIN todo[d]
    /\ todo[d][i] # None
    /\ LET before == docs[d][i]
           after == ApplyLocalText(d, before, todo[d][i])
       IN  /\ docs' = [docs EXCEPT ![d][i] = after]
           /\ updates' = IF before # None /\ TextOf(before) = todo[d][i] THEN updates
                         ELSE [updates EXCEPT ![d].docs =
                                 [j \in {i} \union DOMAIN @ |->
                                    IF j = i THEN UpdateSince(before, after) ELSE @[j]]]
    /\ todo' = [todo EXCEPT ![d] = [j \in DOMAIN @ \ {i} |-> @[j]]]
    /\ UNCHANGED <<file, saved, tombs, outbox, queue, cursor, shadow, pc, log, users>>
    /\ Note({s \in {"buried"} : Materialize(d, i)' # todo[d][i]})

\* Then the deleted ones, in the persisted manifest.
FoldDeleted(d, i) ==
    /\ pc[d] = "fold"
    /\ i \in DOMAIN todo[d]
    /\ \A j \in DOMAIN todo[d] : todo[d][j] = None
    /\ LET tomb == RecordDelete(d, tombs[d][i], docs[d][i])
       IN  /\ tombs' = [tombs EXCEPT ![d][i] = tomb]
           /\ updates' = [updates EXCEPT ![d].tombs =
                            [j \in {i} \union DOMAIN @ |-> IF j = i THEN tomb ELSE @[j]]]
    /\ todo' = [todo EXCEPT ![d] = [j \in DOMAIN @ \ {i} |-> @[j]]]
    /\ UNCHANGED <<file, saved, docs, outbox, queue, cursor, shadow, pc, log, users>>
    /\ Note({})

\* The shadow is saved, and without updates that is the end of the scan.
SaveShadow(d) ==
    /\ pc[d] = "fold"
    /\ todo[d] = Empty
    /\ saved' = [saved EXCEPT ![d] = shadow[d]]
    /\ pc' = [pc EXCEPT ![d] = IF updates[d] = NoUpdates THEN "idle" ELSE "push"]
    /\ UNCHANGED <<file, docs, tombs, outbox, queue, cursor, shadow, todo, updates, log, users>>
    /\ Note({})

\* The payload is sealed and put into the outbox.
QueuePush(d) ==
    /\ pc[d] = "push"
    /\ outbox' = [outbox EXCEPT ![d] =
                    Append(@, Payload(d, updates[d].docs, updates[d].tombs))]
    /\ updates' = [updates EXCEPT ![d] = NoUpdates]
    /\ pc' = [pc EXCEPT ![d] = "idle"]
    /\ UNCHANGED <<file, saved, docs, tombs, queue, cursor, shadow, todo, log, users>>
    /\ Note({})

\* mutant: the cursor advances on the ack.
DeliverAndSkip(d) ==
    /\ outbox[d] # <<>>
    /\ log' = Append(log, Head(outbox[d]))
    /\ outbox' = [outbox EXCEPT ![d] = Tail(@)]
    /\ cursor' = [cursor EXCEPT ![d] = Len(log')]
    /\ UNCHANGED <<file, saved, docs, tombs, queue, memory, users>>
    /\ Note({})

\* The relay logs the oldest blob and acks it.
Deliver(d) ==
    /\ outbox[d] # <<>>
    /\ log' = Append(log, Head(outbox[d]))
    /\ outbox' = [outbox EXCEPT ![d] = Tail(@)]
    /\ UNCHANGED <<file, saved, docs, tombs, queue, cursor, memory, users>>
    /\ Note({})

-----------------------------------------------------------------------------
(* The receipt of an update (on_server_msg)                                *)

\* Another device's updates are merged into the documents and the manifest.
Receive(d) ==
    /\ pc[d] = "idle"
    /\ cursor[d] < Len(log)
    /\ LET p == log[cursor[d] + 1]
       IN  /\ p.dev # d
           /\ docs' = [docs EXCEPT ![d] = [i \in Item |->
                   IF i \in DOMAIN p.docs THEN MergeDoc(@[i], p.docs[i]) ELSE @[i]]]
           /\ tombs' = [tombs EXCEPT ![d] = [i \in Item |->
                   IF i \in DOMAIN p.tombs THEN MergeTomb(@[i], p.tombs[i]) ELSE @[i]]]
    /\ pc' = [pc EXCEPT ![d] = "queue"]
    /\ UNCHANGED <<file, saved, outbox, queue, cursor, shadow, todo, updates, log, users>>
    /\ Note({})

\* mutant: what an apply has to look at is kept in memory only.
ForgetDirty(d) ==
    /\ pc[d] = "queue"
    /\ pc' = [pc EXCEPT ![d] = "cursor"]
    /\ UNCHANGED <<file, disk, shadow, todo, updates, log, users>>
    /\ Note({})

\* persist_pending_apply: the queue before the cursor.
QueueDirty(d) ==
    /\ pc[d] = "queue"
    /\ queue' = [queue EXCEPT ![d] = @ \union Dirty(log[cursor[d] + 1])]
    /\ pc' = [pc EXCEPT ![d] = "cursor"]
    /\ UNCHANGED <<file, saved, docs, tombs, outbox, cursor, shadow, todo, updates, log, users>>
    /\ Note({})

\* persist_cursor; of a device's own payload nothing else is done.
MoveCursor(d) ==
    /\ \/ pc[d] = "cursor"
       \/ pc[d] = "idle" /\ cursor[d] < Len(log) /\ log[cursor[d] + 1].dev = d
    /\ cursor' = [cursor EXCEPT ![d] = @ + 1]
    /\ pc' = [pc EXCEPT ![d] = "idle"]
    /\ UNCHANGED <<file, saved, docs, tombs, outbox, queue, shadow, todo, updates, log, users>>
    /\ Note({})

-----------------------------------------------------------------------------
(* The apply of merged state to the vault (apply_dirty)                    *)

\* mutant: a file that was edited since the last scan is written all the same.
ToWriteOver(d) ==
    {i \in Candidates(d, queue[d]) : file[d][i] # Materialize(d, i)}

\* The local-edit guard: the file is as the last scan saw it.
ToWrite(d) ==
    {i \in Candidates(d, queue[d]) :
        file[d][i] # Materialize(d, i) /\ file[d][i] = TextIn(shadow[d][i])}

\* The plan, and the shadow as it will be: its stat is not known yet.
ApplyCheck(d) ==
    /\ pc[d] = "idle"
    /\ queue[d] # {}
    /\ todo' = [todo EXCEPT ![d] = [i \in ToWrite(d) |-> Materialize(d, i)]]
    /\ shadow' = [shadow EXCEPT ![d] = [i \in Item |->
            IF i \notin ToWrite(d) THEN @[i]
            ELSE IF Materialize(d, i) = None THEN None
            ELSE Entry(Materialize(d, i), FALSE)]]
    /\ pc' = [pc EXCEPT ![d] = "write"]
    /\ UNCHANGED <<file, disk, updates, log, users>>
    /\ Note({})

ApplyWrite(d) ==
    /\ pc[d] = "write"
    /\ file' = [file EXCEPT ![d] = [i \in Item |->
            IF i \in DOMAIN todo[d] THEN todo[d][i] ELSE @[i]]]
    /\ saved' = [saved EXCEPT ![d] = [i \in Item |->
            IF i \in DOMAIN todo[d] THEN Stale(@[i]) ELSE @[i]]]
    /\ pc' = [pc EXCEPT ![d] = "stat"]
    /\ UNCHANGED <<docs, tombs, outbox, queue, cursor, shadow, todo, updates, log, users>>
    /\ Note({})

\* The stat of whatever file is there now completes the entry, and it is saved.
ApplyStat(d) ==
    /\ pc[d] = "stat"
    /\ shadow' = [shadow EXCEPT ![d] = [i \in Item |->
            IF i \notin DOMAIN todo[d] THEN @[i]
            ELSE IF file[d][i] = None \/ @[i] = None THEN None
            ELSE [@[i] EXCEPT !.same = TRUE]]]
    /\ saved' = [saved EXCEPT ![d] = shadow'[d]]
    /\ pc' = [pc EXCEPT ![d] = "clear"]
    /\ todo' = [todo EXCEPT ![d] = Empty]
    /\ UNCHANGED <<file, docs, tombs, outbox, queue, cursor, updates, log, users>>
    /\ Note({s \in {"unseen"} : \E i \in DOMAIN todo[d] : file[d][i] # todo[d][i]})

\* mutant: the queue is not cleared.
KeepQueue(d) ==
    /\ pc[d] = "clear"
    /\ pc' = [pc EXCEPT ![d] = "idle"]
    /\ UNCHANGED <<file, disk, shadow, todo, updates, log, users>>
    /\ Note({})

\* clear_pending_apply: every key that was looked at, the skipped ones too.
ApplyClear(d) ==
    /\ pc[d] = "clear"
    /\ queue' = [queue EXCEPT ![d] = {}]
    /\ pc' = [pc EXCEPT ![d] = "idle"]
    /\ UNCHANGED <<file, saved, docs, tombs, outbox, cursor, shadow, todo, updates, log, users>>
    /\ Note({})

-----------------------------------------------------------------------------
(* The process dies; a later one starts with a scan.                       *)

Crash(d) ==
    /\ crashes < MaxCrashes
    /\ pc[d] # "start"
    /\ crashes' = crashes + 1
    /\ shadow' = [shadow EXCEPT ![d] = saved[d]]
    /\ pc' = [pc EXCEPT ![d] = "start"]
    /\ todo' = [todo EXCEPT ![d] = Empty]
    /\ updates' = [updates EXCEPT ![d] = NoUpdates]
    /\ UNCHANGED <<file, disk, log, trash, edits, wanted>>
    /\ Note({s \in {"orphaned"} : updates[d] # NoUpdates})

-----------------------------------------------------------------------------

User(d) == \E i \in Item : Type(d, i) \/ Erase(d, i) \/ Delete(d, i) \/ Undelete(d, i)
Fold(d) == \E i \in Item : FoldItem(d, i) \/ FoldDeleted(d, i)
Sync(d) ==
    \/ Scan(d) \/ Fold(d) \/ SaveShadow(d) \/ QueuePush(d) \/ Deliver(d)
    \/ Receive(d) \/ QueueDirty(d) \/ MoveCursor(d)
    \/ ApplyCheck(d) \/ ApplyWrite(d) \/ ApplyStat(d) \/ ApplyClear(d)

Next == \E d \in Device : User(d) \/ Sync(d) \/ Crash(d)

\* The client's loop ticks for as long as it runs: it scans, receives, applies.
Fairness ==
    \A d \in Device :
        /\ WF_vars(Scan(d)) /\ WF_vars(Fold(d)) /\ WF_vars(SaveShadow(d))
        /\ WF_vars(QueuePush(d)) /\ WF_vars(Deliver(d))
        /\ WF_vars(Receive(d)) /\ WF_vars(QueueDirty(d)) /\ WF_vars(MoveCursor(d))
        /\ WF_vars(ApplyCheck(d)) /\ WF_vars(ApplyWrite(d))
        /\ WF_vars(ApplyStat(d)) /\ WF_vars(ApplyClear(d))

Spec == Init /\ [][Next]_vars /\ Fairness

-----------------------------------------------------------------------------
(* Properties                                                              *)

Atom == 1..MaxEdits
Text == (SUBSET Atom) \union {None}
Op == [atom : Atom, dev : Device \union {None}, at : SUBSET (Atom \union {MaxEdits + 1})]

IsDoc(doc) == doc.ops \subseteq Op /\ doc.dels \subseteq (IF slips = {} THEN doc.ops ELSE Op)

\* Each variable has its type; a document deletes only what it holds, unless a
\* crash has orphaned an operation that others hear of by its deletion.
TypeOK ==
    /\ \A d \in Device, i \in Item :
        /\ file[d][i] \in Text /\ trash[d][i] \in Text
        /\ \A e \in {saved[d][i], shadow[d][i]} :
            e = None \/ e \in [text : SUBSET Atom, same : BOOLEAN]
        /\ docs[d][i] = None \/ IsDoc(docs[d][i])
        /\ tombs[d][i] = None \/ (tombs[d][i].sv \subseteq Op /\ tombs[d][i].by \in Device)
    /\ \A d \in Device :
        /\ queue[d] \subseteq Item \union {Manifest}
        /\ cursor[d] \in 0..Len(log)
        /\ pc[d] \in {"start", "idle", "fold", "push", "queue", "cursor", "write", "stat", "clear"}
        /\ DOMAIN todo[d] \subseteq Item
    /\ edits \in 0..MaxEdits /\ crashes \in 0..MaxCrashes
    /\ wanted \subseteq Device \X Item \X Atom
    /\ slips \subseteq {"raced", "buried", "orphaned", "overwritten", "restored", "unseen"}

\* What another device sent and the cursor has passed is in the documents: no crash between the files
\* that a receipt writes makes a device skip another's edit (engine.rs:545).
ReceivedKept ==
    \A d \in Device : \A k \in 1..cursor[d] : log[k].dev # d => Holds(d, log[k])

\* A file that is as the sync thread left it, and is not what the documents
\* say, is on the way to be written: queued, or merged from an update that
\* will come again (apply_queue.json survives a crash between receipt and apply).
QueueCovers ==
    slips = {} =>
        \A d \in Device, i \in Item :
            pc[d] = "idle" /\ file[d][i] = TextIn(saved[d][i]) /\ file[d][i] # Materialize(d, i)
                => i \in Candidates(d, Unapplied(d))

\* What a user typed on a device is in the file or has been folded into its
\* document: no apply takes it away unread, but for a write that falls between
\* the check and the rename (apply.rs:6).
LocalEditFolded ==
    slips \intersect {"overwritten", "unseen"} = {} =>
        \A w \in wanted :
            \/ file[w[1]][w[2]] # None /\ w[3] \in file[w[1]][w[2]]
            \/ docs[w[1]][w[2]] # None /\ \E o \in docs[w[1]][w[2]].ops : o.atom = w[3]

Deleted(d, i) == IF docs[d][i] = None THEN {} ELSE {o.atom : o \in docs[d][i].dels}

\* Only what a user took out is deleted from a document, for as long as
\* no user edits a file that lags behind its document.
FoldKeepsRemote ==
    slips = {} => \A w \in wanted : \A d \in Device : w[3] \notin Deleted(d, w[2])

\* docs/SYNC.md:66: concurrent edits always merge with both sides preserved.
BothSidesKept == \A w \in wanted : \A d \in Device : w[3] \notin Deleted(d, w[2])

AtRest ==
    \A d \in Device :
        /\ pc[d] = "idle" /\ outbox[d] = <<>> /\ cursor[d] = Len(log)
        /\ queue[d] = {} /\ Gone(d) \union ToRead(d) = {}

\* When everything has been exchanged, all devices have the same files, and what
\* was typed and not taken out is in them: a deletion does not win over an
\* edit that it has not seen (docs/SYNC.md:69, manifest.rs:3).
NothingLostAtRest ==
    AtRest /\ slips = {} =>
        /\ \A d, e \in Device : file[d] = file[e]
        /\ \A w \in wanted : \A d \in Device :
            file[d][w[2]] # None /\ w[3] \in file[d][w[2]]

\* The users stop, and the devices come to rest: nothing keeps being sent to
\* and fro, and nothing waits for a step that no loop takes.
Settles == <>[]AtRest

=============================================================================
