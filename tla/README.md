# Tacitus: a verification development

TLA+ models of Tacitus (`crates/tacitus-relay`, `tacitus-sync`,
`tacitus-billing`, `tacitus-core`, `tacitus-plugins`), model-checked with TLC,
and proved with TLAPS for the relay's storage, its fan-out, a device's outbox, the
entitlements, co-edit rooms and the receipt of other devices' updates. `PROJECT.json` maps every definition to the lines it
models, lists the runs, the hazards the properties are for, and the findings.

## The system

Tacitus keeps a vault of Markdown notes and agent memories, serves it to agents
over MCP, and synchronises it between devices through a relay that only sees
sealed blobs.

| Component | State | Operations | Interacts with | What makes it hard | Module |
|---|---|---|---|---|---|
| Relay storage (`relay/log.rs`) | `log.jsonl`, `snapshot.json`, `snapshot.parts.<seq>/`, `snapshot.staging.*/`, `last_seq` | append, compact, stage/add/commit parts, open | called by connections under the vault's mutex | crash between any two file system calls; racing uploads; quota | `VaultLog` |
| Relay connections (`relay/main.rs`, `hub.rs`) | per connection: `last_sent`, broadcast receiver, staging; per vault: the log mutex and the channel | hello, backlog, snapshot, push, ack, broadcast, lag resync, compact | storage, clients | tasks interleave between append, ack and broadcast; channel overflow; a compaction in the middle of a served snapshot | `Fanout` |
| Sync delivery (`sync/engine.rs`, `outbox.rs`, `client.rs`, `live.rs`) | outbox, cursor, part tracker; per session: target, quota heal, compaction offer | push, Welcome/Ack/Update/Snapshot/Err handlers, reconnect | relay, merge | retries and duplicate acks; refusals; catching up | `Outbox`, `Fanout` |
| Sync merge (`docs.rs`, `merge.rs`, `manifest.rs`, `scan.rs`, `state.rs`, `apply.rs`) | CRDT documents, tombstones, shadow, apply queue | scan, fold, delete, receive, apply | delivery, the vault's files, the user | local edits racing an apply; crashes between six files | `Merge` |
| Co-edit rooms (`live.rs`, `coedit.rs`) | durable mirror, dirty flag, timers | enter, leave, keystroke, flush | delivery, the ephemeral channel | frames lost; authors that die; what the mirror claims is durable | `Room` |
| Presence (`presence.rs`) | peer map | announce, observe, sweep, goodbye | the ephemeral channel | late frames of dead sessions; expiry | `Room` |
| Billing (`tacitus-billing`, `hub.rs`) | `entitlements.json` with tombstones; the relay's cached quotas | webhook events, operator's edits, reload | Stripe, relay quotas | events late, twice, in any order; a file two programs and a person write | `Billing` |
| Note writer (`core/vault/write.rs`, `rename.rs`) | notes, pending changesets, versions, audit log | propose, commit, rollback, revert | tools, sync's apply, the user's editor | a changeset of several files that fails or is overtaken half-way | `Notes` |
| Tools, graph, tasks, memory, plugins (`core/tools/mod.rs`, `memory/`, `vault/graph.rs`, `vault/tasks.rs`, `tacitus-plugins`) | memory files, the plugin instance | every tool call, host calls of a guest | the note writer | two processes, allowlists, answers cut by a budget | `Tools` |
| Wire format and crypto, search and parsing, CLI, TypeScript packages | none of their own | pure functions, wrappers | - | nothing that happens over several steps | - |

What makes each correct: storage keeps every acked line and never tears a
snapshot; connections and cursors bring every edit to every device; delivery
brings every edit into the log once it is folded; merging loses no edit of
either side, and a deletion holds unless an edit it had not seen brings the
note back; a room's keystrokes all become durable; presence shows who is there;
entitlements follow the newest event; a commit is all or nothing, can be undone
and takes nobody else's edit away; an answer within a budget is honest. All of
these are modelled and checked, with the exceptions named below.

## Modules

| Module | What it is |
|---|---|
| `DurableLog` | What the storage promises: consecutive seqs, a forgotten prefix, nothing that was counted lost. Three variables, four actions. |
| `VaultLog` | `log.rs`, one action per file system call that a crash or an I/O error can separate from the next. Implements `DurableLog` until one of two gaps takes a line. |
| `VaultLogProofs` | The inductive invariants of `VaultLog`, its safety theorems, and that it implements `DurableLog`. |
| `Fanout` | The relay's tasks over `DurableLog`'s state, and the devices' cursors. |
| `FanoutProofs`, `FanoutCoverage` | The inductive invariants of `Fanout` and its safety theorems: what is where on a connection; that no cursor and no snapshot passes an edit. |
| `Outbox`, `OutboxProofs` | One device's edits from its files to the relay's log, with the pass client or the live client; and the theorems. |
| `Merge`, `MergeProofs` | Several devices' files, documents and tombstones, with a crash between any two files they persist; and the theorems about what is received, what is owed to a file and what is typed. |
| `Room`, `RoomProofs` | A note several live clients have open, and who is there; and the theorems about what is typed there. |
| `Billing`, `BillingProofs` | Stripe, the webhook, the operator and the relay's cache; and the theorems. |
| `Notes` | The transactional writer and the tools that write through it, in two processes beside an editor. |
| `Tools` | Extends `Notes` with the tools that read, the memories and the plugin host. |
| `NotesProofs` | The inductive invariants of the writer, as `Tools` runs it, and its safety theorems. |
| `MC*` | The instances TLC checks. |

How they compose. `VaultLog` shows that files and crashes implement
`DurableLog`; `Fanout` uses `DurableLog`'s state (`base`, `top`, `entries`) as
the log, and shows that every entry reaches every device in order; `Outbox`
shows that what a device folds reaches the log; `Merge` and `Room` start from
both results and have a log that delivers each payload to each device in order.
`Tools` extends `Notes`: one next-state relation with the writer's steps, the
memories and the plugin.

A definition marked `mutant` is used by nothing: it is the slip the definition
after it could have, and a property notices it when it is put in that
definition's place.

### VaultLog and log.rs

| State | Code |
|---|---|
| `files`, `log`, `stub`, `tmp` | which of `log.jsonl`, `log.jsonl.tmp` exist, their parseable lines (sets: seqs never fall along the file), and what follows `log.jsonl`'s last newline: nothing, a whole line, or a text that is none |
| `snapJson`, `partDirs`, `stagingDirs` | `snapshot.json`, `snapshot.parts.<seq>/`, `snapshot.staging.*/` |
| `last_seq`, `snapshot`, `uploads` | `VaultLog`'s fields and the connections' `PartStaging`s |
| `pc`, `target`, `pending`, `before`, `healing` | where the holder of the mutex is, its locals, and the file as an append found it |
| `top`, `acked`, `lost`, `unswapped` | history: the highest seq counted, the lines whose append returned `Ok`, those the gaps took, a failed second rename |

| Actions | Code |
|---|---|
| `Append`, `WriteLine`, `EndLine`, `AppendSynced`, `AppendFails` | `append_within`: the quota, the seq and the opening of the file; its two writes; `sync_data` and the return; any of the three failing |
| `CompactWithin` | `compact_within`'s checks |
| `StageParts`, `AddPart`, `DropStaging`, `CommitParts`, `MoveParts` | `stage_parts_within`, `PartStaging::add`, its `Drop`, `commit_parts` |
| `PublishSnapshot`, `SweepParts` | `publish_snapshot`, `sweep_part_dirs` |
| `CreateTmp`, `SyncTmp`, `KeepPrev`, `SwapTail` | the four steps of `rewrite_tail` |
| `SwapFails`, `IoError` | the second rename, or an earlier call of a compaction, fails; the connection reports it and lives on |
| `Crash`, `OpenReplay`, `OpenRead` | the process dies; `open` |

An acked line is lost through one of two gaps of the code, which `lost` records
and the properties except by name:

- *A line on an unfinished one.* Neither `append_within` nor `open` looks at how
  `log.jsonl` ends. After a crash or a failed write between log.rs:495 and :497 it
  may end without a newline; the next line is written there, and the two are no
  line. (Finding 1.) When only the sync failed, the line is whole, and the next
  append gives its seq out again: nothing acked is lost by that.
- *A stranded tail.* When the second rename fails (log.rs:462) the tail is in
  `log.jsonl.tmp` only. It is served again after the next `open`, unless an append
  or a compaction has made a new `log.jsonl` (or truncated the tmp) before.

A crash is the process's: what was written and synced stays, and renames are
ordered. Of the append in progress it leaves everything, nothing, a part of the
line, or the line without its newline; what an earlier, failed append wrote is
taken to stay. Loss of power with directory entries not synced is not modelled. A
line and a unit of snapshot count 1 against the quota, and a text that parses as
no line counts nothing. `open`'s removal of staging directories is taken to
succeed; a call of `open` that fails leaves the vault closed, which is a crash.

### Fanout and main.rs, engine.rs

`pc[d]` is where the relay's task for device `d` is: reading the backlog, serving
a snapshot, live, between append and ack, between ack and broadcast. `rx` is its
receiver of a broadcast channel of capacity `Cap`; an overflow loses the oldest
entry and makes the next `recv` a resync, as tokio's channel does. `c2s` and
`s2c` are the connection, a FIFO each way. The device takes an update above its
cursor and moves there; a snapshot arrives in `Parts` parts, in `tracker` until
one whole set has been seen. `AfterFrame` is the catch-up test that runs after
every frame and may offer the device's documents as a snapshot.

A connection that dies takes with it what either side had not read. Its task may
still owe a broadcast (`late`).

Left out: a relay restart (for a client it is a disconnect; for the log,
`VaultLog`), clients without `compact2`, presence. Devices push after the
Welcome and have one unacked edit at a time; what goes wrong before the Welcome
is `Outbox`'s subject. Documents are the set of edits they contain.

### Outbox and engine.rs, outbox.rs, client.rs, live.rs

One device, both clients (`Live`). A scan is two actions, the fold into the
documents and the outbox write with the push. `OnWelcome`, `OnAck`, `OnCovers`,
`OnFull`, `OnCompacted`, `OnStale` are the handlers; `heal` is `QuotaHeal`. The
relay's task reads one frame at a time and refuses a push when the log has
`Quota` lines. Other devices push and compact (`OtherPushes`, `OtherCompacts`).
What the relay had not read of a dropped connection is lost with it. A
connection that dies for any reason (network, timeout, process crash between
scans) is a `Drop`, after which the client connects again (`off`) or is gone
(`stopped`). A fatal refusal is the second: `run_forever` (client.rs:293) and
`run_live` (live.rs:431) return the error and the command ends; `Restart` is the
user who starts it again. A crash inside a scan is in `Merge`.

### Merge and scan.rs, docs.rs, manifest.rs, engine.rs, apply.rs

A text is a set of atoms (lines). A document is the set of operations that
inserted atoms and the set of those since deleted; its state vector names the
insertions only, as yrs's does: a deletion has no clock. The
choice yrs makes between concurrent values of a map's key (`Beats`), the users and
their editors are external.

| State | Code |
|---|---|
| `file`, `docs`, `tombs`, `saved`, `outbox`, `queue`, `cursor` | what is on a device's disk: the vault, `docs/*.yrs`, `docs/manifest.yrs`, `state.json`, `outbox.jsonl`, `apply_queue.json`, `cursor.json` |
| `shadow`, `pc`, `todo`, `updates` | the sync thread's memory and where it is |
| `wanted`, `slips` | history: what users typed and nobody took out; the named gaps that have happened |

| Actions | Code |
|---|---|
| `Type`, `Erase`, `Delete`, `Undelete` | the user (or another program) writes a file at any moment |
| `Scan`, `FoldItem`, `FoldDeleted`, `SaveShadow`, `QueuePush` | `tick_scan_with_updates`: `scan`, then items, then deletions, then the shadow, then the outbox |
| `Receive`, `QueueDirty`, `MoveCursor` | `on_server_msg`: documents, `persist_pending_apply`, `persist_cursor` |
| `ApplyCheck`, `ApplyWrite`, `ApplyStat`, `ApplyClear` | `apply_dirty`: the local-edit guard, the write, the shadow's stat, `clear_pending_apply` |
| `Deliver`, `Crash` | the relay logs and acks; the process dies and starts with a scan |

An edit is lost only through one of six gaps, each of which sets a slip that
the properties name: `raced` (a user saves a file while a remote edit is in its
document and not yet in the file), `buried` (a note deleted and restored with
the same content folds to nothing and stays deleted), `orphaned` (a crash after
a fold and before the outbox write), `overwritten` (a save between an apply's
check and its write), `unseen` (a save between the write and the stat) and
`restored`. The last one: an apply passes over a file that was edited, or that
happens to be equal, and still takes its item off the queue (apply.rs:236); if
the file then gets back the bytes that the last scan saw, no scan sees an edit,
no fold meets the merged update, and the file keeps lagging behind its document
until somebody touches the note again. `engine.rs:176` relies on the fold there.
`merge_race` shows what the first one does. The sixth was found with four edits;
the theorem about `QueueCovers` says that there is no seventh for that property.

### Room and live.rs, coedit.rs, presence.rs, MirrorDoc

An operation inserts, or only deletes; it follows what its author had seen and
is integrated once that is there. `mirror` and `dirty` are `RoomCtx`; `up`,
`air` and `stray` are the ephemeral frames on the way to the relay, from it, and
left in the sockets of connections that ended. `FlushRoom` is
`flush_room_durable`; `Enter`, `Leave`, `Fold`, `Type`, `TypeOffline`,
`HearKeystroke` and the timers are `live.rs`'s commands and handlers; `Quit` and
`Crash` are the clean and the unclean end of a process. Presence is `SetState`,
`SendPresence` (changes, replies and heartbeats alike), `HearPresence`
(`PeerTracker::observe`) and `Sweep`. `said` is what the host last told the client,
`state` what the client has stored: `live.rs` keeps the new state in a local
(:869) while it drains a burst of commands and stores it after (:970), so a room
command whose frame cannot be sent drops it (`BurstFails`, history `dropped`) and
the peers go on seeing the state before. The gaps of the keystrokes: `undone` (a deletion flushed
with no insertion beside it has an empty diff), `early` (the timer fires while
an operation waits for one it follows), `adopted` (the mirror of a room takes
over what the document already held), `unmarked` (a keystroke whose frame cannot
be sent) and `died` (the author's process, before anybody saw the keystroke).

### Billing and entitlements.rs, main.rs, stripe.rs, hub.rs

`Load` is the webhook under the store's mutex: the event's action, the load of
the file, the guards of `apply_event`, and the early answers;
`Persist` is the rename and the 200, `Fail` a failed write or a crash before it,
`Redeliver` an answer that is lost. The operator edits the same file without the
mutex (`Comp`, `Break`, `Repair`). `Stat` and `Reload` are `quota_for`'s two
reads of the file, with the key that decides whether the cache is fresh. Two
slips: `forgotten` (a removal for an unknown vault is answered and not written)
and `overtaken` (the operator saves the file while a webhook holds its copy).
Every write of the file is taken to have its own (mtime, length), and the
operator comps only vaults that nobody pays for.

### Notes, Tools and tacitus-core, tacitus-plugins

A call waits for its process's writer mutex (`LockFor`), builds its operations
and diffs them against the disk (`Propose`), compares again (`Diff`), replaces
one file per step (`Write`), restores what it replaced when one fails
(`WriteFails`, `Restore`; a restore that fails too is ignored and the rollback goes
on, `RestoreFails`), then writes the version (`Version`) and the audit
line (`Audit`), either of which may fail (`LogFails`). `LockForCommit`,
`LockForRevert`, `Undo` and `AuditUndo` are the calls on a stored changeset.
The user's editor (`Edit`) takes no mutex; the process may die at any step.
`Tools` adds the dispatch with its scope and allowlist refusals, `remember`,
`forget`, `recall`, `graph_query`, `list_tasks`, and `LoadPlugin`, `RunPlugin`,
`EndPlugin`.

Taken as one step: one file operation, reading the files of a changeset, and
building an index. Not in the model: the tmp file two processes share for one
note, colliding version ids, the writer's live index (a writer without one),
wikilink aliases (a link names the note's id), and what distinguishes fuel,
deadline and pointer errors of a guest (one trap). `EditsKept` names what the
code leaves open: a changeset built from an older index than the disk, and a
file another process or the editor changes between a call's reading and its
writing. `AllOrNothing` excepts a note that could not be put back. `Undoable` leaves out the retry of a change some of whose texts were in
the files already: after a version or audit line that failed, or after a
rollback, when another process has read a half-written text and kept it.

## Runs

| Run | Instance | Shows |
|---|---|---|
| `vaultlog` | 2 blobs, 2 uploading connections, 3 seqs, chunked snapshots of 1 or 2 parts, quota 2; uploads and lines lost together at most 2 (`FewLost`) | 9,669,437 states. All properties of `VaultLog` outside the two gaps, and that it implements `DurableLog` until one takes a line. |
| `vaultlog_torn` | 1 blob, 3 seqs, 1 upload | `AckedUpdateSurvivesCrash` fails (finding 1). |
| `fanout` | two casts: a pusher with 2 edits, a reader that may be cut off once and a quiet device over a channel of one; two pushers, either of which may be cut off. Snapshots of 2 parts | No cursor passes a missing edit, what compaction forgets the snapshot holds, streams are in order without repeats, all devices converge. |
| `fanout_gap` | two pushers, one of which disconnects | `OfferHonest` fails (finding 2). |
| `outbox` | two casts: the pass client with 4 edits and 2 steps of others, the live client with 1 edit and 5 steps of others; quota 2, 2 disconnects | Nothing is lost, acks answer the oldest blob, everything is delivered unless the log stays full or a stopped client is not started again, the heal re-sends what was refused. |
| `outbox_lost` | live client, 2 edits, 1 disconnect | `PushRetriedUntilLogged` fails (finding 3). |
| `merge` | two devices, one note, 3 edits of any kind, 1 crash | 1.3 million states. Nothing typed is lost but through the six gaps; what is received is kept and on its way to the vault; the devices settle with the same files. |
| `merge_race` | the same, no crash | `BothSidesKept` fails (finding 4). |
| `billing` | two subscriptions of one vault, a second vault that is comped; 3 seconds, 3 events, 1 fault, 1 edit | 1.4 million states. What was answered is durable, the newest event decides, comps stay, the relay comes to enforce the file. |
| `billing_gap` | one subscription, 2 events | `NoResurrection` fails (finding 5). |
| `room` | two clients, four casts: keystrokes with and without the ephemeral tier (2 operations, 1 fault), presence (1 change and 1 fault, a failed burst among them, or 2 faults) | 968,000 states. Keystrokes are covered, mirrors exact, documents and peer lists converge. |
| `tools` | 3 notes, up to 4 calls, six casts: rewrites with a failing file; two processes and an editor; proposals with 2 failures, in a rollback too, and a crash; a change rolled back while another process reads it; a plugin with memories and budgets; read-only scopes | 304,000 states. No edit lost to another call, commits all or nothing and undoable, answers honest, every call answered. |

A cast is one scenario of a run: TLC explores the behaviours of each, from its
own initial state, in one run.

Why the bounds are enough to be worth checking. `vaultlog`: three lines give a
compaction with a tail behind it, a second one of another connection overtaking
it, and an append after each; two parts make a torn set, and two lines
fill the quota. A line can be torn, the next glued to it and a third appended
behind both. `FewLost` bounds the states after a line was lost: two uploads race
while none is, one goes on after the first, none after the second. `fanout`: a
channel of one overflows with two entries, two parts let a compaction fall between them, one disconnect lets a
device resume with a half-seen snapshot. `outbox`: a quota of two is reached
by the device's own pushes, four edits leave two blobs behind a refusal.
`merge`: three edits give an edit on either side of a deletion, or a deletion
and its undoing beside a concurrent edit; one crash falls between any two files;
items meet only in the order of one payload. `billing`: three events are an
activation, a removal and a late activation, or two subscriptions that overlap;
three seconds tell them all apart, and let two be equal. `room`: two operations
are an insertion and a deletion that follows it, or two authors; one fault is a
lost frame or an ended session at any point. `tools`: a rename touches every
note, and two failures let a retry fail where the first attempt did, or a
rollback fail in the middle.

Deadlock is checked for the storage, which never stops. Elsewhere edits, faults
and events are bounded and the system may come to rest with everything done, so
those runs say `CHECK_DEADLOCK FALSE`; that it does not rest earlier is what
`Converges`, `Delivered`, `Settles`, `RoomConverges`, `PeersSettle`, `Served`
and `Answered` say.

### Fairness

Weak fairness throughout, of what a loop of the code does for as long as it
runs; nobody has to edit, compact, disconnect, crash, type or start a program
again. Weak fairness suffices because each of these steps stays enabled until it
is taken or the session ends, and faults end sessions finitely often.

- `Fanout`: each device's connecting, its relay task, its client's frame
  handling, and retrying an unacked push: tokio polls a ready task, sockets
  deliver, `run_live` and `run_forever` reconnect after a network error, with a
  bounded backoff or at the next interval.
- `Outbox`: the same for a client that runs, the relay's reads, and the update
  stream. Not for `Restart`: both loops return any other error, a fatal refusal
  among them, and nothing in the code starts the command again; `Delivered`
  therefore excepts a client that stays stopped, `HealDelivers` is done when the
  session is over.
- `Merge`: each step of the client's loop, which ticks for as long as it runs.
- `Room`: timers fire, frames in a socket are read, a lost connection is retried.
- `Billing`: Stripe delivers an event until it gets a 200, a broken file is
  mended in the end, and devices keep pushing, so that the relay looks at the
  file again.
- `Tools`: a call that was taken in is carried on while it can be.

### Findings

1. **Torn append** (`vaultlog_torn`). A crash or a failure between `append_within`'s
   two writes leaves a line without its newline; the next append is glued to it.
   It is synced and acked, and neither line can be parsed again.
2. **Broadcasts out of order** (`fanout_gap`). The broadcast follows the append
   outside the mutex. With two pushers a device can get seq 2 without seq 1, and
   its cursor never goes back. If it then compacts, the missing edit is gone from
   the relay too.
3. **Double ack** (`outbox_lost`). A live client's blob that is sent before the
   Welcome is sent again after it, and acked twice. The second ack drops the next
   blob from the outbox; if the connection dies before the relay has read that
   one, no later scan produces it again.
4. **A save during an apply** (`merge_race`). A remote edit is in the document
   before it is in the file. A save in between folds as a replacement of the
   whole text: the remote edit is deleted for every device.
5. **A forgotten removal** (`billing_gap`). A removal for a vault the file does
   not know records its tombstone in memory and is answered without a write. An
   older activation delivered later makes the canceled vault Pro.

Finding 2 is the only thing that breaks the fan-out: `CursorCovers`,
`SnapshotCovers` and `Converges` are about the behaviours in which no entry is
broadcast while an earlier one still has to be (the history variable
`overtaken`). With one pusher whose connection lives no broadcast can be
overtaken, so there they hold without exception. With one pusher whose
connection dies between its ack and its broadcast, and who reconnects and pushes
again before that broadcast, it can. Finding 1 is one of the two gaps of the
storage, finding 4 the slip `raced`, finding 5 the slip `forgotten`: the passing
runs hold in every behaviour without them.

## Proofs

Everything here holds for every value of the constants that the named
assumptions allow, and every bound.

**VaultLogProofs** (`BoundsAssumption`: the bounds are naturals). `TypeCorrect`:
`Spec => []TypeOK`; `Durability`: `[]AckedDurable`; `Serving`: `[]AckedServed`;
`NeverTorn`: `[]SnapshotComplete`; `SnapshotForward`: `SnapshotAdvances`. All
follow from `Invariance`, that `IInv` is inductive. `Durability` and `Serving`
except the lines in `lost`, and nothing else: each crash and each failing call of
an append or a compaction is a step. `AckedDurable` is not inductive by itself:
it does not say that the tail being renamed into place is the whole tail, nor that
the snapshot it was cut at has been published, nor what a crash that takes back
the unsynced writes of an append returns to. `IInv` adds where the acked lines are
at each step (`CoverInv`: in `tmp` during the swap and while it is stranded, in
`log` or `stub` otherwise, the synced `tmp` being the tail above the target), how
far an append is in terms of the file it found, which still holds what was acked
(`AppendInv`), what a missing file implies (`FilesInv`, `MissingLogInv`), and how the
snapshot on disk, in memory and in the making relate (`SnapInv`). `open` takes the
maximum of the seqs on disk, which exists because they are bounded (`MaxInSet`, by
the well-foundedness of the naturals); `OpenReadsAll` says what it reads back,
`WhatIsLeft` and `CrashKeeps` what a torn append leaves. `StepInv` has one step per
action and one per conjunct of `IInv` under it.

The refinement, in the same module. `Refinement`:
`Spec => ImplementsDurableLog`, up to the first line a gap takes. The abstract log
is read off the disk: its base is the published snapshot's seq, its entries the
recoverable lines above it. `RInv` strengthens `IInv` with what the step
simulation needs while nothing is lost: the counter is the highest seq counted
(`CountedInv`), which the disk always still shows, with at most one seq beyond it
(`TopInv`, so that `open` finds it again). The writes of an append map to the
abstract write, its sync, or the `open` that finds an uncounted line, to the count,
the publication of a snapshot to the compaction, a crash that takes back what was
not synced to the vanishing, everything else to a stutter (`StepCounts`).
`NoOrphans`: `[]NoOrphanStaging`, from `StagingInv`, that staging directories are
those of the uploads whenever no operation is under way.

**FanoutProofs** (`FanoutAssumption`: the channel's capacity and `Parts` are
positive, the other bounds naturals, and pushers and droppers are online). `TypeCorrect`:
`Spec => []TypeOK`; `StreamsStayOrdered`: `Spec => []StreamOrdered`. The
inductive `Delivery` has one layer per question: what the variables hold
(`Types`), that the log's seqs are those of its history (`LogShape`), that
nothing on a connection is ahead of the log (`Bounds`), what a task that serves
a snapshot still has to send (`Served`), that a device's push, its task's append,
its broadcast and its ack are at most one of a kind (`Flight`), and that
the frames sent, what the task still has to send and what its receiver holds
above that go up (`Stream`). Steps of the broadcast channel, the backlog and the
handlers are lemmas over the sequences they change, used by every action that
makes them.

**FanoutCoverage**, under the same assumption. `CursorsCover`:
`[]CursorCovers`; `SnapshotsCover`: `[]SnapshotCovers`; both follow from
`CoverageAlways`, that `FInv == Delivery /\ Parted /\ (overtaken \/ Covered)` is
inductive. `CursorCovers` alone is not: the next frame moves the cursor to its
seq whatever came before it, an offer read late replaces the snapshot, and a
part completes a set whose others came on an earlier connection. `Covered` says
of every position a cursor or a snapshot will be put at, that whoever gets there
has what it passes (`Covers`): of the device, its offers on the wire
(`OffersAt`), each frame on the wire that will move the cursor (`FramesAt`), the
task's position after all it sent (`SentAt`), and of the receiver, that its
entries go up, that whatever is not in it, sent or held is pending, and that
pending broadcasts are above all it holds (`InOrderAt`, `ReceiverAt`). The last
is what an overtaken broadcast destroys, and the only use of `~overtaken`.
`Parted` says what parts of one snapshot, on the wire, in a tracker and still to
be served, hold together. A push that comes again is covered by `Retries`: edits
that the device will send once more and that no task has.

**OutboxProofs** (`OutboxAssumption`: the quota is positive, the other bounds
naturals). `TypeCorrect`: `[]TypeOK`; `Retried`: `[]NothingLost` for the pass
client with any number of edits and for the live client with one;
`AcksAnswerInOrder`: `[]AcksInOrder`. `NothingLost` is not inductive: an ack drops
the oldest blob, and nothing in it says that this is the blob the relay answered.
For the pass client `PassInv` says so, stage by stage: before the Welcome nothing
has been pushed (`Quiet`, `Greeting`); after it (`Answering`) what is on the way to
the relay is the end of the outbox, in order, the answers on the way back are as
many as the blobs before that, and the n-th of them, when it is an ack, is about
the n-th. `Answers` counts them; `AnswersOfTail` and `AppendFacts` say what taking
and sending a frame does to the count. A refusal ends the session, so no later
ack can be counted against it. For the live client none of this holds, which
is finding 3; with one edit every blob is that edit, and any ack says that it is
logged (`SingleInv`).

**BillingProofs** (`BillingAssumption`: the bounds are naturals, time starts, and
`None` is neither a time nor an entry). `BillingTypes`: `[]TypeOK`;
`AnsweredIsDurable`: `[]AnsweredApplied`; `LatestDecides`: `[]LatestWins`;
`CompsKept`: `CompKept`. The inductive `BInv` says of the file, and of the copy a
webhook holds, that each entry and each tombstone is the operator's or some
event's with that event's time (`Accounted`), and that the copy is the file with
the event applied unless the operator overtook it (`TaskInv`). The guard of a
vault only grows (`Reached` is preserved), so whatever was answered stays
applied; an event newer than all others must then be the one the vault's entry
or tombstone stems from, which decides `LatestWins`.

**MergeProofs** (`MergeAssumption`: devices are positive numbers, the manifest is no
item and `None` no device; and, as explicit hypotheses of the theorems, what stands
for something absent is not that thing: `NoneIsNoRecord`, no document, tombstone or
shadow entry; `NoneHoldsNothing`, no text with an atom in it). `ReceiptsKept`:
`[]ReceivedKept`; `LaggingFilesCovered`: `[]QueueCovers`; `EditsFolded`:
`[]LocalEditFolded`; `OnlyUsersDelete`: `[]FoldKeepsRemote`; `ExchangeKeepsAll`:
`[]NothingLostAtRest`; `TypeCorrect`: `[]TypeOK`. Documents only grow, so what a
device has merged stays; tombstones are replaced, and a replaced one must have been
beaten. That needs an order without ties: `TombInv`, that no two tombstones of an
item, on a disk or on the way, share rank and author, which holds because a device's
own is never behind any it has made. `ReceiptInv` bridges the crash points between
the documents, the queue and the cursor. `StepKeeps` says once what every step has
to show; each action is then a lemma.

`QueueCovers` speaks of a device at rest and of the shadow on its disk; a crash
puts it back there from anywhere. `FilesInv` therefore says, for each place of the
sync thread, and as long as nothing has slipped: outside a scan and an apply both
shadows have the same texts, and a file that is as they have it and is not what
its document says is queued or comes again (`Calm`); in a scan this is said of the
saved shadow until an update is folded, and of the new one but for the items still
to be folded (`Folding`); from an apply's check to its stat the plan's items are
queued and get what the document says, and of the others only what comes again may
lag (`Writing`); after that nothing else lags, so that the queue may be cleared
(`Passed`). `QueueFirst` is the order of `apply_queue.json` and `cursor.json`. Each action
has a lemma that says what it does to the files and shadows of a device
(`...Effect`) and one that it keeps `FilesInv`.

`LocalEditFolded` needs that an apply overwrites only what was folded. `ReadInv`:
the texts of both shadows are in the documents, but for a scan's delta that is
still to be folded, and so is the file an apply has just compared with its shadow.

`NothingLostAtRest` has two halves. That the files agree (`FilesConverge`) needs that
a document says no more than what was sent: `SaidInv` finds each operation,
deletion and tombstone of a device in the log, in its outbox or in its scan's
update, unless a crash orphaned it, so at rest all documents are equal (`RestSame`).
A file then is what its document says (`RestShows`), because a file that is not read
has its shadow's text (`StatInv`: the recorded stat fits) and none lags
(`FilesInv`). That nothing wanted is missing, and `FoldKeepsRemote`, come from
`WantInv`: an atom that is wanted is struck out in no document and buried by no
tombstone (`Clean`), and on each device, if the document has it, the file has it
too, or waits for an update or an apply that will bring it, and a scan's delta has it
(`Way`). The last is why a fold cannot take it for deleted. It is kept because a file
that users have edited is never behind its document while nothing raced
(`NotBehind`, `ClashesNoted`). A new atom is in no file, shadow, document or tombstone
(`FreshInv`), and `StepMakes` says of every step that only a fold makes, strikes out
or buries an operation, and which.

`TypeCorrect` also bounds the stamps of operations by the number of edits and says that
a document deletes only what it holds, which no single step decides. `LagInv` has the
first: a device's clock, and what it still owes, is at most the number of edits
(`ClockRow`). It owes a tick for a text that a scan has read and not yet folded
(`ToFold`), and for a file that a scan will find changed (`Unread`). A crash between
them has the scan read the same file again; its text is then in the document, so that
the fold changes nothing, or its tick was not spent (`SeenRow`). And a known operation
is in its author's document (`OpRow`), so one made at the next tick is new.
`OrderInv` has the second, as long as no crash has orphaned an update: the log
and each outbox are in causal order, so that what a payload deletes it makes itself, or
one before it does (`LogOrder`, `OutOrder`), and a document that merges a prefix
of the log holds what it deletes (`DelsIn`). `PlainInv` is the rest.

**RoomProofs** (`RoomAssumption`: the bounds are naturals, `None` is no peer).
`TypeCorrect`: `[]TypeOK`; `KeystrokesCovered`: `[]Covered`; `MirrorsExact`:
`[]MirrorExact`; all from `Invariance`, that `RInv == cast \in Casts /\ Log /\
Wire` is inductive. `Covered` is not inductive: that an operation is unflushed
in an open room does not say that its next flush takes it, because a diff
between equal state vectors is empty. `CoverInv` therefore asks for a room whose
document has all the operation follows (`Flushable`; its author's always has), and
`MarkedAt` that what an open room has beyond its mirror is marked, durable or a
gap's. `MetAt` says that a device's document, and its open room's mirror, hold
what it has queued, pushed or received; so the entries it skips as its own are
known to it. `Wire` says that frames carry operations that were made, and that
nobody hears their own presence. Most actions are one device's: `StepOf` and
`Keeps` state what such a step has to show, `LocalStep` that it suffices, and
`DiffFacts` what an empty and a non-empty diff leave out.

**NotesProofs** (`NotesAssumption`: the notes are finitely many numbers;
`MarksAssumption`, `TextsAssumption`: the values that stand for nothing are
nothing else, and a call's mark is no user's and no task; `CastsAssumption`,
`MemoryAssumption`: a scenario's files and memories are well formed and without
a call's mark, its requests are ones the tools' arguments can express). About
`Tools`, so of the writer beside the plugin, the memories and the tools that read.
`Typed`: `[]TypeOK`; `Whole`: `AllOrNothing`; `Kept`: `[]EditsKept`; `Undone`:
`[]Undoable`.

All use `Basic`: the types (`TypeInv`), what a call has in hand at each place it
can be (`StandInv`), and that the mutex is with the call at work (`LockInv`).
`Steps` says once of `Next` which writer actions there are.

- `AllOrNothing` speaks of the step that answers. `HoldsInv` says what the files
  hold on the way there, of the notes nobody else has touched: before the first
  write of a note its old text, then the text of the last write of it, and
  during a rollback, which takes the notes in the order they were written, the one
  or the other by how far it has got. That two entries of one note have the same old
  text is why it does not matter which of them the rollback writes. A note that could
  not be put back (`stuck`) is left out from then on.
- `EditsKept` needs that a changeset which only adds keeps the marks of every
  note it writes (`GentleInv`). That is so because it was made from the files
  as they are (`BaseInv`: what was read under the mutex is what the files hold,
  unless the note was touched). A rename removes a note, and all of its marks
  are by then in the first file it writes; its rollback ends with that one.
- `Undoable` is about a mark that is not there. While nothing of a proposal has
  been put in a file (`Unput`), its mark is in no file, no snapshot and no
  changeset but its own (`UnseenInv`). A proposal is `Unput` while it waits, while
  its change is pending with no attempt under way, or while the first attempt has
  not written. For this to end when the first file is written, one change must
  not be in the hands of two first tries: a process holds at most one pending
  change of a call (`PendInv`), and a call that holds one has it from its own
  process, still pending changes of that name are the same, and are marked as
  tried once the rollback begins (`FlyInv`); the mutex then leaves room for one.
  `UnputBack`: what was once put is not `Unput` again. `OldInv` carries what the
  first try saw to the version.

Only model-checked: `AnswersHonest` and `Answered` of `Tools`; `Settles` of `Merge`;
`Served` of `Billing`; `Converges` of `Fanout`; `Delivered` and `HealDelivers` of
`Outbox`; `RoomConverges` and `PeersSettle` of `Room`. Liveness under fairness
(`Converges`, `Delivered`, `HealDelivers`, `Settles`, `RoomConverges`,
`PeersSettle`, `Served`, `Answered`) is out of the prover's reach, as is what a fold
over a sequence computes for every input (`Packed`, and with it `AnswersHonest`:
induction over data).

## Not modelled

- Cryptography and the wire format: pure functions over bytes; a blob is opaque.
- Parsing, search, embeddings, ranking, suggestions, templates and property
  queries: text and floating point without state that lasts.
- The MCP wrappers and the command line, which parse arguments and call what is
  modelled; `run_compact`, a one-shot session of the same handlers.
- The TypeScript packages: an earlier form of the engine and a host SDK.
- The vault's token file (`log.rs:534`) and a resync that cannot read the log
  (`main.rs:587`): listed as hazards without a property.
- Authentication, malformed frames, idle pings, old clients, backoff durations,
  awareness cursors, the reactions to full disks of a client. So the writes of
  `Merge` cannot fail, only crash: `ApplyWrite` does not return early between
  `remember_applied` (apply.rs:139) and the stat (apply.rs:150-201).
- Loss of power with directory entries not synced: a crash is the process's.

## Plan

Done: the storage with its refinement, fan-out, delivery, merge, rooms and
presence, billing, the note writer and the tools. What is left, in this order:

1. Failing writes of a client: `apply_dirty`'s early returns, and a full disk.
2. Merge's documents over several items of one payload, and the composition of
   `Merge` with `Room` on one file.
