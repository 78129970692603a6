------------------------------- MODULE Notes -------------------------------
(***************************************************************************)
(* The transactional writer of the vault's notes (tacitus-core,            *)
(* vault/write.rs) and the tools that write through it (tools/mod.rs,      *)
(* vault/rename.rs, vault/tasks.rs).  A tool call takes its process's      *)
(* writer mutex, proposes a changeset, compares it with the disk again,    *)
(* writes its notes one file at a time, then a version snapshot, then a    *)
(* line of the audit log.  Two processes (the MCP server, the desktop with *)
(* its sync loop) have a writer each over the same files, and the user's   *)
(* editor has none at all.                                                 *)
(*                                                                         *)
(* A note's text is what its writers put there: the body holds one mark    *)
(* for each edit (a call, a user's edit, a task line) and the wikilinks,   *)
(* the front matter holds one mark for each tag.  One file operation is    *)
(* one step; reading the files of one changeset is one step.               *)
(***************************************************************************)
EXTENDS Naturals, Sequences, FiniteSets, SequencesExt

CONSTANTS
    Casts,    \* the scenarios: who calls what, over which vault
    Calls,    \* tool calls
    Users,    \* edits made by the user outside of any writer
    Notes,    \* note ids, ordered as their names are
    Tasks,    \* checklist lines: records [line, due, size]
    None,     \* no file, or no call
    Keep      \* an update's part that is not given

ASSUME NotesAssumption == Notes \subseteq Nat /\ IsFiniteSet(Notes)

\* The two marks that stand for nothing are nothing else, and a call's edit can
\* be told from the user's and from the tasks.
ASSUME MarksAssumption ==
    /\ None \notin Calls /\ None \notin Notes /\ Keep # None
    /\ Calls \cap (Users \cup Tasks) = {}

VARIABLES
    cast,     \* the scenario of this behaviour
    vault,    \* the note files
    history,  \* the version snapshots, in the order of the commits
    audit,    \* the audit log
    pending,  \* per process: the proposed changesets
    lock,     \* per process: the call that holds the writer mutex
    call,     \* the calls: where each stands and what it has read
    faults,   \* file operations that failed so far
    crashes,  \* processes that died so far
    edits,    \* the user's edits so far
    lost      \* history: marks a call removed that it had no reason to

notes == <<cast, vault, history, audit, pending, lock, call, faults, crashes, edits, lost>>

-----------------------------------------------------------------------------
Marks == Calls \cup Users \cup Tasks
Body == [marks : SUBSET Marks, links : SUBSET Notes]
Text == [body : Body, tags : SUBSET Marks]
Procs == DOMAIN cast.scope
Proc(c) == cast.writer[c]

\* Every mark that is in some file.
MarksOf(files) ==
    UNION {IF files[n] = None THEN {} ELSE files[n].body.marks \cup files[n].tags
             : n \in Notes}

\* A changeset's operations: frontmatter and content are given, or kept.
Create(n, text) == [op |-> "create", note |-> n, body |-> text.body, tags |-> text.tags]
UpdateBody(n, body) == [op |-> "update", note |-> n, body |-> body, tags |-> Keep]
UpdateTags(n, tags) == [op |-> "update", note |-> n, body |-> Keep, tags |-> tags]
Delete(n) == [op |-> "delete", note |-> n, body |-> Keep, tags |-> Keep]
SetRaw(n, text) == [op |-> "raw", note |-> n, body |-> text.body, tags |-> text.tags]

\* What an agent writes when it makes up a whole text.
Fresh(c) == [body |-> [marks |-> {c}, links |-> {}], tags |-> {}]
Marked(body, c) == [body EXCEPT !.marks = @ \cup {c}]

\* mutant: a creation does not look whether the note is there.
RefusedLoosely(op) == op.op \in {"update", "delete"} /\ vault[op.note] = None

\* build_diff refuses to create what is there and to touch what is not.
Refused(op) ==
    \/ op.op = "create" /\ vault[op.note] # None
    \/ op.op \in {"update", "delete"} /\ vault[op.note] = None

Or(new, old) == IF new = Keep THEN old ELSE new
After(op, disk) ==
    CASE op.op = "delete" -> None
      [] op.op = "update" -> [body |-> Or(op.body, disk.body), tags |-> Or(op.tags, disk.tags)]
      [] OTHER -> [body |-> op.body, tags |-> op.tags]

BuildDiff(ops) ==
    [i \in DOMAIN ops |-> [note   |-> ops[i].note,
                           before |-> vault[ops[i].note],
                           after  |-> After(ops[i], vault[ops[i].note])]]

NotesOf(ops) == {ops[i].note : i \in DOMAIN ops}

\* The scenarios a cast may describe: typed notes in which no call has left its
\* mark yet, a writer for each call, and requests with the arguments of their
\* tools.
VaultTools == {"create", "update", "delete", "setraw", "propose", "commit", "revert",
               "link", "tag", "toggle", "rename"}
OtherTools == {"remember", "forget", "recall", "list_tasks", "graph_query"}

IsRequest(r) ==
    /\ r.tool \in VaultTools \cup OtherTools
    /\ r.tool \in VaultTools => r.note \in Notes
    /\ r.tool \in {"link", "rename"} => r.to \in Notes
    /\ r.tool = "toggle" => r.task \in Tasks
    /\ r.tool = "propose" =>
         r.ops \in Seq([op : {"create", "update", "delete"}, note : Notes])

ASSUME CastsAssumption ==
    \A k \in Casts :
      /\ k.vault \in [Notes -> Text \cup {None}]
      /\ MarksOf(k.vault) \cap Calls = {}
      /\ None \notin DOMAIN k.scope
      /\ k.writer \in [Calls -> DOMAIN k.scope]
      /\ k.users \subseteq Users /\ k.faults \in Nat /\ k.crashes \in Nat
      /\ \A c \in Calls : \A r \in k.wants[c] : IsRequest(r)

\* A file that is there is no missing file, nor are all the files one; a part
\* that is given is not kept.
ASSUME TextsAssumption ==
    /\ None \notin Text /\ None \notin [Notes -> Text \cup {None}]
    /\ Keep \notin Body
    /\ \A tags \in SUBSET Marks : tags # Keep

-----------------------------------------------------------------------------
(* What each tool asks of the writer.  Ops is given the files the tool has *)
(* read: the index it built (rename, toggle) or the note itself (link,     *)
(* tag); the other tools write what their arguments say.                   *)

FromIndex == {"rename", "toggle"}
FromNote == {"link", "tag"}

Retargeted(body, from, to) ==
    IF from \in body.links THEN [body EXCEPT !.links = (@ \ {from}) \cup {to}] ELSE body

\* The notes other than `from` that link to it, in some order.
Backlinks(files, from) ==
    {n \in Notes \ {from} : files[n] # None /\ from \in files[n].body.links}

RenameOps(files, from, to) ==
    LET moved == [files[from] EXCEPT !.body = Retargeted(@, from, to)]
        linking == SetToSeq(Backlinks(files, from))
        retarget(n) == UpdateBody(n, Retargeted(files[n].body, from, to))
    IN <<Create(to, moved)>>
         \o [i \in DOMAIN linking |-> retarget(linking[i])]
         \o <<Delete(from)>>

Ops(c, r, files) ==
    CASE r.tool = "create" -> <<Create(r.note, Fresh(c))>>
      [] r.tool = "update" -> <<UpdateBody(r.note, Fresh(c).body)>>
      [] r.tool = "delete" -> <<Delete(r.note)>>
      [] r.tool = "setraw" -> <<SetRaw(r.note, Fresh(c))>>
      [] r.tool = "propose" ->
           [i \in DOMAIN r.ops |->
              CASE r.ops[i].op = "create" -> Create(r.ops[i].note, Fresh(c))
                [] r.ops[i].op = "update" -> UpdateBody(r.ops[i].note, Fresh(c).body)
                [] OTHER -> Delete(r.ops[i].note)]
      [] r.tool = "link" ->
           LET body == files[r.note].body
           IN <<UpdateBody(r.note, IF r.to \in body.links THEN body
                                   ELSE [Marked(body, c) EXCEPT !.links = @ \cup {r.to}])>>
      [] r.tool = "tag" -> <<UpdateTags(r.note, files[r.note].tags \cup {c})>>
      [] r.tool = "toggle" -> <<UpdateBody(r.note, Marked(files[r.note].body, c))>>
      [] r.tool = "rename" -> RenameOps(files, r.note, r.to)

\* rename_note_ops, toggled_content and current_note refuse what they cannot
\* find: the note, its task line, a free name.
Unfit(r, files) ==
    \/ files[r.note] = None
    \/ r.tool = "rename" /\ (files[r.to] # None \/ r.to = r.note)
    \/ r.tool = "toggle" /\ r.task \notin files[r.note].body.marks

\* A task is done when it was toggled an odd number of times: toggled_content
\* flips the box it finds and looks at the text only.
Toggles(t) == {c \in Calls : call[c].req # None /\ call[c].req.tool = "toggle"
                               /\ call[c].req.task = t}
DoneIn(n, t) == Cardinality(vault[n].body.marks \cap Toggles(t)) % 2 = 1

-----------------------------------------------------------------------------
Idle == [pc |-> "idle", req |-> None, ops |-> <<>>, base |-> None, diff |-> <<>>,
         at |-> 1, by |-> None, put |-> FALSE, ver |-> 0, left |-> {}, touched |-> {},
         stuck |-> {}, stale |-> FALSE]

Final == {"ok", "failed", "dead"}
Locked == {"propose", "diff", "write", "restore", "version", "audit", "undo", "undone"}

NotesInit ==
    /\ cast \in Casts
    /\ vault = cast.vault
    /\ history = <<>>
    /\ audit = <<>>
    /\ pending = [p \in Procs |-> {}]
    /\ lock = [p \in Procs |-> None]
    /\ call = [c \in Calls |-> Idle]
    /\ faults = 0
    /\ crashes = 0
    /\ edits = {}
    /\ lost = {}

\* A call's end: its answer, the request its marks are known by, and (history)
\* the notes that its rollback could not put back.
Ended(c, answer) == [Idle EXCEPT !.pc = answer, !.req = call[c].req, !.stuck = call[c].stuck]
Answer(c, answer) == call' = [call EXCEPT ![c] = Ended(c, answer)]

\* mutant: an error leaves with the mutex still held.
ReleaseIfOk(c) ==
    IF call'[c].pc = "ok" THEN lock' = [lock EXCEPT ![Proc(c)] = None] ELSE UNCHANGED lock

Release(c) == lock' = [lock EXCEPT ![Proc(c)] = None]

\* A file write of n by process p (or the user's editor): calls of other
\* processes that have read n have it changed under them.
Touch(calls, p, n) ==
    [d \in Calls |->
       IF calls[d].pc \in Locked /\ Proc(d) # p
         THEN [calls[d] EXCEPT !.touched = @ \cup {n}] ELSE calls[d]]

-----------------------------------------------------------------------------
(* The steps of one call.                                                  *)

\* The call arrives: rename_note and toggle_task read the whole vault and
\* make their changeset before they ask for the writer.
Begin(c, r) ==
    /\ call[c].pc = "idle"
    /\ call' = [call EXCEPT ![c] =
         IF r.tool \notin FromIndex THEN [Idle EXCEPT !.pc = "waiting", !.req = r]
         ELSE IF Unfit(r, vault) THEN [Idle EXCEPT !.pc = "failed", !.req = r]
         ELSE [Idle EXCEPT !.pc = "waiting", !.req = r, !.ops = Ops(c, r, vault),
                           !.base = vault]]
    /\ UNCHANGED <<cast, vault, history, audit, pending, lock, faults, crashes, edits, lost>>

\* The writer mutex is taken: link and tag read their note under it.
LockFor(c) ==
    LET r == call[c].req IN
    /\ call[c].pc = "waiting"
    /\ lock[Proc(c)] = None
    /\ r.tool \notin {"commit", "revert"}
    /\ IF r.tool \in FromNote /\ Unfit(r, vault)
         THEN Answer(c, "failed") /\ UNCHANGED lock
         ELSE /\ lock' = [lock EXCEPT ![Proc(c)] = c]
              /\ call' = [call EXCEPT
                   ![c].pc = "propose",
                   ![c].ops = IF r.tool \in FromIndex THEN @ ELSE Ops(c, r, vault),
                   ![c].base = IF r.tool \in FromNote THEN vault ELSE @]
    /\ UNCHANGED <<cast, vault, history, audit, pending, faults, crashes, edits, lost>>

\* propose: the changeset is compared with the disk and kept under the hash
\* of its content; propose_changes ends here.
Propose(c) ==
    LET p == Proc(c)
        change == [ops |-> call[c].ops, by |-> c, put |-> FALSE]
    IN
    /\ call[c].pc = "propose"
    /\ IF \E i \in DOMAIN call[c].ops : Refused(call[c].ops[i])
         THEN Answer(c, "failed") /\ Release(c) /\ UNCHANGED pending
         ELSE /\ pending' = [pending EXCEPT ![p] = @ \cup {change}]
              /\ IF call[c].req.tool = "propose"
                   THEN Answer(c, "ok") /\ Release(c)
                   ELSE /\ call' = [call EXCEPT ![c].pc = "diff", ![c].by = c]
                        /\ UNCHANGED lock
    /\ UNCHANGED <<cast, vault, history, audit, faults, crashes, edits, lost>>

\* commit_changes: an agent commits a change it was given the id of.
LockForCommit(c) ==
    LET p == Proc(c) IN
    /\ call[c].pc = "waiting"
    /\ lock[p] = None
    /\ call[c].req.tool = "commit"
    /\ \/ /\ pending[p] = {}
          /\ Answer(c, "failed")
          /\ UNCHANGED lock
       \/ \E change \in pending[p] :
            /\ lock' = [lock EXCEPT ![p] = c]
            /\ call' = [call EXCEPT ![c].pc = "diff", ![c].ops = change.ops,
                                    ![c].by = change.by, ![c].put = change.put]
    /\ UNCHANGED <<cast, vault, history, audit, pending, faults, crashes, edits, lost>>

\* What the changeset was made from is no longer what it replaces: the index
\* is older than the mutex; a note read under it changes from outside only.
Stale(c, op) ==
    LET base == call[c].base IN
    /\ call[c].req.tool \in FromIndex \/ op.note \in call[c].touched
    /\ base # None
    /\ op.op \in {"update", "delete"}
    /\ \/ op.op = "delete" /\ vault[op.note] # base[op.note]
       \/ op.body # Keep /\ vault[op.note].body # base[op.note].body
       \/ op.tags # Keep /\ vault[op.note].tags # base[op.note].tags

\* commit: refused in a read-only scope, and compared with the disk again.
Diff(c) ==
    LET ops == call[c].ops IN
    /\ call[c].pc = "diff"
    /\ IF cast.scope[Proc(c)] = "ro" \/ \E i \in DOMAIN ops : Refused(ops[i])
         THEN Answer(c, "failed") /\ Release(c)
         ELSE /\ call' = [call EXCEPT
                   ![c].pc = IF ops = <<>> THEN "version" ELSE "write",
                   ![c].diff = BuildDiff(ops), ![c].at = 1,
                   ![c].touched = {},
                   ![c].stale = \E i \in DOMAIN ops : Stale(c, ops[i])]
              /\ UNCHANGED lock
    /\ UNCHANGED <<cast, vault, history, audit, pending, faults, crashes, edits, lost>>

\* Tools that are asked to replace or remove a text.
Replaces(c) == call[c].req.tool \in {"update", "delete", "setraw", "commit", "revert"}

\* apply_state: one file takes its new text (or goes) in one rename.  What
\* disappears without anybody having asked for it, or having had the file
\* changed under them, is lost.
Put(c, n, text) ==
    LET gone == (MarksOf(vault) \ MarksOf([vault EXCEPT ![n] = text])) \ {c} IN
    /\ vault' = [vault EXCEPT ![n] = text]
    /\ lost' = IF Replaces(c) \/ call[c].stale \/ call[c].touched # {}
                 THEN lost ELSE lost \cup gone

Write(c) ==
    LET entry == call[c].diff[call[c].at]
        last  == call[c].at = Len(call[c].diff)
    IN
    /\ call[c].pc = "write"
    /\ Put(c, entry.note, entry.after)
    /\ call' = [Touch(call, Proc(c), entry.note) EXCEPT
                  ![c].pc = IF last THEN "version" ELSE @,
                  ![c].at = IF last THEN @ ELSE @ + 1]
    /\ UNCHANGED <<cast, history, audit, pending, lock, faults, crashes, edits>>

MayFail == faults < cast.faults
Fail == MayFail /\ faults' = faults + 1

\* mutant: the error is returned at once.
GiveUp(c) ==
    /\ Fail
    /\ call[c].pc = "write"
    /\ Answer(c, "failed") /\ Release(c)
    /\ UNCHANGED <<cast, vault, history, audit, pending, crashes, edits, lost>>

\* The pending changes with the content of this one.
Committed(c) == {change \in pending[Proc(c)] : change.ops = call[c].ops}

\* A change that stays pending after some of its texts were in the files
\* (history: put only tells which versions belong to a second try).
StillPending(c) ==
    pending' = [pending EXCEPT ![Proc(c)] =
      (@ \ Committed(c)) \cup {[change EXCEPT !.put = TRUE] : change \in Committed(c)}]

\* The files written before the one that failed are put back, first to last.
WriteFails(c) ==
    /\ Fail
    /\ call[c].pc = "write"
    /\ IF call[c].at = 1
         THEN Answer(c, "failed") /\ Release(c) /\ UNCHANGED pending
         ELSE /\ call' = [call EXCEPT ![c].pc = "restore", ![c].ver = 1, ![c].stuck = {}]
              /\ StillPending(c)
              /\ UNCHANGED lock
    /\ UNCHANGED <<cast, vault, history, audit, crashes, edits, lost>>

Restore(c) ==
    LET i == call[c].ver
        entry == call[c].diff[i]
        last == i = call[c].at - 1
        touched == Touch(call, Proc(c), entry.note)
    IN
    /\ call[c].pc = "restore"
    /\ Put(c, entry.note, entry.before)
    /\ IF last
         THEN call' = [touched EXCEPT ![c] = Ended(c, "failed")] /\ Release(c)
         ELSE call' = [touched EXCEPT ![c].ver = i + 1] /\ UNCHANGED lock
    /\ UNCHANGED <<cast, history, audit, pending, faults, crashes, edits>>

\* Nobody looks whether a file could be put back: the rollback goes on.
RestoreFails(c) ==
    LET i == call[c].ver
        stuck == call[c].stuck \cup {call[c].diff[i].note}
    IN
    /\ Fail
    /\ call[c].pc = "restore"
    /\ IF i = call[c].at - 1
         THEN /\ call' = [call EXCEPT ![c] = [Ended(c, "failed") EXCEPT !.stuck = stuck]]
              /\ Release(c)
         ELSE /\ call' = [call EXCEPT ![c].ver = i + 1, ![c].stuck = stuck]
              /\ UNCHANGED lock
    /\ UNCHANGED <<cast, vault, history, audit, pending, crashes, edits, lost>>

NotesIn(diff) == {diff[i].note : i \in DOMAIN diff}
LastFor(diff, n) == CHOOSE i \in DOMAIN diff :
                      diff[i].note = n /\ \A j \in DOMAIN diff : diff[j].note = n => j <= i
\* mutant: the snapshot is read back from the files.
BeforeReadBack(diff) == [n \in NotesIn(diff) |-> vault[n]]

Before(diff) == [n \in NotesIn(diff) |-> diff[LastFor(diff, n)].before]
AfterAll(diff) == [n \in NotesIn(diff) |-> diff[LastFor(diff, n)].after]

\* write_snapshot: the version that can be reverted to.
Version(c) ==
    /\ call[c].pc = "version"
    /\ history' = Append(history, [before |-> Before(call[c].diff),
                                   after  |-> AfterAll(call[c].diff),
                                   by |-> call[c].by, again |-> call[c].put])
    /\ call' = [call EXCEPT ![c].pc = "audit", ![c].ver = Len(history')]
    /\ UNCHANGED <<cast, vault, audit, pending, lock, faults, crashes, edits, lost>>

\* append_audit, and the change is no longer pending.
Audit(c) ==
    /\ call[c].pc = "audit"
    /\ audit' = Append(audit, [action |-> "commit", ver |-> call[c].ver])
    /\ pending' = [pending EXCEPT ![Proc(c)] = @ \ Committed(c)]
    /\ Answer(c, "ok")
    /\ Release(c)
    /\ UNCHANGED <<cast, vault, history, faults, crashes, edits, lost>>

\* The snapshot or the audit line cannot be written: the error is returned,
\* the notes stay as they were written and the change stays pending.
LogFails(c) ==
    /\ Fail
    /\ call[c].pc \in {"version", "audit"}
    /\ StillPending(c)
    /\ Answer(c, "failed")
    /\ Release(c)
    /\ UNCHANGED <<cast, vault, history, audit, crashes, edits, lost>>

\* revert: the prior texts of a version are put back one by one, in the
\* order of the notes' names, whatever the files hold now.
LockForRevert(c) ==
    /\ call[c].pc = "waiting"
    /\ lock[Proc(c)] = None
    /\ call[c].req.tool = "revert"
    /\ \/ /\ history = <<>> \/ cast.scope[Proc(c)] = "ro"
          /\ Answer(c, "failed")
          /\ UNCHANGED lock
       \/ \E v \in DOMAIN history :
            LET noted == DOMAIN history[v].before IN
            /\ cast.scope[Proc(c)] = "rw"
            /\ lock' = [lock EXCEPT ![Proc(c)] = c]
            /\ call' = [call EXCEPT ![c].pc = IF noted = {} THEN "undone" ELSE "undo",
                                    ![c].ver = v, ![c].left = noted]
    /\ UNCHANGED <<cast, vault, history, audit, pending, faults, crashes, edits, lost>>

Undo(c) ==
    /\ call[c].pc = "undo"
    /\ \E n \in call[c].left :
         /\ \A m \in call[c].left : n <= m
         /\ Put(c, n, history[call[c].ver].before[n])
         /\ call' = [Touch(call, Proc(c), n) EXCEPT
                       ![c].pc = IF call[c].left = {n} THEN "undone" ELSE @,
                       ![c].left = @ \ {n}]
    /\ UNCHANGED <<cast, history, audit, pending, lock, faults, crashes, edits>>

AuditUndo(c) ==
    /\ call[c].pc = "undone"
    /\ audit' = Append(audit, [action |-> "revert", ver |-> call[c].ver])
    /\ Answer(c, "ok")
    /\ Release(c)
    /\ UNCHANGED <<cast, vault, history, pending, faults, crashes, edits, lost>>

\* A revert that fails half-way stops there.
UndoFails(c) ==
    /\ Fail
    /\ call[c].pc \in {"undo", "undone"}
    /\ Answer(c, "failed")
    /\ Release(c)
    /\ UNCHANGED <<cast, vault, history, audit, pending, crashes, edits, lost>>

-----------------------------------------------------------------------------
(* Around the calls.                                                       *)

\* A process dies: its calls, its mutex and its pending changes go with it.
\* Nothing at a start looks for a changeset that was half written.
Crash(p) ==
    /\ crashes < cast.crashes
    /\ crashes' = crashes + 1
    /\ call' = [c \in Calls |-> IF Proc(c) = p /\ call[c].pc \notin Final \cup {"idle"}
                                  THEN Ended(c, "dead") ELSE call[c]]
    /\ pending' = [pending EXCEPT ![p] = {}]
    /\ lock' = [lock EXCEPT ![p] = None]
    /\ UNCHANGED <<cast, vault, history, audit, faults, edits, lost>>

\* The user saves an edit of a note in an editor.
Edit(u) ==
    /\ u \in cast.users \ edits
    /\ edits' = edits \cup {u}
    /\ \E n \in Notes :
         /\ vault[n] # None
         /\ vault' = [vault EXCEPT ![n].body = Marked(@, u)]
         /\ call' = Touch(call, None, n)
    /\ UNCHANGED <<cast, history, audit, pending, lock, faults, crashes, lost>>

Commits(c) ==
    \/ LockFor(c) \/ Propose(c) \/ LockForCommit(c) \/ Diff(c)
    \/ Write(c) \/ WriteFails(c) \/ Restore(c) \/ RestoreFails(c)
    \/ Version(c) \/ Audit(c) \/ LogFails(c)

Reverts(c) == LockForRevert(c) \/ Undo(c) \/ AuditUndo(c) \/ UndoFails(c)

-----------------------------------------------------------------------------
(* Type invariant.                                                         *)
NotesOK ==
    /\ vault \in [Notes -> Text \cup {None}]
    /\ \A v \in DOMAIN history : \A n \in DOMAIN history[v].before :
         /\ history[v].before[n] \in Text \cup {None}
         /\ history[v].after[n] \in Text \cup {None}
    /\ \A i \in DOMAIN audit :
         audit[i].action \in {"commit", "revert"} /\ audit[i].ver \in DOMAIN history
    /\ \A p \in Procs : \A change \in pending[p] :
         change.by \in Calls /\ NotesOf(change.ops) \subseteq Notes
    /\ \A c \in Calls :
         /\ call[c].pc \in Final \cup Locked \cup {"idle", "waiting"}
         /\ call[c].touched \subseteq Notes /\ call[c].stuck \subseteq Notes
         /\ call[c].pc \in Locked <=> lock[Proc(c)] = c
    /\ faults \in 0..cast.faults
    /\ crashes \in 0..cast.crashes
    /\ edits \subseteq cast.users
    /\ lost \subseteq Marks

\* No edit is lost to somebody else's call: whatever interleaving of calls,
\* failures, crashes and edits, a link, a tag, a toggle, a creation or a
\* rename removes no mark of another edit, and a rollback none but its own,
\* unless the file was changed by another process between its reading and its
\* writing, or the call's changeset came from an older index.
\* (write.rs:398-409, rename.rs:72-112, tools/mod.rs:705-734)
EditsKept == lost = {}

\* The writes of a commit that has ended in an answer are all there or none
\* is: in the files that no other process has written since, a failure leaves
\* what the commit found, also when several files were already replaced; only
\* the version and the audit line may be missing from a whole one.  The
\* exception is a file that a second failure kept the rollback from putting
\* back: the error is dropped and the file stays as the commit wrote it, with
\* all others back.  (write.rs:4-6, 398-409)
AllOrNothing ==
    [][\A c \in Calls :
         LET mine == NotesIn(call[c].diff) \ (call[c].touched \cup call'[c].stuck) IN
         call[c].pc \in {"write", "restore", "version", "audit"} /\ call'[c].pc \in {"ok", "failed"}
           => \/ \A n \in mine : vault'[n] = AfterAll(call[c].diff)[n]
              \/ \A n \in mine : vault'[n] = Before(call[c].diff)[n]]_notes

\* What the audit log names can be undone: its version is on disk and holds a
\* text from before the change, for every change that was not retried after a
\* try that had put some of its texts into the files: another process may have
\* read them there, and keep them. (write.rs:398-431)
Undoable ==
    \A i \in DOMAIN audit : audit[i].action = "commit" =>
      LET version == history[audit[i].ver] IN
      ~version.again => version.by \notin MarksOf([n \in Notes |->
         IF n \in DOMAIN version.before THEN version.before[n] ELSE None])
=============================================================================
