------------------------------- MODULE Tools -------------------------------
(***************************************************************************)
(* The tool registry of tacitus-core (tools/mod.rs) around the writer of   *)
(* module Notes: the tools that read (the wikilink graph, tasks, memories, *)
(* each within the caller's budget), the memory store, and the plugin host *)
(* (tacitus-plugins), whose sandboxed guest calls the same tools under the *)
(* allowlist of its manifest.                                              *)
(*                                                                         *)
(* A memory's content is a record: what it says, how well it answers the   *)
(* query (its lexical score) and its size in tokens.  Fuel, the wall-clock *)
(* deadline and bad pointers are one event, a trap of the guest's code.    *)
(***************************************************************************)
EXTENDS Notes

VARIABLES
    memory,   \* the memory files: the memories that are stored
    guest,    \* the plugin instance
    answers   \* the answers of the reading tools, with what they were made from

vars == <<notes, memory, guest, answers>>

-----------------------------------------------------------------------------
ReadTools == {"graph_query", "list_tasks", "recall"}
MemoryTools == {"remember", "forget"}
WriteTools == {"create", "update", "delete", "setraw", "link", "tag", "toggle",
               "rename", "commit", "revert"} \cup MemoryTools
Known == (WriteTools \ {"setraw"}) \cup ReadTools \cup {"propose"}

Kinds == {"user", "feedback", "project", "reference"}
Hooks == {"note_saved"}

\* A cast begins with memories of these kinds.
ASSUME MemoryAssumption == \A k \in Casts : \A m \in k.memory : m.kind \in Kinds

\* PluginManifest::validate and wasm_path.
ValidManifest(m) ==
    /\ m.tools \subseteq Known
    /\ m.scope = "ro" => m.tools \cap WriteTools = {}
    /\ m.hooks \subseteq Hooks
    /\ m.inside

-----------------------------------------------------------------------------
(* Reading.                                                                *)

\* mutant: the first item that does not fit ends the answer.
PackedUntilFull(items, budget) ==
    LET fits(acc, item) ==
          IF acc.full \/ acc.used + item.size > budget THEN [acc EXCEPT !.full = TRUE]
          ELSE [acc EXCEPT !.used = @ + item.size, !.items = Append(@, item)]
    IN FoldLeft(fits, [used |-> 0, items |-> <<>>, full |-> FALSE], items).items

\* The loop at the end of every bounded answer: an item that does not fit
\* the budget is skipped, smaller ones after it are still tried.
Packed(items, budget) ==
    LET fits(acc, item) ==
          IF acc.used + item.size > budget THEN acc
          ELSE [used |-> acc.used + item.size, items |-> Append(acc.items, item)]
    IN FoldLeft(fits, [used |-> 0, items |-> <<>>], items).items

Capped(items, limit) == SubSeq(items, 1, IF limit < Len(items) THEN limit ELSE Len(items))

\* neighbors: both directions, breadth first, `from` itself left out.
Adjacent(n) ==
    {m \in Notes \ {n} : /\ vault[m] # None
                         /\ m \in vault[n].body.links \/ n \in vault[m].body.links}

Neighbors(from, depth) ==
    LET seen[k \in 0..depth] ==
          IF k = 0 THEN {from}
          ELSE seen[k - 1] \cup UNION {Adjacent(n) : n \in seen[k - 1]}
    IN seen[depth] \ {from}

GraphQuery(r) ==
    CASE r.relation = "links" -> {n \in vault[r.note].body.links \ {r.note} : vault[n] # None}
      [] r.relation = "backlinks" -> Backlinks(vault, r.note)
      [] r.relation = "neighbors" -> Neighbors(r.note, IF r.depth = 0 THEN 1 ELSE r.depth)

\* list_tasks: sorted by due date (0 is none and goes last), note and line;
\* the limit cuts first, the budget then packs what is left.
AllTasks(r) ==
    UNION {{[note |-> n, line |-> t.line, due |-> t.due, size |-> t.size, done |-> DoneIn(n, t)]
              : t \in vault[n].body.marks \cap Tasks}
            : n \in {x \in Notes : vault[x] # None}}
Asked(r) == {t \in AllTasks(r) : t.done = r.done}
DueFirst(x, y) ==
    \/ (x.due # 0 /\ (y.due = 0 \/ x.due < y.due))
    \/ x.due = y.due /\ (x.note < y.note \/ (x.note = y.note /\ x.line < y.line))
ListTasks(r) == Packed(Capped(SetToSortSeq(Asked(r), DueFirst), r.limit), r.budget)

\* recall: relevant memories by score, as many as fit.
Item(m) == [mem |-> m, score |-> m.content.score, size |-> m.content.size]
Relevant(r) == {m \in memory : /\ r.kind \in {"any", m.kind}
                               /\ m.content.score > 0}
BestFirst(x, y) ==
    x.score > y.score \/ (x.score = y.score /\ x.mem.content.says < y.mem.content.says)
Recall(r) == Packed(SetToSortSeq({Item(m) : m \in Relevant(r)}, BestFirst), r.budget)

\* detect_conflicts: the same key with different contents.
Conflicts(mems) ==
    {k \in {m.key : m \in mems} \ {None} :
       Cardinality({m.content : m \in {x \in mems : x.key = k}}) > 1}

-----------------------------------------------------------------------------
(* Dispatch.                                                               *)

Plugin(c) == c \in cast.plugin.calls
InFlight == {c \in Calls : call[c].pc \notin Final \cup {"idle"}}

\* The guest waits in tacitus.call until its call is answered.
MayIssue(c) == Plugin(c) => guest = "running" /\ ~\E d \in InFlight : Plugin(d)

Denied(c, r) ==
    \/ Plugin(c) /\ r.tool \notin cast.plugin.manifest.tools
    \/ Plugin(c) /\ r.tool \notin Known

Refuse(c, r) ==
    /\ call[c].pc = "idle"
    /\ call' = [call EXCEPT ![c] = [Idle EXCEPT !.pc = "failed", !.req = r]]
    /\ UNCHANGED <<cast, vault, history, audit, pending, lock, faults, crashes, edits, lost>>

\* A tool that does not write a note answers in one step.
Done(c, r, answer) ==
    /\ call[c].pc = "idle"
    /\ call' = [call EXCEPT ![c] = [Idle EXCEPT !.pc = answer, !.req = r]]
    /\ UNCHANGED <<cast, vault, history, audit, pending, lock, faults, crashes, edits, lost>>

Wanted(r) == r.sourced /\ r.kind \in Kinds /\ r.content.size > 0
MemoryOf(r) == [kind |-> r.kind, key |-> r.key, content |-> r.content]

\* remember: the file's name is the hash of what is remembered, so the same
\* memory again overwrites itself; without provenance nothing is stored.
Remember(c, r) ==
    /\ r.tool = "remember"
    /\ Done(c, r, IF Wanted(r) THEN "ok" ELSE "failed")
    /\ memory' = IF Wanted(r) THEN memory \cup {MemoryOf(r)} ELSE memory
    /\ UNCHANGED <<guest, answers>>

Forget(c, r) ==
    /\ r.tool = "forget"
    /\ Done(c, r, "ok")
    /\ memory' = memory \ {MemoryOf(r)}
    /\ UNCHANGED <<guest, answers>>

Reply(c, r) ==
    CASE r.tool = "recall" -> [from |-> Relevant(r), items |-> Recall(r),
                               conflicts |-> Conflicts(Relevant(r))]
      [] r.tool = "list_tasks" -> [from |-> Asked(r), items |-> ListTasks(r)]
      [] r.tool = "graph_query" -> [from |-> [n \in Notes |->
                                        IF vault[n] = None THEN {} ELSE Adjacent(n)],
                                    items |-> GraphQuery(r)]

Read(c, r) ==
    /\ r.tool \in ReadTools
    /\ IF r.tool = "graph_query" /\ vault[r.note] = None
         THEN Done(c, r, "failed") /\ UNCHANGED answers
         ELSE /\ Done(c, r, "ok")
              /\ answers' = [answers EXCEPT ![c] = Reply(c, r)]
    /\ UNCHANGED <<memory, guest>>

\* dispatch and run_tool; a call the server takes goes the same way without
\* an allowlist.
Dispatch(c) ==
    /\ MayIssue(c)
    /\ \E r \in cast.wants[c] :
         IF Denied(c, r) THEN Refuse(c, r) /\ UNCHANGED <<memory, guest, answers>>
         ELSE \/ Remember(c, r) \/ Forget(c, r) \/ Read(c, r)
              \/ /\ r.tool \notin MemoryTools \cup ReadTools
                 /\ Begin(c, r)
                 /\ UNCHANGED <<memory, guest, answers>>

-----------------------------------------------------------------------------
(* The plugin host.                                                        *)

LoadPlugin ==
    /\ guest = "absent" /\ cast.plugin.calls # {}
    /\ guest' = IF ValidManifest(cast.plugin.manifest) THEN "ready" ELSE "refused"
    /\ UNCHANGED <<notes, memory, answers>>

RunPlugin ==
    /\ guest = "ready"
    /\ guest' = "running"
    /\ UNCHANGED <<notes, memory, answers>>

\* The guest returns its envelope, or traps in its own code: out of fuel, out
\* of memory, past its deadline, or on a pointer that is none.  What its
\* calls have written stays.
EndPlugin ==
    /\ guest = "running"
    /\ ~\E c \in InFlight : Plugin(c)
    /\ guest' = "ready"
    /\ UNCHANGED <<notes, memory, answers>>

\* The process that hosts the guest dies, and the guest with it.
Die(p) ==
    /\ Crash(p)
    /\ guest' = IF p = cast.plugin.host THEN "absent" ELSE guest
    /\ UNCHANGED <<memory, answers>>

-----------------------------------------------------------------------------
Init ==
    /\ NotesInit
    /\ memory = cast.memory
    /\ guest = "absent"
    /\ answers = [c \in Calls |-> None]

\* One step of a tool call that has been taken in.
Work(c) == (Commits(c) \/ Reverts(c)) /\ UNCHANGED <<memory, guest, answers>>
UserEdit(u) == Edit(u) /\ UNCHANGED <<memory, guest, answers>>

Next ==
    \/ \E c \in Calls : Dispatch(c) \/ Work(c)
    \/ \E u \in Users : UserEdit(u)
    \/ \E p \in Procs : Die(p)
    \/ LoadPlugin \/ RunPlugin \/ EndPlugin

\* Every call that was taken in is carried on while it can be: its thread is
\* scheduled, and the calls are finitely many, so a mutex is free in the end.
Fairness == \A c \in Calls : WF_vars(Work(c))

Spec == Init /\ [][Next]_vars /\ Fairness

-----------------------------------------------------------------------------
\* Type invariant.
TypeOK ==
    /\ NotesOK
    /\ \A m \in memory : m.kind \in Kinds
    /\ guest \in {"absent", "refused", "ready", "running"}

\* An answer tells the truth about what was asked: the tokens of its items
\* stay within the budget and nothing that was left out would still have fit;
\* a recall names every contradiction among the relevant memories, those the
\* budget cut off too; the graph's answer is what a chain of links of the
\* asked length reaches. (recall.rs:37-57, tasks.rs:131-153, graph.rs:52-76)
SizeOf(items) == FoldLeft(LAMBDA total, item : total + item.size, 0, items)

Chain(links, from, to, depth) ==
    \E k \in 1..depth : \E path \in [0..k -> Notes] :
       /\ path[0] = from /\ path[k] = to
       /\ \A i \in 1..k : path[i] \in links[path[i - 1]]

Honest(c) ==
    LET r == call[c].req  a == answers[c] IN
    CASE r.tool = "recall" ->
           /\ SizeOf(a.items) <= r.budget
           /\ \A m \in a.from : (\A i \in DOMAIN a.items : a.items[i].mem # m)
                                  => SizeOf(a.items) + m.content.size > r.budget
           /\ \A m, x \in a.from : m.key # None /\ m.key = x.key /\ m.content # x.content
                                     => m.key \in a.conflicts
      [] r.tool = "list_tasks" ->
           /\ SizeOf(a.items) <= r.budget
           /\ Len(a.items) <= r.limit
           /\ \A i, j \in DOMAIN a.items :
                i < j /\ a.items[j].due # 0 => a.items[i].due # 0 /\ a.items[i].due <= a.items[j].due
      [] r.tool = "graph_query" ->
           r.relation = "neighbors" =>
             a.items = {n \in Notes \ {r.note} : Chain(a.from, r.note, n, r.depth)}

AnswersHonest == \A c \in Calls : answers[c] # None => Honest(c)

\* A call that was taken in is answered, or its process has died: no failure
\* leaves the writer mutex behind and every other call waiting for it.
\* (tools/mod.rs:541-587, write.rs:378-434)
Answered == \A c \in Calls : (call[c].pc = "waiting") ~> (call[c].pc \in Final)
=============================================================================
