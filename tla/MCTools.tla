------------------------------ MODULE MCTools ------------------------------
EXTENDS Tools

CONSTANTS c1, c2, c3, c4, u

T1 == [line |-> 1, due |-> 0, size |-> 2]
T2 == [line |-> 2, due |-> 3, size |-> 3]
MCTasks == {T1, T2}

Says(s, score, size) == [says |-> s, score |-> score, size |-> size]
Mem(key, content) == [kind |-> "project", key |-> key, content |-> content]
Plain(marks, links) == [body |-> [marks |-> marks, links |-> links], tags |-> {}]

Nobody == [calls |-> {}, host |-> "mcp", manifest |->
             [tools |-> {}, scope |-> "ro", hooks |-> {}, inside |-> FALSE]]

\* One server, no memories, no plugin, two linked notes, nothing fails.
Quiet == [writer |-> [c \in {c1, c2, c3, c4} |-> "mcp"], scope |-> [p \in {"mcp", "app"} |-> "rw"],
          vault |-> (1 :> Plain({T1, T2}, {2}) @@ 2 :> Plain({}, {1}) @@ 3 :> None),
          wants |-> [c \in {c1, c2, c3, c4} |-> {}], memory |-> {}, users |-> {},
          faults |-> 0, crashes |-> 0, plugin |-> Nobody]

Tool(t, n) == [tool |-> t, note |-> n]
LinkTo(n, m) == [tool |-> "link", note |-> n, to |-> m]
Rename(n, m) == [tool |-> "rename", note |-> n, to |-> m]
Toggle(n, t) == [tool |-> "toggle", note |-> n, task |-> t]
ProposeOps(s) == [tool |-> "propose", ops |-> s, note |-> 1]
OpOn(o, n) == [op |-> o, note |-> n]

\* Calls of one server with a rename that touches every note; one file
\* operation fails.
Rewrites == [Quiet EXCEPT !.faults = 1,
    !.wants = (c1 :> {Rename(1, 3)} @@ c2 :> {LinkTo(2, 1), LinkTo(1, 1), Tool("tag", 1)}
               @@ c3 :> {Toggle(1, T1), Tool("delete", 2), Tool("create", 3)}
               @@ c4 :> {Rename(2, 3), LinkTo(1, 2)})]

\* Two processes and the user's editor over the same files.
Shared == [Quiet EXCEPT !.users = {u},
    !.writer = (c1 :> "mcp" @@ c2 :> "app" @@ c3 :> "app" @@ c4 :> "app"),
    !.wants = (c1 :> {Rename(1, 3), LinkTo(1, 1)} @@ c2 :> {Tool("setraw", 1), Tool("tag", 1)}
               @@ c3 :> {Toggle(1, T2)} @@ c4 :> {})]

\* Proposals committed, retried and reverted while file operations fail.
Changes == [Quiet EXCEPT !.faults = 2, !.crashes = 1,
    !.wants = (c1 :> {ProposeOps(<<OpOn("update", 1), OpOn("create", 3), OpOn("delete", 2)>>)}
               @@ c2 :> {Tool("commit", 1)}
               @@ c3 :> {Tool("commit", 1), Tool("revert", 1), Tool("update", 1)}
               @@ c4 :> {Tool("revert", 1)})]

\* A change whose first try is rolled back while another process reads the
\* files and writes what it has read.
Copied == [Quiet EXCEPT !.faults = 1,
    !.writer = (c1 :> "mcp" @@ c2 :> "mcp" @@ c3 :> "mcp" @@ c4 :> "app"),
    !.wants = (c1 :> {ProposeOps(<<OpOn("update", 1), OpOn("create", 3)>>)}
               @@ c2 :> {Tool("commit", 1)} @@ c3 :> {Tool("commit", 1)}
               @@ c4 :> {LinkTo(1, 2), Rename(1, 3)})]

\* A plugin and the server: memories, queries, a tool outside the allowlist.
Hosted(tools, scope) ==
    [calls |-> {c1, c2}, host |-> "app", manifest |->
       [tools |-> tools, scope |-> scope, hooks |-> {"note_saved"}, inside |-> TRUE]]
A == Says(1, 3, 3)
B == Says(2, 2, 2)
C == Says(3, 1, 1)
RecallAll(b) == [tool |-> "recall", kind |-> "any", budget |-> b]
RememberIt(content) == [tool |-> "remember", kind |-> "project", key |-> None,
                        content |-> content, sourced |-> TRUE]
ForgetIt(content) == [tool |-> "forget", kind |-> "project", key |-> c1, content |-> content]
TasksIn(d, l, b) == [tool |-> "list_tasks", done |-> d, limit |-> l, budget |-> b]
GraphFrom(n, rel, d) == [tool |-> "graph_query", note |-> n, relation |-> rel, depth |-> d]

Plugins == [Quiet EXCEPT !.plugin = Hosted({"remember", "recall", "toggle", "list_tasks"}, "rw"),
    !.memory = {Mem(c1, A), Mem(c1, B), Mem(None, C)},
    !.writer = (c1 :> "app" @@ c2 :> "app" @@ c3 :> "mcp" @@ c4 :> "mcp"),
    !.wants = (c1 :> {[RememberIt(Says(4, 2, 1)) EXCEPT !.sourced = FALSE],
                      RememberIt(Says(4, 2, 1)), Toggle(1, T1), Tool("delete", 1)}
               @@ c2 :> {TasksIn(FALSE, 1, 4), TasksIn(FALSE, 2, 4), TasksIn(TRUE, 2, 4)}
                        \cup {RecallAll(b) : b \in 0..6}
               @@ c3 :> {ForgetIt(A), Toggle(1, T2), Tool("delete", 2)} @@ c4 :> {})]

\* A server that may only read, a manifest that asks for too much, and a
\* graph of three notes.
Reading == [Quiet EXCEPT !.scope = [p \in {"mcp", "app"} |-> "ro"],
    !.plugin = Hosted({"create"}, "ro"),
    !.writer = (c1 :> "app" @@ c2 :> "mcp" @@ c3 :> "mcp" @@ c4 :> "mcp"),
    !.wants = (c1 :> {Tool("create", 3)} @@ c2 :> {Tool("create", 3), Tool("revert", 1)}
               @@ c3 :> {GraphFrom(n, "neighbors", d) : n \in 1..3, d \in 1..2}
                        \cup {GraphFrom(1, "links", 1), GraphFrom(1, "backlinks", 1)} @@ c4 :> {})]

MCCasts == {Rewrites, Shared, Changes, Copied, Plugins, Reading}
=============================================================================
