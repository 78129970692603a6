---------------------------- MODULE NotesProofs ----------------------------
(***************************************************************************)
(* What the note writer and the tools around it guarantee, for any notes,  *)
(* calls, users, tasks and casts, proved with TLAPS: a process's mutex is  *)
(* held by the call that is at work and by nobody else; a commit's writes  *)
(* are all there or none is; no call removes an edit it had no reason to;  *)
(* and a version holds a text from before the change it names.             *)
(***************************************************************************)
EXTENDS Tools, TLAPS, FiniteSetTheorems

-----------------------------------------------------------------------------
(* Types.                                                                  *)

Texts == Text \cup {None}

\* A creation and a raw write give the whole text.
Operation ==
    {o \in [op : {"create", "update", "delete", "raw"}, note : Notes,
            body : Body \cup {Keep}, tags : (SUBSET Marks) \cup {Keep}] :
       o.op \in {"create", "raw"} => o.body # Keep /\ o.tags # Keep}

Change == [ops : Seq(Operation), by : Calls, put : BOOLEAN]
Entry == [note : Notes, before : Texts, after : Texts]
Files == UNION {[D -> Texts] : D \in SUBSET Notes}
Snapshot ==
    {s \in [before : Files, after : Files, by : Calls, again : BOOLEAN] :
       DOMAIN s.after = DOMAIN s.before}
AuditLine == [action : {"commit", "revert"}, ver : Nat]
Request == UNION {UNION {k.wants[c] : c \in Calls} : k \in Casts}

Committing == {"diff", "write", "restore", "version", "audit"}
Undoing == {"undo", "undone"}
NotYet == {"idle", "waiting", "propose"}

PCs == Final \cup Locked \cup {"idle", "waiting"}
CallRec ==
    [pc : PCs, req : Request \cup {None},
     ops : Seq(Operation), base : [Notes -> Texts] \cup {None}, diff : Seq(Entry),
     at : Nat \ {0}, by : Calls \cup {None}, put : BOOLEAN, ver : Nat,
     left : SUBSET Notes, touched : SUBSET Notes, stuck : SUBSET Notes, stale : BOOLEAN]

TypeInv ==
    /\ cast \in Casts
    /\ vault \in [Notes -> Texts]
    /\ history \in Seq(Snapshot)
    /\ audit \in Seq(AuditLine)
    /\ pending \in [Procs -> SUBSET Change]
    /\ lock \in [Procs -> Calls \cup {None}]
    /\ call \in [Calls -> CallRec]
    /\ faults \in 0..cast.faults
    /\ crashes \in 0..cast.crashes
    /\ edits \subseteq cast.users
    /\ lost \subseteq Marks

-----------------------------------------------------------------------------
(* Where a call stands.                                                    *)

\* What the changeset was made from.
Grounded(c, r) ==
    IF r.req.tool \in FromIndex \cup FromNote
      THEN r.base \in [Notes -> Texts] /\ ~Unfit(r.req, r.base) /\ r.ops = Ops(c, r.req, r.base)
      ELSE r.base = None

\* What the fields of a call hold at each of its steps.
Stands(c, r) ==
    /\ r.pc \in Locked \cup {"waiting"} => r.req \in Request /\ r.req.tool \in VaultTools
    /\ r.pc \in NotYet => r.put = FALSE /\ r.by = None
    /\ r.pc \in {"idle", "waiting"} /\ (r.pc = "idle" \/ r.req.tool \notin FromIndex) =>
         r.base = None /\ r.ops = <<>>
    /\ r.pc = "waiting" /\ r.req.tool \in FromIndex => Grounded(c, r)
    /\ r.pc = "propose" => r.req.tool \notin {"commit", "revert"}
    /\ r.pc \in {"propose", "diff"} => Grounded(c, r)
    /\ r.pc \in {"propose", "diff"} /\ r.req.tool \notin {"commit", "revert"} \cup FromIndex \cup FromNote =>
         r.ops = Ops(c, r.req, r.base)
    /\ r.pc \in Committing => r.by \in Calls /\ r.req.tool \notin {"propose", "revert"}
    /\ r.pc \in Committing /\ r.req.tool # "commit" => r.by = c
    /\ r.pc \in Undoing => r.req.tool = "revert"
    /\ r.pc = "write" => r.at \in 1..Len(r.diff)
    /\ r.pc = "restore" =>
         /\ r.at \in 2..Len(r.diff) /\ r.ver \in 1..(r.at - 1)
         /\ \A n \in r.stuck : \E j \in 1..(r.ver - 1) : r.diff[j].note = n

\* The versions that a call refers to are there.
Logged(r, versions) ==
    /\ r.pc \in {"audit", "undo", "undone"} => r.ver \in DOMAIN versions
    /\ r.pc = "undo" => r.left \subseteq DOMAIN versions[r.ver].before

StandInv ==
    /\ \A c \in Calls : Stands(c, call[c]) /\ Logged(call[c], history)
    /\ \A i \in DOMAIN audit : audit[i].ver \in DOMAIN history

\* The mutex of a process is with the call that is at work in it.
LockInv == \A c \in Calls : call[c].pc \in Locked <=> lock[Proc(c)] = c

-----------------------------------------------------------------------------
(* What the files hold while a changeset is written.                       *)

Untaken(r, i, k) == \A j \in 1..k : r.diff[j].note # r.diff[i].note

\* Of the notes nobody else has touched: before the first write of a note its
\* old text, then the text of the last write, and once rolled back the old one,
\* but where the rollback could not write it.
Holds(r, files) ==
    /\ r.pc \in {"write", "restore", "version", "audit"} =>
         \A i, j \in DOMAIN r.diff :
           r.diff[i].note = r.diff[j].note => r.diff[i].before = r.diff[j].before
    /\ r.pc = "write" => \A i \in DOMAIN r.diff : r.diff[i].note \notin r.touched =>
         /\ Untaken(r, i, r.at - 1) => files[r.diff[i].note] = r.diff[i].before
         /\ i < r.at /\ (\A j \in (i + 1)..(r.at - 1) : r.diff[j].note # r.diff[i].note)
              => files[r.diff[i].note] = r.diff[i].after
    /\ r.pc = "restore" => \A i \in DOMAIN r.diff : r.diff[i].note \notin r.touched \cup r.stuck =>
         /\ Untaken(r, i, r.at - 1) \/ ~Untaken(r, i, r.ver - 1)
              => files[r.diff[i].note] = r.diff[i].before
         /\ i < r.at /\ i >= r.ver /\ (\A j \in DOMAIN r.diff : j # i => r.diff[j].note # r.diff[i].note)
              => files[r.diff[i].note] = r.diff[i].after
    /\ r.pc \in {"version", "audit"} => \A n \in NotesIn(r.diff) \ r.touched :
         files[n] = AfterAll(r.diff)[n]

HoldsInv == \A c \in Calls : Holds(call[c], vault)

\* A note read under the mutex is what it was, unless it was touched.
BaseInv ==
    \A c \in Calls : call[c].pc \in {"propose", "diff"} /\ call[c].req.tool \in FromNote =>
      \A n \in Notes \ call[c].touched : call[c].base[n] = vault[n]

-----------------------------------------------------------------------------
(* A changeset that removes no mark.                                       *)

MarksIn(text) == IF text = None THEN {} ELSE text.body.marks \cup text.tags

\* Each note keeps its marks and gains the call's own, but for a rename: the
\* last note's marks are in the first one by then.
Gentle(c, diff) ==
    LET L == Len(diff) IN
    /\ \A i, j \in 1..L : diff[i].note = diff[j].note => i = j
    /\ \A i \in 1..L :
         \/ MarksIn(diff[i].before) \subseteq MarksIn(diff[i].after)
         \/ i = L /\ i # 1 /\ MarksIn(diff[i].before) \subseteq MarksIn(diff[1].after)
    /\ \A i \in 1..L :
         \/ MarksIn(diff[i].after) \subseteq MarksIn(diff[i].before) \cup {c}
         \/ i = 1 /\ i # L /\ MarksIn(diff[i].after) \subseteq MarksIn(diff[L].before)

Rewriting(r) == r.req.tool \in {"update", "delete", "setraw", "commit", "revert"}

GentleInv ==
    \A c \in Calls :
      LET r == call[c] IN
      r.pc \in {"write", "restore"} /\ ~Rewriting(r) /\ ~r.stale => Gentle(c, r.diff)

-----------------------------------------------------------------------------
(* A change whose texts have not been in the files.                        *)

OpMarks(o) == (IF o.body = Keep THEN {} ELSE o.body.marks)
              \cup (IF o.tags = Keep THEN {} ELSE o.tags)

\* Before its first file is written, and after.
Early(r) == r.pc = "diff" \/ (r.pc = "write" /\ r.at = 1)
Late(r) == r.pc \in {"restore", "version", "audit"} \/ (r.pc = "write" /\ r.at # 1)

\* Nothing of what b proposes is in a file yet.
Unput(b) ==
    \/ call[b].pc \in NotYet
    \/ /\ \E change \in pending[Proc(b)] : change.by = b /\ change.put = FALSE
       /\ \A d \in Calls : Late(call[d]) => call[d].by # b
    \/ \E d \in Calls : Early(call[d]) /\ call[d].by = b /\ call[d].put = FALSE

\* Only b's own changeset holds its mark then.
UnseenIn(b, d, r) ==
    /\ r.base # None => \A n \in Notes : b \notin MarksIn(r.base[n])
    /\ \A i \in DOMAIN r.ops : b \in OpMarks(r.ops[i]) =>
         r.by = b \/ (d = b /\ r.pc \in {"waiting", "propose"})
    /\ \A i \in DOMAIN r.diff :
         /\ b \notin MarksIn(r.diff[i].before)
         /\ b \in MarksIn(r.diff[i].after) => r.by = b

\* Nothing of it is in a file, in a snapshot, or in what another call or change
\* would write.
Unseen(b) ==
    /\ \A n \in Notes : b \notin MarksIn(vault[n])
    /\ \A v \in DOMAIN history : \A n \in DOMAIN history[v].before :
         b \notin MarksIn(history[v].before[n])
    /\ \A d \in Calls : UnseenIn(b, d, call[d])
    /\ \A p \in Procs : \A change \in pending[p] : \A i \in DOMAIN change.ops :
         b \in OpMarks(change.ops[i]) => change.by = b

UnseenInv == \A b \in Calls : Unput(b) => Unseen(b)

\* A process holds one change of each call it has taken one from.
PendInv ==
    \A p \in Procs : \A change \in pending[p] :
      /\ Proc(change.by) = p
      /\ call[change.by].pc \notin NotYet
      /\ \A other \in pending[p] : other.by = change.by => other = change

\* What a call has in hand is one of its process's changes, which once rolled
\* back is marked as tried.
FlyInv ==
    \A d \in Calls : call[d].pc \in Committing =>
      /\ Proc(call[d].by) = Proc(d)
      /\ call[call[d].by].pc \notin NotYet
      /\ \A change \in pending[Proc(d)] : change.by = call[d].by =>
           /\ change.ops = call[d].ops
           /\ call[d].pc = "restore" => change.put

\* A first try's changeset is compared with files that had nothing of it.
OldInv ==
    /\ \A d \in Calls :
         call[d].pc \in {"write", "restore", "version"} /\ call[d].put = FALSE =>
           \A i \in DOMAIN call[d].diff : call[d].by \notin MarksIn(call[d].diff[i].before)
    /\ \A v \in DOMAIN history : history[v].again = FALSE =>
         \A n \in DOMAIN history[v].before : history[v].by \notin MarksIn(history[v].before[n])

-----------------------------------------------------------------------------
(* What the operators of the writer return.                                *)

LEMMA CastTypes ==
    ASSUME NEW k \in Casts
    PROVE  /\ k.vault \in [Notes -> Texts]
           /\ MarksOf(k.vault) \cap Calls = {}
           /\ None \notin DOMAIN k.scope
           /\ k.writer \in [Calls -> DOMAIN k.scope]
           /\ k.users \subseteq Users /\ k.faults \in Nat /\ k.crashes \in Nat
           /\ \A c \in Calls : \A r \in k.wants[c] : IsRequest(r)
BY CastsAssumption DEF Texts

LEMMA Requests == ASSUME NEW r \in Request PROVE IsRequest(r)
BY CastTypes DEF Request

LEMMA WantedIsRequest == ASSUME NEW k \in Casts, NEW c \in Calls, NEW r \in k.wants[c] PROVE r \in Request
BY DEF Request

LEMMA FreshTyped ==
    ASSUME NEW c \in Calls
    PROVE  /\ Fresh(c) \in Text
           /\ Fresh(c).body \in Body /\ Fresh(c).body.marks = {c}
           /\ Fresh(c).tags = {} /\ Fresh(c).tags \in SUBSET Marks
BY DEF Fresh, Text, Body, Marks

LEMMA CreateTyped ==
    ASSUME NEW n \in Notes, NEW t \in Text
    PROVE  Create(n, t) \in Operation
BY TextsAssumption DEF Create, Operation, Text

LEMMA SetRawTyped ==
    ASSUME NEW n \in Notes, NEW t \in Text
    PROVE  SetRaw(n, t) \in Operation
BY TextsAssumption DEF SetRaw, Operation, Text

LEMMA UpdateBodyTyped ==
    ASSUME NEW n \in Notes, NEW b \in Body
    PROVE  UpdateBody(n, b) \in Operation
BY DEF UpdateBody, Operation

LEMMA UpdateTagsTyped ==
    ASSUME NEW n \in Notes, NEW t \in SUBSET Marks
    PROVE  UpdateTags(n, t) \in Operation
BY DEF UpdateTags, Operation

LEMMA DeleteTyped ==
    ASSUME NEW n \in Notes
    PROVE  Delete(n) \in Operation
BY DEF Delete, Operation

LEMMA MarkedTyped ==
    ASSUME NEW b \in Body, NEW c \in Marks
    PROVE  /\ Marked(b, c) \in Body
           /\ Marked(b, c).marks = b.marks \cup {c}
BY DEF Marked, Body

LEMMA RetargetedTyped ==
    ASSUME NEW b \in Body, NEW m \in Notes, NEW n \in Notes
    PROVE  /\ Retargeted(b, m, n) \in Body
           /\ Retargeted(b, m, n).marks = b.marks
BY DEF Retargeted, Body

LEMMA ElementOfSeq ==
    ASSUME NEW S, NEW s \in Seq(S), NEW i \in DOMAIN s
    PROVE  s[i] \in S /\ i \in 1..Len(s) /\ Len(s) \in Nat
OBVIOUS

LEMMA CallsAreMarks == Calls \subseteq Marks /\ Users \subseteq Marks /\ Tasks \subseteq Marks
BY DEF Marks

\* The notes that link to one, each once.
LEMMA Listing ==
    ASSUME NEW S, S \subseteq Notes
    PROVE  /\ SetToSeq(S) \in Seq(S)
           /\ \A i, j \in DOMAIN SetToSeq(S) : SetToSeq(S)[i] = SetToSeq(S)[j] => i = j
<1>1. IsFiniteSet(S)
  BY NotesAssumption, FS_Subset
<1>2. ExistsBijection(1..Cardinality(S), S)
  BY <1>1, FS_CardinalityType
<1>3. \E f \in [1..Cardinality(S) -> S] : IsInjective(f)
  BY <1>2 DEF ExistsBijection, Bijection, Injection
<1>4. SetToSeq(S) \in [1..Cardinality(S) -> S] /\ IsInjective(SetToSeq(S))
  BY <1>3 DEF SetToSeq
<1>5. Cardinality(S) \in Nat
  BY <1>1, FS_CardinalityType
<1> QED
  BY <1>4, <1>5 DEF IsInjective

LEMMA TextParts ==
    ASSUME NEW t \in Texts, t # None
    PROVE  t \in Text /\ t.body \in Body /\ t.tags \in SUBSET Marks /\ MarksIn(t) = t.body.marks \cup t.tags
BY DEF Texts, Text, MarksIn

LEMMA MovedTyped ==
    ASSUME NEW t \in Text, NEW m \in Notes, NEW n \in Notes
    PROVE  /\ [t EXCEPT !.body = Retargeted(@, m, n)] \in Text
           /\ MarksIn([t EXCEPT !.body = Retargeted(@, m, n)]) = MarksIn(t)
<1> DEFINE b == Retargeted(t.body, m, n)
           u == [t EXCEPT !.body = Retargeted(@, m, n)]
<1>1. b \in Body /\ b.marks = t.body.marks
  BY RetargetedTyped DEF Text
<1>2. u = [t EXCEPT !.body = b]
  BY DEF Text
<1>3. u \in Text /\ u.body = b /\ u.tags = t.tags
  <2> HIDE DEF b
  <2> QED BY <1>1, <1>2 DEF Text
<1>4. u # None /\ t # None
  BY <1>3, TextsAssumption
<1> HIDE DEF b
<1> QED BY <1>1, <1>3, <1>4 DEF MarksIn

\* A rename creates its new note first, deletes the old one last and rewrites
\* each note that links to it once between the two.
Renames(o, files, m, n) ==
    /\ o \in Seq(Operation) /\ Len(o) \in Nat /\ Len(o) >= 2
    /\ o[1] = Create(n, [files[m] EXCEPT !.body = Retargeted(@, m, n)])
    /\ o[Len(o)] = Delete(m)
    /\ \A i \in 2..(Len(o) - 1) :
         /\ o[i].note \in Backlinks(files, m)
         /\ o[i] = UpdateBody(o[i].note, Retargeted(files[o[i].note].body, m, n))
    /\ \A i, j \in 2..(Len(o) - 1) : o[i].note = o[j].note => i = j

LEMMA RenameShape ==
    ASSUME NEW files \in [Notes -> Texts], NEW m \in Notes, NEW n \in Notes, files[m] # None,
           NEW o, o = RenameOps(files, m, n)
    PROVE  Renames(o, files, m, n)
<1> DEFINE S == Backlinks(files, m)
           linking == SetToSeq(S)
           first == Create(n, [files[m] EXCEPT !.body = Retargeted(@, m, n)])
           mid == [i \in DOMAIN linking |-> UpdateBody(linking[i], Retargeted(files[linking[i]].body, m, n))]
           K == Len(linking)
<1>1. S \subseteq Notes /\ \A x \in S : files[x] # None /\ x # m
  BY DEF Backlinks
<1>2. linking \in Seq(S) /\ \A i, j \in DOMAIN linking : linking[i] = linking[j] => i = j
  BY <1>1, Listing
<1>3. K \in Nat /\ DOMAIN linking = 1..K
  <2> HIDE DEF linking, S
  <2> QED BY <1>2
<1>4. o = <<first>> \o mid \o <<Delete(m)>>
  BY DEF RenameOps
<1>5. first \in Operation /\ Delete(m) \in Operation
  BY MovedTyped, CreateTyped, DeleteTyped, TextParts
<1>6. \A i \in 1..K : /\ mid[i] \in Operation
                      /\ mid[i] = UpdateBody(linking[i], Retargeted(files[linking[i]].body, m, n))
                      /\ linking[i] \in S
                      /\ mid[i].note = linking[i]
  <2> TAKE i \in 1..K
  <2>1. linking[i] \in S
    <3> HIDE DEF linking, S
    <3> QED BY <1>2, <1>3
  <2>2. mid[i] = UpdateBody(linking[i], Retargeted(files[linking[i]].body, m, n))
    <3> HIDE DEF linking, S
    <3> QED BY <1>3
  <2>3. linking[i] \in Notes /\ files[linking[i]] # None /\ files[linking[i]] \in Texts
    <3> HIDE DEF linking, S
    <3> QED BY <1>1, <2>1
  <2>4. files[linking[i]].body \in Body
    <3> HIDE DEF linking, S
    <3> QED BY <2>3, TextParts
  <2>5. Retargeted(files[linking[i]].body, m, n) \in Body
    <3> HIDE DEF linking, S
    <3> QED BY <2>4, RetargetedTyped
  <2>6. mid[i] \in Operation
    <3> HIDE DEF linking, S, mid
    <3> QED BY <2>2, <2>3, <2>5, UpdateBodyTyped
  <2>7. mid[i].note = linking[i]
    <3> HIDE DEF linking, S, mid
    <3> QED BY <2>2 DEF UpdateBody
  <2> QED BY <2>1, <2>2, <2>6, <2>7
<1>7. mid \in Seq(Operation) /\ Len(mid) = K
  <2>1. mid = [i \in 1..K |-> mid[i]]
    <3> HIDE DEF linking, S
    <3> QED BY <1>3
  <2> HIDE DEF mid, K
  <2> QED BY <1>3, <1>6, <2>1
<1>8. /\ o \in Seq(Operation) /\ Len(o) = K + 2
      /\ o[1] = first /\ o[K + 2] = Delete(m)
      /\ \A i \in 2..(K + 1) : o[i] = mid[i - 1]
  <2> HIDE DEF first, mid, K
  <2> QED BY <1>3, <1>4, <1>5, <1>7
<1>9. \A i \in 2..(K + 1) : o[i] = mid[i - 1] /\ i - 1 \in 1..K
  <2> HIDE DEF first, mid, K
  <2> QED BY <1>3, <1>8
<1>10. \A i \in 2..(K + 1) :
         o[i].note = linking[i - 1] /\ linking[i - 1] \in S
         /\ o[i] = UpdateBody(o[i].note, Retargeted(files[o[i].note].body, m, n))
  <2> HIDE DEF first, mid, K, linking, S
  <2> QED BY <1>6, <1>9
<1>11. \A i, j \in 2..(K + 1) : o[i].note = o[j].note => i = j
  <2> HIDE DEF first, mid, linking, S
  <2> SUFFICES ASSUME NEW i \in 2..(K + 1), NEW j \in 2..(K + 1), o[i].note = o[j].note PROVE i = j
    OBVIOUS
  <2>1. linking[i - 1] = linking[j - 1] /\ i - 1 \in 1..K /\ j - 1 \in 1..K
    BY <1>9, <1>10
  <2>2. i - 1 = j - 1
    BY <1>2, <1>3, <2>1
  <2> QED BY <2>2, <1>3
<1>12. Len(o) \in Nat /\ Len(o) >= 2 /\ K + 2 = Len(o) /\ K + 1 = Len(o) - 1
  <2> HIDE DEF K
  <2> QED BY <1>3, <1>8
<1>13. \A i \in 2..(K + 1) :
          /\ o[i].note \in Backlinks(files, m)
          /\ o[i] = UpdateBody(o[i].note, Retargeted(files[o[i].note].body, m, n))
  <2> HIDE DEF mid, linking, K
  <2> QED BY <1>10
<1> HIDE DEF mid, linking, K, S
<1> QED BY <1>8, <1>11, <1>12, <1>13 DEF Renames

\* What a tool that is not asked to commit or to revert proposes is typed.
LEMMA OpsTyped ==
    ASSUME NEW c \in Calls, NEW r, IsRequest(r), r.tool \in VaultTools \ {"commit", "revert"}, NEW files,
           r.tool \in FromIndex \cup FromNote => files \in [Notes -> Texts] /\ ~Unfit(r, files)
    PROVE  Ops(c, r, files) \in Seq(Operation)
<1> USE DEF VaultTools, IsRequest
<1>1. c \in Marks /\ Fresh(c) \in Text /\ Fresh(c).body \in Body
  BY FreshTyped DEF Marks
<1>2. r.note \in Notes
  OBVIOUS
<1>3. r.tool \in FromIndex \cup FromNote =>
        /\ files[r.note] \in Texts /\ files[r.note] # None /\ files[r.note].body \in Body
        /\ files[r.note].tags \in SUBSET Marks
  BY <1>2, TextParts DEF Unfit
<1>4. \A o \in Operation : <<o>> \in Seq(Operation)
  OBVIOUS
<1>5. CASE r.tool = "create"
  BY <1>1, <1>2, <1>4, <1>5, CreateTyped DEF Ops
<1>6. CASE r.tool = "update"
  BY <1>1, <1>2, <1>4, <1>6, UpdateBodyTyped DEF Ops
<1>7. CASE r.tool = "delete"
  BY <1>2, <1>4, <1>7, DeleteTyped DEF Ops
<1>8. CASE r.tool = "setraw"
  BY <1>1, <1>2, <1>4, <1>8, SetRawTyped DEF Ops
<1>9. CASE r.tool = "propose"
  <2> DEFINE op(i) == CASE r.ops[i].op = "create" -> Create(r.ops[i].note, Fresh(c))
                        [] r.ops[i].op = "update" -> UpdateBody(r.ops[i].note, Fresh(c).body)
                        [] OTHER -> Delete(r.ops[i].note)
  <2>1. Ops(c, r, files) = [i \in DOMAIN r.ops |-> op(i)]
    BY <1>9 DEF Ops
  <2>2. r.ops \in Seq([op : {"create", "update", "delete"}, note : Notes])
    BY <1>9
  <2>3. \A i \in DOMAIN r.ops : r.ops[i].note \in Notes
    <3> DEFINE R == [op : {"create", "update", "delete"}, note : Notes]
    <3>0. r.ops \in Seq(R)
      BY <2>2
    <3>1. \A i \in DOMAIN r.ops : r.ops[i] \in R
      <4> HIDE DEF R
      <4> QED BY <3>0, ElementOfSeq
    <3> QED BY <3>1
  <2>4. \A i \in DOMAIN r.ops : op(i) \in Operation
    BY <1>1, <2>3, CreateTyped, UpdateBodyTyped, DeleteTyped
  <2>5. DOMAIN r.ops = 1..Len(r.ops) /\ Len(r.ops) \in Nat
    BY <2>2
  <2> HIDE DEF op
  <2>6. [i \in 1..Len(r.ops) |-> op(i)] \in Seq(Operation)
    BY <2>4, <2>5
  <2> QED BY <2>1, <2>5, <2>6
<1>10. CASE r.tool = "link"
  <2> DEFINE body == files[r.note].body
             new == IF r.to \in body.links THEN body ELSE [Marked(body, c) EXCEPT !.links = @ \cup {r.to}]
  <2>1. body \in Body /\ r.to \in Notes
    BY <1>3, <1>10 DEF FromNote
  <2>2. new \in Body
    BY <2>1, <1>1, MarkedTyped DEF Body
  <2>3. Ops(c, r, files) = <<UpdateBody(r.note, new)>>
    BY <1>10 DEF Ops
  <2> HIDE DEF new
  <2> QED BY <1>2, <1>4, <2>2, <2>3, UpdateBodyTyped
<1>11. CASE r.tool = "tag"
  <2>1. files[r.note].tags \cup {c} \in SUBSET Marks
    BY <1>1, <1>3, <1>11 DEF FromNote
  <2>2. Ops(c, r, files) = <<UpdateTags(r.note, files[r.note].tags \cup {c})>>
    BY <1>11 DEF Ops
  <2> QED BY <1>2, <1>4, <2>1, <2>2, UpdateTagsTyped
<1>12. CASE r.tool = "toggle"
  <2>1. Marked(files[r.note].body, c) \in Body
    BY <1>1, <1>3, <1>12, MarkedTyped DEF FromIndex
  <2>2. Ops(c, r, files) = <<UpdateBody(r.note, Marked(files[r.note].body, c))>>
    BY <1>12 DEF Ops
  <2> QED BY <1>2, <1>4, <2>1, <2>2, UpdateBodyTyped
<1>13. CASE r.tool = "rename"
  <2>1. r.to \in Notes /\ files[r.note] # None
    BY <1>3, <1>13 DEF FromIndex
  <2>2. files \in [Notes -> Texts]
    BY <1>13 DEF FromIndex
  <2>3. Ops(c, r, files) = RenameOps(files, r.note, r.to)
    BY <1>13 DEF Ops
  <2>4. ASSUME NEW m \in Notes, NEW n \in Notes, files[m] # None
        PROVE  RenameOps(files, m, n) \in Seq(Operation)
    <3>1. PICK o : o = RenameOps(files, m, n)
      OBVIOUS
    <3>2. o \in Seq(Operation)
      BY <2>2, <2>4, <3>1, RenameShape DEF Renames
    <3> QED BY <3>1, <3>2
  <2>5. RenameOps(files, r.note, r.to) \in Seq(Operation)
    BY <1>2, <2>1, <2>4
  <2> QED BY <2>3, <2>5
<1> QED
  BY <1>5, <1>6, <1>7, <1>8, <1>9, <1>10, <1>11, <1>12, <1>13

\* A text that an operation makes of what it was not refused.
LEMMA AfterTyped ==
    ASSUME NEW o \in Operation, NEW disk \in Texts,
           ~(o.op \in {"update", "delete"} /\ disk = None)
    PROVE  After(o, disk) \in Texts
<1>1. CASE o.op = "delete"
  BY <1>1 DEF After, Texts
<1>2. CASE o.op = "update"
  <2>1. disk.body \in Body /\ disk.tags \in SUBSET Marks
    BY <1>2, TextParts
  <2>2. Or(o.body, disk.body) \in Body /\ Or(o.tags, disk.tags) \in SUBSET Marks
    BY <2>1 DEF Or, Operation
  <2>3. After(o, disk) = [body |-> Or(o.body, disk.body), tags |-> Or(o.tags, disk.tags)]
    BY <1>2 DEF After
  <2> QED BY <2>2, <2>3 DEF Text, Texts
<1>3. CASE o.op \in {"create", "raw"}
  <2>1. o.body \in Body /\ o.tags \in SUBSET Marks
    BY <1>3 DEF Operation
  <2>2. After(o, disk) = [body |-> o.body, tags |-> o.tags]
    BY <1>3 DEF After
  <2> QED BY <2>1, <2>2 DEF Text, Texts
<1> QED
  BY <1>1, <1>2, <1>3 DEF Operation

\* The comparison of a changeset that is not refused with the disk.
LEMMA DiffShape ==
    ASSUME NEW ops \in Seq(Operation), vault \in [Notes -> Texts],
           \A i \in DOMAIN ops : ~Refused(ops[i])
    PROVE  /\ BuildDiff(ops) \in Seq(Entry) /\ DOMAIN BuildDiff(ops) = DOMAIN ops
           /\ Len(BuildDiff(ops)) = Len(ops) /\ Len(ops) \in Nat
           /\ \A i \in DOMAIN ops :
                /\ BuildDiff(ops)[i].note = ops[i].note /\ ops[i].note \in Notes
                /\ BuildDiff(ops)[i].before = vault[ops[i].note]
                /\ BuildDiff(ops)[i].after = After(ops[i], vault[ops[i].note])
<1> DEFINE e(i) == [note |-> ops[i].note, before |-> vault[ops[i].note],
                    after |-> After(ops[i], vault[ops[i].note])]
<1>1. BuildDiff(ops) = [i \in DOMAIN ops |-> e(i)]
  BY DEF BuildDiff
<1>2. \A i \in DOMAIN ops : ops[i] \in Operation
  BY ElementOfSeq
<1>3. \A i \in DOMAIN ops : ops[i].note \in Notes
  BY <1>2 DEF Operation
<1>4. \A i \in DOMAIN ops : e(i) \in Entry
  <2> TAKE i \in DOMAIN ops
  <2>1. vault[ops[i].note] \in Texts /\ ~(ops[i].op \in {"update", "delete"} /\ vault[ops[i].note] = None)
    BY <1>3 DEF Refused
  <2>2. After(ops[i], vault[ops[i].note]) \in Texts
    BY <1>2, <2>1, AfterTyped
  <2> QED BY <1>3, <2>1, <2>2 DEF Entry
<1>5. DOMAIN ops = 1..Len(ops) /\ Len(ops) \in Nat
  OBVIOUS
<1>6. \A i \in DOMAIN ops : e(i).note = ops[i].note /\ e(i).before = vault[ops[i].note]
                            /\ e(i).after = After(ops[i], vault[ops[i].note])
  OBVIOUS
<1> HIDE DEF e
<1>7. BuildDiff(ops) \in Seq(Entry) /\ DOMAIN BuildDiff(ops) = DOMAIN ops /\ Len(BuildDiff(ops)) = Len(ops)
  BY <1>1, <1>4, <1>5
<1>8. \A i \in DOMAIN ops : BuildDiff(ops)[i] = e(i)
  BY <1>1
<1> QED
  BY <1>3, <1>5, <1>6, <1>7, <1>8

\* The last entry of a changeset for a note.
LEMMA LastOne ==
    ASSUME NEW diff \in Seq(Entry), NEW n \in NotesIn(diff)
    PROVE  /\ LastFor(diff, n) \in DOMAIN diff
           /\ diff[LastFor(diff, n)].note = n
           /\ \A j \in DOMAIN diff : diff[j].note = n => j <= LastFor(diff, n)
<1> DEFINE L == Len(diff)
           S == {i \in DOMAIN diff : diff[i].note = n}
           Gaps == {L - i : i \in S}
<1>1. L \in Nat /\ DOMAIN diff = 1..L
  OBVIOUS
<1>2. S # {} /\ S \subseteq 1..L
  BY <1>1 DEF NotesIn
<1> HIDE DEF L, S
<1>3. Gaps \subseteq Nat /\ Gaps # {}
  <2>1. \A i \in S : L - i \in Nat
    BY <1>1, <1>2
  <2>2. PICK i \in S : TRUE
    BY <1>2
  <2>3. L - i \in Gaps
    OBVIOUS
  <2> QED BY <2>1, <2>3
<1>4. PICK g \in Gaps : \A h \in Gaps : <<h, g>> \notin OpToRel(<, Nat)
  <2> HIDE DEF Gaps
  <2> QED BY <1>3, WFMin, NatLessThanWellFounded, Zenon
<1>5. \A h \in Gaps : ~(h < g)
  <2> HIDE DEF Gaps
  <2> QED BY <1>3, <1>4, Zenon DEF OpToRel
<1>6. PICK m \in S : g = L - m
  OBVIOUS
<1>7. \A i \in S : i <= m
  <2> SUFFICES ASSUME NEW i \in S PROVE i <= m
    OBVIOUS
  <2>1. L - i \in Gaps
    OBVIOUS
  <2>2. ~(L - i < L - m)
    BY <1>5, <1>6, <2>1
  <2>3. i \in Nat /\ m \in Nat
    BY <1>2, <1>6
  <2> QED BY <1>1, <2>2, <2>3
<1>8. \E i \in DOMAIN diff : diff[i].note = n /\ \A j \in DOMAIN diff : diff[j].note = n => j <= i
  BY <1>6, <1>7 DEF S
<1> QED
  BY <1>8 DEF LastFor

LEMMA SnapshotTyped ==
    ASSUME NEW diff \in Seq(Entry)
    PROVE  /\ Before(diff) \in Files /\ DOMAIN Before(diff) = NotesIn(diff)
           /\ AfterAll(diff) \in Files /\ DOMAIN AfterAll(diff) = NotesIn(diff)
           /\ NotesIn(diff) \subseteq Notes
<1>1. \A i \in DOMAIN diff : diff[i] \in Entry
  BY ElementOfSeq
<1>2. NotesIn(diff) \subseteq Notes
  BY <1>1 DEF NotesIn, Entry
<1>3. \A n \in NotesIn(diff) : diff[LastFor(diff, n)].before \in Texts /\ diff[LastFor(diff, n)].after \in Texts
  BY <1>1, LastOne DEF Entry
<1>4. Before(diff) \in [NotesIn(diff) -> Texts] /\ AfterAll(diff) \in [NotesIn(diff) -> Texts]
  BY <1>3 DEF Before, AfterAll
<1> QED
  BY <1>2, <1>4 DEF Files

-----------------------------------------------------------------------------
(* What each action does to the calls.                                     *)

\* All of a call but what it was told has been touched.
Alike(r, s) ==
    /\ s.pc = r.pc /\ s.req = r.req /\ s.ops = r.ops /\ s.base = r.base /\ s.diff = r.diff
    /\ s.at = r.at /\ s.by = r.by /\ s.put = r.put /\ s.ver = r.ver /\ s.left = r.left
    /\ s.stale = r.stale /\ s.stuck = r.stuck

IdleLike(s) ==
    /\ s.ops = <<>> /\ s.base = None /\ s.diff = <<>> /\ s.at = 1 /\ s.by = None
    /\ s.put = FALSE /\ s.ver = 0 /\ s.left = {} /\ s.touched = {} /\ s.stale = FALSE

LEMMA IdleTyped ==
    ASSUME NEW x \in Final \cup {"idle", "waiting"}, NEW r \in Request \cup {None}
    PROVE  /\ [Idle EXCEPT !.pc = x, !.req = r] \in CallRec
           /\ [Idle EXCEPT !.pc = x, !.req = r].pc = x
           /\ [Idle EXCEPT !.pc = x, !.req = r].req = r
           /\ IdleLike([Idle EXCEPT !.pc = x, !.req = r])
<1>1. Idle = [pc |-> "idle", req |-> None, ops |-> <<>>, base |-> None, diff |-> <<>>,
              at |-> 1, by |-> None, put |-> FALSE, ver |-> 0, left |-> {}, touched |-> {},
              stuck |-> {}, stale |-> FALSE]
  BY Zenon DEF Idle
<1>2. x \in PCs /\ "idle" \in PCs
  BY DEF PCs
<1>3. Idle \in CallRec /\ IdleLike(Idle)
  BY <1>1, <1>2 DEF CallRec, IdleLike
<1>4. ASSUME NEW i \in CallRec, NEW y \in PCs
      PROVE  LET z == [i EXCEPT !.pc = y, !.req = r] IN
             z \in CallRec /\ z.pc = y /\ z.req = r /\ (IdleLike(i) => IdleLike(z))
  BY DEF CallRec, IdleLike
<1> QED BY <1>2, <1>3, <1>4

LEMMA EndEffect ==
    ASSUME call \in [Calls -> CallRec], NEW c \in Calls, NEW a \in Final
    PROVE  /\ Ended(c, a) \in CallRec
           /\ Ended(c, a).pc = a /\ Ended(c, a).req = call[c].req
           /\ Ended(c, a).stuck = call[c].stuck
           /\ IdleLike(Ended(c, a))
<1>1. call[c].req \in Request \cup {None} /\ call[c].stuck \in SUBSET Notes
  BY DEF CallRec
<1> DEFINE i == [Idle EXCEPT !.pc = a, !.req = call[c].req]
<1>2. i \in CallRec /\ i.pc = a /\ i.req = call[c].req /\ IdleLike(i)
  BY <1>1, IdleTyped
<1>3. Ended(c, a) = [i EXCEPT !.stuck = call[c].stuck]
  BY DEF Ended
<1> HIDE DEF i
<1>4. ASSUME NEW z \in CallRec, NEW st \in SUBSET Notes
      PROVE  LET y == [z EXCEPT !.stuck = st] IN
             /\ y \in CallRec /\ y.pc = z.pc /\ y.req = z.req /\ y.stuck = st
             /\ IdleLike(z) => IdleLike(y)
  BY DEF CallRec, IdleLike
<1> QED BY <1>1, <1>2, <1>3, <1>4

LEMMA AnswerEffect ==
    ASSUME call \in [Calls -> CallRec], NEW c \in Calls, NEW a \in Final, Answer(c, a)
    PROVE  /\ call' \in [Calls -> CallRec]
           /\ \A d \in Calls \ {c} : call'[d] = call[d]
           /\ call'[c].pc = a /\ call'[c].req = call[c].req /\ IdleLike(call'[c])
           /\ call'[c].stuck = call[c].stuck
<1>1. call' = [call EXCEPT ![c] = Ended(c, a)]
  BY DEF Answer
<1>2. Ended(c, a) \in CallRec
  BY EndEffect
<1>3. call'[c] = Ended(c, a)
  BY <1>1
<1> QED BY <1>1, <1>2, <1>3, EndEffect

LEMMA TouchEffect ==
    ASSUME call \in [Calls -> CallRec], NEW p, NEW n \in Notes, NEW t, t = Touch(call, p, n)
    PROVE  /\ t \in [Calls -> CallRec]
           /\ \A d \in Calls :
                /\ Alike(call[d], t[d])
                /\ t[d].touched = IF call[d].pc \in Locked /\ Proc(d) # p THEN call[d].touched \cup {n}
                                  ELSE call[d].touched
                /\ (call[d].pc \notin Locked \/ Proc(d) = p) => t[d] = call[d]
<1>1. ASSUME NEW d \in Calls
      PROVE  /\ t[d] = IF call[d].pc \in Locked /\ Proc(d) # p
                         THEN [call[d] EXCEPT !.touched = @ \cup {n}] ELSE call[d]
             /\ call[d] \in CallRec
  BY DEF Touch
<1>2. ASSUME NEW r \in CallRec
      PROVE  /\ [r EXCEPT !.touched = @ \cup {n}] \in CallRec
             /\ Alike(r, [r EXCEPT !.touched = @ \cup {n}])
             /\ [r EXCEPT !.touched = @ \cup {n}].touched = r.touched \cup {n}
  BY DEF CallRec, Alike
<1>3. \A r : Alike(r, r)
  BY DEF Alike
<1>4. ASSUME NEW d \in Calls
      PROVE  /\ t[d] \in CallRec /\ Alike(call[d], t[d])
             /\ t[d].touched = IF call[d].pc \in Locked /\ Proc(d) # p THEN call[d].touched \cup {n}
                                  ELSE call[d].touched
             /\ (call[d].pc \notin Locked \/ Proc(d) = p) => t[d] = call[d]
  <2>1. CASE call[d].pc \in Locked /\ Proc(d) # p
    BY <1>1, <1>2, <2>1
  <2>2. CASE ~(call[d].pc \in Locked /\ Proc(d) # p)
    BY <1>1, <1>3, <2>2
  <2> QED BY <2>1, <2>2
<1>5. t = [d \in Calls |-> t[d]]
  BY DEF Touch
<1> QED
  BY <1>4, <1>5

\* Changing some fields of one call.
LEMMA OneCall ==
    ASSUME NEW calls \in [Calls -> CallRec], NEW c \in Calls, NEW r \in CallRec,
           NEW t, t = [calls EXCEPT ![c] = r]
    PROVE  t \in [Calls -> CallRec] /\ t[c] = r /\ \A d \in Calls \ {c} : t[d] = calls[d]
OBVIOUS

\* What a file write does to the calls beside the one that writes.
Told(c, n) ==
    \A d \in Calls \ {c} :
      /\ Alike(call[d], call'[d])
      /\ call'[d].touched = IF call[d].pc \in Locked /\ Proc(d) # Proc(c)
                              THEN call[d].touched \cup {n} ELSE call[d].touched

LEMMA TouchOf ==
    ASSUME call \in [Calls -> CallRec], NEW c \in Calls, NEW n \in Notes
    PROVE  LET t == Touch(call, Proc(c), n) IN
           /\ t \in [Calls -> CallRec] /\ t[c] = call[c]
           /\ \A d \in Calls : Alike(call[d], t[d])
           /\ \A d \in Calls : t[d].touched = IF call[d].pc \in Locked /\ Proc(d) # Proc(c)
                                  THEN call[d].touched \cup {n} ELSE call[d].touched
<1>1. PICK q : q = Proc(c)
  OBVIOUS
<1>2. PICK m \in Notes : m = n
  OBVIOUS
<1>3. PICK u : u = Touch(call, q, m)
  OBVIOUS
<1>4. call \in [Calls -> CallRec]
  OBVIOUS
<1>5. /\ u \in [Calls -> CallRec]
      /\ \A d \in Calls :
           /\ Alike(call[d], u[d])
           /\ u[d].touched = IF call[d].pc \in Locked /\ Proc(d) # q THEN call[d].touched \cup {m}
                             ELSE call[d].touched
           /\ (call[d].pc \notin Locked \/ Proc(d) = q) => u[d] = call[d]
  BY <1>2, <1>3, <1>4, TouchEffect
<1> QED BY <1>1, <1>2, <1>3, <1>5

\* A field of one call is changed after a file write.
LEMMA Told1 ==
    ASSUME call \in [Calls -> CallRec], NEW c \in Calls, NEW n \in Notes, NEW s \in CallRec,
           call' = [Touch(call, Proc(c), n) EXCEPT ![c] = s]
    PROVE  call' \in [Calls -> CallRec] /\ call'[c] = s /\ Told(c, n)
<1>1. PICK t : t = Touch(call, Proc(c), n)
  OBVIOUS
<1>2. /\ t \in [Calls -> CallRec] /\ t[c] = call[c]
      /\ \A d \in Calls : Alike(call[d], t[d])
      /\ \A d \in Calls : t[d].touched = IF call[d].pc \in Locked /\ Proc(d) # Proc(c)
                                  THEN call[d].touched \cup {n} ELSE call[d].touched
  BY <1>1, TouchOf
<1>3. call' = [t EXCEPT ![c] = s]
  BY <1>1
<1>4. call' \in [Calls -> CallRec] /\ call'[c] = s /\ \A d \in Calls \ {c} : call'[d] = t[d]
  BY <1>2, <1>3
<1> QED
  BY <1>2, <1>4 DEF Told

LEMMA WriteEffect ==
    ASSUME TypeInv, StandInv, NEW c \in Calls, Write(c)
    PROVE  LET r == call[c]
               s == call'[c]
               n == r.diff[r.at].note IN
           /\ r.pc = "write" /\ r.at \in DOMAIN r.diff /\ r.diff[r.at] \in Entry
           /\ vault' = [vault EXCEPT ![n] = r.diff[r.at].after]
           /\ call' \in [Calls -> CallRec]
           /\ s.pc = (IF r.at = Len(r.diff) THEN "version" ELSE "write")
           /\ s.at = (IF r.at = Len(r.diff) THEN r.at ELSE r.at + 1)
           /\ s.req = r.req /\ s.ops = r.ops /\ s.base = r.base /\ s.diff = r.diff /\ s.by = r.by
           /\ s.put = r.put /\ s.ver = r.ver /\ s.left = r.left /\ s.touched = r.touched
           /\ s.stale = r.stale
           /\ Told(c, n)
<1> DEFINE r == call[c]
           n == r.diff[r.at].note
           t == Touch(call, Proc(c), n)
           pc == IF r.at = Len(r.diff) THEN "version" ELSE r.pc
           at == IF r.at = Len(r.diff) THEN r.at ELSE r.at + 1
           s == [r EXCEPT !.pc = pc, !.at = at]
<1>1. r \in CallRec /\ r.pc = "write" /\ Stands(c, r) /\ call \in [Calls -> CallRec]
  BY DEF TypeInv, StandInv, Write
<1>2. r.diff \in Seq(Entry) /\ r.at \in Nat \ {0}
  BY <1>1 DEF CallRec
<1>3. r.at \in 1..Len(r.diff)
  BY <1>1 DEF Stands
<1>4. r.at \in DOMAIN r.diff /\ r.diff[r.at] \in Entry
  BY <1>2, <1>3
<1>5. PICK m \in Notes : m = n
  BY <1>4 DEF Entry
<1>6. t \in [Calls -> CallRec] /\ t[c] = r
  <2> HIDE DEF t, n
  <2>1. Touch(call, Proc(c), m) \in [Calls -> CallRec] /\ Touch(call, Proc(c), m)[c] = r
    BY <1>1, TouchOf
  <2> QED BY <1>5, <2>1 DEF t
<1>7. /\ call' = [t EXCEPT ![c].pc = IF r.at = Len(r.diff) THEN "version" ELSE @,
                           ![c].at = IF r.at = Len(r.diff) THEN @ ELSE @ + 1]
      /\ vault' = [vault EXCEPT ![n] = r.diff[r.at].after]
  BY DEF Write, Put
<1>8. call' = [t EXCEPT ![c] = s]
  <2> HIDE DEF t
  <2> QED BY <1>1, <1>6, <1>7
<1>9. s \in CallRec
  <2>1. pc \in PCs /\ at \in Nat \ {0}
    BY <1>1, <1>2 DEF PCs, Locked
  <2> HIDE DEF pc, at
  <2> QED BY <1>1, <2>1 DEF CallRec
<1>10. /\ s.pc = pc /\ s.at = at /\ s.req = r.req /\ s.ops = r.ops /\ s.base = r.base
       /\ s.diff = r.diff /\ s.by = r.by /\ s.put = r.put /\ s.ver = r.ver /\ s.left = r.left
       /\ s.touched = r.touched /\ s.stale = r.stale
  BY <1>1 DEF CallRec
<1>11. call' \in [Calls -> CallRec] /\ call'[c] = s /\ Told(c, m)
  <2>1. call' = [Touch(call, Proc(c), m) EXCEPT ![c] = s]
    <3> HIDE DEF s, n
    <3> QED BY <1>5, <1>8
  <2>2. PICK z \in CallRec : z = s
    BY <1>9
  <2> HIDE DEF s
  <2>3. call' = [Touch(call, Proc(c), m) EXCEPT ![c] = z]
    BY <2>1, <2>2
  <2>4. call' \in [Calls -> CallRec] /\ call'[c] = z /\ Told(c, m)
    BY <1>1, <2>3, Told1
  <2> QED BY <2>2, <2>4
<1> HIDE DEF t, s
<1> QED
  BY <1>1, <1>4, <1>5, <1>7, <1>10, <1>11

LEMMA RestoreEffect ==
    ASSUME TypeInv, StandInv, NEW c \in Calls, Restore(c)
    PROVE  LET r == call[c]
               s == call'[c]
               n == r.diff[r.ver].note IN
           /\ r.pc = "restore" /\ r.ver \in DOMAIN r.diff /\ r.diff[r.ver] \in Entry
           /\ r.ver \in 1..(r.at - 1) /\ r.at \in 2..Len(r.diff)
           /\ vault' = [vault EXCEPT ![n] = r.diff[r.ver].before]
           /\ call' \in [Calls -> CallRec]
           /\ s.req = r.req /\ s.stuck = r.stuck
           /\ r.ver = r.at - 1 => s.pc = "failed" /\ IdleLike(s) /\ Release(c)
           /\ r.ver # r.at - 1 =>
                /\ s.pc = "restore" /\ s.ver = r.ver + 1 /\ lock' = lock
                /\ s.ops = r.ops /\ s.base = r.base /\ s.diff = r.diff /\ s.by = r.by /\ s.at = r.at
                /\ s.put = r.put /\ s.left = r.left /\ s.touched = r.touched /\ s.stale = r.stale
           /\ Told(c, n)
<1> DEFINE r == call[c]
           n == r.diff[r.ver].note
           t == Touch(call, Proc(c), n)
           next == r.ver + 1
           up == [r EXCEPT !.ver = next]
           s == IF r.ver = r.at - 1 THEN Ended(c, "failed") ELSE up
<1>1. r \in CallRec /\ r.pc = "restore" /\ Stands(c, r) /\ call \in [Calls -> CallRec]
  BY DEF TypeInv, StandInv, Restore
<1>2. r.diff \in Seq(Entry) /\ r.at \in Nat \ {0} /\ r.ver \in Nat
  BY <1>1 DEF CallRec
<1>3. r.at \in 2..Len(r.diff) /\ r.ver \in 1..(r.at - 1)
  BY <1>1 DEF Stands
<1>4. r.ver \in DOMAIN r.diff /\ r.diff[r.ver] \in Entry
  BY <1>2, <1>3
<1>5. PICK m \in Notes : m = n
  BY <1>4 DEF Entry
<1>6. t \in [Calls -> CallRec] /\ t[c] = r
  <2> HIDE DEF t, n
  <2>1. Touch(call, Proc(c), m) \in [Calls -> CallRec] /\ Touch(call, Proc(c), m)[c] = r
    BY <1>1, TouchOf
  <2> QED BY <1>5, <2>1 DEF t
<1>7. /\ vault' = [vault EXCEPT ![n] = r.diff[r.ver].before]
      /\ r.ver = r.at - 1 => call' = [t EXCEPT ![c] = Ended(c, "failed")] /\ Release(c)
      /\ r.ver # r.at - 1 => call' = [t EXCEPT ![c].ver = r.ver + 1] /\ lock' = lock
  BY DEF Restore, Put
<1>8. call' = [t EXCEPT ![c] = s]
  <2> HIDE DEF t
  <2> QED BY <1>1, <1>6, <1>7
<1>9. up \in CallRec /\ up.pc = "restore" /\ up.ver = r.ver + 1
      /\ up.req = r.req /\ up.ops = r.ops /\ up.base = r.base /\ up.diff = r.diff /\ up.by = r.by
      /\ up.at = r.at /\ up.put = r.put /\ up.left = r.left /\ up.touched = r.touched
      /\ up.stale = r.stale /\ up.stuck = r.stuck
  <2>1. next \in Nat /\ next = r.ver + 1
    BY <1>2
  <2> HIDE DEF next
  <2> QED BY <1>1, <2>1 DEF CallRec
<1>10. Ended(c, "failed") \in CallRec /\ Ended(c, "failed").pc = "failed"
       /\ Ended(c, "failed").stuck = r.stuck
       /\ Ended(c, "failed").req = r.req /\ IdleLike(Ended(c, "failed"))
  BY <1>1, EndEffect DEF Final
<1> HIDE DEF up
<1>11. call' \in [Calls -> CallRec] /\ call'[c] = s /\ Told(c, m)
  <2>1. call' = [Touch(call, Proc(c), m) EXCEPT ![c] = s]
    <3> HIDE DEF s, n
    <3> QED BY <1>5, <1>8
  <2>2. PICK z \in CallRec : z = s
    BY <1>9, <1>10
  <2> HIDE DEF s
  <2>3. call' = [Touch(call, Proc(c), m) EXCEPT ![c] = z]
    BY <2>1, <2>2
  <2>4. call' \in [Calls -> CallRec] /\ call'[c] = z /\ Told(c, m)
    BY <1>1, <2>3, Told1
  <2> QED BY <2>2, <2>4
<1>12. CASE r.ver = r.at - 1
  <2>1. call'[c] = Ended(c, "failed")
    BY <1>11, <1>12
  <2> HIDE DEF t, s
  <2> QED BY <1>1, <1>3, <1>4, <1>5, <1>7, <1>10, <1>11, <1>12, <2>1
<1>13. CASE r.ver # r.at - 1
  <2>1. call'[c] = up
    BY <1>11, <1>13
  <2> HIDE DEF t, s
  <2> QED BY <1>1, <1>3, <1>4, <1>5, <1>7, <1>9, <1>11, <1>13, <2>1
<1> QED BY <1>12, <1>13

\* The rollback of a file that cannot be written goes on to the next.
LEMMA RestoreFailsEffect ==
    ASSUME TypeInv, StandInv, NEW c \in Calls, RestoreFails(c)
    PROVE  LET r == call[c]
               s == call'[c]
               n == r.diff[r.ver].note IN
           /\ r.pc = "restore" /\ n \in Notes
           /\ r.ver \in 1..(r.at - 1) /\ r.at \in 2..Len(r.diff)
           /\ vault' = vault
           /\ call' \in [Calls -> CallRec]
           /\ \A d \in Calls \ {c} : call'[d] = call[d]
           /\ s.req = r.req /\ s.stuck = r.stuck \cup {n}
           /\ r.ver = r.at - 1 => s.pc = "failed" /\ IdleLike(s) /\ Release(c)
           /\ r.ver # r.at - 1 =>
                /\ s.pc = "restore" /\ s.ver = r.ver + 1 /\ lock' = lock
                /\ s.ops = r.ops /\ s.base = r.base /\ s.diff = r.diff /\ s.by = r.by /\ s.at = r.at
                /\ s.put = r.put /\ s.left = r.left /\ s.touched = r.touched /\ s.stale = r.stale
<1> DEFINE r == call[c]
           n == r.diff[r.ver].note
           st == r.stuck \cup {n}
           e == Ended(c, "failed")
<1>1. r \in CallRec /\ r.pc = "restore" /\ Stands(c, r) /\ call \in [Calls -> CallRec]
  BY DEF TypeInv, StandInv, RestoreFails
<1>2. r.diff \in Seq(Entry) /\ r.at \in Nat \ {0} /\ r.ver \in Nat
  BY <1>1 DEF CallRec
<1>3. r.at \in 2..Len(r.diff) /\ r.ver \in 1..(r.at - 1)
  BY <1>1 DEF Stands
<1>4. r.diff[r.ver] \in Entry
  BY <1>2, <1>3
<1>5. n \in Notes /\ st \in SUBSET Notes
  BY <1>1, <1>4 DEF Entry, CallRec
<1>6. /\ vault' = vault
      /\ r.ver = r.at - 1 => call' = [call EXCEPT ![c] = [e EXCEPT !.stuck = st]] /\ Release(c)
      /\ r.ver # r.at - 1 => call' = [call EXCEPT ![c].ver = r.ver + 1, ![c].stuck = st] /\ lock' = lock
  BY DEF RestoreFails
<1>7. e \in CallRec /\ e.pc = "failed" /\ e.req = r.req /\ IdleLike(e)
  BY <1>1, EndEffect DEF Final
<1> HIDE DEF e, st
<1>8. CASE r.ver = r.at - 1
  <2>1. ASSUME NEW z \in CallRec
        PROVE  LET y == [z EXCEPT !.stuck = st] IN
               /\ y \in CallRec /\ y.pc = z.pc /\ y.req = z.req /\ y.stuck = st
               /\ IdleLike(z) => IdleLike(y)
    BY <1>5 DEF CallRec, IdleLike
  <2>2. PICK y : y = [e EXCEPT !.stuck = st]
    OBVIOUS
  <2>3. y \in CallRec /\ y.pc = "failed" /\ y.req = r.req /\ y.stuck = st /\ IdleLike(y)
    BY <1>7, <2>1, <2>2
  <2>4. call' = [call EXCEPT ![c] = y] /\ Release(c)
    BY <1>6, <1>8, <2>2
  <2>5. call' \in [Calls -> CallRec] /\ call'[c] = y /\ \A d \in Calls \ {c} : call'[d] = call[d]
    BY <1>1, <2>3, <2>4
  <2> QED BY <1>1, <1>3, <1>5, <1>6, <1>8, <2>3, <2>4, <2>5 DEF st
<1>9. CASE r.ver # r.at - 1
  <2> DEFINE next == r.ver + 1
             up == [r EXCEPT !.ver = next, !.stuck = st]
  <2>1. next \in Nat /\ next = r.ver + 1
    BY <1>2
  <2>2. call' = [call EXCEPT ![c] = up] /\ lock' = lock
    BY <1>1, <1>6, <1>9
  <2> HIDE DEF next
  <2>3. /\ up \in CallRec /\ up.pc = "restore" /\ up.ver = next /\ up.stuck = st
        /\ up.req = r.req /\ up.ops = r.ops /\ up.base = r.base /\ up.diff = r.diff /\ up.by = r.by
        /\ up.at = r.at /\ up.put = r.put /\ up.left = r.left /\ up.touched = r.touched
        /\ up.stale = r.stale
    BY <1>1, <1>5, <2>1 DEF CallRec
  <2> HIDE DEF up
  <2>4. call' \in [Calls -> CallRec] /\ call'[c] = up /\ \A d \in Calls \ {c} : call'[d] = call[d]
    BY <1>1, <2>2, <2>3
  <2> QED BY <1>1, <1>3, <1>5, <1>6, <1>9, <2>1, <2>2, <2>3, <2>4 DEF st
<1> QED BY <1>8, <1>9

LEMMA HistoryTyped ==
    ASSUME TypeInv, NEW v \in DOMAIN history
    PROVE  /\ history[v] \in Snapshot /\ v \in 1..Len(history) /\ v \in Nat /\ Len(history) \in Nat
           /\ DOMAIN history[v].before \subseteq Notes
           /\ \A n \in DOMAIN history[v].before : history[v].before[n] \in Texts
           /\ history[v].by \in Calls
<1>1. history \in Seq(Snapshot)
  BY DEF TypeInv
<1>2. history[v] \in Snapshot /\ v \in 1..Len(history) /\ v \in Nat /\ Len(history) \in Nat
  BY <1>1
<1> QED
  BY <1>2 DEF Snapshot, Files

LEMMA UndoEffect ==
    ASSUME TypeInv, StandInv, NEW c \in Calls, Undo(c)
    PROVE  LET r == call[c]
               s == call'[c] IN
           /\ r.pc = "undo" /\ r.ver \in DOMAIN history
           /\ call' \in [Calls -> CallRec]
           /\ s.pc \in {"undo", "undone"} /\ s.left \subseteq r.left
           /\ s.req = r.req /\ s.ops = r.ops /\ s.base = r.base /\ s.diff = r.diff /\ s.by = r.by
           /\ s.at = r.at /\ s.put = r.put /\ s.ver = r.ver /\ s.touched = r.touched
           /\ s.stale = r.stale
           /\ \E n \in r.left :
                /\ n \in Notes /\ n \in DOMAIN history[r.ver].before
                /\ vault' = [vault EXCEPT ![n] = history[r.ver].before[n]]
                /\ Told(c, n)
<1> DEFINE r == call[c]
<1>1. r \in CallRec /\ r.pc = "undo" /\ Logged(r, history) /\ call \in [Calls -> CallRec]
  BY DEF TypeInv, StandInv, Undo
<1>2. r.ver \in DOMAIN history /\ r.left \subseteq DOMAIN history[r.ver].before
  BY <1>1 DEF Logged
<1>3. r.left \subseteq Notes
  BY <1>1 DEF CallRec
<1>4. PICK n \in r.left :
         /\ vault' = [vault EXCEPT ![n] = history[r.ver].before[n]]
         /\ call' = [Touch(call, Proc(c), n) EXCEPT
                       ![c].pc = IF r.left = {n} THEN "undone" ELSE @,
                       ![c].left = @ \ {n}]
  BY DEF Undo, Put
<1>5. n \in Notes /\ n \in DOMAIN history[r.ver].before
  BY <1>2, <1>3
<1> DEFINE pc == IF r.left = {n} THEN "undone" ELSE r.pc
           left == r.left \ {n}
           s == [r EXCEPT !.pc = pc, !.left = left]
           t == Touch(call, Proc(c), n)
<1>6. t \in [Calls -> CallRec] /\ t[c] = r
  BY <1>1, <1>5, TouchOf
<1>7. call' = [t EXCEPT ![c] = s]
  <2>1. call' = [t EXCEPT ![c].pc = IF r.left = {n} THEN "undone" ELSE @, ![c].left = @ \ {n}]
    BY <1>4
  <2> HIDE DEF t
  <2> QED BY <1>6, <2>1
<1>8. pc \in PCs /\ left \in SUBSET Notes /\ pc \in {"undo", "undone"} /\ left \subseteq r.left
  BY <1>1, <1>3 DEF PCs, Locked
<1> HIDE DEF pc, left
<1>9. s \in CallRec
  BY <1>1, <1>8 DEF CallRec
<1>10. /\ s.pc = pc /\ s.left = left
       /\ s.req = r.req /\ s.ops = r.ops /\ s.base = r.base /\ s.diff = r.diff /\ s.by = r.by
       /\ s.at = r.at /\ s.put = r.put /\ s.ver = r.ver /\ s.touched = r.touched
       /\ s.stale = r.stale
  BY <1>1 DEF CallRec
<1>11. call' \in [Calls -> CallRec] /\ call'[c] = s /\ Told(c, n)
  <2>1. PICK z \in CallRec : z = s
    BY <1>9
  <2> HIDE DEF s
  <2>2. call' = [Touch(call, Proc(c), n) EXCEPT ![c] = z]
    BY <1>7, <2>1
  <2>3. call' \in [Calls -> CallRec] /\ call'[c] = z /\ Told(c, n)
    BY <1>1, <1>5, <2>2, Told1
  <2> QED BY <2>1, <2>3
<1> HIDE DEF s, t
<1> QED
  BY <1>1, <1>2, <1>4, <1>5, <1>8, <1>10, <1>11

-----------------------------------------------------------------------------
(* The actions of one call that write no note.                             *)

LEMMA LockForEffect ==
    ASSUME TypeInv, StandInv, NEW c \in Calls, LockFor(c), ~(call[c].req.tool \in FromNote /\ Unfit(call[c].req, vault))
    PROVE  LET r == call[c]
               s == call'[c] IN
           /\ call' \in [Calls -> CallRec]
           /\ \A d \in Calls \ {c} : call'[d] = call[d]
           /\ s.pc = "propose"
           /\ s.ops = IF r.req.tool \in FromIndex THEN r.ops ELSE Ops(c, r.req, vault)
           /\ s.base = IF r.req.tool \in FromNote THEN vault ELSE r.base
           /\ s.req = r.req /\ s.diff = r.diff /\ s.at = r.at /\ s.by = r.by /\ s.put = r.put
           /\ s.ver = r.ver /\ s.left = r.left /\ s.touched = r.touched /\ s.stale = r.stale
<1> DEFINE r == call[c]
           xpc == "propose"
           xops == IF r.req.tool \in FromIndex THEN r.ops ELSE Ops(c, r.req, vault)
           xbase == IF r.req.tool \in FromNote THEN vault ELSE r.base
           s == [r EXCEPT !.pc = xpc, !.ops = xops, !.base = xbase]
<1>1. r \in CallRec /\ call \in [Calls -> CallRec]
  BY DEF TypeInv
<1>2. call' = [call EXCEPT ![c].pc = "propose", ![c].ops = IF r.req.tool \in FromIndex THEN r.ops ELSE Ops(c, r.req, vault), ![c].base = IF r.req.tool \in FromNote THEN vault ELSE r.base]
  BY DEF LockFor
<1>3. xpc \in PCs /\ xops \in Seq(Operation) /\ xbase \in [Notes -> Texts] \cup {None}
  <2>1. xpc \in PCs
    BY DEF PCs, Locked
  <2>2. r.ops \in Seq(Operation) /\ r.base \in [Notes -> Texts] \cup {None} /\ vault \in [Notes -> Texts]
    BY <1>1 DEF CallRec, TypeInv
  <2>3. r.req \in Request /\ r.req.tool \in VaultTools \ {"commit", "revert"} /\ IsRequest(r.req)
    <3>1. r.pc = "waiting" /\ Stands(c, r) /\ r.req.tool \notin {"commit", "revert"}
      BY DEF StandInv, LockFor
    <3> QED BY <3>1, Requests DEF Stands
  <2>4. r.req.tool \notin FromIndex => Ops(c, r.req, vault) \in Seq(Operation)
    <3>1. PICK q : q = r.req
      OBVIOUS
    <3>2. PICK files : files = vault
      OBVIOUS
    <3>3. q.tool \notin FromIndex => Ops(c, q, files) \in Seq(Operation)
      BY <2>2, <2>3, <3>1, <3>2, OpsTyped
    <3> QED BY <3>1, <3>2, <3>3
  <2> QED BY <2>1, <2>2, <2>4
<1>4. call' = [call EXCEPT ![c] = s]
  BY <1>1, <1>2
<1> HIDE DEF xpc, xops, xbase
<1>5. s \in CallRec
  BY <1>1, <1>3 DEF CallRec
<1>6. /\ s.pc = xpc /\ s.ops = xops /\ s.base = xbase
      /\ s.req = r.req /\ s.diff = r.diff /\ s.at = r.at /\ s.by = r.by /\ s.put = r.put /\ s.ver = r.ver /\ s.left = r.left /\ s.touched = r.touched /\ s.stale = r.stale
  BY <1>1 DEF CallRec
<1>7. call' \in [Calls -> CallRec] /\ call'[c] = s /\ \A d \in Calls \ {c} : call'[d] = call[d]
  <2> HIDE DEF s
  <2> QED BY <1>1, <1>4, <1>5
<1> HIDE DEF s
<1> QED
  BY <1>6, <1>7 DEF xpc, xops, xbase

LEMMA ProposeEffect ==
    ASSUME TypeInv, StandInv, NEW c \in Calls, Propose(c), ~\E i \in DOMAIN call[c].ops : Refused(call[c].ops[i]), call[c].req.tool # "propose"
    PROVE  LET r == call[c]
               s == call'[c] IN
           /\ call' \in [Calls -> CallRec]
           /\ \A d \in Calls \ {c} : call'[d] = call[d]
           /\ s.pc = "diff"
           /\ s.by = c
           /\ s.req = r.req /\ s.ops = r.ops /\ s.base = r.base /\ s.diff = r.diff /\ s.at = r.at
           /\ s.put = r.put /\ s.ver = r.ver /\ s.left = r.left /\ s.touched = r.touched /\ s.stale = r.stale
<1> DEFINE r == call[c]
           xpc == "diff"
           xby == c
           s == [r EXCEPT !.pc = xpc, !.by = xby]
<1>1. r \in CallRec /\ call \in [Calls -> CallRec]
  BY DEF TypeInv
<1>2. call' = [call EXCEPT ![c].pc = "diff", ![c].by = c]
  BY DEF Propose
<1>3. xpc \in PCs /\ xby \in Calls \cup {None}
  BY DEF PCs, Locked
<1>4. call' = [call EXCEPT ![c] = s]
  BY <1>1, <1>2
<1> HIDE DEF xpc, xby
<1>5. s \in CallRec
  BY <1>1, <1>3 DEF CallRec
<1>6. /\ s.pc = xpc /\ s.by = xby
      /\ s.req = r.req /\ s.ops = r.ops /\ s.base = r.base /\ s.diff = r.diff /\ s.at = r.at /\ s.put = r.put /\ s.ver = r.ver /\ s.left = r.left /\ s.touched = r.touched /\ s.stale = r.stale
  BY <1>1 DEF CallRec
<1>7. call' \in [Calls -> CallRec] /\ call'[c] = s /\ \A d \in Calls \ {c} : call'[d] = call[d]
  <2> HIDE DEF s
  <2> QED BY <1>1, <1>4, <1>5
<1> HIDE DEF s
<1> QED
  BY <1>6, <1>7 DEF xpc, xby

LEMMA LockForCommitEffect ==
    ASSUME TypeInv, NEW c \in Calls, NEW change \in Change, call' = [call EXCEPT ![c].pc = "diff", ![c].ops = change.ops, ![c].by = change.by, ![c].put = change.put]
    PROVE  LET r == call[c]
               s == call'[c] IN
           /\ call' \in [Calls -> CallRec]
           /\ \A d \in Calls \ {c} : call'[d] = call[d]
           /\ s.pc = "diff"
           /\ s.ops = change.ops
           /\ s.by = change.by
           /\ s.put = change.put
           /\ s.req = r.req /\ s.base = r.base /\ s.diff = r.diff /\ s.at = r.at /\ s.ver = r.ver
           /\ s.left = r.left /\ s.touched = r.touched /\ s.stale = r.stale
<1> DEFINE r == call[c]
           xpc == "diff"
           xops == change.ops
           xby == change.by
           xput == change.put
           s == [r EXCEPT !.pc = xpc, !.ops = xops, !.by = xby, !.put = xput]
<1>1. r \in CallRec /\ call \in [Calls -> CallRec]
  BY DEF TypeInv
<1>2. call' = [call EXCEPT ![c].pc = "diff", ![c].ops = change.ops, ![c].by = change.by, ![c].put = change.put]
  OBVIOUS
<1>3. xpc \in PCs /\ xops \in Seq(Operation) /\ xby \in Calls \cup {None} /\ xput \in BOOLEAN
  BY DEF PCs, Locked, Change
<1>4. call' = [call EXCEPT ![c] = s]
  BY <1>1, <1>2
<1> HIDE DEF xpc, xops, xby, xput
<1>5. s \in CallRec
  BY <1>1, <1>3 DEF CallRec
<1>6. /\ s.pc = xpc /\ s.ops = xops /\ s.by = xby /\ s.put = xput
      /\ s.req = r.req /\ s.base = r.base /\ s.diff = r.diff /\ s.at = r.at /\ s.ver = r.ver /\ s.left = r.left /\ s.touched = r.touched /\ s.stale = r.stale
  BY <1>1 DEF CallRec
<1>7. call' \in [Calls -> CallRec] /\ call'[c] = s /\ \A d \in Calls \ {c} : call'[d] = call[d]
  <2> HIDE DEF s
  <2> QED BY <1>1, <1>4, <1>5
<1> HIDE DEF s
<1> QED
  BY <1>6, <1>7 DEF xpc, xops, xby, xput

LEMMA DiffEffect ==
    ASSUME TypeInv, StandInv, NEW c \in Calls, Diff(c), cast.scope[Proc(c)] # "ro", ~\E i \in DOMAIN call[c].ops : Refused(call[c].ops[i])
    PROVE  LET r == call[c]
               s == call'[c] IN
           /\ call' \in [Calls -> CallRec]
           /\ \A d \in Calls \ {c} : call'[d] = call[d]
           /\ s.pc = IF r.ops = <<>> THEN "version" ELSE "write"
           /\ s.diff = BuildDiff(r.ops)
           /\ s.at = 1
           /\ s.touched = {}
           /\ s.stale = \E i \in DOMAIN r.ops : Stale(c, r.ops[i])
           /\ s.req = r.req /\ s.ops = r.ops /\ s.base = r.base /\ s.by = r.by /\ s.put = r.put
           /\ s.ver = r.ver /\ s.left = r.left
<1> DEFINE r == call[c]
           xpc == IF r.ops = <<>> THEN "version" ELSE "write"
           xdiff == BuildDiff(r.ops)
           xat == 1
           xtouched == {}
           xstale == \E i \in DOMAIN r.ops : Stale(c, r.ops[i])
           s == [r EXCEPT !.pc = xpc, !.diff = xdiff, !.at = xat, !.touched = xtouched, !.stale = xstale]
<1>1. r \in CallRec /\ call \in [Calls -> CallRec]
  BY DEF TypeInv
<1>2. call' = [call EXCEPT ![c].pc = IF r.ops = <<>> THEN "version" ELSE "write", ![c].diff = BuildDiff(r.ops), ![c].at = 1, ![c].touched = {}, ![c].stale = \E i \in DOMAIN r.ops : Stale(c, r.ops[i])]
  BY DEF Diff
<1>3. xpc \in PCs /\ xdiff \in Seq(Entry) /\ xat \in Nat \ {0} /\ xtouched \in SUBSET Notes /\ xstale \in BOOLEAN
  <2>1. xpc \in PCs /\ xat \in Nat \ {0} /\ xtouched \in SUBSET Notes
    BY DEF PCs, Locked
  <2>2. xstale \in BOOLEAN
    OBVIOUS
  <2>3. r.ops \in Seq(Operation) /\ vault \in [Notes -> Texts]
    BY <1>1 DEF CallRec, TypeInv
  <2>4. PICK ops : ops = r.ops
    OBVIOUS
  <2>5. BuildDiff(ops) \in Seq(Entry)
    BY <2>3, <2>4, DiffShape
  <2>6. xdiff \in Seq(Entry)
    BY <2>4, <2>5
  <2> HIDE DEF xpc, xdiff, xat, xtouched, xstale
  <2> QED BY <2>1, <2>2, <2>6
<1>4. call' = [call EXCEPT ![c] = s]
  BY <1>1, <1>2
<1> HIDE DEF xpc, xdiff, xat, xtouched, xstale
<1>5. s \in CallRec
  BY <1>1, <1>3 DEF CallRec
<1>6. /\ s.pc = xpc /\ s.diff = xdiff /\ s.at = xat /\ s.touched = xtouched /\ s.stale = xstale
      /\ s.req = r.req /\ s.ops = r.ops /\ s.base = r.base /\ s.by = r.by /\ s.put = r.put /\ s.ver = r.ver /\ s.left = r.left
  BY <1>1 DEF CallRec
<1>7. call' \in [Calls -> CallRec] /\ call'[c] = s /\ \A d \in Calls \ {c} : call'[d] = call[d]
  <2> HIDE DEF s
  <2> QED BY <1>1, <1>4, <1>5
<1> HIDE DEF s
<1> QED
  BY <1>6, <1>7 DEF xpc, xdiff, xat, xtouched, xstale

LEMMA WriteFailsEffect ==
    ASSUME TypeInv, StandInv, NEW c \in Calls, WriteFails(c), call[c].at # 1
    PROVE  LET r == call[c]
               s == call'[c] IN
           /\ call' \in [Calls -> CallRec]
           /\ \A d \in Calls \ {c} : call'[d] = call[d]
           /\ s.pc = "restore"
           /\ s.ver = 1 /\ s.stuck = {}
           /\ s.req = r.req /\ s.ops = r.ops /\ s.base = r.base /\ s.diff = r.diff /\ s.at = r.at
           /\ s.by = r.by /\ s.put = r.put /\ s.left = r.left /\ s.touched = r.touched /\ s.stale = r.stale
<1> DEFINE r == call[c]
           xpc == "restore"
           xver == 1
           xstuck == {}
           s == [r EXCEPT !.pc = xpc, !.ver = xver, !.stuck = xstuck]
<1>1. r \in CallRec /\ call \in [Calls -> CallRec]
  BY DEF TypeInv
<1>2. call' = [call EXCEPT ![c].pc = "restore", ![c].ver = 1, ![c].stuck = {}]
  BY DEF WriteFails
<1>3. xpc \in PCs /\ xver \in Nat /\ xstuck \in SUBSET Notes
  BY DEF PCs, Locked
<1>4. call' = [call EXCEPT ![c] = s]
  BY <1>1, <1>2
<1> HIDE DEF xpc, xver, xstuck
<1>5. s \in CallRec
  BY <1>1, <1>3 DEF CallRec
<1>6. /\ s.pc = xpc /\ s.ver = xver /\ s.stuck = xstuck
      /\ s.req = r.req /\ s.ops = r.ops /\ s.base = r.base /\ s.diff = r.diff /\ s.at = r.at /\ s.by = r.by /\ s.put = r.put /\ s.left = r.left /\ s.touched = r.touched /\ s.stale = r.stale
  BY <1>1 DEF CallRec
<1>7. call' \in [Calls -> CallRec] /\ call'[c] = s /\ \A d \in Calls \ {c} : call'[d] = call[d]
  <2> HIDE DEF s
  <2> QED BY <1>1, <1>4, <1>5
<1> HIDE DEF s
<1> QED
  BY <1>6, <1>7 DEF xpc, xver, xstuck

LEMMA VersionEffect ==
    ASSUME TypeInv, StandInv, NEW c \in Calls, Version(c)
    PROVE  LET r == call[c]
               s == call'[c] IN
           /\ call' \in [Calls -> CallRec]
           /\ \A d \in Calls \ {c} : call'[d] = call[d]
           /\ s.pc = "audit"
           /\ s.ver = Len(history) + 1
           /\ s.req = r.req /\ s.ops = r.ops /\ s.base = r.base /\ s.diff = r.diff /\ s.at = r.at
           /\ s.by = r.by /\ s.put = r.put /\ s.left = r.left /\ s.touched = r.touched /\ s.stale = r.stale
<1> DEFINE r == call[c]
           xpc == "audit"
           xver == Len(history) + 1
           s == [r EXCEPT !.pc = xpc, !.ver = xver]
<1>1. r \in CallRec /\ call \in [Calls -> CallRec]
  BY DEF TypeInv
<1>2. call' = [call EXCEPT ![c].pc = "audit", ![c].ver = Len(history) + 1]
  <2>1. call' = [call EXCEPT ![c].pc = "audit", ![c].ver = Len(history')]
    BY DEF Version
  <2>2. Len(history') = Len(history) + 1
    BY DEF Version, TypeInv
  <2> QED BY <2>1, <2>2
<1>3. xpc \in PCs /\ xver \in Nat
  <2>1. Len(history) \in Nat
    BY DEF TypeInv
  <2> QED BY <2>1 DEF PCs, Locked
<1>4. call' = [call EXCEPT ![c] = s]
  BY <1>1, <1>2
<1> HIDE DEF xpc, xver
<1>5. s \in CallRec
  BY <1>1, <1>3 DEF CallRec
<1>6. /\ s.pc = xpc /\ s.ver = xver
      /\ s.req = r.req /\ s.ops = r.ops /\ s.base = r.base /\ s.diff = r.diff /\ s.at = r.at /\ s.by = r.by /\ s.put = r.put /\ s.left = r.left /\ s.touched = r.touched /\ s.stale = r.stale
  BY <1>1 DEF CallRec
<1>7. call' \in [Calls -> CallRec] /\ call'[c] = s /\ \A d \in Calls \ {c} : call'[d] = call[d]
  <2> HIDE DEF s
  <2> QED BY <1>1, <1>4, <1>5
<1> HIDE DEF s
<1> QED
  BY <1>6, <1>7 DEF xpc, xver

LEMMA BeginEffect ==
    ASSUME TypeInv, NEW c \in Calls, NEW q \in Request, q.tool \in VaultTools, Begin(c, q)
    PROVE  LET s == call'[c] IN
           /\ call[c].pc = "idle"
           /\ call' \in [Calls -> CallRec]
           /\ \A d \in Calls \ {c} : call'[d] = call[d]
           /\ s.pc \in {"waiting", "failed"} /\ s.req = q
           /\ s.diff = <<>> /\ s.at = 1 /\ s.by = None /\ s.put = FALSE /\ s.ver = 0
           /\ s.left = {} /\ s.touched = {} /\ s.stale = FALSE
           /\ (s.pc = "failed" \/ q.tool \notin FromIndex) => s.ops = <<>> /\ s.base = None
           /\ (s.pc = "waiting" /\ q.tool \in FromIndex) =>
                s.ops = Ops(c, q, vault) /\ s.base = vault /\ ~Unfit(q, vault)
<1> DEFINE plain(x) == [Idle EXCEPT !.pc = x, !.req = q]
           full == [Idle EXCEPT !.pc = "waiting", !.req = q, !.ops = Ops(c, q, vault), !.base = vault]
<1>1. call \in [Calls -> CallRec] /\ vault \in [Notes -> Texts]
  BY DEF TypeInv
<1>2. call[c].pc = "idle" /\
      call' = [call EXCEPT ![c] = IF q.tool \notin FromIndex THEN plain("waiting")
                                  ELSE IF Unfit(q, vault) THEN plain("failed") ELSE full]
  BY DEF Begin
<1>3. ASSUME NEW x \in {"waiting", "failed"}
      PROVE  plain(x) \in CallRec /\ plain(x).pc = x /\ plain(x).req = q /\ IdleLike(plain(x))
  BY IdleTyped DEF Final
<1>4. ASSUME q.tool \in FromIndex, ~Unfit(q, vault)
      PROVE  /\ full \in CallRec /\ full.pc = "waiting" /\ full.req = q
             /\ full.ops = Ops(c, q, vault) /\ full.base = vault
             /\ full.diff = <<>> /\ full.at = 1 /\ full.by = None /\ full.put = FALSE /\ full.ver = 0
             /\ full.left = {} /\ full.touched = {} /\ full.stale = FALSE
  <2>1. PICK files : files = vault
    OBVIOUS
  <2>2. PICK o : o = Ops(c, q, vault)
    OBVIOUS
  <2>3. o \in Seq(Operation)
    <3>1. o = Ops(c, q, files)
      BY <2>1, <2>2
    <3>2. IsRequest(q) /\ q.tool \in VaultTools \ {"commit", "revert"}
      BY <1>4, Requests DEF FromIndex
    <3>3. files \in [Notes -> Texts] /\ ~Unfit(q, files)
      BY <1>1, <1>4, <2>1
    <3> QED BY <3>1, <3>2, <3>3, OpsTyped
  <2>4. plain("waiting") \in CallRec /\ IdleLike(plain("waiting")) /\ plain("waiting").pc = "waiting"
        /\ plain("waiting").req = q
    BY <1>3
  <2>5. full = [plain("waiting") EXCEPT !.ops = o, !.base = files]
    BY <2>1, <2>2
  <2>6. files \in [Notes -> Texts]
    BY <1>1, <2>1
  <2>7. ASSUME NEW i \in CallRec, IdleLike(i)
        PROVE  LET z == [i EXCEPT !.ops = o, !.base = files] IN
               /\ z \in CallRec /\ z.pc = i.pc /\ z.req = i.req /\ z.ops = o /\ z.base = files
               /\ z.diff = <<>> /\ z.at = 1 /\ z.by = None /\ z.put = FALSE /\ z.ver = 0
               /\ z.left = {} /\ z.touched = {} /\ z.stale = FALSE
    BY <2>3, <2>6, <2>7 DEF CallRec, IdleLike
  <2> HIDE DEF plain, full
  <2> QED BY <2>1, <2>2, <2>4, <2>5, <2>7
<1> HIDE DEF plain, full
<1>5. CASE q.tool \notin FromIndex
  BY <1>1, <1>2, <1>3, <1>5 DEF IdleLike
<1>6. CASE q.tool \in FromIndex /\ Unfit(q, vault)
  BY <1>1, <1>2, <1>3, <1>6 DEF IdleLike
<1>7. CASE q.tool \in FromIndex /\ ~Unfit(q, vault)
  BY <1>1, <1>2, <1>4, <1>7
<1> QED
  BY <1>5, <1>6, <1>7

-----------------------------------------------------------------------------
(* A process that dies, and the user's editor.                             *)

LEMMA CrashEffect ==
    ASSUME TypeInv, NEW p \in Procs, Crash(p)
    PROVE  /\ call' \in [Calls -> CallRec]
           /\ \A d \in Calls :
                \/ /\ Proc(d) = p /\ call[d].pc \notin Final \cup {"idle"}
                   /\ call'[d].pc = "dead" /\ call'[d].req = call[d].req /\ IdleLike(call'[d])
                \/ /\ Proc(d) # p \/ call[d].pc \in Final \cup {"idle"}
                   /\ call'[d] = call[d]
<1>1. call \in [Calls -> CallRec]
  BY DEF TypeInv
<1>2. call' = [c \in Calls |-> IF Proc(c) = p /\ call[c].pc \notin Final \cup {"idle"}
                                 THEN Ended(c, "dead") ELSE call[c]]
  BY DEF Crash
<1>3. ASSUME NEW d \in Calls
      PROVE  /\ Ended(d, "dead") \in CallRec /\ Ended(d, "dead").pc = "dead"
             /\ Ended(d, "dead").req = call[d].req /\ IdleLike(Ended(d, "dead"))
  BY <1>1, EndEffect DEF Final
<1>4. ASSUME NEW d \in Calls
      PROVE  /\ call'[d] \in CallRec
             /\ \/ /\ Proc(d) = p /\ call[d].pc \notin Final \cup {"idle"}
                   /\ call'[d].pc = "dead" /\ call'[d].req = call[d].req /\ IdleLike(call'[d])
                \/ /\ Proc(d) # p \/ call[d].pc \in Final \cup {"idle"}
                   /\ call'[d] = call[d]
  <2>1. CASE Proc(d) = p /\ call[d].pc \notin Final \cup {"idle"}
    <3>1. call'[d] = Ended(d, "dead")
      BY <1>2, <2>1
    <3> QED BY <1>3, <2>1, <3>1
  <2>2. CASE ~(Proc(d) = p /\ call[d].pc \notin Final \cup {"idle"})
    <3>1. call'[d] = call[d]
      BY <1>2, <2>2
    <3> QED BY <1>1, <2>2, <3>1
  <2> QED BY <2>1, <2>2
<1>5. call' = [d \in Calls |-> call'[d]]
  BY <1>2
<1> QED
  BY <1>4, <1>5

LEMMA ProcTyped ==
    ASSUME TypeInv, NEW c \in Calls
    PROVE  Proc(c) \in Procs /\ Proc(c) # None /\ None \notin Procs
<1>1. cast \in Casts
  BY DEF TypeInv
<1>2. PICK k \in Casts : k = cast
  BY <1>1
<1>3. None \notin DOMAIN k.scope /\ k.writer \in [Calls -> DOMAIN k.scope]
  BY CastTypes
<1> QED
  BY <1>2, <1>3 DEF Proc, Procs

LEMMA EditEffect ==
    ASSUME TypeInv, NEW u \in Users, Edit(u)
    PROVE  /\ call' \in [Calls -> CallRec]
           /\ u \in cast.users /\ edits' = edits \cup {u}
           /\ \E n \in Notes :
                /\ vault[n] # None
                /\ vault' = [vault EXCEPT ![n].body = Marked(@, u)]
                /\ \A d \in Calls :
                     /\ Alike(call[d], call'[d])
                     /\ call'[d].touched = IF call[d].pc \in Locked THEN call[d].touched \cup {n}
                                           ELSE call[d].touched
<1>1. u \in cast.users /\ edits' = edits \cup {u}
  BY DEF Edit
<1>2. PICK n \in Notes : /\ vault[n] # None
                         /\ vault' = [vault EXCEPT ![n].body = Marked(@, u)]
                         /\ call' = Touch(call, None, n)
  BY DEF Edit
<1>3. PICK m \in Notes : m = n
  OBVIOUS
<1>4. PICK t : t = Touch(call, None, m)
  OBVIOUS
<1>5. call \in [Calls -> CallRec]
  BY DEF TypeInv
<1>6. PICK q : q = None
  OBVIOUS
<1>7. t = Touch(call, q, m)
  BY <1>4, <1>6
<1>8. /\ t \in [Calls -> CallRec]
      /\ \A d \in Calls :
           /\ Alike(call[d], t[d])
           /\ t[d].touched = IF call[d].pc \in Locked /\ Proc(d) # q THEN call[d].touched \cup {m}
                             ELSE call[d].touched
           /\ (call[d].pc \notin Locked \/ Proc(d) = q) => t[d] = call[d]
  BY <1>3, <1>5, <1>7, TouchEffect
<1>9. call' = t
  BY <1>2, <1>3, <1>4
<1>10. \A d \in Calls : Proc(d) # q
  BY <1>6, ProcTyped
<1> QED
  BY <1>1, <1>2, <1>3, <1>8, <1>9, <1>10

LEMMA StandsAlike ==
    ASSUME NEW c \in Calls, NEW r, NEW s, Alike(r, s), Stands(c, r)
    PROVE  Stands(c, s)
BY DEF Alike, Stands, Grounded

\* A call that has ended, or only waits, stands on nothing.
LEMMA StandsIdle ==
    ASSUME NEW c \in Calls, NEW s, IdleLike(s), s.pc \in Final \cup {"idle", "waiting"},
           s.pc = "waiting" => s.req \in Request /\ s.req.tool \in VaultTools \ FromIndex
    PROVE  Stands(c, s) /\ \A versions : Logged(s, versions)
BY DEF IdleLike, Stands, Logged, Final, Locked, Committing, Undoing, NotYet, Grounded

-----------------------------------------------------------------------------
(* Every step keeps the types, where the calls stand and the mutexes.      *)

Basic == TypeInv /\ StandInv /\ LockInv

LEMMA StandKept ==
    ASSUME StandInv, NEW c \in Calls, \A d \in Calls \ {c} : Alike(call[d], call'[d]),
           Stands(c, call'[c]), Logged(call'[c], history'),
           \A v \in DOMAIN history : v \in DOMAIN history' /\ history'[v] = history[v],
           \A i \in DOMAIN audit' : audit'[i].ver \in DOMAIN history'
    PROVE  StandInv'
<1>1. ASSUME NEW d \in Calls \ {c}
      PROVE  Stands(d, call'[d]) /\ Logged(call'[d], history')
  <2>1. Stands(d, call[d]) /\ Logged(call[d], history) /\ Alike(call[d], call'[d])
    BY DEF StandInv
  <2>2. Stands(d, call'[d])
    BY <2>1, StandsAlike
  <2>3. Logged(call'[d], history')
    BY <2>1 DEF Logged, Alike
  <2> QED BY <2>2, <2>3
<1> QED
  BY <1>1 DEF StandInv

LEMMA LockStays ==
    ASSUME LockInv, cast' = cast, lock' = lock,
           \A d \in Calls : call'[d].pc \in Locked <=> call[d].pc \in Locked
    PROVE  LockInv'
BY DEF LockInv, Proc

LEMMA LockTaken ==
    ASSUME TypeInv, LockInv, cast' = cast, NEW c \in Calls, lock[Proc(c)] = None,
           lock' = [lock EXCEPT ![Proc(c)] = c], call'[c].pc \in Locked,
           \A d \in Calls \ {c} : call'[d].pc = call[d].pc
    PROVE  LockInv' /\ lock' \in [Procs -> Calls \cup {None}]
<1>1. lock \in [Procs -> Calls \cup {None}] /\ \A d \in Calls : Proc(d) \in Procs
  BY ProcTyped DEF TypeInv
<1>2. ASSUME NEW d \in Calls
      PROVE  call'[d].pc \in Locked <=> lock'[Proc(d)] = d
  <2>1. CASE d = c
    BY <1>1, <2>1
  <2>2. CASE d # c /\ Proc(d) = Proc(c)
    <3>1. call[d].pc \notin Locked
      BY <2>2, MarksAssumption DEF LockInv
    <3> QED BY <1>1, <2>2, <3>1
  <2>3. CASE d # c /\ Proc(d) # Proc(c)
    BY <1>1, <2>3 DEF LockInv
  <2> QED BY <2>1, <2>2, <2>3
<1> QED
  BY <1>1, <1>2 DEF LockInv, Proc

LEMMA LockLeft ==
    ASSUME TypeInv, LockInv, cast' = cast, NEW c \in Calls, call[c].pc \in Locked,
           Release(c), call'[c].pc \notin Locked,
           \A d \in Calls \ {c} : call'[d].pc = call[d].pc
    PROVE  LockInv' /\ lock' \in [Procs -> Calls \cup {None}]
<1>1. lock \in [Procs -> Calls \cup {None}] /\ \A d \in Calls : Proc(d) \in Procs
  BY ProcTyped DEF TypeInv
<1>2. lock' = [lock EXCEPT ![Proc(c)] = None] /\ lock[Proc(c)] = c
  BY DEF Release, LockInv
<1>3. ASSUME NEW d \in Calls
      PROVE  call'[d].pc \in Locked <=> lock'[Proc(d)] = d
  <2>1. CASE d = c
    BY <1>1, <1>2, <2>1, MarksAssumption
  <2>2. CASE d # c /\ Proc(d) = Proc(c)
    <3>1. call[d].pc \notin Locked
      BY <1>2, <2>2 DEF LockInv
    <3> QED BY <1>1, <1>2, <2>2, <3>1, MarksAssumption
  <2>3. CASE d # c /\ Proc(d) # Proc(c)
    BY <1>1, <1>2, <2>3 DEF LockInv
  <2> QED BY <2>1, <2>2, <2>3
<1> QED
  BY <1>1, <1>2, <1>3 DEF LockInv, Proc

\* A call is answered and its mutex, if it has it, is free.
LEMMA BasicAnswer ==
    ASSUME Basic, NEW c \in Calls, NEW a \in Final, Answer(c, a),
           cast' = cast, vault' = vault, history' = history, crashes' = crashes, edits' = edits,
           lost' = lost, faults' \in 0..cast.faults, pending' \in [Procs -> SUBSET Change],
           audit' \in Seq(AuditLine), \A i \in DOMAIN audit' : audit'[i].ver \in DOMAIN history,
           (call[c].pc \in Locked /\ Release(c)) \/ (call[c].pc \notin Locked /\ lock' = lock)
    PROVE  Basic'
<1>1. /\ call' \in [Calls -> CallRec] /\ \A d \in Calls \ {c} : call'[d] = call[d]
      /\ call'[c].pc = a /\ IdleLike(call'[c])
  BY AnswerEffect DEF Basic, TypeInv
<1>2. call'[c].pc \notin Locked
  BY <1>1 DEF Final, Locked
<1>3. Stands(c, call'[c]) /\ Logged(call'[c], history')
  <2>1. PICK s : s = call'[c]
    OBVIOUS
  <2>2. Stands(c, s) /\ \A versions : Logged(s, versions)
    BY <1>1, <2>1, StandsIdle DEF Final
  <2> QED BY <2>1, <2>2
<1>4. \A d \in Calls \ {c} : Alike(call[d], call'[d])
  BY <1>1 DEF Alike
<1>5. StandInv'
  BY <1>3, <1>4, StandKept DEF Basic
<1>6. LockInv' /\ lock' \in [Procs -> Calls \cup {None}]
  <2>1. CASE call[c].pc \in Locked /\ Release(c)
    BY <1>1, <1>2, <2>1, LockLeft DEF Basic
  <2>2. CASE call[c].pc \notin Locked /\ lock' = lock
    <3>1. \A d \in Calls : call'[d].pc \in Locked <=> call[d].pc \in Locked
      BY <1>1, <1>2, <2>2
    <3> QED BY <2>2, <3>1, LockStays DEF Basic, TypeInv
  <2> QED BY <2>1, <2>2
<1>7. TypeInv'
  BY <1>1, <1>6 DEF Basic, TypeInv, Procs
<1> QED
  BY <1>5, <1>6, <1>7 DEF Basic

LEMMA BasicBegin ==
    ASSUME Basic, NEW c \in Calls, NEW q \in Request, q.tool \in VaultTools, Begin(c, q)
    PROVE  Basic'
<1> DEFINE s == call'[c]
<1>1. /\ call[c].pc = "idle" /\ call' \in [Calls -> CallRec]
      /\ \A d \in Calls \ {c} : call'[d] = call[d]
      /\ s.pc \in {"waiting", "failed"} /\ s.req = q
      /\ s.diff = <<>> /\ s.at = 1 /\ s.by = None /\ s.put = FALSE /\ s.ver = 0
      /\ s.left = {} /\ s.touched = {} /\ s.stale = FALSE
      /\ (s.pc = "failed" \/ q.tool \notin FromIndex) => s.ops = <<>> /\ s.base = None
      /\ (s.pc = "waiting" /\ q.tool \in FromIndex) =>
           s.ops = Ops(c, q, vault) /\ s.base = vault /\ ~Unfit(q, vault)
  BY BeginEffect DEF Basic
<1>2. /\ cast' = cast /\ vault' = vault /\ history' = history /\ audit' = audit /\ pending' = pending
      /\ lock' = lock /\ faults' = faults /\ crashes' = crashes /\ edits' = edits /\ lost' = lost
  BY DEF Begin
<1>3. vault \in [Notes -> Texts]
  BY DEF Basic, TypeInv
<1>4. Stands(c, s) /\ Logged(s, history')
  <2>1. PICK z : z = s
    OBVIOUS
  <2> HIDE DEF s
  <2>2. Stands(c, z)
    BY <1>1, <1>3, <2>1 DEF Stands, Grounded, Locked, NotYet, Committing, Undoing
  <2>3. Logged(s, history')
    BY <1>1 DEF Logged
  <2> QED BY <2>1, <2>2, <2>3
<1>5. StandInv'
  <2>1. \A d \in Calls \ {c} : Alike(call[d], call'[d])
    BY <1>1 DEF Alike
  <2>2. \A i \in DOMAIN audit : audit[i].ver \in DOMAIN history
    BY DEF Basic, StandInv
  <2> QED BY <1>2, <1>4, <2>1, <2>2, StandKept DEF Basic
<1>6. LockInv'
  <2>1. \A d \in Calls : call'[d].pc \in Locked <=> call[d].pc \in Locked
    BY <1>1 DEF Locked
  <2> QED BY <1>2, <2>1, LockStays DEF Basic
<1>7. TypeInv'
  BY <1>1, <1>2 DEF Basic, TypeInv, Procs
<1> QED
  BY <1>5, <1>6, <1>7 DEF Basic

\* A tool that answers at once.
LEMMA BasicDone ==
    ASSUME Basic, NEW c \in Calls, NEW q \in Request, NEW a \in {"ok", "failed"}, Done(c, q, a)
    PROVE  /\ Basic'
           /\ call[c].pc = "idle"
           /\ \A d \in Calls \ {c} : call'[d] = call[d]
           /\ call'[c].pc = a /\ IdleLike(call'[c])
<1> DEFINE s == [Idle EXCEPT !.pc = a, !.req = q]
<1>1. call[c].pc = "idle" /\ call' = [call EXCEPT ![c] = s] /\ call \in [Calls -> CallRec]
  BY DEF Done, Basic, TypeInv
<1>2. s \in CallRec /\ s.pc = a /\ IdleLike(s)
  BY IdleTyped DEF Final
<1> HIDE DEF s
<1>3. call' \in [Calls -> CallRec] /\ call'[c] = s /\ \A d \in Calls \ {c} : call'[d] = call[d]
  BY <1>1, <1>2
<1>4. /\ cast' = cast /\ vault' = vault /\ history' = history /\ audit' = audit /\ pending' = pending
      /\ lock' = lock /\ faults' = faults /\ crashes' = crashes /\ edits' = edits /\ lost' = lost
  BY DEF Done
<1>5. Stands(c, call'[c]) /\ Logged(call'[c], history')
  <2>1. Stands(c, s) /\ \A versions : Logged(s, versions)
    BY <1>2, StandsIdle DEF Final
  <2> QED BY <1>3, <2>1
<1>6. StandInv'
  <2>1. \A d \in Calls \ {c} : Alike(call[d], call'[d])
    BY <1>3 DEF Alike
  <2>2. \A i \in DOMAIN audit : audit[i].ver \in DOMAIN history
    BY DEF Basic, StandInv
  <2> QED BY <1>4, <1>5, <2>1, <2>2, StandKept DEF Basic
<1>7. LockInv'
  <2>1. \A d \in Calls : call'[d].pc \in Locked <=> call[d].pc \in Locked
    BY <1>1, <1>2, <1>3 DEF Locked
  <2> QED BY <1>4, <2>1, LockStays DEF Basic
<1>8. TypeInv'
  BY <1>3, <1>4 DEF Basic, TypeInv, Procs
<1> QED
  BY <1>1, <1>2, <1>3, <1>6, <1>7, <1>8 DEF Basic

\* What stays as it is, of what the types are about.
LEMMA BasicTypes ==
    ASSUME Basic
    PROVE  /\ faults \in 0..cast.faults /\ pending \in [Procs -> SUBSET Change]
           /\ audit \in Seq(AuditLine) /\ \A i \in DOMAIN audit : audit[i].ver \in DOMAIN history
           /\ cast.faults \in Nat /\ cast.crashes \in Nat
           /\ vault \in [Notes -> Texts] /\ call \in [Calls -> CallRec]
<1>1. cast \in Casts
  BY DEF Basic, TypeInv
<1>2. PICK k \in Casts : k = cast
  BY <1>1
<1>3. k.faults \in Nat /\ k.crashes \in Nat
  BY CastTypes
<1> QED
  BY <1>2, <1>3 DEF Basic, TypeInv, StandInv

LEMMA BasicLockFor ==
    ASSUME Basic, NEW c \in Calls, LockFor(c)
    PROVE  Basic'
<1> DEFINE r == call[c]
           s == call'[c]
<1>1. r.pc = "waiting" /\ lock[Proc(c)] = None /\ r.req.tool \notin {"commit", "revert"}
  BY DEF LockFor
<1>2. /\ cast' = cast /\ vault' = vault /\ history' = history /\ audit' = audit /\ pending' = pending
      /\ faults' = faults /\ crashes' = crashes /\ edits' = edits /\ lost' = lost
  BY DEF LockFor
<1>3. CASE r.req.tool \in FromNote /\ Unfit(r.req, vault)
  <2>1. Answer(c, "failed") /\ lock' = lock
    BY <1>3 DEF LockFor
  <2> QED BY <1>1, <1>2, <2>1, BasicTypes, BasicAnswer DEF Final, Locked
<1>4. CASE ~(r.req.tool \in FromNote /\ Unfit(r.req, vault))
  <2>1. /\ call' \in [Calls -> CallRec] /\ \A d \in Calls \ {c} : call'[d] = call[d]
        /\ s.pc = "propose"
        /\ s.ops = (IF r.req.tool \in FromIndex THEN r.ops ELSE Ops(c, r.req, vault))
        /\ s.base = (IF r.req.tool \in FromNote THEN vault ELSE r.base)
        /\ s.req = r.req /\ s.diff = r.diff /\ s.at = r.at /\ s.by = r.by /\ s.put = r.put
        /\ s.ver = r.ver /\ s.left = r.left /\ s.touched = r.touched /\ s.stale = r.stale
    BY <1>4, LockForEffect DEF Basic
  <2>2. lock' = [lock EXCEPT ![Proc(c)] = c]
    BY <1>4 DEF LockFor
  <2>3. LockInv' /\ lock' \in [Procs -> Calls \cup {None}]
    BY <1>1, <1>2, <2>1, <2>2, LockTaken DEF Basic, Locked
  <2>4. Stands(c, s) /\ Logged(s, history')
    <3>1. Stands(c, r)
      BY DEF Basic, StandInv
    <3>2. PICK x : x = r
      OBVIOUS
    <3>3. PICK z : z = s
      OBVIOUS
    <3>4. vault \in [Notes -> Texts]
      BY BasicTypes
    <3> HIDE DEF r, s
    <3>5. Stands(c, z)
      <4>1. z.req \in Request /\ z.req.tool \in VaultTools /\ z.put = FALSE /\ z.by = None
        BY <1>1, <2>1, <3>1, <3>2, <3>3 DEF Stands, NotYet
      <4>2. Grounded(c, z)
        BY <1>1, <1>4, <2>1, <3>1, <3>2, <3>3, <3>4 DEF Stands, Grounded, FromIndex, FromNote
      <4>3. z.req.tool \notin {"commit", "revert"} \cup FromIndex \cup FromNote => z.ops = Ops(c, z.req, z.base)
        <5>1. z.req.tool \notin FromIndex \cup FromNote =>
                z.ops = Ops(c, z.req, vault) /\ z.base = r.base
          BY <2>1, <3>3
        <5>2. ASSUME z.req.tool \in VaultTools \ ({"commit", "revert"} \cup FromIndex \cup FromNote),
                     NEW f, NEW g
              PROVE  Ops(c, z.req, f) = Ops(c, z.req, g)
          BY <5>2 DEF Ops, FromIndex, FromNote, VaultTools
        <5> QED BY <4>1, <5>1, <5>2
      <4> QED BY <1>1, <2>1, <3>3, <4>1, <4>2, <4>3 DEF Stands, Committing, Undoing, Locked
    <3>6. Logged(s, history')
      BY <2>1 DEF Logged
    <3> QED BY <3>3, <3>5, <3>6
  <2>5. StandInv'
    <3>1. \A d \in Calls \ {c} : Alike(call[d], call'[d])
      BY <2>1 DEF Alike
    <3> QED BY <1>2, <2>4, <3>1, BasicTypes, StandKept DEF Basic
  <2>6. TypeInv'
    BY <1>2, <2>1, <2>3 DEF Basic, TypeInv, Procs
  <2> QED BY <2>3, <2>5, <2>6 DEF Basic
<1> QED
  BY <1>3, <1>4

LEMMA BasicPropose ==
    ASSUME Basic, NEW c \in Calls, Propose(c)
    PROVE  Basic'
<1> DEFINE r == call[c]
           s == call'[c]
           change == [ops |-> r.ops, by |-> c, put |-> FALSE]
<1>1. r.pc = "propose" /\ r \in CallRec /\ Stands(c, r) /\ Proc(c) \in Procs
  BY ProcTyped DEF Propose, Basic, TypeInv, StandInv
<1>2. /\ cast' = cast /\ vault' = vault /\ history' = history /\ audit' = audit
      /\ faults' = faults /\ crashes' = crashes /\ edits' = edits /\ lost' = lost
  BY DEF Propose
<1>3. change \in Change
  BY <1>1 DEF CallRec, Change
<1>4. CASE \E i \in DOMAIN r.ops : Refused(r.ops[i])
  <2>1. Answer(c, "failed") /\ Release(c) /\ pending' = pending
    BY <1>4 DEF Propose
  <2> QED BY <1>1, <1>2, <2>1, BasicTypes, BasicAnswer DEF Final, Locked
<1>5. CASE ~\E i \in DOMAIN r.ops : Refused(r.ops[i])
  <2>1. pending' = [pending EXCEPT ![Proc(c)] = @ \cup {change}]
    BY <1>5 DEF Propose
  <2>2. pending' \in [Procs -> SUBSET Change]
    <3> HIDE DEF change
    <3> QED BY <1>1, <1>3, <2>1, BasicTypes
  <2>3. CASE r.req.tool = "propose"
    <3>1. Answer(c, "ok") /\ Release(c)
      BY <1>5, <2>3 DEF Propose
    <3> QED BY <1>1, <1>2, <2>2, <3>1, BasicTypes, BasicAnswer DEF Final, Locked
  <2>4. CASE r.req.tool # "propose"
    <3>1. /\ call' \in [Calls -> CallRec] /\ \A d \in Calls \ {c} : call'[d] = call[d]
          /\ s.pc = "diff" /\ s.by = c
          /\ s.req = r.req /\ s.ops = r.ops /\ s.base = r.base /\ s.diff = r.diff /\ s.at = r.at
          /\ s.put = r.put /\ s.ver = r.ver /\ s.left = r.left /\ s.touched = r.touched
          /\ s.stale = r.stale
      BY <1>5, <2>4, ProposeEffect DEF Basic
    <3>2. lock' = lock
      BY <1>5, <2>4 DEF Propose
    <3>3. LockInv'
      <4>1. \A d \in Calls : call'[d].pc \in Locked <=> call[d].pc \in Locked
        BY <1>1, <3>1 DEF Locked
      <4> QED BY <1>2, <3>2, <4>1, LockStays DEF Basic
    <3>4. Stands(c, s) /\ Logged(s, history')
      <4>1. PICK z : z = s
        OBVIOUS
      <4>2. PICK x : x = r
        OBVIOUS
      <4>3. Stands(c, x) /\ x.pc = "propose" /\ x.req.tool # "propose"
        BY <1>1, <2>4, <4>2
      <4>4. z.pc = "diff" /\ z.by = c /\ z.req = x.req /\ z.ops = x.ops /\ z.base = x.base
        BY <3>1, <4>1, <4>2
      <4>5. Stands(c, z)
        BY <4>3, <4>4 DEF Stands, Grounded, Locked, NotYet, Committing, Undoing
      <4>6. Logged(z, history')
        BY <4>4 DEF Logged
      <4> QED BY <4>1, <4>5, <4>6
    <3>5. StandInv'
      <4>1. \A d \in Calls \ {c} : Alike(call[d], call'[d])
        BY <3>1 DEF Alike
      <4> QED BY <1>2, <3>4, <4>1, BasicTypes, StandKept DEF Basic
    <3>6. TypeInv'
      BY <1>2, <2>2, <3>1, <3>2 DEF Basic, TypeInv, Procs
    <3> QED BY <3>3, <3>5, <3>6 DEF Basic
  <2> QED BY <2>3, <2>4
<1> QED
  BY <1>4, <1>5

LEMMA BasicLockForCommit ==
    ASSUME Basic, NEW c \in Calls, LockForCommit(c)
    PROVE  Basic'
<1> DEFINE r == call[c]
           s == call'[c]
<1>1. r.pc = "waiting" /\ lock[Proc(c)] = None /\ r.req.tool = "commit" /\ Proc(c) \in Procs /\ Stands(c, r)
  BY ProcTyped DEF LockForCommit, Basic, StandInv
<1>2. /\ cast' = cast /\ vault' = vault /\ history' = history /\ audit' = audit /\ pending' = pending
      /\ faults' = faults /\ crashes' = crashes /\ edits' = edits /\ lost' = lost
  BY DEF LockForCommit
<1>3. CASE Answer(c, "failed") /\ lock' = lock
  BY <1>1, <1>2, <1>3, BasicTypes, BasicAnswer DEF Final, Locked
<1>4. CASE \E change \in pending[Proc(c)] :
             /\ lock' = [lock EXCEPT ![Proc(c)] = c]
             /\ call' = [call EXCEPT ![c].pc = "diff", ![c].ops = change.ops,
                                     ![c].by = change.by, ![c].put = change.put]
  <2>1. PICK change \in pending[Proc(c)] :
             /\ lock' = [lock EXCEPT ![Proc(c)] = c]
             /\ call' = [call EXCEPT ![c].pc = "diff", ![c].ops = change.ops,
                                     ![c].by = change.by, ![c].put = change.put]
    BY <1>4
  <2>2. change \in Change
    BY <1>1, BasicTypes
  <2>3. /\ call' \in [Calls -> CallRec] /\ \A d \in Calls \ {c} : call'[d] = call[d]
        /\ s.pc = "diff" /\ s.ops = change.ops /\ s.by = change.by /\ s.put = change.put
        /\ s.req = r.req /\ s.base = r.base
    BY <2>1, <2>2, LockForCommitEffect DEF Basic
  <2>4. LockInv' /\ lock' \in [Procs -> Calls \cup {None}]
    BY <1>1, <1>2, <2>1, <2>3, LockTaken DEF Basic, Locked
  <2>5. Stands(c, s) /\ Logged(s, history')
    <3>1. PICK z : z = s
      OBVIOUS
    <3>2. PICK x : x = r
      OBVIOUS
    <3>3. Stands(c, x) /\ x.pc = "waiting" /\ x.req.tool = "commit"
      BY <1>1, <3>2
    <3>4. z.pc = "diff" /\ z.by \in Calls /\ z.req = x.req /\ z.base = x.base
      BY <2>2, <2>3, <3>1, <3>2 DEF Change
    <3>5. Stands(c, z)
      BY <3>3, <3>4 DEF Stands, Grounded, Locked, NotYet, Committing, Undoing, FromIndex, FromNote
    <3>6. Logged(z, history')
      BY <3>4 DEF Logged
    <3> QED BY <3>1, <3>5, <3>6
  <2>6. StandInv'
    <3>1. \A d \in Calls \ {c} : Alike(call[d], call'[d])
      BY <2>3 DEF Alike
    <3> QED BY <1>2, <2>5, <3>1, BasicTypes, StandKept DEF Basic
  <2>7. TypeInv'
    BY <1>2, <2>3, <2>4 DEF Basic, TypeInv, Procs
  <2> QED BY <2>4, <2>6, <2>7 DEF Basic
<1> QED
  BY <1>3, <1>4 DEF LockForCommit

LEMMA BasicDiff ==
    ASSUME Basic, NEW c \in Calls, Diff(c)
    PROVE  Basic'
<1> DEFINE r == call[c]
           s == call'[c]
<1>1. r.pc = "diff" /\ r \in CallRec /\ Stands(c, r) /\ Proc(c) \in Procs
  BY ProcTyped DEF Diff, Basic, TypeInv, StandInv
<1>2. /\ cast' = cast /\ vault' = vault /\ history' = history /\ audit' = audit /\ pending' = pending
      /\ faults' = faults /\ crashes' = crashes /\ edits' = edits /\ lost' = lost
  BY DEF Diff
<1>3. CASE cast.scope[Proc(c)] = "ro" \/ \E i \in DOMAIN r.ops : Refused(r.ops[i])
  <2>1. Answer(c, "failed") /\ Release(c)
    BY <1>3 DEF Diff
  <2> QED BY <1>1, <1>2, <2>1, BasicTypes, BasicAnswer DEF Final, Locked
<1>4. CASE ~(cast.scope[Proc(c)] = "ro" \/ \E i \in DOMAIN r.ops : Refused(r.ops[i]))
  <2>1. /\ call' \in [Calls -> CallRec] /\ \A d \in Calls \ {c} : call'[d] = call[d]
        /\ s.pc = (IF r.ops = <<>> THEN "version" ELSE "write") /\ s.diff = BuildDiff(r.ops)
        /\ s.at = 1 /\ s.by = r.by /\ s.req = r.req
    BY <1>4, DiffEffect DEF Basic
  <2>2. lock' = lock
    BY <1>4 DEF Diff
  <2>3. LockInv'
    <3>1. \A d \in Calls : call'[d].pc \in Locked <=> call[d].pc \in Locked
      BY <1>1, <2>1 DEF Locked
    <3> QED BY <1>2, <2>2, <3>1, LockStays DEF Basic
  <2>4. r.ops # <<>> => 1 \in 1..Len(s.diff)
    <3>1. PICK ops : ops = r.ops
      OBVIOUS
    <3>2. ops \in Seq(Operation) /\ vault \in [Notes -> Texts] /\ \A i \in DOMAIN ops : ~Refused(ops[i])
      BY <1>1, <1>4, <3>1, BasicTypes DEF CallRec
    <3>3. Len(BuildDiff(ops)) = Len(ops)
      BY <3>2, DiffShape
    <3>4. ops # <<>> => 1 \in 1..Len(ops)
      BY <3>2
    <3> QED BY <2>1, <3>1, <3>3, <3>4
  <2>5. Stands(c, s) /\ Logged(s, history')
    <3>1. PICK z : z = s
      OBVIOUS
    <3>2. PICK x : x = r
      OBVIOUS
    <3>3. Stands(c, x) /\ x.pc = "diff"
      BY <1>1, <3>2
    <3>4. z.pc \in {"version", "write"} /\ z.by = x.by /\ z.req = x.req /\ z.at = 1
          /\ (z.pc = "write" => 1 \in 1..Len(z.diff))
      BY <2>1, <2>4, <3>1, <3>2
    <3>5. Stands(c, z)
      BY <3>3, <3>4 DEF Stands, Grounded, Locked, NotYet, Committing, Undoing
    <3>6. Logged(z, history')
      BY <3>4 DEF Logged
    <3> QED BY <3>1, <3>5, <3>6
  <2>6. StandInv'
    <3>1. \A d \in Calls \ {c} : Alike(call[d], call'[d])
      BY <2>1 DEF Alike
    <3> QED BY <1>2, <2>5, <3>1, BasicTypes, StandKept DEF Basic
  <2>7. TypeInv'
    BY <1>2, <2>1, <2>2 DEF Basic, TypeInv, Procs
  <2> QED BY <2>3, <2>6, <2>7 DEF Basic
<1> QED
  BY <1>3, <1>4

\* A call at work goes on or, its mutex released, ends.
LEMMA BasicMove ==
    ASSUME Basic, NEW c \in Calls, call[c].pc \in Locked,
           call' \in [Calls -> CallRec], \A d \in Calls \ {c} : Alike(call[d], call'[d]),
           Stands(c, call'[c]), Logged(call'[c], history'),
           \/ call'[c].pc \in Locked /\ lock' = lock
           \/ call'[c].pc \notin Locked /\ Release(c),
           cast' = cast, crashes' = crashes, edits' = edits,
           vault' \in [Notes -> Texts], lost' \subseteq Marks, history' \in Seq(Snapshot),
           \A v \in DOMAIN history : v \in DOMAIN history' /\ history'[v] = history[v],
           audit' \in Seq(AuditLine), \A i \in DOMAIN audit' : audit'[i].ver \in DOMAIN history',
           pending' \in [Procs -> SUBSET Change], faults' \in 0..cast.faults
    PROVE  Basic'
<1>1. StandInv'
  BY StandKept DEF Basic
<1>2. \A d \in Calls \ {c} : call'[d].pc = call[d].pc
  BY DEF Alike
<1>3. LockInv' /\ lock' \in [Procs -> Calls \cup {None}]
  <2>1. CASE call'[c].pc \in Locked /\ lock' = lock
    <3>1. \A d \in Calls : call'[d].pc \in Locked <=> call[d].pc \in Locked
      BY <1>2, <2>1
    <3> QED BY <2>1, <3>1, LockStays DEF Basic, TypeInv
  <2>2. CASE call'[c].pc \notin Locked /\ Release(c)
    BY <1>2, <2>2, LockLeft DEF Basic
  <2> QED BY <2>1, <2>2
<1>4. TypeInv'
  BY <1>3 DEF Basic, TypeInv, Procs
<1> QED
  BY <1>1, <1>3, <1>4 DEF Basic

\* A mark is in the files when it is in one of them.
LEMMA MarksAre ==
    ASSUME NEW files \in [Notes -> Texts]
    PROVE  /\ MarksOf(files) \subseteq Marks
           /\ \A b : b \in MarksOf(files) <=> \E n \in Notes : b \in MarksIn(files[n])
<1>1. ASSUME NEW n \in Notes
      PROVE  MarksIn(files[n]) \subseteq Marks
    <2>1. CASE files[n] = None
      BY <2>1 DEF MarksIn
    <2>2. CASE files[n] # None
      <3>1. files[n] \in Texts
        OBVIOUS
      <3>2. files[n].body \in Body /\ files[n].tags \in SUBSET Marks
            /\ MarksIn(files[n]) = files[n].body.marks \cup files[n].tags
        BY <2>2, <3>1, TextParts
      <3> QED BY <3>2 DEF Body
    <2> QED BY <2>1, <2>2
<1>2. MarksOf(files) = UNION {MarksIn(files[n]) : n \in Notes}
  BY DEF MarksOf, MarksIn
<1> QED
  BY <1>1, <1>2

LEMMA PutTyped ==
    ASSUME Basic, NEW c \in Calls, NEW n \in Notes, NEW t \in Texts, Put(c, n, t)
    PROVE  /\ vault' = [vault EXCEPT ![n] = t] /\ vault' \in [Notes -> Texts]
           /\ lost' \subseteq Marks
<1>1. vault \in [Notes -> Texts] /\ lost \subseteq Marks
  BY DEF Basic, TypeInv
<1>2. PICK gone : gone = (MarksOf(vault) \ MarksOf([vault EXCEPT ![n] = t])) \ {c}
  OBVIOUS
<1>3. gone \subseteq Marks
  BY <1>1, <1>2, MarksAre
<1>4. lost' = lost \/ lost' = lost \cup gone
  BY <1>2 DEF Put
<1>5. vault' = [vault EXCEPT ![n] = t]
  BY DEF Put
<1> QED
  BY <1>1, <1>3, <1>4, <1>5

LEMMA BasicWrite ==
    ASSUME Basic, NEW c \in Calls, Write(c)
    PROVE  Basic'
<1> DEFINE r == call[c]
           s == call'[c]
<1>1. /\ r.pc = "write" /\ r.at \in DOMAIN r.diff /\ r.diff[r.at] \in Entry
      /\ call' \in [Calls -> CallRec]
      /\ s.pc = (IF r.at = Len(r.diff) THEN "version" ELSE "write")
      /\ s.at = (IF r.at = Len(r.diff) THEN r.at ELSE r.at + 1)
      /\ s.req = r.req /\ s.ops = r.ops /\ s.base = r.base /\ s.diff = r.diff /\ s.by = r.by
      /\ Told(c, r.diff[r.at].note)
  BY WriteEffect DEF Basic
<1>2. PICK n \in Notes, t \in Texts : n = r.diff[r.at].note /\ t = r.diff[r.at].after
  BY <1>1 DEF Entry
<1>3. Put(c, n, t)
  BY <1>2 DEF Write
<1>4. vault' \in [Notes -> Texts] /\ lost' \subseteq Marks
  BY <1>3, PutTyped
<1>5. /\ cast' = cast /\ history' = history /\ audit' = audit /\ pending' = pending /\ lock' = lock
      /\ faults' = faults /\ crashes' = crashes /\ edits' = edits
  BY DEF Write
<1>6. Stands(c, r) /\ r.diff \in Seq(Entry)
  BY DEF Basic, StandInv, TypeInv, CallRec
<1>7. Stands(c, s) /\ Logged(s, history')
  <2>1. PICK x : x = r
    OBVIOUS
  <2>2. PICK z : z = s
    OBVIOUS
  <2>3. Stands(c, x) /\ x.pc = "write" /\ x.at \in 1..Len(x.diff) /\ Len(x.diff) \in Nat
    BY <1>1, <1>6, <2>1 DEF Stands
  <2>4. /\ z.pc = (IF x.at = Len(x.diff) THEN "version" ELSE "write")
        /\ z.at = (IF x.at = Len(x.diff) THEN x.at ELSE x.at + 1)
        /\ z.req = x.req /\ z.ops = x.ops /\ z.base = x.base /\ z.diff = x.diff /\ z.by = x.by
    BY <1>1, <2>1, <2>2
  <2>5. z.pc = "write" => z.at \in 1..Len(z.diff)
    BY <2>3, <2>4
  <2>6. Stands(c, z)
    BY <2>3, <2>4, <2>5 DEF Stands, Grounded, Locked, NotYet, Committing, Undoing
  <2>7. Logged(z, history')
    BY <2>4 DEF Logged
  <2> QED BY <2>2, <2>6, <2>7
<1>8. \A d \in Calls \ {c} : Alike(call[d], call'[d])
  BY <1>1 DEF Told
<1>9. r.pc \in Locked /\ s.pc \in Locked
  BY <1>1 DEF Locked
<1> HIDE DEF r, s
<1>10. call[c].pc \in Locked /\ call'[c].pc \in Locked /\ Stands(c, call'[c]) /\ Logged(call'[c], history')
       /\ call' \in [Calls -> CallRec]
  BY <1>1, <1>7, <1>9 DEF r, s
<1> QED
  BY <1>4, <1>5, <1>8, <1>10, BasicMove, BasicTypes DEF Basic, TypeInv

LEMMA FailCounts ==
    ASSUME Basic, Fail
    PROVE  faults' \in 0..cast.faults
BY BasicTypes DEF Fail, MayFail

LEMMA StillPendingTyped ==
    ASSUME Basic, NEW c \in Calls, StillPending(c)
    PROVE  /\ pending' \in [Procs -> SUBSET Change]
           /\ \A p \in Procs \ {Proc(c)} : pending'[p] = pending[p]
           /\ pending'[Proc(c)] = (pending[Proc(c)] \ Committed(c))
                \cup {[change EXCEPT !.put = TRUE] : change \in Committed(c)}
<1>1. pending \in [Procs -> SUBSET Change] /\ Proc(c) \in Procs
  BY BasicTypes, ProcTyped DEF Basic
<1>2. PICK new : new = (pending[Proc(c)] \ Committed(c))
                \cup {[change EXCEPT !.put = TRUE] : change \in Committed(c)}
  OBVIOUS
<1>3. Committed(c) \subseteq pending[Proc(c)]
  BY DEF Committed
<1>4. \A change \in Change : [change EXCEPT !.put = TRUE] \in Change
  BY DEF Change
<1>5. new \subseteq Change
  BY <1>1, <1>2, <1>3, <1>4
<1>6. pending' = [pending EXCEPT ![Proc(c)] = new]
  BY <1>2 DEF StillPending
<1> QED
  BY <1>1, <1>2, <1>5, <1>6

LEMMA BasicWriteFails ==
    ASSUME Basic, NEW c \in Calls, WriteFails(c)
    PROVE  Basic'
<1> DEFINE r == call[c]
           s == call'[c]
<1>1. /\ cast' = cast /\ vault' = vault /\ history' = history /\ audit' = audit
      /\ crashes' = crashes /\ edits' = edits /\ lost' = lost /\ r.pc = "write"
      /\ faults' \in 0..cast.faults /\ r \in CallRec /\ Stands(c, r)
  BY FailCounts DEF WriteFails, Basic, TypeInv, StandInv
<1>2. CASE r.at = 1
  <2>1. Answer(c, "failed") /\ Release(c) /\ pending' = pending
    BY <1>2 DEF WriteFails
  <2> QED BY <1>1, <2>1, BasicTypes, BasicAnswer DEF Final, Locked
<1>3. CASE r.at # 1
  <2>1. /\ call' \in [Calls -> CallRec] /\ \A d \in Calls \ {c} : call'[d] = call[d]
        /\ s.pc = "restore" /\ s.ver = 1
        /\ s.req = r.req /\ s.ops = r.ops /\ s.base = r.base /\ s.diff = r.diff /\ s.at = r.at
        /\ s.by = r.by /\ s.stuck = {}
    BY <1>3, WriteFailsEffect DEF Basic
  <2>2. StillPending(c) /\ lock' = lock
    BY <1>3 DEF WriteFails
  <2>3. Stands(c, s) /\ Logged(s, history')
    <3>1. PICK x : x = r
      OBVIOUS
    <3>2. PICK z : z = s
      OBVIOUS
    <3>3. Stands(c, x) /\ x.pc = "write" /\ x.at \in 1..Len(x.diff) /\ x.at # 1 /\ x.diff \in Seq(Entry)
      BY <1>1, <1>3, <3>1 DEF Stands, CallRec
    <3>4. /\ z.pc = "restore" /\ z.ver = 1 /\ z.at = x.at /\ z.stuck = {}
          /\ z.req = x.req /\ z.ops = x.ops /\ z.base = x.base /\ z.diff = x.diff /\ z.by = x.by
      BY <2>1, <3>1, <3>2
    <3>5. z.at \in 2..Len(z.diff) /\ z.ver \in 1..(z.at - 1)
      BY <3>3, <3>4
    <3>6. Stands(c, z)
      BY <3>3, <3>4, <3>5 DEF Stands, Grounded, Locked, NotYet, Committing, Undoing
    <3>7. Logged(z, history')
      BY <3>4 DEF Logged
    <3> QED BY <3>2, <3>6, <3>7
  <2>4. \A d \in Calls \ {c} : Alike(call[d], call'[d])
    BY <2>1 DEF Alike
  <2>5. r.pc \in Locked /\ s.pc \in Locked
    BY <1>1, <2>1 DEF Locked
  <2>6. pending' \in [Procs -> SUBSET Change]
    BY <2>2, StillPendingTyped
  <2>7. call[c].pc \in Locked /\ call'[c].pc \in Locked /\ Stands(c, call'[c]) /\ Logged(call'[c], history')
    BY <2>3, <2>5
  <2> HIDE DEF r, s
  <2> QED BY <1>1, <2>1, <2>2, <2>4, <2>6, <2>7, BasicMove, BasicTypes DEF Basic, TypeInv
<1> QED
  BY <1>2, <1>3

\* A rollback that goes on, or ends.
LEMMA RollsBack ==
    ASSUME NEW c \in Calls, NEW x \in CallRec, NEW z, NEW versions, Stands(c, x), x.pc = "restore",
           \A n \in z.stuck : n \in x.stuck \cup {x.diff[x.ver].note},
           x.ver = x.at - 1 => z.pc = "failed" /\ IdleLike(z),
           x.ver # x.at - 1 =>
             /\ z.pc = "restore" /\ z.ver = x.ver + 1 /\ z.req = x.req
             /\ z.ops = x.ops /\ z.base = x.base /\ z.diff = x.diff /\ z.by = x.by /\ z.at = x.at
    PROVE  Stands(c, z) /\ Logged(z, versions)
<1>1. /\ x.ver \in 1..(x.at - 1) /\ x.at \in 2..Len(x.diff) /\ x.ver \in Nat /\ x.at \in Nat
      /\ \A n \in x.stuck : \E j \in 1..(x.ver - 1) : x.diff[j].note = n
  BY DEF CallRec, Stands
<1>2. CASE x.ver = x.at - 1
  <2>1. z.pc = "failed" /\ IdleLike(z)
    BY <1>2
  <2> QED BY <2>1, StandsIdle DEF Final
<1>3. CASE x.ver # x.at - 1
  <2>1. /\ z.pc = "restore" /\ z.ver = x.ver + 1 /\ z.at = x.at
        /\ z.req = x.req /\ z.ops = x.ops /\ z.base = x.base /\ z.diff = x.diff /\ z.by = x.by
    BY <1>3
  <2>2. z.at \in 2..Len(z.diff) /\ z.ver \in 1..(z.at - 1)
    BY <1>1, <1>3, <2>1
  <2>3. ASSUME NEW n \in z.stuck
        PROVE  \E j \in 1..(z.ver - 1) : z.diff[j].note = n
    <3>1. CASE n \in x.stuck
      <4>1. PICK j \in 1..(x.ver - 1) : x.diff[j].note = n
        BY <1>1, <3>1
      <4>2. j \in 1..(z.ver - 1)
        BY <1>1, <2>1
      <4> QED BY <2>1, <4>1, <4>2
    <3>2. CASE n = x.diff[x.ver].note
      <4>1. x.ver \in 1..(z.ver - 1)
        BY <1>1, <2>1
      <4> QED BY <2>1, <3>2, <4>1
    <3> QED BY <3>1, <3>2
  <2>4. Stands(c, z)
    BY <2>1, <2>2, <2>3 DEF Stands, Grounded, Locked, NotYet, Committing, Undoing
  <2>5. Logged(z, versions)
    BY <2>1 DEF Logged
  <2> QED BY <2>4, <2>5
<1> QED BY <1>2, <1>3

LEMMA BasicRestore ==
    ASSUME Basic, NEW c \in Calls, Restore(c)
    PROVE  Basic'
<1> DEFINE r == call[c]
           s == call'[c]
<1>1. /\ r.pc = "restore" /\ r.ver \in DOMAIN r.diff /\ r.diff[r.ver] \in Entry
      /\ r.ver \in 1..(r.at - 1) /\ r.at \in 2..Len(r.diff)
      /\ call' \in [Calls -> CallRec] /\ s.req = r.req /\ s.stuck = r.stuck
      /\ r.ver = r.at - 1 => s.pc = "failed" /\ IdleLike(s) /\ Release(c)
      /\ r.ver # r.at - 1 =>
                /\ s.pc = "restore" /\ s.ver = r.ver + 1 /\ lock' = lock
                /\ s.ops = r.ops /\ s.base = r.base /\ s.diff = r.diff /\ s.by = r.by /\ s.at = r.at
      /\ Told(c, r.diff[r.ver].note)
  BY RestoreEffect DEF Basic
<1>2. PICK n \in Notes, t \in Texts : n = r.diff[r.ver].note /\ t = r.diff[r.ver].before
  BY <1>1 DEF Entry
<1>3. Put(c, n, t)
  BY <1>2 DEF Restore
<1>4. vault' \in [Notes -> Texts] /\ lost' \subseteq Marks
  BY <1>3, PutTyped
<1>5. /\ cast' = cast /\ history' = history /\ audit' = audit /\ pending' = pending
      /\ faults' = faults /\ crashes' = crashes /\ edits' = edits
  BY DEF Restore
<1>6. Stands(c, r) /\ r \in CallRec
  BY DEF Basic, StandInv, TypeInv
<1>7. Stands(c, s) /\ Logged(s, history')
  <2>1. \A m \in s.stuck : m \in r.stuck \cup {r.diff[r.ver].note}
    BY <1>1
  <2> HIDE DEF r, s
  <2> QED BY <1>1, <1>6, <2>1, RollsBack
<1>8. \A d \in Calls \ {c} : Alike(call[d], call'[d])
  BY <1>1 DEF Told
<1>9. /\ call[c].pc \in Locked
      /\ (call'[c].pc \in Locked /\ lock' = lock) \/ (call'[c].pc \notin Locked /\ Release(c))
  <2>1. CASE r.ver = r.at - 1
    BY <1>1, <2>1 DEF Locked
  <2>2. CASE r.ver # r.at - 1
    BY <1>1, <2>2 DEF Locked
  <2> QED BY <2>1, <2>2
<1>10. Stands(c, call'[c]) /\ Logged(call'[c], history') /\ call' \in [Calls -> CallRec]
  BY <1>1, <1>7
<1> HIDE DEF r, s
<1> QED
  BY <1>4, <1>5, <1>8, <1>9, <1>10, BasicMove, BasicTypes DEF Basic, TypeInv

LEMMA BasicRestoreFails ==
    ASSUME Basic, NEW c \in Calls, RestoreFails(c)
    PROVE  Basic'
<1> DEFINE r == call[c]
           s == call'[c]
<1>1. /\ r.pc = "restore"
      /\ call' \in [Calls -> CallRec] /\ s.req = r.req /\ s.stuck = r.stuck \cup {r.diff[r.ver].note}
      /\ r.ver = r.at - 1 => s.pc = "failed" /\ IdleLike(s) /\ Release(c)
      /\ r.ver # r.at - 1 =>
                /\ s.pc = "restore" /\ s.ver = r.ver + 1 /\ lock' = lock
                /\ s.ops = r.ops /\ s.base = r.base /\ s.diff = r.diff /\ s.by = r.by /\ s.at = r.at
      /\ \A d \in Calls \ {c} : call'[d] = call[d]
  BY RestoreFailsEffect DEF Basic
<1>2. /\ cast' = cast /\ vault' = vault /\ history' = history /\ audit' = audit /\ pending' = pending
      /\ crashes' = crashes /\ edits' = edits /\ lost' = lost /\ faults' \in 0..cast.faults
  BY FailCounts DEF RestoreFails
<1>3. Stands(c, r) /\ r \in CallRec
  BY DEF Basic, StandInv, TypeInv
<1>4. Stands(c, s) /\ Logged(s, history')
  <2>1. \A n \in s.stuck : n \in r.stuck \cup {r.diff[r.ver].note}
    BY <1>1
  <2> HIDE DEF r, s
  <2> QED BY <1>1, <1>3, <2>1, RollsBack
<1>5. \A d \in Calls \ {c} : Alike(call[d], call'[d])
  BY <1>1 DEF Alike
<1>6. /\ call[c].pc \in Locked
      /\ (call'[c].pc \in Locked /\ lock' = lock) \/ (call'[c].pc \notin Locked /\ Release(c))
  BY <1>1 DEF Locked
<1>7. Stands(c, call'[c]) /\ Logged(call'[c], history') /\ call' \in [Calls -> CallRec]
  BY <1>1, <1>4
<1> HIDE DEF r, s
<1> QED
  BY <1>2, <1>5, <1>6, <1>7, BasicMove, BasicTypes DEF Basic, TypeInv

LEMMA BasicVersion ==
    ASSUME Basic, NEW c \in Calls, Version(c)
    PROVE  /\ Basic'
           /\ \E snapshot \in Snapshot :
                /\ history' = Append(history, snapshot)
                /\ snapshot.before = Before(call[c].diff) /\ snapshot.by = call[c].by
                /\ snapshot.again = call[c].put
<1> DEFINE r == call[c]
           s == call'[c]
<1>1. r.pc = "version" /\ r \in CallRec /\ Stands(c, r) /\ history \in Seq(Snapshot)
  BY DEF Version, Basic, TypeInv, StandInv
<1>2. /\ cast' = cast /\ vault' = vault /\ audit' = audit /\ pending' = pending /\ lock' = lock
      /\ faults' = faults /\ crashes' = crashes /\ edits' = edits /\ lost' = lost
  BY DEF Version
<1>3. /\ call' \in [Calls -> CallRec] /\ \A d \in Calls \ {c} : call'[d] = call[d]
      /\ s.pc = "audit" /\ s.ver = Len(history) + 1
      /\ s.req = r.req /\ s.ops = r.ops /\ s.base = r.base /\ s.diff = r.diff /\ s.at = r.at
      /\ s.by = r.by
  BY VersionEffect DEF Basic
<1>4. PICK snapshot : snapshot = [before |-> Before(r.diff), after |-> AfterAll(r.diff),
                                  by |-> r.by, again |-> r.put]
  OBVIOUS
<1>5. snapshot \in Snapshot
  <2>1. /\ Before(r.diff) \in Files /\ AfterAll(r.diff) \in Files
        /\ DOMAIN AfterAll(r.diff) = DOMAIN Before(r.diff)
    BY <1>1, SnapshotTyped DEF CallRec
  <2>2. r.by \in Calls /\ r.put \in BOOLEAN
    BY <1>1 DEF Stands, Committing, CallRec
  <2> HIDE DEF r
  <2> QED BY <1>4, <2>1, <2>2 DEF Snapshot
<1>6. history' = Append(history, snapshot)
  BY <1>4 DEF Version
<1>7. /\ history' \in Seq(Snapshot) /\ Len(history') = Len(history) + 1 /\ Len(history) \in Nat
      /\ \A v \in DOMAIN history : v \in DOMAIN history' /\ history'[v] = history[v]
      /\ Len(history) + 1 \in DOMAIN history'
  BY <1>1, <1>5, <1>6
<1>8. Stands(c, s) /\ Logged(s, history')
  <2>1. PICK x : x = r
    OBVIOUS
  <2>2. PICK z : z = s
    OBVIOUS
  <2>3. Stands(c, x) /\ x.pc = "version"
    BY <1>1, <2>1
  <2>4. /\ z.pc = "audit" /\ z.req = x.req /\ z.ops = x.ops /\ z.base = x.base /\ z.by = x.by
        /\ z.ver \in DOMAIN history'
    BY <1>3, <1>7, <2>1, <2>2
  <2>5. Stands(c, z)
    BY <2>3, <2>4 DEF Stands, Grounded, Locked, NotYet, Committing, Undoing
  <2>6. Logged(z, history')
    BY <2>4 DEF Logged
  <2> QED BY <2>2, <2>5, <2>6
<1>9. \A d \in Calls \ {c} : Alike(call[d], call'[d])
  BY <1>3 DEF Alike
<1>10. \A i \in DOMAIN audit : audit[i].ver \in DOMAIN history'
  BY <1>7, BasicTypes
<1>11. /\ call[c].pc \in Locked /\ call'[c].pc \in Locked
       /\ Stands(c, call'[c]) /\ Logged(call'[c], history')
  BY <1>1, <1>3, <1>8 DEF Locked
<1>12. Basic'
  <2> HIDE DEF r, s
  <2> QED BY <1>2, <1>3, <1>7, <1>9, <1>10, <1>11, BasicMove, BasicTypes DEF Basic, TypeInv
<1> QED
  BY <1>4, <1>5, <1>6, <1>12

LEMMA BasicAudit ==
    ASSUME Basic, NEW c \in Calls, Audit(c)
    PROVE  Basic'
<1> DEFINE r == call[c]
<1>1. r.pc = "audit" /\ r \in CallRec /\ Proc(c) \in Procs
  BY ProcTyped DEF Audit, Basic, TypeInv
<1>2. /\ cast' = cast /\ vault' = vault /\ history' = history /\ faults' = faults
      /\ crashes' = crashes /\ edits' = edits /\ lost' = lost
      /\ Answer(c, "ok") /\ Release(c)
  BY DEF Audit
<1>3. r.ver \in DOMAIN history /\ r.ver \in Nat
  BY <1>1 DEF Basic, StandInv, Logged, CallRec
<1>4. PICK ver : ver = r.ver
  OBVIOUS
<1>5. audit' = Append(audit, [action |-> "commit", ver |-> ver])
  BY <1>4 DEF Audit
<1>6. [action |-> "commit", ver |-> ver] \in AuditLine
  BY <1>3, <1>4 DEF AuditLine
<1>7. audit' \in Seq(AuditLine) /\ \A i \in DOMAIN audit' : audit'[i].ver \in DOMAIN history
  BY <1>3, <1>4, <1>5, <1>6, BasicTypes
<1>8. pending' \in [Procs -> SUBSET Change]
  <2>1. PICK done : done = Committed(c)
    OBVIOUS
  <2>2. pending' = [pending EXCEPT ![Proc(c)] = @ \ done]
    BY <2>1 DEF Audit
  <2> QED BY <1>1, <2>2, BasicTypes
<1> QED
  BY <1>1, <1>2, <1>7, <1>8, BasicTypes, BasicAnswer DEF Final, Locked

LEMMA BasicLogFails ==
    ASSUME Basic, NEW c \in Calls, LogFails(c)
    PROVE  Basic'
<1>1. /\ cast' = cast /\ vault' = vault /\ history' = history /\ audit' = audit
      /\ crashes' = crashes /\ edits' = edits /\ lost' = lost
      /\ Answer(c, "failed") /\ Release(c) /\ call[c].pc \in Locked
  BY DEF LogFails, Locked
<1>2. pending' \in [Procs -> SUBSET Change] /\ faults' \in 0..cast.faults
  BY StillPendingTyped, FailCounts DEF LogFails
<1> QED
  BY <1>1, <1>2, BasicTypes, BasicAnswer DEF Final

LEMMA BasicLockForRevert ==
    ASSUME Basic, NEW c \in Calls, LockForRevert(c)
    PROVE  Basic'
<1> DEFINE r == call[c]
           s == call'[c]
<1>1. r.pc = "waiting" /\ lock[Proc(c)] = None /\ r.req.tool = "revert" /\ Proc(c) \in Procs /\ Stands(c, r)
  BY ProcTyped DEF LockForRevert, Basic, StandInv
<1>2. /\ cast' = cast /\ vault' = vault /\ history' = history /\ audit' = audit /\ pending' = pending
      /\ faults' = faults /\ crashes' = crashes /\ edits' = edits /\ lost' = lost
  BY DEF LockForRevert
<1>3. CASE Answer(c, "failed") /\ lock' = lock
  BY <1>1, <1>2, <1>3, BasicTypes, BasicAnswer DEF Final, Locked
<1>4. CASE \E v \in DOMAIN history :
             LET noted == DOMAIN history[v].before IN
             /\ lock' = [lock EXCEPT ![Proc(c)] = c]
             /\ call' = [call EXCEPT ![c].pc = IF noted = {} THEN "undone" ELSE "undo",
                                     ![c].ver = v, ![c].left = noted]
  <2>1. PICK v \in DOMAIN history :
             LET noted == DOMAIN history[v].before IN
             /\ lock' = [lock EXCEPT ![Proc(c)] = c]
             /\ call' = [call EXCEPT ![c].pc = IF noted = {} THEN "undone" ELSE "undo",
                                     ![c].ver = v, ![c].left = noted]
    BY <1>4
  <2>2. v \in Nat /\ DOMAIN history[v].before \subseteq Notes
    BY HistoryTyped DEF Basic
  <2>3. PICK those \in SUBSET Notes : those = DOMAIN history[v].before
    BY <2>2
  <2>4. /\ lock' = [lock EXCEPT ![Proc(c)] = c]
        /\ call' = [call EXCEPT ![c].pc = IF those = {} THEN "undone" ELSE "undo",
                                ![c].ver = v, ![c].left = those]
    BY <2>1, <2>3
  <2>5. PICK ver \in Nat, x \in Undoing : ver = v /\ x = (IF those = {} THEN "undone" ELSE "undo")
    BY <2>2 DEF Undoing
  <2>6. call' = [call EXCEPT ![c].pc = x, ![c].ver = ver, ![c].left = those]
    BY <2>4, <2>5
  <2>7. TypeInv
    BY DEF Basic
  <2>8. /\ call' \in [Calls -> CallRec] /\ \A d \in Calls \ {c} : call'[d] = call[d]
        /\ s.pc = x /\ s.ver = ver /\ s.left = those
        /\ s.req = r.req /\ s.ops = r.ops /\ s.base = r.base /\ s.by = r.by
    <3> DEFINE o == call[c]
               w == [o EXCEPT !.pc = x, !.ver = ver, !.left = those]
    <3>1. o \in CallRec /\ call \in [Calls -> CallRec]
      BY <2>7 DEF TypeInv
    <3>2. call' = [call EXCEPT ![c] = w]
      BY <2>6, <3>1
    <3>3. x \in PCs
      BY DEF PCs, Locked, Undoing
    <3>4. /\ w \in CallRec /\ w.pc = x /\ w.ver = ver /\ w.left = those
          /\ w.req = o.req /\ w.ops = o.ops /\ w.base = o.base /\ w.by = o.by
      BY <3>1, <3>3 DEF CallRec
    <3>5. call' \in [Calls -> CallRec] /\ call'[c] = w /\ \A d \in Calls \ {c} : call'[d] = call[d]
      <4> HIDE DEF w
      <4> QED BY <3>1, <3>2, <3>4
    <3> HIDE DEF w
    <3> QED BY <3>4, <3>5
  <2>9. s.pc \in Locked /\ s.pc \in Undoing
    BY <2>8 DEF Locked, Undoing
  <2>10. \A d \in Calls \ {c} : call'[d].pc = call[d].pc
    BY <2>8
  <2>11. LockInv' /\ lock' \in [Procs -> Calls \cup {None}]
    BY <1>1, <1>2, <2>4, <2>9, <2>10, LockTaken DEF Basic
  <2>12. Stands(c, s) /\ Logged(s, history')
    <3>1. PICK z : z = s
      OBVIOUS
    <3>2. PICK w : w = r
      OBVIOUS
    <3>3. Stands(c, w) /\ w.pc = "waiting" /\ w.req.tool = "revert"
      BY <1>1, <3>2
    <3>4. z.pc \in {"undo", "undone"} /\ z.req = w.req /\ z.base = w.base /\ z.ver = ver /\ z.left = those
      BY <2>8, <3>1, <3>2 DEF Undoing
    <3>5. Stands(c, z)
      BY <3>3, <3>4 DEF Stands, Grounded, Locked, NotYet, Committing, Undoing
    <3>6. Logged(z, history')
      <4>1. ver \in DOMAIN history' /\ those \subseteq DOMAIN history'[ver].before
        BY <1>2, <2>3, <2>5
      <4> QED BY <3>4, <4>1 DEF Logged
    <3> QED BY <3>1, <3>5, <3>6
  <2>13. StandInv'
    <3>1. \A d \in Calls \ {c} : Alike(call[d], call'[d])
      BY <2>8 DEF Alike
    <3> QED BY <1>2, <2>12, <3>1, BasicTypes, StandKept DEF Basic
  <2>14. TypeInv'
    BY <1>2, <2>8, <2>11 DEF Basic, TypeInv, Procs
  <2> QED BY <2>11, <2>13, <2>14 DEF Basic
<1> QED
  BY <1>3, <1>4 DEF LockForRevert

LEMMA BasicUndo ==
    ASSUME Basic, NEW c \in Calls, Undo(c)
    PROVE  Basic'
<1> DEFINE r == call[c]
           s == call'[c]
<1>1. /\ r.pc = "undo" /\ r.ver \in DOMAIN history
      /\ call' \in [Calls -> CallRec]
      /\ s.pc \in {"undo", "undone"} /\ s.left \subseteq r.left
      /\ s.req = r.req /\ s.ops = r.ops /\ s.base = r.base /\ s.by = r.by /\ s.ver = r.ver
  BY UndoEffect DEF Basic
<1>2. \E n \in r.left : Told(c, n)
  BY UndoEffect DEF Basic
<1>3. PICK n \in r.left : Put(c, n, history[r.ver].before[n])
  BY DEF Undo
<1>4. Stands(c, r) /\ Logged(r, history)
  BY DEF Basic, StandInv
<1>5. n \in Notes /\ history[r.ver].before[n] \in Texts
  <2>1. n \in DOMAIN history[r.ver].before
    BY <1>1, <1>4 DEF Logged
  <2> QED BY <1>1, <2>1, HistoryTyped DEF Basic
<1>6. vault' \in [Notes -> Texts] /\ lost' \subseteq Marks
  <2>1. PICK m \in Notes, t \in Texts : m = n /\ t = history[r.ver].before[n]
    BY <1>5
  <2>2. Put(c, m, t)
    BY <1>3, <2>1
  <2> QED BY <2>2, PutTyped
<1>7. /\ cast' = cast /\ history' = history /\ audit' = audit /\ pending' = pending /\ lock' = lock
      /\ faults' = faults /\ crashes' = crashes /\ edits' = edits
  BY DEF Undo
<1>8. Stands(c, s) /\ Logged(s, history')
  <2>1. PICK x : x = r
    OBVIOUS
  <2>2. PICK z : z = s
    OBVIOUS
  <2>3. Stands(c, x) /\ x.pc = "undo" /\ Logged(x, history)
    BY <1>1, <1>4, <2>1
  <2>4. /\ z.pc \in {"undo", "undone"} /\ z.req = x.req /\ z.ops = x.ops /\ z.base = x.base
        /\ z.by = x.by /\ z.ver = x.ver /\ z.left \subseteq x.left
    BY <1>1, <2>1, <2>2
  <2>5. Stands(c, z)
    BY <2>3, <2>4 DEF Stands, Grounded, Locked, NotYet, Committing, Undoing
  <2>6. Logged(z, history')
    BY <1>7, <2>3, <2>4 DEF Logged
  <2> QED BY <2>2, <2>5, <2>6
<1>9. \A d \in Calls \ {c} : Alike(call[d], call'[d])
  BY <1>2 DEF Told
<1>10. call[c].pc \in Locked /\ call'[c].pc \in Locked /\ Stands(c, call'[c]) /\ Logged(call'[c], history')
  BY <1>1, <1>8 DEF Locked
<1>11. call' \in [Calls -> CallRec]
  BY <1>1
<1> HIDE DEF r, s
<1> QED
  BY <1>6, <1>7, <1>9, <1>10, <1>11, BasicMove, BasicTypes DEF Basic, TypeInv

LEMMA BasicAuditUndo ==
    ASSUME Basic, NEW c \in Calls, AuditUndo(c)
    PROVE  Basic'
<1> DEFINE r == call[c]
<1>1. r.pc = "undone" /\ r \in CallRec
  BY DEF AuditUndo, Basic, TypeInv
<1>2. /\ cast' = cast /\ vault' = vault /\ history' = history /\ faults' = faults
      /\ crashes' = crashes /\ edits' = edits /\ lost' = lost /\ pending' = pending
      /\ Answer(c, "ok") /\ Release(c)
  BY DEF AuditUndo
<1>3. r.ver \in DOMAIN history /\ r.ver \in Nat
  BY <1>1 DEF Basic, StandInv, Logged, CallRec
<1>4. PICK ver : ver = r.ver
  OBVIOUS
<1>5. audit' = Append(audit, [action |-> "revert", ver |-> ver])
  BY <1>4 DEF AuditUndo
<1>6. [action |-> "revert", ver |-> ver] \in AuditLine
  BY <1>3, <1>4 DEF AuditLine
<1>7. audit' \in Seq(AuditLine) /\ \A i \in DOMAIN audit' : audit'[i].ver \in DOMAIN history
  BY <1>3, <1>4, <1>5, <1>6, BasicTypes
<1> QED
  BY <1>1, <1>2, <1>7, BasicTypes, BasicAnswer DEF Final, Locked

LEMMA BasicUndoFails ==
    ASSUME Basic, NEW c \in Calls, UndoFails(c)
    PROVE  Basic'
<1>1. /\ cast' = cast /\ vault' = vault /\ history' = history /\ audit' = audit
      /\ crashes' = crashes /\ edits' = edits /\ lost' = lost /\ pending' = pending
      /\ Answer(c, "failed") /\ Release(c) /\ call[c].pc \in Locked
  BY DEF UndoFails, Locked
<1>2. faults' \in 0..cast.faults
  BY FailCounts DEF UndoFails
<1> QED
  BY <1>1, <1>2, BasicTypes, BasicAnswer DEF Final

LEMMA BasicCrash ==
    ASSUME Basic, NEW p \in Procs, Crash(p)
    PROVE  Basic'
<1>1. /\ call' \in [Calls -> CallRec]
      /\ \A d \in Calls :
           \/ /\ Proc(d) = p /\ call[d].pc \notin Final \cup {"idle"}
              /\ call'[d].pc = "dead" /\ call'[d].req = call[d].req /\ IdleLike(call'[d])
           \/ /\ Proc(d) # p \/ call[d].pc \in Final \cup {"idle"}
              /\ call'[d] = call[d]
  BY CrashEffect DEF Basic
<1>2. /\ cast' = cast /\ vault' = vault /\ history' = history /\ audit' = audit
      /\ faults' = faults /\ edits' = edits /\ lost' = lost
      /\ lock' = [lock EXCEPT ![p] = None]
      /\ pending' = [pending EXCEPT ![p] = {}]
      /\ crashes < cast.crashes /\ crashes' = crashes + 1
  BY DEF Crash
<1>3. lock \in [Procs -> Calls \cup {None}] /\ crashes \in 0..cast.crashes
  BY DEF Basic, TypeInv
<1>4. lock' \in [Procs -> Calls \cup {None}] /\ pending' \in [Procs -> SUBSET Change]
      /\ crashes' \in 0..cast.crashes
  BY <1>2, <1>3, BasicTypes
<1>5. ASSUME NEW d \in Calls
      PROVE  /\ Stands(d, call'[d]) /\ Logged(call'[d], history')
             /\ call'[d].pc \in Locked <=> lock'[Proc(d)] = d
  <2>1. Proc(d) \in Procs /\ d # None
    BY ProcTyped, MarksAssumption DEF Basic
  <2>2. call[d].pc \in Locked <=> lock[Proc(d)] = d
    BY DEF Basic, LockInv
  <2>3. CASE /\ Proc(d) = p /\ call[d].pc \notin Final \cup {"idle"}
             /\ call'[d].pc = "dead" /\ IdleLike(call'[d])
    <3>1. PICK z : z = call'[d]
      OBVIOUS
    <3>2. Stands(d, z) /\ \A versions : Logged(z, versions)
      BY <2>3, <3>1, StandsIdle DEF Final
    <3>3. call'[d].pc \notin Locked /\ lock'[Proc(d)] # d
      BY <1>2, <1>3, <2>1, <2>3 DEF Locked
    <3> QED BY <3>1, <3>2, <3>3
  <2>4. CASE (Proc(d) # p \/ call[d].pc \in Final \cup {"idle"}) /\ call'[d] = call[d]
    <3>1. Stands(d, call'[d]) /\ Logged(call'[d], history')
      BY <1>2, <2>4 DEF Basic, StandInv
    <3>2. CASE Proc(d) # p
      BY <1>2, <1>3, <2>1, <2>2, <2>4, <3>1, <3>2
    <3>3. CASE Proc(d) = p
      <4>1. call[d].pc \notin Locked
        BY <2>4, <3>3 DEF Locked, Final
      <4> QED BY <1>2, <1>3, <2>1, <2>4, <3>1, <3>3, <4>1
    <3> QED BY <3>2, <3>3
  <2> QED BY <1>1, <2>3, <2>4
<1>6. LockInv'
  <2>1. \A d \in Calls : Proc(d)' = Proc(d)
    BY <1>2 DEF Proc
  <2> QED BY <1>5, <2>1 DEF LockInv
<1>7. StandInv'
  BY <1>2, <1>5 DEF Basic, StandInv
<1>8. TypeInv'
  BY <1>1, <1>2, <1>4 DEF Basic, TypeInv, Procs
<1> QED
  BY <1>6, <1>7, <1>8 DEF Basic

\* The user adds a mark of her own to one note, outside of any process.
LEMMA BasicEdit ==
    ASSUME Basic, NEW u \in Users, Edit(u)
    PROVE  /\ Basic'
           /\ \E n \in Notes, t \in Text :
                /\ vault[n] # None
                /\ vault' = [vault EXCEPT ![n] = t]
                /\ MarksIn(t) = MarksIn(vault[n]) \cup {u}
                /\ \A d \in Calls :
                     /\ Alike(call[d], call'[d])
                     /\ call'[d].touched = IF call[d].pc \in Locked THEN call[d].touched \cup {n}
                                           ELSE call[d].touched
<1>1. /\ call' \in [Calls -> CallRec]
      /\ u \in cast.users /\ edits' = edits \cup {u}
      /\ \E n \in Notes :
           /\ vault[n] # None
           /\ vault' = [vault EXCEPT ![n].body = Marked(@, u)]
           /\ \A d \in Calls :
                /\ Alike(call[d], call'[d])
                /\ call'[d].touched = IF call[d].pc \in Locked THEN call[d].touched \cup {n}
                                      ELSE call[d].touched
  BY EditEffect DEF Basic
<1>2. PICK n \in Notes :
           /\ vault[n] # None
           /\ vault' = [vault EXCEPT ![n].body = Marked(@, u)]
           /\ \A d \in Calls :
                /\ Alike(call[d], call'[d])
                /\ call'[d].touched = IF call[d].pc \in Locked THEN call[d].touched \cup {n}
                                      ELSE call[d].touched
  BY <1>1
<1>3. vault \in [Notes -> Texts]
  BY DEF Basic, TypeInv
<1>4. PICK old \in Text : old = vault[n]
  BY <1>2, <1>3, TextParts
<1>5. old.body \in Body /\ old.tags \in SUBSET Marks /\ old # None /\ MarksIn(old) = old.body.marks \cup old.tags
  BY TextParts, TextsAssumption DEF Texts
<1>6. PICK body \in Body : body = Marked(old.body, u) /\ body.marks = old.body.marks \cup {u}
  BY <1>5, MarkedTyped, CallsAreMarks
<1>7. PICK t \in Text : t = [old EXCEPT !.body = body] /\ t.body = body /\ t.tags = old.tags
  <2>1. [old EXCEPT !.body = body] \in Text
    BY DEF Text
  <2>2. [old EXCEPT !.body = body].body = body /\ [old EXCEPT !.body = body].tags = old.tags
    BY DEF Text
  <2> QED BY <2>1, <2>2
<1>8. vault' = [vault EXCEPT ![n] = t]
  BY <1>2, <1>3, <1>4, <1>6, <1>7
<1>9. MarksIn(t) = MarksIn(vault[n]) \cup {u}
  <2>1. t # None /\ MarksIn(t) = t.body.marks \cup t.tags
    BY TextParts, TextsAssumption DEF Texts
  <2> QED BY <1>4, <1>5, <1>6, <1>7, <2>1
<1>10. /\ cast' = cast /\ history' = history /\ audit' = audit /\ pending' = pending /\ lock' = lock
       /\ faults' = faults /\ crashes' = crashes /\ lost' = lost
  BY DEF Edit
<1>11. ASSUME NEW d \in Calls
       PROVE  Stands(d, call'[d]) /\ Logged(call'[d], history')
  <2>1. Stands(d, call[d]) /\ Logged(call[d], history) /\ Alike(call[d], call'[d])
    BY <1>2 DEF Basic, StandInv
  <2>2. Stands(d, call'[d])
    BY <2>1, StandsAlike
  <2>3. Logged(call'[d], history')
    BY <1>10, <2>1 DEF Logged, Alike
  <2> QED BY <2>2, <2>3
<1>12. StandInv'
  BY <1>10, <1>11 DEF Basic, StandInv
<1>13. LockInv'
  <2>1. \A d \in Calls : call'[d].pc \in Locked <=> call[d].pc \in Locked
    BY <1>2 DEF Alike
  <2> QED BY <1>10, <2>1, LockStays DEF Basic
<1>14. TypeInv'
  <2>1. vault' \in [Notes -> Texts]
    BY <1>3, <1>8 DEF Texts
  <2>2. edits' \subseteq cast.users
    BY <1>1 DEF Basic, TypeInv
  <2> QED BY <1>1, <1>10, <2>1, <2>2 DEF Basic, TypeInv, Procs
<1> QED
  BY <1>2, <1>8, <1>9, <1>12, <1>13, <1>14 DEF Basic

-----------------------------------------------------------------------------
(* The steps of the whole.                                                 *)

\* What a step of the tools is to the notes: a call that is answered at once
\* or taken in, a step of one that was, a crash, an edit, or nothing.
LEMMA Steps ==
    ASSUME TypeInv, [Next]_vars
    PROVE  \/ \E c \in Calls : \E q \in Request : \E a \in {"ok", "failed"} : Done(c, q, a)
           \/ \E c \in Calls : \E q \in Request : q.tool \in VaultTools /\ Begin(c, q)
           \/ \E c \in Calls : Commits(c)
           \/ \E c \in Calls : Reverts(c)
           \/ \E p \in Procs : Crash(p)
           \/ \E u \in Users : Edit(u)
           \/ UNCHANGED notes
<1>1. cast \in Casts
  BY DEF TypeInv
<1>2. ASSUME NEW c \in Calls, Dispatch(c)
      PROVE  \/ \E q \in Request : \E a \in {"ok", "failed"} : Done(c, q, a)
             \/ \E q \in Request : q.tool \in VaultTools /\ Begin(c, q)
  <2>1. PICK q \in cast.wants[c] :
           IF Denied(c, q) THEN Refuse(c, q)
           ELSE \/ Remember(c, q) \/ Forget(c, q) \/ Read(c, q)
                \/ q.tool \notin MemoryTools \cup ReadTools /\ Begin(c, q)
    BY <1>2 DEF Dispatch
  <2>2. q \in Request
    BY <1>1 DEF Request
  <2>3. q.tool \in VaultTools \cup OtherTools
    BY <2>2, Requests DEF IsRequest
  <2>4. CASE Refuse(c, q)
    <3>1. Done(c, q, "failed")
      BY <2>4 DEF Refuse, Done
    <3> QED BY <2>2, <3>1
  <2>5. CASE Remember(c, q)
    <3>1. Done(c, q, "ok") \/ Done(c, q, "failed")
      BY <2>5 DEF Remember
    <3> QED BY <2>2, <3>1
  <2>6. CASE Forget(c, q)
    <3>1. Done(c, q, "ok")
      BY <2>6 DEF Forget
    <3> QED BY <2>2, <3>1
  <2>7. CASE Read(c, q)
    <3>1. Done(c, q, "ok") \/ Done(c, q, "failed")
      BY <2>7 DEF Read
    <3> QED BY <2>2, <3>1
  <2>8. CASE q.tool \notin MemoryTools \cup ReadTools /\ Begin(c, q)
    <3>1. q.tool \in VaultTools
      BY <2>3, <2>8 DEF OtherTools, MemoryTools, ReadTools
    <3> QED BY <2>2, <2>8, <3>1
  <2> QED BY <2>1, <2>4, <2>5, <2>6, <2>7, <2>8
<1>3. ASSUME NEW c \in Calls, Work(c)
      PROVE  Commits(c) \/ Reverts(c)
  BY <1>3 DEF Work
<1>4. ASSUME NEW u \in Users, UserEdit(u)
      PROVE  Edit(u)
  BY <1>4 DEF UserEdit
<1>5. ASSUME NEW p \in Procs, Die(p)
      PROVE  Crash(p)
  BY <1>5 DEF Die
<1>6. ASSUME LoadPlugin \/ RunPlugin \/ EndPlugin \/ UNCHANGED vars
      PROVE  UNCHANGED notes
  BY <1>6 DEF LoadPlugin, RunPlugin, EndPlugin, vars
<1> QED
  BY <1>2, <1>3, <1>4, <1>5, <1>6 DEF Next

LEMMA BasicInit ==
    ASSUME Init
    PROVE  Basic
<1>1. cast \in Casts /\ NotesInit
  BY DEF Init, NotesInit
<1>2. PICK k \in Casts : k = cast
  BY <1>1
<1>3. /\ k.vault \in [Notes -> Texts] /\ k.faults \in Nat /\ k.crashes \in Nat
      /\ k.writer \in [Calls -> DOMAIN k.scope]
  BY CastTypes
<1>4. /\ vault = k.vault /\ history = <<>> /\ audit = <<>> /\ pending = [p \in Procs |-> {}]
      /\ lock = [p \in Procs |-> None] /\ call = [c \in Calls |-> Idle]
      /\ faults = 0 /\ crashes = 0 /\ edits = {} /\ lost = {}
  BY <1>1, <1>2 DEF NotesInit
<1>5. PICK i : i = [Idle EXCEPT !.pc = "idle", !.req = None]
  OBVIOUS
<1>6. i \in CallRec /\ i.pc = "idle" /\ IdleLike(i)
  BY <1>5, IdleTyped
<1>7. i = Idle
  BY <1>5 DEF Idle
<1>8. TypeInv
  <2>1. call \in [Calls -> CallRec]
    BY <1>4, <1>6, <1>7
  <2>2. history \in Seq(Snapshot) /\ audit \in Seq(AuditLine)
    BY <1>4
  <2>3. faults \in 0..cast.faults /\ crashes \in 0..cast.crashes
    BY <1>2, <1>3, <1>4
  <2>4. pending \in [Procs -> SUBSET Change] /\ lock \in [Procs -> Calls \cup {None}]
    BY <1>4
  <2> QED BY <1>1, <1>2, <1>3, <1>4, <2>1, <2>2, <2>3, <2>4 DEF TypeInv
<1>9. StandInv
  <2>1. \A c \in Calls : Stands(c, i) /\ \A versions : Logged(i, versions)
    BY <1>6, StandsIdle
  <2> QED BY <1>4, <1>7, <2>1 DEF StandInv
<1>10. LockInv
  <2>1. \A c \in Calls : Proc(c) \in Procs
    BY <1>2, <1>3 DEF Proc, Procs
  <2>2. \A c \in Calls : lock[Proc(c)] = None /\ c # None /\ call[c].pc = "idle"
    BY <1>4, <1>6, <1>7, <2>1, MarksAssumption
  <2> QED BY <2>2 DEF LockInv, Locked
<1> QED
  BY <1>8, <1>9, <1>10 DEF Basic

LEMMA BasicNext ==
    ASSUME Basic, [Next]_vars
    PROVE  Basic'
<1>1. ASSUME NEW c \in Calls, NEW q \in Request, NEW a \in {"ok", "failed"}, Done(c, q, a)
      PROVE  Basic'
  BY <1>1, BasicDone
<1>2. ASSUME NEW c \in Calls, NEW q \in Request, q.tool \in VaultTools, Begin(c, q)
      PROVE  Basic'
  BY <1>2, BasicBegin
<1>3. ASSUME NEW c \in Calls, Commits(c)
      PROVE  Basic'
  BY <1>3, BasicLockFor, BasicPropose, BasicLockForCommit, BasicDiff, BasicWrite, BasicWriteFails,
     BasicRestore, BasicRestoreFails, BasicVersion, BasicAudit, BasicLogFails DEF Commits
<1>4. ASSUME NEW c \in Calls, Reverts(c)
      PROVE  Basic'
  BY <1>4, BasicLockForRevert, BasicUndo, BasicAuditUndo, BasicUndoFails DEF Reverts
<1>5. ASSUME NEW p \in Procs, Crash(p)
      PROVE  Basic'
  BY <1>5, BasicCrash
<1>6. ASSUME NEW u \in Users, Edit(u)
      PROVE  Basic'
  BY <1>6, BasicEdit
<1>7. ASSUME UNCHANGED notes
      PROVE  Basic'
  BY <1>7 DEF notes, Basic, TypeInv, StandInv, LockInv, Procs, Proc
<1> QED
  BY <1>1, <1>2, <1>3, <1>4, <1>5, <1>6, <1>7, Steps DEF Basic

\* A memory is of a known kind, and the guest is somewhere.
ToolsInv ==
    /\ \A m \in memory : m.kind \in Kinds
    /\ guest \in {"absent", "refused", "ready", "running"}

LEMMA ToolsNext ==
    ASSUME Basic, ToolsInv, [Next]_vars
    PROVE  ToolsInv'
<1> USE DEF ToolsInv
<1>1. ASSUME NEW c \in Calls, Dispatch(c)
      PROVE  ToolsInv'
  <2>1. PICK q \in cast.wants[c] :
           IF Denied(c, q) THEN Refuse(c, q) /\ UNCHANGED <<memory, guest, answers>>
           ELSE \/ Remember(c, q) \/ Forget(c, q) \/ Read(c, q)
                \/ UNCHANGED <<memory, guest, answers>>
    BY <1>1 DEF Dispatch
  <2>2. CASE Remember(c, q)
    <3>1. Wanted(q) => MemoryOf(q).kind \in Kinds
      BY DEF Wanted, MemoryOf
    <3> QED BY <2>2, <3>1 DEF Remember
  <2>3. CASE Forget(c, q)
    BY <2>3 DEF Forget
  <2>4. CASE Read(c, q)
    BY <2>4 DEF Read
  <2>5. CASE UNCHANGED <<memory, guest, answers>>
    BY <2>5
  <2> QED BY <2>1, <2>2, <2>3, <2>4, <2>5
<1>2. ASSUME NEW c \in Calls, Work(c)
      PROVE  ToolsInv'
  BY <1>2 DEF Work
<1>3. ASSUME NEW u \in Users, UserEdit(u)
      PROVE  ToolsInv'
  BY <1>3 DEF UserEdit
<1>4. ASSUME NEW p \in Procs, Die(p)
      PROVE  ToolsInv'
  BY <1>4 DEF Die
<1>5. ASSUME LoadPlugin \/ RunPlugin \/ EndPlugin \/ UNCHANGED vars
      PROVE  ToolsInv'
  BY <1>5 DEF LoadPlugin, RunPlugin, EndPlugin, vars
<1> QED
  BY <1>1, <1>2, <1>3, <1>4, <1>5 DEF Next

\* What the types are about is typed in every reachable state, and the mutex
\* of a process is with the call that is at work in it: no error path of the
\* writer leaves it taken, and no two calls of a process write.
\* (write.rs:378-434, tools/mod.rs:541-587)
THEOREM Typed == Spec => []TypeOK
<1>1. Init => Basic /\ ToolsInv
  <2>1. Init => ToolsInv
    BY MemoryAssumption DEF Init, NotesInit, ToolsInv
  <2> QED BY <2>1, BasicInit
<1>2. Basic /\ ToolsInv /\ [Next]_vars => (Basic /\ ToolsInv)'
  BY BasicNext, ToolsNext
<1>3. Basic /\ ToolsInv => TypeOK
  <2> SUFFICES ASSUME Basic, ToolsInv PROVE TypeOK
    OBVIOUS
  <2>1. vault \in [Notes -> Text \cup {None}] /\ faults \in 0..cast.faults
        /\ crashes \in 0..cast.crashes /\ edits \subseteq cast.users /\ lost \subseteq Marks
    BY DEF Basic, TypeInv, Texts
  <2>2. \A v \in DOMAIN history : \A n \in DOMAIN history[v].before :
          /\ history[v].before[n] \in Text \cup {None}
          /\ history[v].after[n] \in Text \cup {None}
    <3>1. \A v \in DOMAIN history : history[v] \in Snapshot
      BY HistoryTyped DEF Basic
    <3>2. ASSUME NEW s \in Snapshot, NEW n \in DOMAIN s.before
          PROVE  s.before[n] \in Text \cup {None} /\ s.after[n] \in Text \cup {None}
      BY DEF Snapshot, Files, Texts
    <3> QED BY <3>1, <3>2
  <2>3. \A i \in DOMAIN audit :
          audit[i].action \in {"commit", "revert"} /\ audit[i].ver \in DOMAIN history
    <3>1. \A i \in DOMAIN audit : audit[i] \in AuditLine /\ audit[i].ver \in DOMAIN history
      BY BasicTypes
    <3> QED BY <3>1 DEF AuditLine
  <2>4. \A p \in Procs : \A change \in pending[p] :
          change.by \in Calls /\ NotesOf(change.ops) \subseteq Notes
    <3>1. \A p \in Procs : \A change \in pending[p] : change \in Change
      BY BasicTypes
    <3>2. ASSUME NEW change \in Change
          PROVE  change.by \in Calls /\ NotesOf(change.ops) \subseteq Notes
      <4>1. change.ops \in Seq(Operation) /\ change.by \in Calls
        BY DEF Change
      <4>2. \A i \in DOMAIN change.ops : change.ops[i] \in Operation
        BY <4>1, ElementOfSeq
      <4> QED BY <4>1, <4>2 DEF NotesOf, Operation
    <3> QED BY <3>1, <3>2
  <2>5. \A c \in Calls :
          /\ call[c].pc \in Final \cup Locked \cup {"idle", "waiting"}
          /\ call[c].touched \subseteq Notes /\ call[c].stuck \subseteq Notes
          /\ call[c].pc \in Locked <=> lock[Proc(c)] = c
    BY BasicTypes DEF Basic, LockInv, CallRec, PCs
  <2> QED BY <2>1, <2>2, <2>3, <2>4, <2>5 DEF TypeOK, NotesOK, ToolsInv
<1> QED
  BY <1>1, <1>2, <1>3, PTL DEF Spec

-----------------------------------------------------------------------------
(* A commit's writes are all there or none is.                             *)

\* What the step of another call, or the user's, leaves of a call: what was
\* written meanwhile has been touched.
Spared(r, s, files, files2) ==
    /\ Alike(r, s)
    /\ r.touched \subseteq s.touched
    /\ r.pc \in Locked => \A n \in Notes \ s.touched : files2[n] = files[n]

LEMMA LockOnce ==
    ASSUME LockInv, NEW c \in Calls, NEW d \in Calls, call[c].pc \in Locked, call[d].pc \in Locked,
           Proc(c) = Proc(d)
    PROVE  c = d
BY DEF LockInv

LEMMA SparedSame ==
    ASSUME NEW r, NEW s, NEW files, s = r
    PROVE  Spared(r, s, files, files)
BY DEF Spared, Alike

LEMMA SparedTold ==
    ASSUME Basic, NEW c \in Calls, call[c].pc \in Locked, NEW n \in Notes, NEW t,
           vault' = [vault EXCEPT ![n] = t], Told(c, n)
    PROVE  \A d \in Calls \ {c} : Spared(call[d], call'[d], vault, vault')
<1>1. vault \in [Notes -> Texts] /\ LockInv
  BY DEF Basic, TypeInv
<1>2. \A m \in Notes \ {n} : vault'[m] = vault[m]
  BY <1>1
<1>3. ASSUME NEW d \in Calls \ {c}
      PROVE  Spared(call[d], call'[d], vault, vault')
  <2>1. Alike(call[d], call'[d]) /\ call[d].touched \subseteq call'[d].touched
    BY DEF Told
  <2>2. call[d].pc \in Locked => n \in call'[d].touched
    BY <1>1, LockOnce DEF Told
  <2> QED BY <1>2, <2>1, <2>2 DEF Spared
<1> QED
  BY <1>3

\* The steps of one call.
LEMMA SparedByCall ==
    ASSUME Basic, NEW c \in Calls, Commits(c) \/ Reverts(c)
    PROVE  \A d \in Calls \ {c} : Spared(call[d], call'[d], vault, vault')
<1>1. TypeInv /\ StandInv /\ call \in [Calls -> CallRec]
  BY DEF Basic, TypeInv
<1>2. ASSUME vault' = vault, \A d \in Calls \ {c} : call'[d] = call[d]
      PROVE  \A d \in Calls \ {c} : Spared(call[d], call'[d], vault, vault')
  BY <1>2, SparedSame
<1>3. ASSUME vault' = vault, NEW r, call' = [call EXCEPT ![c] = r]
      PROVE  \A d \in Calls \ {c} : Spared(call[d], call'[d], vault, vault')
  <2>1. \A d \in Calls \ {c} : call'[d] = call[d]
    BY <1>1, <1>3
  <2> QED BY <1>2, <1>3, <2>1
<1>4. ASSUME vault' = vault, NEW a, Answer(c, a)
      PROVE  \A d \in Calls \ {c} : Spared(call[d], call'[d], vault, vault')
  BY <1>3, <1>4 DEF Answer
<1>5. CASE LockFor(c)
  <2>1. \A d \in Calls \ {c} : call'[d] = call[d]
    BY <1>1, <1>5 DEF LockFor, Answer
  <2> QED BY <1>2, <1>5, <2>1 DEF LockFor
<1>6. CASE Propose(c)
  <2>1. \A d \in Calls \ {c} : call'[d] = call[d]
    BY <1>1, <1>6 DEF Propose, Answer
  <2> QED BY <1>2, <1>6, <2>1 DEF Propose
<1>7. CASE LockForCommit(c)
  <2>1. \A d \in Calls \ {c} : call'[d] = call[d]
    BY <1>1, <1>7 DEF LockForCommit, Answer
  <2> QED BY <1>2, <1>7, <2>1 DEF LockForCommit
<1>8. CASE Diff(c)
  <2>1. \A d \in Calls \ {c} : call'[d] = call[d]
    BY <1>1, <1>8 DEF Diff, Answer
  <2> QED BY <1>2, <1>8, <2>1 DEF Diff
<1>9. CASE Write(c)
  <2>1. /\ call[c].pc = "write" /\ call[c].diff[call[c].at] \in Entry
        /\ vault' = [vault EXCEPT ![call[c].diff[call[c].at].note] = call[c].diff[call[c].at].after]
        /\ Told(c, call[c].diff[call[c].at].note)
    BY <1>1, <1>9, WriteEffect
  <2>2. PICK n \in Notes, t \in Texts : n = call[c].diff[call[c].at].note /\ t = call[c].diff[call[c].at].after
    BY <2>1 DEF Entry
  <2>3. call[c].pc \in Locked /\ vault' = [vault EXCEPT ![n] = t] /\ Told(c, n)
    BY <2>1, <2>2 DEF Locked
  <2> QED BY <2>3, SparedTold
<1>10. CASE WriteFails(c)
  <2>1. \A d \in Calls \ {c} : call'[d] = call[d]
    BY <1>1, <1>10 DEF WriteFails, Answer
  <2> QED BY <1>2, <1>10, <2>1 DEF WriteFails
<1>11. CASE Restore(c)
  <2>1. /\ call[c].pc = "restore" /\ call[c].diff[call[c].ver] \in Entry
        /\ vault' = [vault EXCEPT ![call[c].diff[call[c].ver].note] = call[c].diff[call[c].ver].before]
        /\ Told(c, call[c].diff[call[c].ver].note)
    BY <1>1, <1>11, RestoreEffect
  <2>2. PICK n \in Notes, t \in Texts : n = call[c].diff[call[c].ver].note /\ t = call[c].diff[call[c].ver].before
    BY <2>1 DEF Entry
  <2>3. call[c].pc \in Locked /\ vault' = [vault EXCEPT ![n] = t] /\ Told(c, n)
    BY <2>1, <2>2 DEF Locked
  <2> QED BY <2>3, SparedTold
<1>19. CASE RestoreFails(c)
  BY <1>1, <1>2, <1>19, RestoreFailsEffect
<1>12. CASE Version(c)
  <2>1. \A d \in Calls \ {c} : call'[d] = call[d]
    BY <1>1, <1>12 DEF Version
  <2> QED BY <1>2, <1>12, <2>1 DEF Version
<1>13. CASE Audit(c)
  BY <1>4, <1>13 DEF Audit
<1>14. CASE LogFails(c)
  BY <1>4, <1>14 DEF LogFails
<1>15. CASE LockForRevert(c)
  <2>1. \A d \in Calls \ {c} : call'[d] = call[d]
    BY <1>1, <1>15 DEF LockForRevert, Answer
  <2> QED BY <1>2, <1>15, <2>1 DEF LockForRevert
<1>16. CASE Undo(c)
  <2>1. /\ call[c].pc = "undo"
        /\ \E n \in call[c].left :
             /\ n \in Notes
             /\ vault' = [vault EXCEPT ![n] = history[call[c].ver].before[n]]
             /\ Told(c, n)
    BY <1>1, <1>16, UndoEffect
  <2>2. PICK n \in Notes : \E t : vault' = [vault EXCEPT ![n] = t] /\ Told(c, n)
    BY <2>1
  <2>3. call[c].pc \in Locked
    BY <2>1 DEF Locked
  <2> QED BY <2>2, <2>3, SparedTold
<1>17. CASE AuditUndo(c)
  BY <1>4, <1>17 DEF AuditUndo
<1>18. CASE UndoFails(c)
  BY <1>4, <1>18 DEF UndoFails
<1> QED
  BY <1>5, <1>6, <1>7, <1>8, <1>9, <1>10, <1>11, <1>12, <1>13, <1>14, <1>15, <1>16, <1>17, <1>18, <1>19
     DEF Commits, Reverts

LEMMA SparedByEdit ==
    ASSUME Basic, NEW u \in Users, Edit(u)
    PROVE  \A d \in Calls : Spared(call[d], call'[d], vault, vault')
<1>1. PICK n \in Notes, t \in Text :
        /\ vault' = [vault EXCEPT ![n] = t]
        /\ \A d \in Calls :
             /\ Alike(call[d], call'[d])
             /\ call'[d].touched = IF call[d].pc \in Locked THEN call[d].touched \cup {n}
                                   ELSE call[d].touched
  BY BasicEdit
<1>2. vault \in [Notes -> Texts]
  BY DEF Basic, TypeInv
<1> QED
  BY <1>1, <1>2 DEF Spared

LEMMA EntriesOf ==
    ASSUME NEW diff \in Seq(Entry)
    PROVE  /\ Len(diff) \in Nat /\ DOMAIN diff = 1..Len(diff)
           /\ \A i \in DOMAIN diff : /\ diff[i] \in Entry /\ diff[i].note \in Notes
                                    /\ diff[i].before \in Texts /\ diff[i].after \in Texts
<1>1. \A i \in DOMAIN diff : diff[i] \in Entry
  BY ElementOfSeq
<1> QED
  BY <1>1 DEF Entry

LEMMA HoldsSpared ==
    ASSUME NEW r \in CallRec, NEW s, NEW files, NEW files2, Spared(r, s, files, files2), Holds(r, files)
    PROVE  Holds(s, files2)
<1>1. /\ s.pc = r.pc /\ s.diff = r.diff /\ s.at = r.at /\ s.ver = r.ver /\ s.stuck = r.stuck /\ r.touched \subseteq s.touched
      /\ r.pc \in Locked => \A n \in Notes \ s.touched : files2[n] = files[n]
  BY DEF Spared, Alike
<1>2. \A i \in DOMAIN r.diff : r.diff[i].note \in Notes
  BY EntriesOf DEF CallRec
<1>3. NotesIn(r.diff) \subseteq Notes
  BY <1>2 DEF NotesIn
<1>4. \A i, k : Untaken(s, i, k) <=> Untaken(r, i, k)
  BY <1>1 DEF Untaken
<1>5. CASE r.pc = "write"
  <2>1. ASSUME NEW i \in DOMAIN r.diff, r.diff[i].note \notin s.touched
        PROVE  files2[r.diff[i].note] = files[r.diff[i].note]
    BY <1>1, <1>2, <1>5, <2>1 DEF Locked
  <2> QED BY <1>1, <1>4, <1>5, <2>1 DEF Holds
<1>6. CASE r.pc = "restore"
  <2>1. ASSUME NEW i \in DOMAIN r.diff, r.diff[i].note \notin s.touched
        PROVE  files2[r.diff[i].note] = files[r.diff[i].note]
    BY <1>1, <1>2, <1>6, <2>1 DEF Locked
  <2> QED BY <1>1, <1>4, <1>6, <2>1 DEF Holds
<1>7. CASE r.pc \in {"version", "audit"}
  <2>1. ASSUME NEW n \in NotesIn(r.diff) \ s.touched
        PROVE  files2[n] = files[n] /\ n \in NotesIn(r.diff) \ r.touched
    BY <1>1, <1>3, <1>7, <2>1 DEF Locked
  <2> QED BY <1>1, <1>7, <2>1 DEF Holds
<1>8. CASE r.pc \notin {"write", "restore", "version", "audit"}
  BY <1>1, <1>8 DEF Holds
<1> QED
  BY <1>5, <1>6, <1>7, <1>8

LEMMA HoldsWrite ==
    ASSUME NEW r \in CallRec, NEW s, NEW files \in [Notes -> Texts], NEW files2,
           r.pc = "write", r.at \in 1..Len(r.diff), Holds(r, files),
           s.diff = r.diff, s.touched = r.touched,
           s.pc = IF r.at = Len(r.diff) THEN "version" ELSE "write",
           s.at = IF r.at = Len(r.diff) THEN r.at ELSE r.at + 1,
           files2 = [files EXCEPT ![r.diff[r.at].note] = r.diff[r.at].after]
    PROVE  Holds(s, files2)
<1> DEFINE D == r.diff
           a == r.at
<1>1. /\ D \in Seq(Entry) /\ Len(D) \in Nat /\ DOMAIN D = 1..Len(D) /\ a \in 1..Len(D)
  BY DEF CallRec
<1>2. \A i \in DOMAIN D : D[i].note \in Notes
  BY <1>1, EntriesOf
<1>3. \A i, j \in DOMAIN D : D[i].note = D[j].note => D[i].before = D[j].before
  BY DEF Holds
<1>4. ASSUME NEW i \in DOMAIN D, D[i].note \notin r.touched
      PROVE  /\ (\A j \in 1..(a - 1) : D[j].note # D[i].note) => files[D[i].note] = D[i].before
             /\ i < a /\ (\A j \in (i + 1)..(a - 1) : D[j].note # D[i].note)
                  => files[D[i].note] = D[i].after
  BY <1>4 DEF Holds, Untaken
<1>5. files2[D[a].note] = D[a].after /\ \A n \in Notes \ {D[a].note} : files2[n] = files[n]
  BY <1>1, <1>2
<1> HIDE DEF D, a
<1>6. ASSUME NEW i \in DOMAIN D, D[i].note \notin r.touched
      PROVE  /\ (\A j \in 1..a : D[j].note # D[i].note) => files2[D[i].note] = D[i].before
             /\ i < a + 1 /\ (\A j \in (i + 1)..a : D[j].note # D[i].note)
                  => files2[D[i].note] = D[i].after
  <2>1. CASE i = a
    <3>1. files2[D[i].note] = D[i].after
      BY <1>5, <2>1
    <3>2. ~\A j \in 1..a : D[j].note # D[i].note
      BY <1>1, <2>1
    <3> QED BY <3>1, <3>2
  <2>2. CASE i # a /\ D[i].note # D[a].note
    <3>1. files2[D[i].note] = files[D[i].note]
      BY <1>2, <1>5, <2>2
    <3>2. ASSUME \A j \in 1..a : D[j].note # D[i].note
          PROVE  \A j \in 1..(a - 1) : D[j].note # D[i].note
      BY <1>1, <3>2
    <3>3. ASSUME i < a + 1, \A j \in (i + 1)..a : D[j].note # D[i].note
          PROVE  i < a /\ \A j \in (i + 1)..(a - 1) : D[j].note # D[i].note
      BY <1>1, <2>2, <3>3
    <3> QED BY <1>4, <1>6, <3>1, <3>2, <3>3
  <2>3. CASE i # a /\ D[i].note = D[a].note
    <3>1. ~\A j \in 1..a : D[j].note # D[i].note
      BY <1>1, <2>3
    <3>2. ASSUME i < a + 1
          PROVE  ~\A j \in (i + 1)..a : D[j].note # D[i].note
      BY <1>1, <2>3, <3>2
    <3> QED BY <3>1, <3>2
  <2> QED BY <2>1, <2>2, <2>3
<1>7. CASE a # Len(D)
  <2>1. s.pc = "write" /\ s.at = a + 1 /\ s.diff = D /\ s.touched = r.touched
    BY <1>7 DEF D, a
  <2>2. s.at - 1 = a
    BY <1>1, <2>1
  <2>3. ASSUME NEW i \in DOMAIN s.diff, s.diff[i].note \notin s.touched
        PROVE  /\ (\A j \in 1..(s.at - 1) : s.diff[j].note # s.diff[i].note)
                    => files2[s.diff[i].note] = s.diff[i].before
               /\ i < s.at /\ (\A j \in (i + 1)..(s.at - 1) : s.diff[j].note # s.diff[i].note)
                    => files2[s.diff[i].note] = s.diff[i].after
    BY <1>6, <2>1, <2>2, <2>3
  <2> QED BY <1>3, <2>1, <2>3 DEF Holds, Untaken
<1>8. CASE a = Len(D)
  <2>1. s.pc = "version" /\ s.diff = D /\ s.touched = r.touched
    BY <1>8 DEF D, a
  <2>2. ASSUME NEW n \in NotesIn(D) \ r.touched
        PROVE  files2[n] = AfterAll(D)[n]
    <3>1. PICK i : i = LastFor(D, n)
      OBVIOUS
    <3>2. i \in DOMAIN D /\ D[i].note = n /\ \A j \in DOMAIN D : D[j].note = n => j <= i
      BY <1>1, <3>1, LastOne
    <3>3. AfterAll(D)[n] = D[i].after
      BY <3>1 DEF AfterAll
    <3>4. i < a + 1 /\ \A j \in (i + 1)..a : D[j].note # D[i].note
      BY <1>1, <1>8, <3>2
    <3> QED BY <1>6, <3>2, <3>3, <3>4
  <2> QED BY <1>3, <2>1, <2>2 DEF Holds
<1> QED
  BY <1>7, <1>8

\* What a failed changeset has written is put back, where that could be.
Restored(r, stuck, files) ==
    \A i \in DOMAIN r.diff :
      r.diff[i].note \notin r.touched \cup stuck => files[r.diff[i].note] = r.diff[i].before

\* One step of the rollback, which may fail.

LEMMA HoldsRestore ==
    ASSUME NEW r \in CallRec, NEW files \in [Notes -> Texts], NEW files2,
           r.pc = "restore", r.at \in 2..Len(r.diff), r.ver \in 1..(r.at - 1), Holds(r, files),
           NEW stuck,
           \/ stuck = r.stuck /\ files2 = [files EXCEPT ![r.diff[r.ver].note] = r.diff[r.ver].before]
           \/ stuck = r.stuck \cup {r.diff[r.ver].note} /\ files2 = files
    PROVE  /\ \A s : (/\ s.pc = "restore" /\ s.ver = r.ver + 1 /\ s.at = r.at /\ s.diff = r.diff
                     /\ s.touched = r.touched /\ s.stuck = stuck) => Holds(s, files2)
           /\ r.ver = r.at - 1 => Restored(r, stuck, files2)
<1> DEFINE D == r.diff
           a == r.at
           v == r.ver
<1>1. /\ D \in Seq(Entry) /\ Len(D) \in Nat /\ DOMAIN D = 1..Len(D)
      /\ a \in 2..Len(D) /\ v \in 1..(a - 1) /\ v \in DOMAIN D
  BY DEF CallRec
<1>2. \A i \in DOMAIN D : D[i].note \in Notes
  BY <1>1, EntriesOf
<1>3. \A i, j \in DOMAIN D : D[i].note = D[j].note => D[i].before = D[j].before
  BY DEF Holds
<1>4. ASSUME NEW i \in DOMAIN D, D[i].note \notin r.touched \cup r.stuck
      PROVE  /\ (\A j \in 1..(a - 1) : D[j].note # D[i].note) \/ (\E j \in 1..(v - 1) : D[j].note = D[i].note)
                  => files[D[i].note] = D[i].before
             /\ i < a /\ i >= v /\ (\A j \in DOMAIN D : j # i => D[j].note # D[i].note)
                  => files[D[i].note] = D[i].after
  BY <1>4 DEF Holds, Untaken
<1>5. /\ D[v].note \in stuck \/ files2[D[v].note] = D[v].before
      /\ \A n \in Notes \ {D[v].note} : files2[n] = files[n]
      /\ r.stuck \subseteq stuck
  BY <1>1, <1>2
<1> HIDE DEF D, a, v
<1>6. ASSUME NEW i \in DOMAIN D, D[i].note \notin r.touched \cup stuck
      PROVE  /\ (\A j \in 1..(a - 1) : D[j].note # D[i].note) \/ (\E j \in 1..v : D[j].note = D[i].note)
                  => files2[D[i].note] = D[i].before
             /\ i < a /\ i >= v + 1 /\ (\A j \in DOMAIN D : j # i => D[j].note # D[i].note)
                  => files2[D[i].note] = D[i].after
  <2>1. CASE D[i].note = D[v].note
    <3>1. files2[D[i].note] = D[i].before
      BY <1>1, <1>3, <1>5, <1>6, <2>1
    <3>2. ASSUME i >= v + 1
          PROVE  ~\A j \in DOMAIN D : j # i => D[j].note # D[i].note
      BY <1>1, <2>1, <3>2
    <3> QED BY <3>1, <3>2
  <2>2. CASE D[i].note # D[v].note
    <3>1. files2[D[i].note] = files[D[i].note]
      BY <1>2, <1>5, <2>2
    <3>2. ASSUME NEW j \in 1..v, D[j].note = D[i].note
          PROVE  j \in 1..(v - 1)
      BY <1>1, <2>2, <3>2
    <3>3. i >= v + 1 => i >= v
      BY <1>1
    <3>4. D[i].note \notin r.touched \cup r.stuck
      BY <1>5, <1>6
    <3> QED BY <1>4, <3>1, <3>2, <3>3, <3>4
  <2> QED BY <2>1, <2>2
<1>7. ASSUME NEW s, s.pc = "restore", s.ver = v + 1, s.at = a, s.diff = D, s.touched = r.touched,
            s.stuck = stuck
      PROVE  Holds(s, files2)
  <2>1. s.ver - 1 = v
    BY <1>1, <1>7
  <2>2. ASSUME NEW i \in DOMAIN s.diff, s.diff[i].note \notin s.touched \cup s.stuck
        PROVE  /\ (\A j \in 1..(s.at - 1) : s.diff[j].note # s.diff[i].note)
                  \/ ~(\A j \in 1..(s.ver - 1) : s.diff[j].note # s.diff[i].note)
                    => files2[s.diff[i].note] = s.diff[i].before
               /\ i < s.at /\ i >= s.ver /\ (\A j \in DOMAIN s.diff : j # i => s.diff[j].note # s.diff[i].note)
                    => files2[s.diff[i].note] = s.diff[i].after
    BY <1>6, <1>7, <2>1, <2>2
  <2> QED BY <1>3, <1>7, <2>2 DEF Holds, Untaken
<1>8. ASSUME v = a - 1, NEW i \in DOMAIN D, D[i].note \notin r.touched \cup stuck
      PROVE  files2[D[i].note] = D[i].before
  BY <1>6, <1>8
<1> QED
  BY <1>7, <1>8 DEF D, a, v, Restored

LEMMA HoldsDiff ==
    ASSUME NEW ops \in Seq(Operation), vault \in [Notes -> Texts],
           \A i \in DOMAIN ops : ~Refused(ops[i]),
           NEW s, s.diff = BuildDiff(ops), s.at = 1, s.touched = {},
           s.pc = IF ops = <<>> THEN "version" ELSE "write"
    PROVE  Holds(s, vault)
<1> DEFINE D == BuildDiff(ops)
<1>1. /\ DOMAIN D = DOMAIN ops /\ DOMAIN D = 1..Len(ops) /\ Len(ops) \in Nat
      /\ \A i \in DOMAIN D : D[i].before = vault[D[i].note]
  BY DiffShape
<1> HIDE DEF D
<1>2. \A i, j \in DOMAIN D : D[i].note = D[j].note => D[i].before = D[j].before
  BY <1>1
<1>3. s.diff = D
  BY DEF D
<1>4. CASE ops = <<>>
  <2>1. NotesIn(D) = {}
    BY <1>1, <1>4 DEF NotesIn
  <2> QED BY <1>2, <1>3, <1>4, <2>1 DEF Holds
<1>5. CASE ops # <<>>
  <2>1. \A i \in DOMAIN D : ~(i < 1)
    BY <1>1
  <2> QED BY <1>1, <1>2, <1>3, <1>5, <2>1 DEF Holds
<1> QED
  BY <1>4, <1>5

\* The files and the call after a write that fails.
LEMMA HoldsWriteFails ==
    ASSUME NEW r \in CallRec, NEW s, NEW files, r.pc = "write", r.at \in 1..Len(r.diff), Holds(r, files),
           s.pc = "restore", s.ver = 1, s.at = r.at, s.diff = r.diff, s.touched = r.touched
    PROVE  Holds(s, files)
<1> DEFINE D == r.diff
           a == r.at
<1>1. /\ Len(D) \in Nat /\ DOMAIN D = 1..Len(D) /\ a \in 1..Len(D)
  BY EntriesOf DEF CallRec
<1>2. \A i, j \in DOMAIN D : D[i].note = D[j].note => D[i].before = D[j].before
  BY DEF Holds
<1>3. ASSUME NEW i \in DOMAIN D, D[i].note \notin r.touched
      PROVE  /\ (\A j \in 1..(a - 1) : D[j].note # D[i].note) => files[D[i].note] = D[i].before
             /\ i < a /\ (\A j \in (i + 1)..(a - 1) : D[j].note # D[i].note)
                  => files[D[i].note] = D[i].after
  BY <1>3 DEF Holds, Untaken
<1>4. s.pc = "restore" /\ s.ver = 1 /\ s.at = a /\ s.diff = D /\ s.touched = r.touched
  OBVIOUS
<1> HIDE DEF D, a
<1>5. ASSUME NEW i \in DOMAIN s.diff, s.diff[i].note \notin s.touched \cup s.stuck
      PROVE  /\ (\A j \in 1..(s.at - 1) : s.diff[j].note # s.diff[i].note)
                \/ ~(\A j \in 1..(s.ver - 1) : s.diff[j].note # s.diff[i].note)
                  => files[s.diff[i].note] = s.diff[i].before
             /\ i < s.at /\ i >= s.ver /\ (\A j \in DOMAIN s.diff : j # i => s.diff[j].note # s.diff[i].note)
                  => files[s.diff[i].note] = s.diff[i].after
  <2>1. \A j \in 1..(s.ver - 1) : s.diff[j].note # s.diff[i].note
    BY <1>4
  <2>2. ASSUME i < s.at, \A j \in DOMAIN s.diff : j # i => s.diff[j].note # s.diff[i].note
        PROVE  \A j \in (i + 1)..(a - 1) : D[j].note # D[i].note
    <3> SUFFICES ASSUME NEW j \in (i + 1)..(a - 1) PROVE D[j].note # D[i].note
      OBVIOUS
    <3>1. j \in DOMAIN D /\ j # i
      BY <1>1, <1>4, <1>5
    <3> QED BY <1>4, <2>2, <3>1
  <2> QED BY <1>3, <1>4, <1>5, <2>1, <2>2
<1> QED
  BY <1>2, <1>4, <1>5 DEF Holds, Untaken

\* What a call's own step leaves it with.
LEMMA HoldsOwn ==
    ASSUME Basic, HoldsInv, NEW c \in Calls, Commits(c) \/ Reverts(c)
    PROVE  Holds(call'[c], vault')
<1> DEFINE r == call[c]
           s == call'[c]
<1>1. TypeInv /\ StandInv /\ r \in CallRec /\ call \in [Calls -> CallRec] /\ vault \in [Notes -> Texts]
      /\ Stands(c, r) /\ Holds(r, vault)
  BY DEF Basic, TypeInv, StandInv, HoldsInv
<1>2. ASSUME s.pc \notin {"write", "restore", "version", "audit"}
      PROVE  Holds(s, vault')
  BY <1>2 DEF Holds
<1>3. ASSUME NEW a \in Final, Answer(c, a)
      PROVE  Holds(s, vault')
  BY <1>1, <1>2, <1>3, AnswerEffect DEF Final
<1>4. CASE LockFor(c)
  <2>1. CASE r.req.tool \in FromNote /\ Unfit(r.req, vault)
    BY <1>3, <1>4, <2>1 DEF LockFor, Final
  <2>2. CASE ~(r.req.tool \in FromNote /\ Unfit(r.req, vault))
    BY <1>1, <1>2, <1>4, <2>2, LockForEffect
  <2> QED BY <2>1, <2>2
<1>5. CASE Propose(c)
  <2>1. CASE Answer(c, "failed") \/ Answer(c, "ok")
    BY <1>3, <2>1 DEF Final
  <2>2. CASE ~(\E i \in DOMAIN r.ops : Refused(r.ops[i])) /\ r.req.tool # "propose"
    BY <1>1, <1>2, <1>5, <2>2, ProposeEffect
  <2> QED BY <1>5, <2>1, <2>2 DEF Propose
<1>6. CASE LockForCommit(c)
  <2>1. CASE Answer(c, "failed")
    BY <1>3, <2>1 DEF Final
  <2>2. CASE \E change \in pending[Proc(c)] :
               call' = [call EXCEPT ![c].pc = "diff", ![c].ops = change.ops,
                                    ![c].by = change.by, ![c].put = change.put]
    <3>1. PICK change \in pending[Proc(c)] :
               call' = [call EXCEPT ![c].pc = "diff", ![c].ops = change.ops,
                                    ![c].by = change.by, ![c].put = change.put]
      BY <2>2
    <3>2. change \in Change
      BY BasicTypes, ProcTyped DEF Basic
    <3>3. s.pc = "diff"
      BY <1>1, <3>1, <3>2, LockForCommitEffect
    <3> QED BY <1>2, <3>3
  <2> QED BY <1>6, <2>1, <2>2 DEF LockForCommit
<1>7. CASE Diff(c)
  <2>1. CASE cast.scope[Proc(c)] = "ro" \/ \E i \in DOMAIN r.ops : Refused(r.ops[i])
    BY <1>3, <1>7, <2>1 DEF Diff, Final
  <2>2. CASE ~(cast.scope[Proc(c)] = "ro" \/ \E i \in DOMAIN r.ops : Refused(r.ops[i]))
    <3>1. /\ s.pc = (IF r.ops = <<>> THEN "version" ELSE "write") /\ s.diff = BuildDiff(r.ops)
          /\ s.at = 1 /\ s.touched = {}
      BY <1>1, <1>7, <2>2, DiffEffect
    <3>2. PICK ops \in Seq(Operation) : ops = r.ops
      BY <1>1 DEF CallRec
    <3>3. PICK z : z = s
      OBVIOUS
    <3>4. /\ z.pc = (IF ops = <<>> THEN "version" ELSE "write") /\ z.diff = BuildDiff(ops)
          /\ z.at = 1 /\ z.touched = {} /\ \A i \in DOMAIN ops : ~Refused(ops[i])
      BY <2>2, <3>1, <3>2, <3>3
    <3>5. Holds(z, vault)
      BY <1>1, <3>4, HoldsDiff
    <3>6. vault' = vault
      BY <1>7 DEF Diff
    <3> QED BY <3>3, <3>5, <3>6
  <2> QED BY <2>1, <2>2
<1>8. CASE Write(c)
  <2>1. /\ r.pc = "write" /\ s.diff = r.diff /\ s.touched = r.touched
        /\ s.pc = (IF r.at = Len(r.diff) THEN "version" ELSE "write")
        /\ s.at = (IF r.at = Len(r.diff) THEN r.at ELSE r.at + 1)
        /\ vault' = [vault EXCEPT ![r.diff[r.at].note] = r.diff[r.at].after]
    BY <1>1, <1>8, WriteEffect
  <2>2. r.at \in 1..Len(r.diff)
    BY <1>1, <2>1 DEF Stands
  <2>3. PICK w \in CallRec, f \in [Notes -> Texts] : w = r /\ f = vault
    BY <1>1
  <2>4. PICK z : z = s
    OBVIOUS
  <2>5. PICK g : g = vault'
    OBVIOUS
  <2>6. /\ w.pc = "write" /\ z.diff = w.diff /\ z.touched = w.touched
        /\ z.pc = (IF w.at = Len(w.diff) THEN "version" ELSE "write")
        /\ z.at = (IF w.at = Len(w.diff) THEN w.at ELSE w.at + 1)
        /\ g = [f EXCEPT ![w.diff[w.at].note] = w.diff[w.at].after]
        /\ w.at \in 1..Len(w.diff) /\ Holds(w, f)
    BY <1>1, <2>1, <2>2, <2>3, <2>4, <2>5
  <2>7. Holds(z, g)
    BY <2>6, HoldsWrite
  <2> QED BY <2>4, <2>5, <2>7
<1>9. CASE WriteFails(c)
  <2>1. CASE r.at = 1
    BY <1>3, <1>9, <2>1 DEF WriteFails, Final
  <2>2. CASE r.at # 1
    <3>1. /\ s.pc = "restore" /\ s.ver = 1 /\ s.at = r.at /\ s.diff = r.diff /\ s.touched = r.touched
      BY <1>1, <1>9, <2>2, WriteFailsEffect
    <3>2. r.pc = "write" /\ r.at \in 1..Len(r.diff) /\ vault' = vault
      BY <1>1, <1>9 DEF WriteFails, Stands
    <3>3. PICK w \in CallRec : w = r
      BY <1>1
    <3>4. PICK z : z = s
      OBVIOUS
    <3>5. /\ z.pc = "restore" /\ z.ver = 1 /\ z.at = w.at /\ z.diff = w.diff /\ z.touched = w.touched
          /\ w.pc = "write" /\ w.at \in 1..Len(w.diff) /\ Holds(w, vault)
      BY <1>1, <3>1, <3>2, <3>3, <3>4
    <3>6. Holds(z, vault)
      BY <3>5, HoldsWriteFails
    <3> QED BY <3>2, <3>4, <3>6
  <2> QED BY <2>1, <2>2
<1>10. CASE Restore(c) \/ RestoreFails(c)
  <2>1. /\ r.pc = "restore" /\ r.ver \in 1..(r.at - 1) /\ r.at \in 2..Len(r.diff)
        /\ \/ s.stuck = r.stuck /\ vault' = [vault EXCEPT ![r.diff[r.ver].note] = r.diff[r.ver].before]
           \/ s.stuck = r.stuck \cup {r.diff[r.ver].note} /\ vault' = vault
        /\ r.ver = r.at - 1 => s.pc = "failed"
        /\ r.ver # r.at - 1 => s.pc = "restore" /\ s.ver = r.ver + 1 /\ s.diff = r.diff /\ s.at = r.at
                               /\ s.touched = r.touched
    BY <1>1, <1>10, RestoreEffect, RestoreFailsEffect
  <2>2. CASE r.ver = r.at - 1
    BY <1>2, <2>1, <2>2
  <2>3. CASE r.ver # r.at - 1
    <3>1. PICK w \in CallRec, f \in [Notes -> Texts] : w = r /\ f = vault
      BY <1>1
    <3>2. PICK z, g : z = s /\ g = vault'
      OBVIOUS
    <3>3. /\ w.pc = "restore" /\ w.at \in 2..Len(w.diff) /\ w.ver \in 1..(w.at - 1) /\ Holds(w, f)
          /\ \/ z.stuck = w.stuck /\ g = [f EXCEPT ![w.diff[w.ver].note] = w.diff[w.ver].before]
             \/ z.stuck = w.stuck \cup {w.diff[w.ver].note} /\ g = f
          /\ z.pc = "restore" /\ z.ver = w.ver + 1 /\ z.at = w.at /\ z.diff = w.diff
          /\ z.touched = w.touched
      BY <1>1, <2>1, <2>3, <3>1, <3>2
    <3>4. Holds(z, g)
      BY <3>3, HoldsRestore
    <3> QED BY <3>2, <3>4
  <2> QED BY <2>2, <2>3
<1>11. CASE Version(c)
  <2>1. s.pc = "audit" /\ s.diff = r.diff /\ s.touched = r.touched
    BY <1>1, <1>11, VersionEffect
  <2>2. r.pc = "version" /\ vault' = vault
    BY <1>11 DEF Version
  <2>3. PICK w, z : w = r /\ z = s
    OBVIOUS
  <2>4. /\ z.pc = "audit" /\ z.diff = w.diff /\ z.touched = w.touched /\ w.pc = "version"
        /\ Holds(w, vault)
    BY <1>1, <2>1, <2>2, <2>3
  <2>5. Holds(z, vault)
    BY <2>4 DEF Holds
  <2> QED BY <2>2, <2>3, <2>5
<1>12. CASE Audit(c) \/ LogFails(c) \/ AuditUndo(c) \/ UndoFails(c)
  <2>1. Answer(c, "ok") \/ Answer(c, "failed")
    BY <1>12 DEF Audit, LogFails, AuditUndo, UndoFails
  <2> QED BY <1>3, <2>1 DEF Final
<1>13. CASE LockForRevert(c)
  <2>1. CASE Answer(c, "failed")
    BY <1>3, <2>1 DEF Final
  <2>2. CASE \E v \in DOMAIN history :
               call' = [call EXCEPT ![c].pc = IF DOMAIN history[v].before = {} THEN "undone" ELSE "undo",
                                    ![c].ver = v, ![c].left = DOMAIN history[v].before]
    <3>1. PICK v \in DOMAIN history :
             call' = [call EXCEPT ![c].pc = IF DOMAIN history[v].before = {} THEN "undone" ELSE "undo",
                                  ![c].ver = v, ![c].left = DOMAIN history[v].before]
      BY <2>2
    <3>2. PICK left : left = DOMAIN history[v].before
      OBVIOUS
    <3>3. PICK x \in Undoing : x = IF left = {} THEN "undone" ELSE "undo"
      BY DEF Undoing
    <3>4. call' = [call EXCEPT ![c].pc = x, ![c].ver = v, ![c].left = left]
      BY <3>1, <3>2, <3>3
    <3> DEFINE w == call[c]
               z == [w EXCEPT !.pc = x, !.ver = v, !.left = left]
    <3>5. call' = [call EXCEPT ![c] = z]
      BY <1>1, <3>4
    <3>6. z.pc = x
      BY <1>1 DEF CallRec
    <3>7. s = z
      <4> HIDE DEF z
      <4> QED BY <1>1, <3>5
    <3> HIDE DEF z
    <3> QED BY <1>2, <3>6, <3>7 DEF Undoing
  <2> QED BY <1>13, <2>1, <2>2 DEF LockForRevert
<1>14. CASE Undo(c)
  <2>1. s.pc \in {"undone", "undo"}
    BY <1>1, <1>14, UndoEffect
  <2> QED BY <1>2, <2>1
<1> QED
  BY <1>4, <1>5, <1>6, <1>7, <1>8, <1>9, <1>10, <1>11, <1>12, <1>13, <1>14 DEF Commits, Reverts

LEMMA HoldsNext ==
    ASSUME Basic, HoldsInv, [Next]_vars
    PROVE  HoldsInv'
<1>1. call \in [Calls -> CallRec]
  BY DEF Basic, TypeInv
<1>2. ASSUME NEW d \in Calls, Spared(call[d], call'[d], vault, vault')
      PROVE  Holds(call'[d], vault')
  BY <1>1, <1>2, HoldsSpared DEF HoldsInv
<1>3. ASSUME NEW d \in Calls, call'[d] = call[d], vault' = vault
      PROVE  Holds(call'[d], vault')
  BY <1>3 DEF HoldsInv
<1>4. ASSUME NEW d \in Calls, call'[d].pc \notin {"write", "restore", "version", "audit"}
      PROVE  Holds(call'[d], vault')
  BY <1>4 DEF Holds
<1>5. ASSUME NEW c \in Calls, Commits(c) \/ Reverts(c)
      PROVE  \A d \in Calls : Holds(call'[d], vault')
  BY <1>2, <1>5, SparedByCall, HoldsOwn
<1>6. ASSUME NEW c \in Calls, NEW q \in Request, NEW a \in {"ok", "failed"}, Done(c, q, a)
      PROVE  \A d \in Calls : Holds(call'[d], vault')
  <2>1. \A d \in Calls \ {c} : call'[d] = call[d]
    BY <1>6, BasicDone
  <2>2. call'[c].pc = a
    BY <1>6, BasicDone
  <2>3. Holds(call'[c], vault')
    BY <1>4, <2>2
  <2>4. vault' = vault
    BY <1>6 DEF Done
  <2> QED BY <1>3, <2>1, <2>3, <2>4
<1>7. ASSUME NEW c \in Calls, NEW q \in Request, q.tool \in VaultTools, Begin(c, q)
      PROVE  \A d \in Calls : Holds(call'[d], vault')
  <2>1. call'[c].pc \in {"waiting", "failed"} /\ \A d \in Calls \ {c} : call'[d] = call[d]
    BY <1>7, BeginEffect DEF Basic
  <2>2. Holds(call'[c], vault')
    BY <1>4, <2>1
  <2>3. vault' = vault
    BY <1>7 DEF Begin
  <2> QED BY <1>3, <2>1, <2>2, <2>3
<1>8. ASSUME NEW p \in Procs, Crash(p)
      PROVE  \A d \in Calls : Holds(call'[d], vault')
  <2>1. \A d \in Calls : call'[d].pc = "dead" \/ call'[d] = call[d]
    BY <1>8, CrashEffect DEF Basic
  <2>2. vault' = vault
    BY <1>8 DEF Crash
  <2> QED BY <1>3, <1>4, <2>1, <2>2
<1>9. ASSUME NEW u \in Users, Edit(u)
      PROVE  \A d \in Calls : Holds(call'[d], vault')
  BY <1>2, <1>9, SparedByEdit
<1>10. ASSUME UNCHANGED notes
       PROVE  \A d \in Calls : Holds(call'[d], vault')
  BY <1>3, <1>10 DEF notes
<1> QED
  BY <1>5, <1>6, <1>7, <1>8, <1>9, <1>10, Steps DEF Basic, HoldsInv

\* What the files hold of a changeset whose call ends in an answer.
LEMMA EndsWhole ==
    ASSUME Basic, HoldsInv, NEW c \in Calls, Commits(c) \/ Reverts(c),
           call[c].pc \in {"write", "restore", "version", "audit"}, call'[c].pc \in {"ok", "failed"},
           NEW D, D = call[c].diff, NEW mine, mine = NotesIn(D) \ (call[c].touched \cup call'[c].stuck)
    PROVE  \/ \A n \in mine : vault'[n] = AfterAll(D)[n]
           \/ \A n \in mine : vault'[n] = Before(D)[n]
<1> DEFINE r == call[c]
           s == call'[c]
<1>1. TypeInv /\ StandInv /\ r \in CallRec /\ call \in [Calls -> CallRec] /\ vault \in [Notes -> Texts]
      /\ Stands(c, r) /\ Holds(r, vault) /\ D \in Seq(Entry) /\ DOMAIN D = 1..Len(D) /\ Len(D) \in Nat
  BY EntriesOf DEF Basic, TypeInv, StandInv, HoldsInv, CallRec
<1>2. \A n \in mine : /\ LastFor(D, n) \in DOMAIN D /\ D[LastFor(D, n)].note = n
                      /\ Before(D)[n] = D[LastFor(D, n)].before
                      /\ AfterAll(D)[n] = D[LastFor(D, n)].after
  BY <1>1, LastOne DEF Before, AfterAll
<1>3. r.pc \notin {"waiting", "propose", "diff", "undo", "undone"}
  OBVIOUS
<1>4. CASE Write(c)
  BY <1>1, <1>4, WriteEffect
<1>5. CASE WriteFails(c)
  <2>1. CASE r.at = 1
    <3>1. vault' = vault /\ r.pc = "write"
      BY <1>5 DEF WriteFails
    <3>2. \A i \in DOMAIN D : Untaken(r, i, r.at - 1)
      BY <1>1, <2>1 DEF Untaken
    <3>3. \A i \in DOMAIN D : D[i].note \notin r.touched => vault[D[i].note] = D[i].before
      BY <1>1, <3>1, <3>2 DEF Holds
    <3>4. \A n \in mine : vault'[n] = Before(D)[n]
      BY <1>2, <3>1, <3>3
    <3> QED BY <3>4
  <2>2. CASE r.at # 1
    BY <1>1, <1>5, <2>2, WriteFailsEffect
  <2> QED BY <2>1, <2>2
<1>6. CASE Restore(c) \/ RestoreFails(c)
  <2>1. /\ r.pc = "restore" /\ r.ver \in 1..(r.at - 1) /\ r.at \in 2..Len(r.diff)
        /\ \/ s.stuck = r.stuck /\ vault' = [vault EXCEPT ![r.diff[r.ver].note] = r.diff[r.ver].before]
           \/ s.stuck = r.stuck \cup {r.diff[r.ver].note} /\ vault' = vault
        /\ r.ver # r.at - 1 => s.pc = "restore"
    BY <1>1, <1>6, RestoreEffect, RestoreFailsEffect
  <2>2. r.ver = r.at - 1
    BY <2>1
  <2>3. PICK w \in CallRec, f \in [Notes -> Texts] : w = r /\ f = vault
    BY <1>1
  <2>4. PICK g, st : g = vault' /\ st = s.stuck
    OBVIOUS
  <2>5. /\ w.pc = "restore" /\ w.at \in 2..Len(w.diff) /\ w.ver \in 1..(w.at - 1) /\ Holds(w, f)
        /\ \/ st = w.stuck /\ g = [f EXCEPT ![w.diff[w.ver].note] = w.diff[w.ver].before]
           \/ st = w.stuck \cup {w.diff[w.ver].note} /\ g = f
        /\ w.ver = w.at - 1
    BY <1>1, <2>1, <2>2, <2>3, <2>4
  <2>6. Restored(w, st, g)
    BY <2>5, HoldsRestore
  <2>7. \A n \in mine : vault'[n] = Before(D)[n]
    BY <1>2, <2>3, <2>4, <2>6 DEF Restored
  <2> QED BY <2>7
<1>7. CASE Version(c)
  BY <1>1, <1>7, VersionEffect
<1>8. CASE Audit(c) \/ LogFails(c)
  <2>1. vault' = vault /\ r.pc \in {"version", "audit"}
    BY <1>8 DEF Audit, LogFails
  <2>2. \A n \in NotesIn(D) \ r.touched : vault[n] = AfterAll(D)[n]
    BY <1>1, <2>1 DEF Holds
  <2>3. \A n \in mine : vault'[n] = AfterAll(D)[n]
    BY <2>1, <2>2
  <2> QED BY <2>3
<1>9. CASE LockFor(c) \/ Propose(c) \/ LockForCommit(c) \/ Diff(c) \/ Reverts(c)
  BY <1>3, <1>9 DEF LockFor, Propose, LockForCommit, Diff, Reverts, LockForRevert, Undo, AuditUndo, UndoFails
<1> QED
  BY <1>4, <1>5, <1>6, <1>7, <1>8, <1>9 DEF Commits

\* A commit that has ended in an answer has written all of its texts, or none:
\* in the notes that no other process has written since the comparison, a
\* failure at any file, the rollback that follows it, and a failure to write
\* the version or the audit line leave one or the other, but for the notes
\* whose own restoring failed too: that error is dropped, the rollback goes on
\* and puts all the others back.  (write.rs:4-6, 398-434)
THEOREM Whole == Spec => AllOrNothing
<1> DEFINE A == \A c \in Calls :
                  LET mine == NotesIn(call[c].diff) \ (call[c].touched \cup call'[c].stuck) IN
                  call[c].pc \in {"write", "restore", "version", "audit"} /\ call'[c].pc \in {"ok", "failed"}
                    => \/ \A n \in mine : vault'[n] = AfterAll(call[c].diff)[n]
                       \/ \A n \in mine : vault'[n] = Before(call[c].diff)[n]
<1>1. Init => Basic /\ HoldsInv
  <2> SUFFICES ASSUME Init PROVE HoldsInv
    BY BasicInit
  <2>1. \A c \in Calls : call[c].pc = "idle"
    BY DEF Init, NotesInit, Idle
  <2> QED BY <2>1 DEF HoldsInv, Holds
<1>2. Basic /\ HoldsInv /\ [Next]_vars => (Basic /\ HoldsInv)'
  BY BasicNext, HoldsNext
<1>3. Basic /\ HoldsInv /\ [Next]_vars => [A]_notes
  <2> SUFFICES ASSUME Basic, HoldsInv, [Next]_vars, NEW c \in Calls,
                      call[c].pc \in {"write", "restore", "version", "audit"},
                      call'[c].pc \in {"ok", "failed"}, notes' # notes
               PROVE  LET mine == NotesIn(call[c].diff) \ (call[c].touched \cup call'[c].stuck) IN
                      \/ \A n \in mine : vault'[n] = AfterAll(call[c].diff)[n]
                      \/ \A n \in mine : vault'[n] = Before(call[c].diff)[n]
    OBVIOUS
  <2>1. call'[c].pc # call[c].pc
    OBVIOUS
  <2>2. ASSUME NEW d \in Calls, Commits(d) \/ Reverts(d)
        PROVE  d = c
    BY <2>1, <2>2, SparedByCall DEF Spared, Alike
  <2>3. \/ Commits(c) \/ Reverts(c)
    <3>1. ASSUME NEW d \in Calls, NEW q \in Request, NEW a \in {"ok", "failed"}, Done(d, q, a)
          PROVE  FALSE
      BY <2>1, <3>1, BasicDone
    <3>2. ASSUME NEW d \in Calls, NEW q \in Request, q.tool \in VaultTools, Begin(d, q)
          PROVE  FALSE
      BY <2>1, <3>2, BeginEffect DEF Basic
    <3>3. ASSUME NEW p \in Procs, Crash(p)
          PROVE  FALSE
      BY <2>1, <3>3, CrashEffect DEF Basic
    <3>4. ASSUME NEW u \in Users, Edit(u)
          PROVE  FALSE
      BY <2>1, <3>4, SparedByEdit DEF Spared, Alike
    <3> QED BY <2>2, <3>1, <3>2, <3>3, <3>4, Steps DEF Basic
  <2>4. PICK D, mine : D = call[c].diff /\ mine = NotesIn(D) \ (call[c].touched \cup call'[c].stuck)
    OBVIOUS
  <2>5. \/ \A n \in mine : vault'[n] = AfterAll(D)[n]
        \/ \A n \in mine : vault'[n] = Before(D)[n]
    BY <2>3, <2>4, EndsWhole
  <2> QED BY <2>4, <2>5
<1> HIDE DEF A
<1>4. Spec => [][A]_notes
  BY <1>1, <1>2, <1>3, PTL DEF Spec
<1> QED
  BY <1>4 DEF A, AllOrNothing

-----------------------------------------------------------------------------
(* No call removes an edit that it had no reason to.                       *)

\* A changeset of one note that only gains marks.
LEMMA GentleOne ==
    ASSUME NEW c, NEW diff \in Seq(Entry), Len(diff) = 1,
           MarksIn(diff[1].before) \subseteq MarksIn(diff[1].after),
           MarksIn(diff[1].after) \subseteq MarksIn(diff[1].before) \cup {c}
    PROVE  Gentle(c, diff)
<1>1. \A i \in 1..Len(diff) : i = 1
  OBVIOUS
<1> QED
  BY <1>1 DEF Gentle

\* An update of a body that keeps its marks, or gains some.
LEMMA BodyKept ==
    ASSUME NEW n \in Notes, NEW b \in Body, NEW disk \in Texts, disk # None, NEW X,
           disk.body.marks \subseteq b.marks, b.marks \subseteq disk.body.marks \cup X
    PROVE  LET t == After(UpdateBody(n, b), disk) IN
           MarksIn(disk) \subseteq MarksIn(t) /\ MarksIn(t) \subseteq MarksIn(disk) \cup X
<1> DEFINE t == After(UpdateBody(n, b), disk)
<1>1. t = [body |-> b, tags |-> disk.tags]
  BY TextsAssumption DEF After, UpdateBody, Or
<1>2. disk.tags \in SUBSET Marks /\ MarksIn(disk) = disk.body.marks \cup disk.tags
  BY TextParts
<1>3. t \in Texts /\ t.body = b /\ t.tags = disk.tags
  BY <1>1, <1>2 DEF Text, Texts
<1>4. t # None
  <2>1. t \in Text
    BY <1>1, <1>2 DEF Text
  <2> HIDE DEF t
  <2> QED BY <2>1, TextsAssumption
<1> HIDE DEF t
<1>5. MarksIn(t) = b.marks \cup disk.tags
  BY <1>3, <1>4 DEF MarksIn
<1> QED
  BY <1>2, <1>5 DEF t

LEMMA TagsKept ==
    ASSUME NEW n \in Notes, NEW disk \in Texts, disk # None, NEW c \in Calls
    PROVE  LET t == After(UpdateTags(n, disk.tags \cup {c}), disk) IN
           MarksIn(disk) \subseteq MarksIn(t) /\ MarksIn(t) \subseteq MarksIn(disk) \cup {c}
<1> DEFINE t == After(UpdateTags(n, disk.tags \cup {c}), disk)
<1>1. disk.tags \in SUBSET Marks /\ disk.body \in Body /\ MarksIn(disk) = disk.body.marks \cup disk.tags
  BY TextParts
<1>2. disk.tags \cup {c} \in SUBSET Marks
  BY <1>1, CallsAreMarks
<1>3. t = [body |-> disk.body, tags |-> disk.tags \cup {c}]
  BY <1>2, TextsAssumption DEF After, UpdateTags, Or
<1>4. t \in Text /\ t.body = disk.body /\ t.tags = disk.tags \cup {c}
  BY <1>1, <1>2, <1>3 DEF Text
<1> HIDE DEF t
<1>5. MarksIn(t) = disk.body.marks \cup disk.tags \cup {c}
  BY <1>4, TextsAssumption DEF MarksIn
<1> QED
  BY <1>1, <1>5 DEF t

\* What a changeset was made from is what it replaces.
Current(base, ops) ==
    \A i \in DOMAIN ops : ops[i].op \in {"update", "delete"} =>
      /\ ops[i].op = "delete" => vault[ops[i].note] = base[ops[i].note]
      /\ ops[i].body # Keep => vault[ops[i].note].body = base[ops[i].note].body
      /\ ops[i].tags # Keep => vault[ops[i].note].tags = base[ops[i].note].tags

LEMMA NotStale ==
    ASSUME NEW c \in Calls, NEW base, NEW ops \in Seq(Operation), NEW told,
           base = call[c].base, ops = call[c].ops, told = call[c].touched,
           base \in [Notes -> Texts], ~\E i \in DOMAIN ops : Stale(c, ops[i]),
           \/ call[c].req.tool \in FromIndex
           \/ \A n \in Notes \ told : base[n] = vault[n]
    PROVE  Current(base, ops)
<1>1. base # None
  BY TextsAssumption DEF Texts
<1>2. \A i \in DOMAIN ops : ops[i].note \in Notes
  BY ElementOfSeq DEF Operation
<1>3. ASSUME NEW i \in DOMAIN ops, ops[i].op \in {"update", "delete"}
      PROVE  /\ ops[i].op = "delete" => vault[ops[i].note] = base[ops[i].note]
             /\ ops[i].body # Keep => vault[ops[i].note].body = base[ops[i].note].body
             /\ ops[i].tags # Keep => vault[ops[i].note].tags = base[ops[i].note].tags
  <2>1. CASE call[c].req.tool \in FromIndex \/ ops[i].note \in told
    BY <1>1, <1>3, <2>1 DEF Stale
  <2>2. CASE ~(call[c].req.tool \in FromIndex \/ ops[i].note \in told)
    <3>1. base[ops[i].note] = vault[ops[i].note]
      BY <1>2, <2>2
    <3> QED BY <3>1
  <2> QED BY <2>1, <2>2
<1> QED
  BY <1>3 DEF Current

\* The changesets of the tools that add to a note.
LEMMA GentleAdds ==
    ASSUME NEW c \in Calls, NEW q, IsRequest(q), q.tool \in {"create", "link", "tag", "toggle"},
           NEW base, q.tool # "create" => base \in [Notes -> Texts] /\ ~Unfit(q, base),
           NEW ops \in Seq(Operation), ops = Ops(c, q, base), vault \in [Notes -> Texts],
           \A i \in DOMAIN ops : ~Refused(ops[i]), q.tool # "create" => Current(base, ops)
    PROVE  Gentle(c, BuildDiff(ops))
<1> DEFINE D == BuildDiff(ops)
<1>1. /\ D \in Seq(Entry) /\ DOMAIN D = DOMAIN ops /\ Len(D) = Len(ops)
      /\ \A i \in DOMAIN ops :
           /\ D[i].note = ops[i].note /\ ops[i].note \in Notes
           /\ D[i].before = vault[ops[i].note]
           /\ D[i].after = After(ops[i], vault[ops[i].note])
  BY DiffShape
<1> HIDE DEF D
<1>2. q.note \in Notes
  BY DEF IsRequest, VaultTools
<1>3. PICK n \in Notes : n = q.note
  BY <1>2
<1>4. vault[n] \in Texts
  OBVIOUS
<1>5. CASE q.tool = "create"
  <2>1. ops = <<Create(n, Fresh(c))>>
    BY <1>3, <1>5 DEF Ops
  <2>2. Len(ops) = 1 /\ 1 \in DOMAIN ops /\ ops[1] = Create(n, Fresh(c))
    BY <2>1
  <2>3. vault[n] = None
    BY <2>2 DEF Refused, Create
  <2>4. After(ops[1], vault[n]) = [body |-> Fresh(c).body, tags |-> Fresh(c).tags]
    BY <2>2 DEF After, Create
  <2>5. MarksIn([body |-> Fresh(c).body, tags |-> Fresh(c).tags]) \subseteq {c}
    BY FreshTyped DEF MarksIn
  <2>6. ops[1].note = n
    BY <2>2 DEF Create
  <2>7. MarksIn(D[1].before) = {}
    BY <1>1, <2>2, <2>3, <2>6 DEF MarksIn
  <2>8. MarksIn(D[1].after) \subseteq {c}
    BY <1>1, <2>2, <2>4, <2>5, <2>6
  <2> QED BY <1>1, <2>2, <2>7, <2>8, GentleOne DEF D
<1>6. CASE q.tool \in {"link", "toggle"}
  <2>1. base \in [Notes -> Texts] /\ base[n] # None /\ base[n] \in Texts
    BY <1>3, <1>6 DEF Unfit
  <2>2. PICK old \in Body : old = base[n].body
    BY <2>1, TextParts
  <2>3. PICK b \in Body : /\ ops = <<UpdateBody(n, b)>>
                          /\ old.marks \subseteq b.marks /\ b.marks \subseteq old.marks \cup {c}
    <3>1. PICK with \in Body : with = Marked(old, c) /\ with.marks = old.marks \cup {c}
      BY MarkedTyped, CallsAreMarks
    <3>2. CASE q.tool = "toggle"
      <4>1. ops = <<UpdateBody(n, with)>>
        BY <1>3, <2>2, <3>1, <3>2 DEF Ops
      <4> QED BY <3>1, <4>1
    <3>3. CASE q.tool = "link"
      <4>1. q.to \in Notes
        BY <3>3 DEF IsRequest
      <4>2. PICK linked : linked = [with EXCEPT !.links = @ \cup {q.to}]
        OBVIOUS
      <4>3. linked \in Body /\ linked.marks = with.marks
        BY <4>1, <4>2 DEF Body
      <4>4. ops = <<UpdateBody(n, IF q.to \in old.links THEN old ELSE linked)>>
        BY <1>3, <2>2, <3>1, <3>3, <4>2 DEF Ops
      <4>5. CASE q.to \in old.links
        BY <4>4, <4>5
      <4>6. CASE q.to \notin old.links
        <5>1. ops = <<UpdateBody(n, linked)>>
          BY <4>4, <4>6
        <5> QED BY <3>1, <4>3, <5>1
      <4> QED BY <4>5, <4>6
    <3> QED BY <1>6, <3>2, <3>3
  <2>4. Len(ops) = 1 /\ 1 \in DOMAIN ops /\ ops[1] = UpdateBody(n, b)
    BY <2>3
  <2>5. ops[1].note = n /\ ops[1].op = "update" /\ ops[1].body = b
    BY <2>4 DEF UpdateBody
  <2>6. b # Keep
    BY TextsAssumption
  <2>7. vault[n] # None /\ vault[n].body = old
    <3>1. Current(base, ops) /\ ~Refused(ops[1])
      BY <1>6, <2>4
    <3> QED BY <2>2, <2>4, <2>5, <2>6, <3>1 DEF Refused, Current
  <2>8. /\ MarksIn(vault[n]) \subseteq MarksIn(After(UpdateBody(n, b), vault[n]))
        /\ MarksIn(After(UpdateBody(n, b), vault[n])) \subseteq MarksIn(vault[n]) \cup {c}
    <3>1. PICK disk \in Texts : disk = vault[n]
      BY <1>4
    <3>2. PICK X : X = {c}
      OBVIOUS
    <3>3. disk # None /\ disk.body.marks \subseteq b.marks /\ b.marks \subseteq disk.body.marks \cup X
      BY <2>3, <2>7, <3>1, <3>2
    <3>4. LET t == After(UpdateBody(n, b), disk) IN
          MarksIn(disk) \subseteq MarksIn(t) /\ MarksIn(t) \subseteq MarksIn(disk) \cup X
      BY <3>3, BodyKept
    <3> QED BY <3>1, <3>2, <3>4
  <2>9. /\ MarksIn(D[1].before) \subseteq MarksIn(D[1].after)
        /\ MarksIn(D[1].after) \subseteq MarksIn(D[1].before) \cup {c}
    BY <1>1, <2>4, <2>5, <2>8
  <2> QED BY <1>1, <2>4, <2>9, GentleOne DEF D
<1>7. CASE q.tool = "tag"
  <2>1. base \in [Notes -> Texts] /\ base[n] # None /\ base[n] \in Texts
    BY <1>3, <1>7 DEF Unfit
  <2>2. PICK old \in SUBSET Marks : old = base[n].tags
    BY <2>1, TextParts
  <2>3. ops = <<UpdateTags(n, old \cup {c})>>
    BY <1>3, <1>7, <2>2 DEF Ops
  <2>4. Len(ops) = 1 /\ 1 \in DOMAIN ops /\ ops[1] = UpdateTags(n, old \cup {c})
    BY <2>3
  <2>5. ops[1].note = n /\ ops[1].op = "update" /\ ops[1].tags = old \cup {c}
    BY <2>4 DEF UpdateTags
  <2>6. old \cup {c} # Keep
    BY TextsAssumption, CallsAreMarks
  <2>7. vault[n] # None /\ vault[n].tags = old
    <3>1. Current(base, ops) /\ ~Refused(ops[1])
      BY <1>7, <2>4
    <3> QED BY <2>2, <2>4, <2>5, <2>6, <3>1 DEF Refused, Current
  <2>8. /\ MarksIn(vault[n]) \subseteq MarksIn(After(ops[1], vault[n]))
        /\ MarksIn(After(ops[1], vault[n])) \subseteq MarksIn(vault[n]) \cup {c}
    <3>1. PICK disk \in Texts : disk = vault[n]
      BY <1>4
    <3>2. disk # None /\ ops[1] = UpdateTags(n, disk.tags \cup {c})
      BY <2>4, <2>7, <3>1
    <3>3. LET t == After(UpdateTags(n, disk.tags \cup {c}), disk) IN
          MarksIn(disk) \subseteq MarksIn(t) /\ MarksIn(t) \subseteq MarksIn(disk) \cup {c}
      BY <3>2, TagsKept
    <3> QED BY <3>1, <3>2, <3>3
  <2>9. /\ MarksIn(D[1].before) \subseteq MarksIn(D[1].after)
        /\ MarksIn(D[1].after) \subseteq MarksIn(D[1].before) \cup {c}
    BY <1>1, <2>4, <2>5, <2>8
  <2> QED BY <1>1, <2>4, <2>9, GentleOne DEF D
<1> QED
  BY <1>5, <1>6, <1>7

\* The changeset of a rename: the new note has the marks of the old one, the
\* notes that link to it keep theirs.
LEMMA GentleRename ==
    ASSUME NEW c, NEW base \in [Notes -> Texts], NEW m \in Notes, NEW k \in Notes,
           base[m] # None, base[k] = None, m # k,
           NEW ops \in Seq(Operation), ops = RenameOps(base, m, k), vault \in [Notes -> Texts],
           \A i \in DOMAIN ops : ~Refused(ops[i]), Current(base, ops)
    PROVE  Gentle(c, BuildDiff(ops))
<1> DEFINE D == BuildDiff(ops)
           moved == [base[m] EXCEPT !.body = Retargeted(@, m, k)]
           L == Len(ops)
           b(n) == Retargeted(base[n].body, m, k)
<1>1. /\ D \in Seq(Entry) /\ DOMAIN D = DOMAIN ops /\ Len(D) = L
      /\ \A i \in DOMAIN ops :
           /\ D[i].note = ops[i].note /\ ops[i].note \in Notes
           /\ D[i].before = vault[ops[i].note]
           /\ D[i].after = After(ops[i], vault[ops[i].note])
  BY DiffShape
<1>2. /\ L \in Nat /\ L >= 2 /\ DOMAIN ops = 1..L
      /\ ops[1] = Create(k, moved) /\ ops[L] = Delete(m)
      /\ \A i \in 2..(L - 1) :
           /\ ops[i].note \in Backlinks(base, m)
           /\ ops[i] = UpdateBody(ops[i].note, b(ops[i].note))
      /\ \A i, j \in 2..(L - 1) : ops[i].note = ops[j].note => i = j
  <2>1. PICK o : o = ops
    OBVIOUS
  <2>2. o = RenameOps(base, m, k)
    BY <2>1
  <2>3. Renames(o, base, m, k)
    BY <2>2, RenameShape
  <2>4. DOMAIN o = 1..Len(o)
    BY <2>3 DEF Renames
  <2> QED BY <2>1, <2>3, <2>4 DEF Renames
<1>3. moved \in Text /\ MarksIn(moved) = MarksIn(base[m])
  BY MovedTyped, TextParts
<1>4. \A i \in 2..(L - 1) : /\ base[ops[i].note] \in Texts /\ base[ops[i].note] # None
                            /\ b(ops[i].note) \in Body
                            /\ b(ops[i].note).marks = base[ops[i].note].body.marks
                            /\ ops[i].note # k /\ ops[i].note # m
  <2> TAKE i \in 2..(L - 1)
  <2>1. PICK n \in Notes : n = ops[i].note /\ n \in Backlinks(base, m)
    BY <1>2 DEF Backlinks
  <2>2. base[n] # None /\ n # m /\ base[n] \in Texts
    BY <2>1 DEF Backlinks
  <2>3. base[n].body \in Body
    BY <2>2, TextParts
  <2>4. Retargeted(base[n].body, m, k) \in Body /\ Retargeted(base[n].body, m, k).marks = base[n].body.marks
    BY <2>3, RetargetedTyped
  <2> QED BY <2>1, <2>2, <2>4
<1> HIDE DEF D, moved, L, b
<1>5. ops[1].op = "create" /\ ops[1].note = k /\ ops[1].body = moved.body /\ ops[1].tags = moved.tags
  BY <1>2 DEF Create
<1>6. ops[L].op = "delete" /\ ops[L].note = m
  BY <1>2 DEF Delete
<1>7. MarksIn(D[1].before) = {} /\ MarksIn(D[1].after) = MarksIn(base[m])
  <2>1. 1 \in DOMAIN ops /\ ~Refused(ops[1])
    BY <1>2
  <2>2. vault[k] = None
    BY <1>5, <2>1 DEF Refused
  <2>3. After(ops[1], vault[k]) = [body |-> moved.body, tags |-> moved.tags]
    BY <1>5 DEF After
  <2>4. [body |-> moved.body, tags |-> moved.tags] = moved
    BY <1>3 DEF Text
  <2> QED BY <1>1, <1>3, <1>5, <2>1, <2>2, <2>3, <2>4 DEF MarksIn
<1>8. MarksIn(D[L].before) = MarksIn(base[m]) /\ MarksIn(D[L].after) = {}
  <2>1. L \in DOMAIN ops
    BY <1>2
  <2>2. vault[m] = base[m]
    BY <1>6, <2>1 DEF Current
  <2>3. After(ops[L], vault[m]) = None
    BY <1>6 DEF After
  <2> QED BY <1>1, <1>6, <2>1, <2>2, <2>3 DEF MarksIn
<1>9. ASSUME NEW i \in 2..(L - 1)
      PROVE  /\ MarksIn(D[i].before) \subseteq MarksIn(D[i].after)
             /\ MarksIn(D[i].after) \subseteq MarksIn(D[i].before) \cup {c}
  <2>1. i \in DOMAIN ops /\ ~Refused(ops[i])
    BY <1>2
  <2>2. PICK n \in Notes, with \in Body : n = ops[i].note /\ with = b(ops[i].note)
    BY <1>1, <1>4, <2>1
  <2>3. ops[i] = UpdateBody(n, with) /\ with.marks = base[n].body.marks
    BY <1>2, <1>4, <2>2
  <2>4. ops[i].op = "update" /\ ops[i].body = with /\ with # Keep
    BY <2>3, TextsAssumption DEF UpdateBody
  <2>5. vault[n] # None /\ vault[n].body = base[n].body
    BY <2>1, <2>2, <2>4 DEF Refused, Current
  <2>6. PICK disk \in Texts : disk = vault[n]
    OBVIOUS
  <2> DEFINE X == {c}
  <2>7. disk # None /\ disk.body.marks \subseteq with.marks /\ with.marks \subseteq disk.body.marks \cup X
    BY <2>3, <2>5, <2>6
  <2> HIDE DEF X
  <2>8. LET t == After(UpdateBody(n, with), disk) IN
        MarksIn(disk) \subseteq MarksIn(t) /\ MarksIn(t) \subseteq MarksIn(disk) \cup X
    BY <2>7, BodyKept
  <2> QED BY <1>1, <2>1, <2>2, <2>3, <2>6, <2>8 DEF X
<1>10. \A i, j \in 1..L : D[i].note = D[j].note => i = j
  <2> SUFFICES ASSUME NEW i \in 1..L, NEW j \in 1..L, ops[i].note = ops[j].note PROVE i = j
    BY <1>1, <1>2
  <2>1. /\ i = 1 \/ i = L \/ i \in 2..(L - 1)
        /\ j = 1 \/ j = L \/ j \in 2..(L - 1)
    BY <1>2
  <2> QED BY <1>2, <1>4, <1>5, <1>6, <2>1
<1>11. \A i \in 1..L : i = 1 \/ i = L \/ i \in 2..(L - 1)
  BY <1>2
<1>12. L # 1
  BY <1>2
<1>13. Gentle(c, D)
  <2>1. \A i \in 1..L :
          \/ MarksIn(D[i].before) \subseteq MarksIn(D[i].after)
          \/ i = L /\ i # 1 /\ MarksIn(D[i].before) \subseteq MarksIn(D[1].after)
    BY <1>7, <1>8, <1>9, <1>11, <1>12
  <2>2. \A i \in 1..L :
          \/ MarksIn(D[i].after) \subseteq MarksIn(D[i].before) \cup {c}
          \/ i = 1 /\ i # L /\ MarksIn(D[i].after) \subseteq MarksIn(D[L].before)
    BY <1>7, <1>8, <1>9, <1>11, <1>12
  <2> QED BY <1>1, <1>10, <2>1, <2>2 DEF Gentle
<1> QED
  BY <1>13 DEF D

LEMMA GentleDiff ==
    ASSUME Basic, BaseInv, NEW c \in Calls, Diff(c), call'[c].pc # "failed",
           ~Rewriting(call[c]), ~call'[c].stale
    PROVE  Gentle(c, call'[c].diff)
<1> DEFINE r == call[c]
<1>1. r \in CallRec /\ Stands(c, r) /\ r.pc = "diff" /\ vault \in [Notes -> Texts] /\ TypeInv /\ StandInv
  BY BasicTypes DEF Basic, StandInv, Diff
<1>2. ~(cast.scope[Proc(c)] = "ro" \/ \E i \in DOMAIN r.ops : Refused(r.ops[i]))
  <2>1. Answer(c, "failed") => call'[c].pc = "failed"
    BY BasicTypes, AnswerEffect DEF Final
  <2> QED BY <2>1 DEF Diff
<1>3. /\ call'[c].diff = BuildDiff(r.ops)
      /\ call'[c].stale = \E i \in DOMAIN r.ops : Stale(c, r.ops[i])
  BY <1>1, <1>2, DiffEffect
<1>4. PICK q \in Request \cup {None}, ops \in Seq(Operation) : q = r.req /\ ops = r.ops
  BY <1>1 DEF CallRec
<1>5. PICK base : base = r.base
  OBVIOUS
<1>6. q \in Request /\ q.tool \in VaultTools /\ IsRequest(q) /\ q.tool \notin {"propose", "revert", "commit"}
      /\ q.tool \in {"create", "link", "tag", "toggle", "rename"}
  <2>1. q \in Request /\ q.tool \in VaultTools /\ q.tool \notin {"propose", "revert"}
    BY <1>1, <1>4 DEF Stands, Locked, Committing
  <2>2. q.tool \notin {"update", "delete", "setraw", "commit", "revert"}
    BY <1>4 DEF Rewriting
  <2> QED BY <2>1, <2>2, Requests DEF VaultTools
<1>7. /\ q.tool \in FromIndex \cup FromNote => base \in [Notes -> Texts] /\ ~Unfit(q, base)
      /\ ops = Ops(c, q, base)
  BY <1>1, <1>4, <1>5, <1>6 DEF Stands, Grounded
<1>8. \A i \in DOMAIN ops : ~Refused(ops[i])
  BY <1>2, <1>4
<1>9. ASSUME q.tool \in FromIndex \cup FromNote
      PROVE  Current(base, ops)
  <2>1. PICK told : told = r.touched
    OBVIOUS
  <2>2. ~\E i \in DOMAIN ops : Stale(c, ops[i])
    BY <1>3, <1>4
  <2>3. q.tool \in FromIndex \/ \A n \in Notes \ told : base[n] = vault[n]
    BY <1>1, <1>4, <1>5, <1>9, <2>1 DEF BaseInv
  <2> QED BY <1>4, <1>5, <1>7, <1>9, <2>1, <2>2, <2>3, NotStale
<1>10. CASE q.tool \in {"create", "link", "tag", "toggle"}
  <2>1. q.tool # "create" => base \in [Notes -> Texts] /\ ~Unfit(q, base) /\ Current(base, ops)
    BY <1>7, <1>9, <1>10 DEF FromIndex, FromNote
  <2>2. Gentle(c, BuildDiff(ops))
    BY <1>1, <1>6, <1>7, <1>8, <1>10, <2>1, GentleAdds
  <2> QED BY <1>3, <1>4, <2>2
<1>11. CASE q.tool = "rename"
  <2>1. base \in [Notes -> Texts] /\ ~Unfit(q, base) /\ Current(base, ops)
    BY <1>7, <1>9, <1>11 DEF FromIndex
  <2>2. PICK m \in Notes, k \in Notes : m = q.note /\ k = q.to
    BY <1>6, <1>11 DEF IsRequest
  <2>3. base[m] # None /\ base[k] = None /\ m # k
    BY <1>11, <2>1, <2>2 DEF Unfit
  <2>4. ops = RenameOps(base, m, k)
    BY <1>7, <1>11, <2>2 DEF Ops
  <2>5. Gentle(c, BuildDiff(ops))
    BY <1>1, <1>8, <2>1, <2>3, <2>4, GentleRename
  <2> QED BY <1>3, <1>4, <2>5
<1> QED
  BY <1>6, <1>10, <1>11

\* Writing the next file of such a changeset leaves every mark in some file.
LEMMA GentleWrite ==
    ASSUME NEW c, NEW r \in CallRec, NEW files \in [Notes -> Texts], NEW files2,
           r.pc = "write", r.at \in 1..Len(r.diff), Holds(r, files), Gentle(c, r.diff), r.touched = {},
           files2 = [files EXCEPT ![r.diff[r.at].note] = r.diff[r.at].after]
    PROVE  MarksOf(files) \subseteq MarksOf(files2)
<1> DEFINE D == r.diff
           a == r.at
           L == Len(D)
<1>1. /\ L \in Nat /\ DOMAIN D = 1..L /\ a \in 1..L
      /\ \A i \in 1..L : D[i].note \in Notes /\ D[i].after \in Texts
  BY EntriesOf DEF CallRec
<1>2. /\ \A i, j \in 1..L : D[i].note = D[j].note => i = j
      /\ \A i \in 1..L :
         \/ MarksIn(D[i].before) \subseteq MarksIn(D[i].after)
         \/ i = L /\ i # 1 /\ MarksIn(D[i].before) \subseteq MarksIn(D[1].after)
  BY DEF Gentle
<1>3. ASSUME NEW i \in 1..L
      PROVE  /\ (\A j \in 1..(a - 1) : D[j].note # D[i].note) => files[D[i].note] = D[i].before
             /\ i < a /\ (\A j \in (i + 1)..(a - 1) : D[j].note # D[i].note)
                  => files[D[i].note] = D[i].after
  BY <1>1, <1>3 DEF Holds, Untaken
<1>4. files2[D[a].note] = D[a].after /\ \A n \in Notes \ {D[a].note} : files2[n] = files[n]
  BY <1>1
<1>5. files2 \in [Notes -> Texts]
  BY <1>1
<1> HIDE DEF D, a, L
<1>6. files[D[a].note] = D[a].before
  <2>1. \A j \in 1..(a - 1) : D[j].note # D[a].note
    BY <1>1, <1>2
  <2> QED BY <1>1, <1>3, <2>1
<1>7. ASSUME a # 1
      PROVE  files2[D[1].note] = D[1].after
  <2>1. 1 \in 1..L /\ 1 < a
    BY <1>1, <1>7
  <2>2. \A j \in (1 + 1)..(a - 1) : D[j].note # D[1].note
    BY <1>1, <1>2, <2>1
  <2>3. files[D[1].note] = D[1].after
    BY <1>3, <2>1, <2>2
  <2>4. D[1].note # D[a].note
    BY <1>1, <1>2, <2>1
  <2> QED BY <1>1, <1>4, <2>1, <2>3, <2>4
<1>8. ASSUME NEW b \in MarksOf(files)
      PROVE  b \in MarksOf(files2)
  <2>1. PICK n \in Notes : b \in MarksIn(files[n])
    BY MarksAre
  <2>2. CASE n # D[a].note
    BY <1>4, <1>5, <2>1, <2>2, MarksAre
  <2>3. CASE n = D[a].note
    <3>1. b \in MarksIn(D[a].before)
      BY <1>6, <2>1, <2>3
    <3>2. CASE b \in MarksIn(D[a].after)
      BY <1>1, <1>4, <1>5, <3>2, MarksAre
    <3>3. CASE a # 1 /\ b \in MarksIn(D[1].after)
      <4>1. D[1].note \in Notes
        BY <1>1
      <4> QED BY <1>5, <1>7, <3>3, <4>1, MarksAre
    <3> QED BY <1>1, <1>2, <3>1, <3>2, <3>3
  <2> QED BY <2>2, <2>3
<1> QED
  BY <1>8

\* A write from `files` to `files2` removes no mark but c's.
KeepsBut(files, files2, c) == MarksOf(files) \subseteq MarksOf(files2) \cup {c}

\* Putting the next one back removes none but the call's own.
LEMMA GentleRestore ==
    ASSUME NEW c, NEW r \in CallRec, NEW files \in [Notes -> Texts], NEW files2,
           r.pc = "restore", r.at \in 2..Len(r.diff), r.ver \in 1..(r.at - 1),
           Holds(r, files), Gentle(c, r.diff), r.touched = {},
           \A n \in r.stuck : \E j \in 1..(r.ver - 1) : r.diff[j].note = n,
           files2 = [files EXCEPT ![r.diff[r.ver].note] = r.diff[r.ver].before]
    PROVE  KeepsBut(files, files2, c)
<1> DEFINE D == r.diff
           a == r.at
           v == r.ver
           L == Len(D)
<1>1. /\ L \in Nat /\ DOMAIN D = 1..L /\ a \in 2..L /\ v \in 1..(a - 1) /\ v \in 1..L /\ L \in 1..L
      /\ \A i \in 1..L : D[i].note \in Notes /\ D[i].before \in Texts
  BY EntriesOf DEF CallRec
<1>2. /\ \A i, j \in 1..L : D[i].note = D[j].note => i = j
      /\ \A i \in 1..L :
         \/ MarksIn(D[i].after) \subseteq MarksIn(D[i].before) \cup {c}
         \/ i = 1 /\ i # L /\ MarksIn(D[i].after) \subseteq MarksIn(D[L].before)
  BY DEF Gentle
<1>3. ASSUME NEW i \in 1..L, D[i].note \notin r.stuck
      PROVE  /\ (\A j \in 1..(a - 1) : D[j].note # D[i].note) => files[D[i].note] = D[i].before
             /\ i < a /\ i >= v /\ (\A j \in 1..L : j # i => D[j].note # D[i].note)
                  => files[D[i].note] = D[i].after
  BY <1>1, <1>3 DEF Holds, Untaken
<1>4. files2[D[v].note] = D[v].before /\ \A n \in Notes \ {D[v].note} : files2[n] = files[n]
  BY <1>1
<1>5. files2 \in [Notes -> Texts]
  BY <1>1
<1>9. \A n \in r.stuck : \E j \in 1..(v - 1) : D[j].note = n
  OBVIOUS
<1> HIDE DEF D, a, v, L
<1>10. ASSUME NEW i \in v..L
       PROVE  D[i].note \notin r.stuck
  BY <1>1, <1>2, <1>9
<1>6. files[D[v].note] = D[v].after
  <2>1. v < a /\ v >= v /\ \A j \in 1..L : j # v => D[j].note # D[v].note
    BY <1>1, <1>2
  <2>2. D[v].note \notin r.stuck
    BY <1>1, <1>10
  <2> QED BY <1>1, <1>3, <2>1, <2>2
<1>7. files2[D[L].note] = D[L].before
  <2>1. \A j \in 1..(a - 1) : D[j].note # D[L].note
    BY <1>1, <1>2
  <2>2. files[D[L].note] = D[L].before
    <3>1. D[L].note \notin r.stuck
      BY <1>1, <1>10
    <3> QED BY <1>1, <1>3, <2>1, <3>1
  <2>3. D[L].note # D[v].note
    BY <1>1, <2>1
  <2> QED BY <1>1, <1>4, <2>2, <2>3
<1>8. ASSUME NEW b \in MarksOf(files), b # c
      PROVE  b \in MarksOf(files2)
  <2>1. PICK n \in Notes : b \in MarksIn(files[n])
    BY MarksAre
  <2>2. CASE n # D[v].note
    BY <1>4, <1>5, <2>1, <2>2, MarksAre
  <2>3. CASE n = D[v].note
    <3>1. b \in MarksIn(D[v].after)
      BY <1>6, <2>1, <2>3
    <3>2. CASE b \in MarksIn(D[v].before)
      BY <1>1, <1>4, <1>5, <3>2, MarksAre
    <3>3. CASE b \in MarksIn(D[L].before)
      <4>1. D[L].note \in Notes
        BY <1>1
      <4> QED BY <1>5, <1>7, <3>3, <4>1, MarksAre
    <3> QED BY <1>1, <1>2, <1>8, <3>1, <3>2, <3>3
  <2> QED BY <2>2, <2>3
<1> QED
  BY <1>8 DEF KeepsBut

\* Which of a call's own steps leads where.
LEMMA OwnSteps ==
    ASSUME Basic, NEW c \in Calls, Commits(c) \/ Reverts(c), NEW s, s = call'[c]
    PROVE  /\ s.pc = "propose" => LockFor(c)
           /\ s.pc = "diff" => Propose(c) \/ LockForCommit(c)
           /\ s.pc \in {"write", "version"} => Diff(c) \/ Write(c)
           /\ s.pc = "restore" => WriteFails(c) \/ Restore(c) \/ RestoreFails(c)
           /\ s.pc = "audit" => Version(c)
           /\ s.pc \in {"undo", "undone"} => LockForRevert(c) \/ Undo(c)
           /\ s.pc \notin {"idle", "waiting"}
           /\ s.pc \in Final => IdleLike(s)
<1>1. TypeInv /\ StandInv /\ call \in [Calls -> CallRec]
  BY DEF Basic, TypeInv
<1>2. ASSUME NEW a \in Final, Answer(c, a)
      PROVE  s.pc \in {"ok", "failed", "dead"} /\ IdleLike(s)
  BY <1>1, <1>2, AnswerEffect DEF Final
<1>3. CASE LockFor(c)
  <2>1. CASE Answer(c, "failed")
    BY <1>2, <2>1 DEF Final
  <2>2. CASE ~(call[c].req.tool \in FromNote /\ Unfit(call[c].req, vault))
    BY <1>1, <1>3, <2>2, LockForEffect DEF Final
  <2> QED BY <1>3, <2>1, <2>2 DEF LockFor
<1>4. CASE Propose(c)
  <2>1. CASE Answer(c, "failed") \/ Answer(c, "ok")
    BY <1>2, <2>1 DEF Final
  <2>2. CASE ~(\E i \in DOMAIN call[c].ops : Refused(call[c].ops[i])) /\ call[c].req.tool # "propose"
    BY <1>1, <1>4, <2>2, ProposeEffect DEF Final
  <2> QED BY <1>4, <2>1, <2>2 DEF Propose
<1>5. CASE LockForCommit(c)
  <2>1. CASE Answer(c, "failed")
    BY <1>2, <2>1 DEF Final
  <2>2. CASE \E change \in pending[Proc(c)] :
               call' = [call EXCEPT ![c].pc = "diff", ![c].ops = change.ops,
                                    ![c].by = change.by, ![c].put = change.put]
    <3>1. PICK change \in pending[Proc(c)] :
               call' = [call EXCEPT ![c].pc = "diff", ![c].ops = change.ops,
                                    ![c].by = change.by, ![c].put = change.put]
      BY <2>2
    <3>2. change \in Change
      BY BasicTypes, ProcTyped DEF Basic
    <3>3. s.pc = "diff"
      BY <1>1, <3>1, <3>2, LockForCommitEffect
    <3> QED BY <1>5, <3>3 DEF Final
  <2> QED BY <1>5, <2>1, <2>2 DEF LockForCommit
<1>6. CASE Diff(c)
  <2>1. CASE Answer(c, "failed")
    BY <1>2, <2>1 DEF Final
  <2>2. CASE ~(cast.scope[Proc(c)] = "ro" \/ \E i \in DOMAIN call[c].ops : Refused(call[c].ops[i]))
    BY <1>1, <1>6, <2>2, DiffEffect DEF Final
  <2> QED BY <1>6, <2>1, <2>2 DEF Diff
<1>7. CASE Write(c)
  BY <1>1, <1>7, WriteEffect DEF Final
<1>8. CASE WriteFails(c)
  <2>1. CASE Answer(c, "failed")
    BY <1>2, <2>1 DEF Final
  <2>2. CASE call[c].at # 1
    BY <1>1, <1>8, <2>2, WriteFailsEffect DEF Final
  <2> QED BY <1>8, <2>1, <2>2 DEF WriteFails
<1>9. CASE Restore(c) \/ RestoreFails(c)
  BY <1>1, <1>9, RestoreEffect, RestoreFailsEffect DEF Final
<1>10. CASE Version(c)
  BY <1>1, <1>10, VersionEffect DEF Final
<1>11. CASE Audit(c) \/ LogFails(c) \/ AuditUndo(c) \/ UndoFails(c)
  <2>1. Answer(c, "ok") \/ Answer(c, "failed")
    BY <1>11 DEF Audit, LogFails, AuditUndo, UndoFails
  <2> QED BY <1>2, <2>1 DEF Final
<1>12. CASE LockForRevert(c)
  <2>1. CASE Answer(c, "failed")
    BY <1>2, <2>1 DEF Final
  <2>2. CASE ~Answer(c, "failed")
    <3>1. s.pc \in {"undo", "undone"}
      <4>1. PICK v \in DOMAIN history :
               call' = [call EXCEPT ![c].pc = IF DOMAIN history[v].before = {} THEN "undone" ELSE "undo",
                                    ![c].ver = v, ![c].left = DOMAIN history[v].before]
        BY <1>12, <2>2 DEF LockForRevert
      <4>2. PICK left : left = DOMAIN history[v].before
        OBVIOUS
      <4>3. PICK x \in Undoing : x = IF left = {} THEN "undone" ELSE "undo"
        BY DEF Undoing
      <4>4. call' = [call EXCEPT ![c].pc = x, ![c].ver = v, ![c].left = left]
        BY <4>1, <4>2, <4>3
      <4> DEFINE w == call[c]
                 z == [w EXCEPT !.pc = x, !.ver = v, !.left = left]
      <4>5. call' = [call EXCEPT ![c] = z]
        BY <1>1, <4>4
      <4>6. z.pc = x
        BY <1>1 DEF CallRec
      <4>7. call'[c] = z
        <5> HIDE DEF z
        <5> QED BY <1>1, <4>5
      <4> HIDE DEF z
      <4> QED BY <4>6, <4>7 DEF Undoing
    <3> QED BY <1>12, <3>1 DEF Final
  <2> QED BY <2>1, <2>2
<1>13. CASE Undo(c)
  BY <1>1, <1>13, UndoEffect DEF Final
<1> QED
  BY <1>3, <1>4, <1>5, <1>6, <1>7, <1>8, <1>9, <1>10, <1>11, <1>12, <1>13 DEF Commits, Reverts

\* Every call after a step that is not its own, and what is lost then.
LEMMA OtherSteps ==
    ASSUME Basic, [Next]_vars, NEW d \in Calls
    PROVE  \/ (Commits(d) \/ Reverts(d)) /\ cast' = cast
           \/ /\ Spared(call[d], call'[d], vault, vault') /\ cast' = cast
              /\ lost' = lost \/ \E c \in Calls \ {d} : Commits(c) \/ Reverts(c)
           \/ /\ call'[d].pc \in Final \cup {"waiting"} /\ lost' = lost /\ cast' = cast
              /\ call'[d].diff = <<>> /\ call'[d].touched = {}
<1>1. ASSUME NEW c \in Calls, Commits(c) \/ Reverts(c)
      PROVE  \/ (Commits(d) \/ Reverts(d)) /\ cast' = cast
             \/ /\ Spared(call[d], call'[d], vault, vault') /\ cast' = cast
                /\ \E b \in Calls \ {d} : Commits(b) \/ Reverts(b)
  <2>1. cast' = cast
    BY <1>1 DEF Commits, Reverts, LockFor, Propose, LockForCommit, Diff, Write, WriteFails, Restore, RestoreFails,
                Version, Audit, LogFails, LockForRevert, Undo, AuditUndo, UndoFails
  <2>2. CASE c = d
    BY <1>1, <2>1, <2>2
  <2>3. CASE c # d
    BY <1>1, <2>1, <2>3, SparedByCall
  <2> QED BY <2>2, <2>3
<1>2. ASSUME call'[d] = call[d], vault' = vault
      PROVE  Spared(call[d], call'[d], vault, vault')
  BY <1>2, SparedSame
<1>3. ASSUME NEW c \in Calls, NEW q \in Request, NEW a \in {"ok", "failed"}, Done(c, q, a)
      PROVE  /\ lost' = lost /\ cast' = cast
             /\ \/ Spared(call[d], call'[d], vault, vault')
                \/ call'[d].pc \in Final /\ call'[d].diff = <<>> /\ call'[d].touched = {}
  <2>1. lost' = lost /\ vault' = vault /\ cast' = cast
    BY <1>3 DEF Done
  <2>2. call'[c].pc = a /\ IdleLike(call'[c])
    BY <1>3, BasicDone
  <2>3. \A b \in Calls \ {c} : call'[b] = call[b]
    BY <1>3, BasicDone
  <2>4. CASE d = c
    BY <2>1, <2>2, <2>4 DEF IdleLike, Final
  <2>5. CASE d # c
    BY <1>2, <2>1, <2>3, <2>5
  <2> QED BY <2>4, <2>5
<1>4. ASSUME NEW c \in Calls, NEW q \in Request, q.tool \in VaultTools, Begin(c, q)
      PROVE  /\ lost' = lost /\ cast' = cast
             /\ \/ Spared(call[d], call'[d], vault, vault')
                \/ /\ call'[d].pc \in Final \cup {"waiting"}
                   /\ call'[d].diff = <<>> /\ call'[d].touched = {}
  <2>1. lost' = lost /\ vault' = vault /\ cast' = cast
    BY <1>4 DEF Begin
  <2>2. /\ call'[c].pc \in {"waiting", "failed"} /\ call'[c].diff = <<>> /\ call'[c].touched = {}
        /\ \A b \in Calls \ {c} : call'[b] = call[b]
    BY <1>4, BeginEffect DEF Basic
  <2>3. CASE d = c
    BY <2>1, <2>2, <2>3 DEF Final
  <2>4. CASE d # c
    BY <1>2, <2>1, <2>2, <2>4
  <2> QED BY <2>3, <2>4
<1>5. ASSUME NEW p \in Procs, Crash(p)
      PROVE  /\ lost' = lost /\ cast' = cast
             /\ \/ Spared(call[d], call'[d], vault, vault')
                \/ call'[d].pc \in Final /\ call'[d].diff = <<>> /\ call'[d].touched = {}
  <2>1. lost' = lost /\ vault' = vault /\ cast' = cast
    BY <1>5 DEF Crash
  <2>2. (call'[d].pc = "dead" /\ IdleLike(call'[d])) \/ call'[d] = call[d]
    BY <1>5, CrashEffect DEF Basic
  <2>3. CASE call'[d].pc = "dead" /\ IdleLike(call'[d])
    BY <2>1, <2>3 DEF IdleLike, Final
  <2>4. CASE call'[d] = call[d]
    BY <1>2, <2>1, <2>4
  <2> QED BY <2>2, <2>3, <2>4
<1>6. ASSUME NEW u \in Users, Edit(u)
      PROVE  Spared(call[d], call'[d], vault, vault') /\ lost' = lost /\ cast' = cast
  BY <1>6, SparedByEdit DEF Edit
<1>7. ASSUME UNCHANGED notes
      PROVE  Spared(call[d], call'[d], vault, vault') /\ lost' = lost /\ cast' = cast
  BY <1>2, <1>7 DEF notes
<1>8. CASE \E c \in Calls : Commits(c) \/ Reverts(c)
  BY <1>1, <1>8
<1>9. CASE \/ \E c \in Calls : \E q \in Request : \E a \in {"ok", "failed"} : Done(c, q, a)
           \/ \E c \in Calls : \E q \in Request : q.tool \in VaultTools /\ Begin(c, q)
           \/ \E p \in Procs : Crash(p)
  BY <1>3, <1>4, <1>5, <1>9
<1>10. CASE (\E u \in Users : Edit(u)) \/ UNCHANGED notes
  BY <1>6, <1>7, <1>10
<1> QED
  BY <1>8, <1>9, <1>10, Steps DEF Basic

LEMMA BaseNext ==
    ASSUME Basic, BaseInv, [Next]_vars
    PROVE  BaseInv'
<1> SUFFICES ASSUME NEW d \in Calls, call'[d].pc \in {"propose", "diff"}, call'[d].req.tool \in FromNote
             PROVE  \A n \in Notes \ call'[d].touched : call'[d].base[n] = vault'[n]
  BY DEF BaseInv
<1>1. TypeInv /\ StandInv
  BY DEF Basic
<1>2. CASE Spared(call[d], call'[d], vault, vault')
  <2>1. /\ call[d].pc \in {"propose", "diff"} /\ call[d].req.tool \in FromNote
        /\ call'[d].base = call[d].base /\ call[d].touched \subseteq call'[d].touched
        /\ \A n \in Notes \ call'[d].touched : vault'[n] = vault[n]
    BY <1>2 DEF Spared, Alike, Locked
  <2> QED BY <2>1 DEF BaseInv
<1>3. CASE Commits(d) \/ Reverts(d)
  <2>1. LockFor(d) \/ Propose(d) \/ LockForCommit(d)
    BY <1>3, OwnSteps
  <2>2. CASE LockFor(d)
    <3>1. ~(call[d].req.tool \in FromNote /\ Unfit(call[d].req, vault))
      <4>1. Answer(d, "failed") => call'[d].pc = "failed"
        BY BasicTypes, AnswerEffect DEF Final
      <4> QED BY <2>2, <4>1 DEF LockFor
    <3>2. call'[d].base = vault /\ vault' = vault
      BY <1>1, <2>2, <3>1, LockForEffect DEF LockFor
    <3> QED BY <3>2
  <2>3. CASE Propose(d)
    <3>1. ~(\E i \in DOMAIN call[d].ops : Refused(call[d].ops[i])) /\ call[d].req.tool # "propose"
      <4>1. Answer(d, "failed") \/ Answer(d, "ok") => call'[d].pc \in {"failed", "ok"}
        BY BasicTypes, AnswerEffect DEF Final
      <4> QED BY <2>3, <4>1 DEF Propose
    <3>2. call'[d].base = call[d].base /\ call'[d].touched = call[d].touched
          /\ call'[d].req = call[d].req
      BY <1>1, <2>3, <3>1, ProposeEffect
    <3>3. vault' = vault /\ call[d].pc = "propose"
      BY <2>3 DEF Propose
    <3> QED BY <3>2, <3>3 DEF BaseInv
  <2>4. CASE LockForCommit(d)
    <3>1. call[d].req.tool = "commit"
      BY <2>4 DEF LockForCommit
    <3>2. call'[d].req = call[d].req
      <4>1. CASE Answer(d, "failed")
        BY <4>1, BasicTypes, AnswerEffect DEF Final
      <4>2. CASE \E change \in pending[Proc(d)] :
               call' = [call EXCEPT ![d].pc = "diff", ![d].ops = change.ops,
                                    ![d].by = change.by, ![d].put = change.put]
        <5>1. PICK change \in pending[Proc(d)] :
               call' = [call EXCEPT ![d].pc = "diff", ![d].ops = change.ops,
                                    ![d].by = change.by, ![d].put = change.put]
          BY <4>2
        <5>2. change \in Change
          BY BasicTypes, ProcTyped DEF Basic
        <5> QED BY <1>1, <5>1, <5>2, LockForCommitEffect
      <4> QED BY <2>4, <4>1, <4>2 DEF LockForCommit
    <3> QED BY <3>1, <3>2 DEF FromNote
  <2> QED BY <2>1, <2>2, <2>3, <2>4
<1>4. CASE call'[d].pc \in Final \cup {"waiting"}
  BY <1>4 DEF Final
<1> QED
  BY <1>2, <1>3, <1>4, OtherSteps

LEMMA GentleNext ==
    ASSUME Basic, BaseInv, GentleInv, [Next]_vars
    PROVE  GentleInv'
<1> SUFFICES ASSUME NEW d \in Calls, call'[d].pc \in {"write", "restore"}, ~Rewriting(call'[d]),
                    ~call'[d].stale
             PROVE  Gentle(d, call'[d].diff)
  BY DEF GentleInv
<1>1. TypeInv /\ StandInv
  BY DEF Basic
<1>2. ASSUME call[d].pc \in {"write", "restore"}, call'[d].req = call[d].req,
             call'[d].diff = call[d].diff, call'[d].stale = call[d].stale
      PROVE  Gentle(d, call'[d].diff)
  BY <1>2 DEF GentleInv, Rewriting
<1>3. CASE Spared(call[d], call'[d], vault, vault')
  BY <1>2, <1>3 DEF Spared, Alike
<1>4. CASE Commits(d) \/ Reverts(d)
  <2>1. Diff(d) \/ Write(d) \/ WriteFails(d) \/ Restore(d) \/ RestoreFails(d)
    BY <1>4, OwnSteps
  <2>2. CASE Diff(d)
    <3>1. call'[d].pc # "failed"
      OBVIOUS
    <3>2. call'[d].req = call[d].req
      <4>1. Answer(d, "failed") => call'[d].req = call[d].req
        BY BasicTypes, AnswerEffect DEF Final
      <4> QED BY <1>1, <2>2, <4>1, DiffEffect DEF Diff
    <3>3. ~Rewriting(call[d])
      BY <3>2 DEF Rewriting
    <3> QED BY <2>2, <3>1, <3>3, GentleDiff
  <2>3. CASE Write(d)
    BY <1>1, <1>2, <2>3, WriteEffect
  <2>4. CASE WriteFails(d)
    <3>1. call[d].at # 1
      <4>1. Answer(d, "failed") => call'[d].pc = "failed"
        BY BasicTypes, AnswerEffect DEF Final
      <4> QED BY <2>4, <4>1 DEF WriteFails
    <3>2. call[d].pc = "write"
      BY <2>4 DEF WriteFails
    <3> QED BY <1>1, <1>2, <2>4, <3>1, <3>2, WriteFailsEffect
  <2>5. CASE Restore(d) \/ RestoreFails(d)
    BY <1>1, <1>2, <2>5, RestoreEffect, RestoreFailsEffect
  <2> QED BY <2>1, <2>2, <2>3, <2>4, <2>5
<1>5. CASE call'[d].pc \in Final \cup {"waiting"}
  BY <1>5 DEF Final
<1> QED
  BY <1>3, <1>4, <1>5, OtherSteps

\* A step of a call loses nothing.
LEMMA NothingLost ==
    ASSUME Basic, HoldsInv, GentleInv, NEW c \in Calls, Commits(c) \/ Reverts(c)
    PROVE  lost' = lost
<1> DEFINE r == call[c]
<1>1. TypeInv /\ StandInv /\ r \in CallRec /\ vault \in [Notes -> Texts] /\ Stands(c, r) /\ Holds(r, vault)
  BY DEF Basic, TypeInv, StandInv, HoldsInv
<1>2. CASE Write(c)
  <2>1. /\ r.pc = "write" /\ r.diff[r.at] \in Entry
        /\ Put(c, r.diff[r.at].note, r.diff[r.at].after) /\ r.at \in 1..Len(r.diff)
    BY <1>1, <1>2, WriteEffect DEF Write, Stands
  <2>2. CASE Replaces(c) \/ r.stale \/ r.touched # {}
    BY <2>1, <2>2 DEF Put
  <2>3. CASE ~Replaces(c) /\ ~r.stale /\ r.touched = {}
    <3>1. Gentle(c, r.diff)
      BY <2>1, <2>3 DEF GentleInv, Replaces, Rewriting
    <3>2. PICK w \in CallRec, f \in [Notes -> Texts] : w = r /\ f = vault
      BY <1>1
    <3>3. PICK g : g = [f EXCEPT ![w.diff[w.at].note] = w.diff[w.at].after]
      OBVIOUS
    <3>4. /\ w.pc = "write" /\ w.at \in 1..Len(w.diff) /\ Holds(w, f) /\ Gentle(c, w.diff) /\ w.touched = {}
      BY <1>1, <2>1, <2>3, <3>1, <3>2
    <3>5. MarksOf(f) \subseteq MarksOf(g)
      BY <3>3, <3>4, GentleWrite
    <3>6. (MarksOf(vault) \ MarksOf([vault EXCEPT ![r.diff[r.at].note] = r.diff[r.at].after])) \ {c} = {}
      BY <3>2, <3>3, <3>5
    <3> QED BY <2>1, <3>6 DEF Put
  <2> QED BY <2>2, <2>3
<1>3. CASE Restore(c)
  <2>1. /\ r.pc = "restore" /\ r.diff[r.ver] \in Entry
        /\ Put(c, r.diff[r.ver].note, r.diff[r.ver].before)
        /\ r.at \in 2..Len(r.diff) /\ r.ver \in 1..(r.at - 1)
        /\ \A n \in r.stuck : \E j \in 1..(r.ver - 1) : r.diff[j].note = n
    BY <1>1, <1>3, RestoreEffect DEF Restore, Stands
  <2>2. CASE Replaces(c) \/ r.stale \/ r.touched # {}
    BY <2>1, <2>2 DEF Put
  <2>3. CASE ~Replaces(c) /\ ~r.stale /\ r.touched = {}
    <3>1. Gentle(c, r.diff)
      BY <2>1, <2>3 DEF GentleInv, Replaces, Rewriting
    <3>2. PICK w \in CallRec, f \in [Notes -> Texts] : w = r /\ f = vault
      BY <1>1
    <3>3. PICK g : g = [f EXCEPT ![w.diff[w.ver].note] = w.diff[w.ver].before]
      OBVIOUS
    <3>4. /\ w.pc = "restore" /\ w.at \in 2..Len(w.diff) /\ w.ver \in 1..(w.at - 1)
          /\ Holds(w, f) /\ Gentle(c, w.diff) /\ w.touched = {}
          /\ \A n \in w.stuck : \E j \in 1..(w.ver - 1) : w.diff[j].note = n
      BY <1>1, <2>1, <2>3, <3>1, <3>2
    <3>5. KeepsBut(f, g, c)
      BY <3>3, <3>4, GentleRestore
    <3>6. (MarksOf(vault) \ MarksOf([vault EXCEPT ![r.diff[r.ver].note] = r.diff[r.ver].before])) \ {c} = {}
      BY <3>2, <3>3, <3>5 DEF KeepsBut
    <3> QED BY <2>1, <3>6 DEF Put
  <2> QED BY <2>2, <2>3
<1>4. CASE Undo(c)
  <2>1. r.pc = "undo" /\ \E n \in r.left : Put(c, n, history[r.ver].before[n])
    BY <1>4 DEF Undo
  <2>2. r.req.tool = "revert"
    BY <1>1, <2>1 DEF Stands, Undoing
  <2> QED BY <2>1, <2>2 DEF Put, Replaces
<1>5. CASE ~(Write(c) \/ Restore(c) \/ Undo(c))
  BY <1>5 DEF Commits, Reverts, LockFor, Propose, LockForCommit, Diff, WriteFails, RestoreFails,
              Version, Audit, LogFails, LockForRevert, AuditUndo, UndoFails
<1> QED
  BY <1>2, <1>3, <1>4, <1>5

\* A link, a tag, a toggle, a creation or a rename, and the rollback of one
\* that fails, removes no mark that another edit has left in the files, unless
\* another process has touched one of its notes after it was read, or the
\* changeset came from an index that was older than the note.
\* (write.rs:398-409, rename.rs:72-112, tools/mod.rs:705-734)
THEOREM Kept == Spec => []EditsKept
<1> DEFINE Inv == Basic /\ HoldsInv /\ BaseInv /\ GentleInv /\ EditsKept
<1>1. Init => Inv
  <2> SUFFICES ASSUME Init PROVE Inv
    OBVIOUS
  <2>1. \A c \in Calls : call[c].pc = "idle"
    BY DEF Init, NotesInit, Idle
  <2>2. lost = {}
    BY DEF Init, NotesInit
  <2> QED BY <2>1, <2>2, BasicInit DEF HoldsInv, Holds, BaseInv, GentleInv, EditsKept
<1>2. Inv /\ [Next]_vars => Inv'
  <2> SUFFICES ASSUME Basic, HoldsInv, BaseInv, GentleInv, EditsKept, [Next]_vars PROVE Inv'
    OBVIOUS
  <2>1. lost' = lost
    <3>1. CASE \E c \in Calls : Commits(c) \/ Reverts(c)
      BY <3>1, NothingLost
    <3>2. CASE ~\E c \in Calls : Commits(c) \/ Reverts(c)
      BY <3>2, Steps DEF Basic, Done, Begin, Crash, Edit, notes
    <3> QED BY <3>1, <3>2
  <2> QED BY <2>1, BasicNext, HoldsNext, BaseNext, GentleNext DEF EditsKept
<1>3. Inv => EditsKept
  OBVIOUS
<1> QED
  BY <1>1, <1>2, <1>3, PTL DEF Spec

-----------------------------------------------------------------------------
(* What the steps do to the pending changes.                               *)

Follows(r, s) == s.ops = r.ops /\ s.by = r.by /\ s.put = r.put

Adds(c, r) ==
    pending' = [pending EXCEPT ![Proc(c)] = @ \cup {[ops |-> r.ops, by |-> c, put |-> FALSE]}]
Clears(c) == pending' = [pending EXCEPT ![Proc(c)] = @ \ Committed(c)]

\* How a call's step changes what is pending.
Pends(c, r, s) ==
    \/ pending' = pending
    \/ r.pc = "propose" /\ s.pc \notin NotYet /\ Adds(c, r)
    \/ r.pc = "audit" /\ s.pc = "ok" /\ Clears(c)
    \/ r.pc \in Committing \ {"diff"} /\ s.pc \in {"restore", "failed"} /\ StillPending(c)

\* Where a call that has a changeset in hand has it from.
Takes(c, r, s) ==
    \/ r.pc = "propose" /\ s.pc = "diff" /\ s.by = c /\ s.ops = r.ops /\ Adds(c, r)
    \/ /\ r.pc = "waiting" /\ s.pc = "diff" /\ lock[Proc(c)] = None /\ pending' = pending
       /\ \E change \in pending[Proc(c)] :
            s.ops = change.ops /\ s.by = change.by /\ s.put = change.put
    \/ /\ r.pc \in Committing /\ Follows(r, s)
       /\ Late(r) => Late(s)
       /\ Early(s) => Early(r)
       /\ s.pc = "restore" => r.pc = "restore" \/ StillPending(c)

\* How a call is done with one that it had begun to write.
Leaves(c, r, s) ==
    \/ r.pc = "restore" /\ pending' = pending
    \/ r.pc = "audit" /\ Clears(c)
    \/ StillPending(c)

Changes(c, r, s) ==
    /\ s.pc \in NotYet => r.pc \in NotYet
    /\ Pends(c, r, s)
    /\ s.pc \in Committing => Takes(c, r, s)
    /\ Late(r) /\ ~Late(s) => Leaves(c, r, s)

\* A step that takes a call to its end without a change to what is pending.
LEMMA ChangesNothing ==
    ASSUME NEW c \in Calls, NEW r, NEW s, pending' = pending, s.pc \notin NotYet \cup Committing,
           ~Late(r) \/ r.pc = "restore"
    PROVE  Changes(c, r, s)
BY DEF Changes, Pends, Leaves

\* A step of a call that has nothing of a change in hand.
LEMMA ChangesAside ==
    ASSUME NEW c \in Calls, NEW r, NEW s, pending' = pending, s.pc \notin Committing,
           r.pc \in NotYet \cup Undoing, s.pc \in NotYet => r.pc \in NotYet
    PROVE  Changes(c, r, s)
BY DEF Changes, Pends, Late, NotYet, Undoing

\* A step on within the writing.
LEMMA ChangesOn ==
    ASSUME NEW c \in Calls, NEW r, NEW s, r.pc \in Committing, s.pc \in Committing, Follows(r, s),
           Late(r) => Late(s), Early(s) => Early(r),
           pending' = pending \/ (r.pc # "diff" /\ s.pc = "restore" /\ StillPending(c)),
           s.pc = "restore" => r.pc = "restore" \/ StillPending(c)
    PROVE  Changes(c, r, s)
BY DEF Changes, Pends, Takes, NotYet, Committing

LEMMA ChangeSteps ==
    ASSUME Basic, NEW c \in Calls, Commits(c) \/ Reverts(c), NEW r, r = call[c], NEW s, s = call'[c]
    PROVE  Changes(c, r, s)
<1>1. TypeInv /\ StandInv /\ r \in CallRec /\ Stands(c, r) /\ call \in [Calls -> CallRec]
  BY DEF Basic, TypeInv, StandInv
<1>2. ASSUME NEW a \in Final, Answer(c, a)
      PROVE  s.pc = a /\ s.pc \notin NotYet \cup Committing \cup {"restore"}
  BY <1>1, <1>2, AnswerEffect DEF Final, NotYet, Committing
<1>3. CASE LockFor(c)
  <2>1. r.pc = "waiting" /\ pending' = pending
    BY <1>3 DEF LockFor
  <2>2. CASE r.req.tool \in FromNote /\ Unfit(r.req, vault)
    <3>1. Answer(c, "failed")
      BY <1>3, <2>2 DEF LockFor
    <3> QED BY <1>2, <2>1, <3>1, ChangesNothing DEF Final, Late
  <2>3. CASE ~(r.req.tool \in FromNote /\ Unfit(r.req, vault))
    <3>1. s.pc = "propose"
      BY <1>1, <1>3, <2>3, LockForEffect
    <3> QED BY <2>1, <3>1, ChangesAside DEF NotYet, Committing
  <2> QED BY <2>2, <2>3
<1>4. CASE Propose(c)
  <2>1. r.pc = "propose"
    BY <1>4 DEF Propose
  <2>2. CASE \E i \in DOMAIN r.ops : Refused(r.ops[i])
    <3>1. Answer(c, "failed") /\ pending' = pending
      BY <1>4, <2>2 DEF Propose
    <3> QED BY <1>2, <2>1, <3>1, ChangesNothing DEF Final, Late
  <2>3. CASE ~\E i \in DOMAIN r.ops : Refused(r.ops[i])
    <3>1. Adds(c, r)
      BY <1>4, <2>3 DEF Propose, Adds
    <3>2. CASE r.req.tool = "propose"
      <4>1. Answer(c, "ok")
        BY <1>4, <2>3, <3>2 DEF Propose
      <4> QED BY <1>2, <2>1, <3>1, <4>1 DEF Final, Late, Changes, Pends
    <3>3. CASE r.req.tool # "propose"
      <4>1. s.pc = "diff" /\ s.by = c /\ s.ops = r.ops
        BY <1>1, <1>4, <2>3, <3>3, ProposeEffect
      <4> QED BY <2>1, <3>1, <4>1 DEF Late, Changes, Pends, Takes, NotYet
    <3> QED BY <3>2, <3>3
  <2> QED BY <2>2, <2>3
<1>5. CASE LockForCommit(c)
  <2>1. r.pc = "waiting" /\ pending' = pending /\ lock[Proc(c)] = None
    BY <1>5 DEF LockForCommit
  <2>2. CASE Answer(c, "failed")
    BY <1>2, <2>1, <2>2, ChangesNothing DEF Final, Late
  <2>3. CASE ~Answer(c, "failed")
    <3>1. PICK change \in pending[Proc(c)] :
            call' = [call EXCEPT ![c].pc = "diff", ![c].ops = change.ops,
                                 ![c].by = change.by, ![c].put = change.put]
      BY <1>5, <2>3 DEF LockForCommit
    <3>2. change \in Change
      BY BasicTypes, ProcTyped, <1>1
    <3>3. s.pc = "diff" /\ s.ops = change.ops /\ s.by = change.by /\ s.put = change.put
      BY <1>1, <3>1, <3>2, LockForCommitEffect
    <3> QED BY <2>1, <3>3 DEF Late, Changes, Pends, Takes, NotYet
  <2> QED BY <2>2, <2>3
<1>6. CASE Diff(c)
  <2>1. r.pc = "diff" /\ pending' = pending
    BY <1>6 DEF Diff
  <2>2. CASE cast.scope[Proc(c)] = "ro" \/ \E i \in DOMAIN r.ops : Refused(r.ops[i])
    <3>1. Answer(c, "failed")
      BY <1>6, <2>2 DEF Diff
    <3> QED BY <1>2, <2>1, <3>1, ChangesNothing DEF Final, Late
  <2>3. CASE ~(cast.scope[Proc(c)] = "ro" \/ \E i \in DOMAIN r.ops : Refused(r.ops[i]))
    <3>1. s.pc \in {"write", "version"} /\ Follows(r, s)
      BY <1>1, <1>6, <2>3, DiffEffect DEF Follows
    <3> QED BY <2>1, <3>1, ChangesOn DEF Early, Late, Committing
  <2> QED BY <2>2, <2>3
<1>7. CASE Write(c)
  <2>1. r.pc = "write" /\ pending' = pending
    BY <1>7 DEF Write
  <2>2. /\ s.pc = (IF r.at = Len(r.diff) THEN "version" ELSE "write")
        /\ s.at = (IF r.at = Len(r.diff) THEN r.at ELSE r.at + 1)
        /\ Follows(r, s)
    BY <1>1, <1>7, WriteEffect DEF Follows
  <2>3. r.at \in Nat \ {0}
    BY <1>1 DEF CallRec
  <2>4. s.pc \in {"write", "version"} /\ Late(s) /\ ~Early(s)
    BY <2>2, <2>3 DEF Late, Early
  <2> QED BY <2>1, <2>2, <2>4, ChangesOn DEF Committing
<1>8. CASE WriteFails(c)
  <2>1. r.pc = "write"
    BY <1>8 DEF WriteFails
  <2>2. CASE r.at = 1
    <3>1. Answer(c, "failed") /\ pending' = pending
      BY <1>8, <2>2 DEF WriteFails
    <3> QED BY <1>2, <2>1, <2>2, <3>1, ChangesNothing DEF Final, Late
  <2>3. CASE r.at # 1
    <3>1. s.pc = "restore" /\ Follows(r, s)
      BY <1>1, <1>8, <2>3, WriteFailsEffect DEF Follows
    <3>2. StillPending(c)
      BY <1>8, <2>3 DEF WriteFails
    <3> QED BY <2>1, <3>1, <3>2, ChangesOn DEF Early, Late, Committing
  <2> QED BY <2>2, <2>3
<1>9. CASE Restore(c) \/ RestoreFails(c)
  <2>1. r.pc = "restore" /\ pending' = pending
    BY <1>9 DEF Restore, RestoreFails
  <2>2. CASE r.ver = r.at - 1
    <3>1. s.pc = "failed"
      BY <1>1, <1>9, <2>2, RestoreEffect, RestoreFailsEffect
    <3> QED BY <2>1, <3>1, ChangesNothing DEF NotYet, Committing
  <2>3. CASE r.ver # r.at - 1
    <3>1. s.pc = "restore" /\ Follows(r, s)
      BY <1>1, <1>9, <2>3, RestoreEffect, RestoreFailsEffect DEF Follows
    <3> QED BY <2>1, <3>1, ChangesOn DEF Early, Late, Committing
  <2> QED BY <2>2, <2>3
<1>10. CASE Version(c)
  <2>1. r.pc = "version" /\ pending' = pending
    BY <1>10 DEF Version
  <2>2. s.pc = "audit" /\ Follows(r, s)
    BY <1>1, <1>10, VersionEffect DEF Follows
  <2> QED BY <2>1, <2>2, ChangesOn DEF Early, Late, Committing
<1>11. CASE Audit(c)
  <2>1. r.pc = "audit" /\ Clears(c) /\ Answer(c, "ok")
    BY <1>11 DEF Audit, Clears
  <2>2. s.pc = "ok" /\ s.pc \notin NotYet \cup Committing
    BY <1>2, <2>1 DEF Final
  <2> QED BY <2>1, <2>2 DEF Changes, Pends, Leaves
<1>12. CASE LogFails(c)
  <2>1. r.pc \in {"version", "audit"} /\ StillPending(c) /\ Answer(c, "failed")
    BY <1>12 DEF LogFails
  <2>2. s.pc = "failed" /\ s.pc \notin NotYet \cup Committing
    BY <1>2, <2>1 DEF Final
  <2>3. r.pc \in Committing \ {"diff"}
    BY <2>1 DEF Committing
  <2> QED BY <2>1, <2>2, <2>3 DEF Changes, Pends, Leaves
<1>13. CASE LockForRevert(c)
  <2>1. r.pc = "waiting" /\ pending' = pending
    BY <1>13 DEF LockForRevert
  <2>2. s.pc \in {"failed", "undo", "undone"}
    <3>1. CASE Answer(c, "failed")
      BY <1>2, <3>1 DEF Final
    <3>2. CASE ~Answer(c, "failed")
      <4>1. PICK v \in DOMAIN history :
              call' = [call EXCEPT ![c].pc = IF DOMAIN history[v].before = {} THEN "undone" ELSE "undo",
                                   ![c].ver = v, ![c].left = DOMAIN history[v].before]
        BY <1>13, <3>2 DEF LockForRevert
      <4>2. PICK x, y : /\ x = (IF DOMAIN history[v].before = {} THEN "undone" ELSE "undo")
                        /\ y = DOMAIN history[v].before
        OBVIOUS
      <4>3. call' = [call EXCEPT ![c].pc = x, ![c].ver = v, ![c].left = y]
        BY <4>1, <4>2
      <4>4. s = [r EXCEPT !.pc = x, !.ver = v, !.left = y]
        BY <1>1, <4>3
      <4>5. s.pc = x
        BY <1>1, <4>4 DEF CallRec
      <4> QED BY <4>2, <4>5
    <3> QED BY <3>1, <3>2
  <2> QED BY <2>1, <2>2, ChangesNothing DEF NotYet, Committing, Late
<1>14. CASE Undo(c)
  <2>1. r.pc = "undo" /\ pending' = pending
    BY <1>14 DEF Undo
  <2>2. s.pc \in {"undo", "undone"}
    BY <1>1, <1>14, UndoEffect
  <2> QED BY <2>1, <2>2, ChangesNothing DEF NotYet, Committing, Late
<1>15. CASE AuditUndo(c)
  <2>1. r.pc = "undone" /\ pending' = pending /\ Answer(c, "ok")
    BY <1>15 DEF AuditUndo
  <2> QED BY <1>2, <2>1, ChangesNothing DEF Final, Late
<1>16. CASE UndoFails(c)
  <2>1. r.pc \in {"undo", "undone"} /\ pending' = pending /\ Answer(c, "failed")
    BY <1>16 DEF UndoFails
  <2> QED BY <1>2, <2>1, ChangesNothing DEF Final, Late
<1> QED
  BY <1>3, <1>4, <1>5, <1>6, <1>7, <1>8, <1>9, <1>10, <1>11, <1>12, <1>13, <1>14, <1>15, <1>16
     DEF Commits, Reverts

\* A step that is none of a call's at work.
Calm ==
    /\ pending' = pending
    /\ \A d \in Calls :
         \/ Alike(call[d], call'[d])
         \/ call[d].pc = "idle" /\ call'[d].pc \in Final \cup {"waiting"}

Dies(p) ==
    /\ pending' = [pending EXCEPT ![p] = {}]
    /\ \A d \in Calls :
         \/ Proc(d) = p /\ call'[d].pc = "dead" /\ IdleLike(call'[d])
         \/ (Proc(d) # p \/ call[d].pc \in Final \cup {"idle"}) /\ call'[d] = call[d]

LEMMA CalmSteps ==
    ASSUME Basic, [Next]_vars, ~\E c \in Calls : Commits(c) \/ Reverts(c)
    PROVE  /\ cast' = cast /\ history' = history /\ audit' = audit
           /\ Calm \/ \E p \in Procs : Dies(p)
<1>1. TypeInv
  BY DEF Basic
<1>2. ASSUME NEW c \in Calls, NEW q \in Request, NEW a \in {"ok", "failed"}, Done(c, q, a)
      PROVE  cast' = cast /\ history' = history /\ audit' = audit /\ Calm
  <2>1. cast' = cast /\ history' = history /\ audit' = audit /\ pending' = pending
    BY <1>2 DEF Done
  <2>2. call[c].pc = "idle" /\ call'[c].pc = a /\ \A d \in Calls \ {c} : call'[d] = call[d]
    BY <1>2, BasicDone
  <2> QED BY <2>1, <2>2 DEF Calm, Alike, Final
<1>3. ASSUME NEW c \in Calls, NEW q \in Request, q.tool \in VaultTools, Begin(c, q)
      PROVE  cast' = cast /\ history' = history /\ audit' = audit /\ Calm
  <2>1. cast' = cast /\ history' = history /\ audit' = audit /\ pending' = pending
    BY <1>3 DEF Begin
  <2>2. /\ call[c].pc = "idle" /\ call'[c].pc \in {"waiting", "failed"}
        /\ \A d \in Calls \ {c} : call'[d] = call[d]
    BY <1>1, <1>3, BeginEffect
  <2> QED BY <2>1, <2>2 DEF Calm, Alike, Final
<1>4. ASSUME NEW p \in Procs, Crash(p)
      PROVE  cast' = cast /\ history' = history /\ audit' = audit /\ Dies(p)
  <2>1. cast' = cast /\ history' = history /\ audit' = audit /\ pending' = [pending EXCEPT ![p] = {}]
    BY <1>4 DEF Crash
  <2>2. \A d \in Calls :
          \/ /\ Proc(d) = p /\ call[d].pc \notin Final \cup {"idle"}
             /\ call'[d].pc = "dead" /\ call'[d].req = call[d].req /\ IdleLike(call'[d])
          \/ /\ Proc(d) # p \/ call[d].pc \in Final \cup {"idle"}
             /\ call'[d] = call[d]
    BY <1>1, <1>4, CrashEffect
  <2> QED BY <2>1, <2>2 DEF Dies
<1>5. ASSUME NEW u \in Users, Edit(u)
      PROVE  cast' = cast /\ history' = history /\ audit' = audit /\ Calm
  <2>1. cast' = cast /\ history' = history /\ audit' = audit /\ pending' = pending
    BY <1>5 DEF Edit
  <2>2. \A d \in Calls : Alike(call[d], call'[d])
    BY <1>5, BasicEdit
  <2> QED BY <2>1, <2>2 DEF Calm
<1>6. ASSUME UNCHANGED notes
      PROVE  cast' = cast /\ history' = history /\ audit' = audit /\ Calm
  BY <1>6 DEF notes, Calm, Alike
<1> QED
  BY <1>1, <1>2, <1>3, <1>4, <1>5, <1>6, Steps

LEMMA CallStep ==
    ASSUME Basic, NEW c \in Calls, Commits(c) \/ Reverts(c)
    PROVE  /\ cast' = cast /\ \A d \in Calls \ {c} : Alike(call[d], call'[d])
           /\ Changes(c, call[c], call'[c])
<1>1. cast' = cast
  BY DEF Commits, Reverts, LockFor, Propose, LockForCommit, Diff, Write, WriteFails, Restore, RestoreFails,
         Version, Audit, LogFails, LockForRevert, Undo, AuditUndo, UndoFails
<1>2. \A d \in Calls \ {c} : Alike(call[d], call'[d])
  BY SparedByCall DEF Spared
<1>3. PICK r, s : r = call[c] /\ s = call'[c]
  OBVIOUS
<1>4. Changes(c, r, s)
  BY <1>3, ChangeSteps
<1> QED
  BY <1>1, <1>2, <1>3, <1>4

\* A changeset is handed on once.
LEMMA NotYetBack ==
    ASSUME Basic, [Next]_vars, NEW d \in Calls, call'[d].pc \in NotYet
    PROVE  call[d].pc \in NotYet
<1>1. ASSUME NEW c \in Calls, Commits(c) \/ Reverts(c)
      PROVE  call[d].pc \in NotYet
  BY <1>1, CallStep DEF Changes, Alike
<1>2. CASE ~\E c \in Calls : Commits(c) \/ Reverts(c)
  BY <1>2, CalmSteps DEF Calm, Dies, Alike, NotYet
<1> QED
  BY <1>1, <1>2

\* What the change of one process becomes.
LEMMA StillPendingOf ==
    ASSUME Basic, NEW c \in Calls, StillPending(c), NEW change \in pending'[Proc(c)]
    PROVE  \/ change \in pending[Proc(c)] /\ change.ops # call[c].ops
           \/ /\ change.put /\ change.ops = call[c].ops
              /\ \E old \in pending[Proc(c)] : /\ old.by = change.by /\ old.ops = change.ops
                                                /\ change = [old EXCEPT !.put = TRUE]
<1>1. pending[Proc(c)] \subseteq Change
  BY BasicTypes, ProcTyped DEF Basic
<1>2. CASE change \in pending[Proc(c)] \ Committed(c)
  BY <1>2 DEF Committed
<1>3. CASE change \in {[old EXCEPT !.put = TRUE] : old \in Committed(c)}
  <2>1. PICK old \in Committed(c) : change = [old EXCEPT !.put = TRUE]
    BY <1>3
  <2>2. old \in pending[Proc(c)] /\ old.ops = call[c].ops /\ old \in Change
    BY <1>1, <2>1 DEF Committed
  <2>3. change.put = TRUE /\ change.ops = old.ops /\ change.by = old.by
    BY <2>1, <2>2 DEF Change
  <2> QED BY <2>1, <2>2, <2>3
<1> QED
  BY <1>2, <1>3, StillPendingTyped

LEMMA PendNext ==
    ASSUME Basic, PendInv, [Next]_vars
    PROVE  PendInv'
<1>1. cast' = cast /\ pending \in [Procs -> SUBSET Change]
  <2>1. cast' = cast
    BY CallStep, CalmSteps
  <2> QED BY <2>1, BasicTypes
<1>2. SUFFICES ASSUME NEW p \in Procs, NEW change \in pending'[p]
               PROVE  /\ Proc(change.by) = p /\ call'[change.by].pc \notin NotYet
                      /\ \A other \in pending'[p] : other.by = change.by => other = change
  BY <1>1 DEF PendInv, Procs, Proc
<1>3. ASSUME NEW old \in pending[p]
      PROVE  /\ old \in Change /\ old.by \in Calls /\ Proc(old.by) = p
             /\ call[old.by].pc \notin NotYet /\ call'[old.by].pc \notin NotYet
             /\ \A other \in pending[p] : other.by = old.by => other = old
  <2>1. old \in Change /\ old.by \in Calls
    BY <1>1, <1>3 DEF Change
  <2> QED BY <1>3, <2>1, NotYetBack DEF PendInv
<1>4. CASE pending'[p] \subseteq pending[p]
  BY <1>3, <1>4
<1>5. ASSUME NEW c \in Calls, Commits(c) \/ Reverts(c)
      PROVE  /\ Proc(change.by) = p /\ call'[change.by].pc \notin NotYet
             /\ \A other \in pending'[p] : other.by = change.by => other = change
  <2>1. Changes(c, call[c], call'[c]) /\ Proc(c) \in Procs
    BY <1>5, CallStep, ProcTyped DEF Basic
  <2>2. CASE pending' = pending
    BY <1>4, <2>2
  <2>3. CASE call[c].pc = "propose" /\ call'[c].pc \notin NotYet /\ Adds(c, call[c])
    <3>1. CASE p # Proc(c)
      BY <1>1, <1>4, <2>1, <2>3, <3>1 DEF Adds
    <3>2. CASE p = Proc(c)
      <4>1. PICK new : new = [ops |-> call[c].ops, by |-> c, put |-> FALSE]
        OBVIOUS
      <4>2. pending'[p] = pending[p] \cup {new} /\ new.by = c
        BY <1>1, <2>3, <3>2, <4>1 DEF Adds
      <4>3. \A old \in pending[p] : old.by # c
        BY <1>3, <2>3 DEF NotYet
      <4>4. CASE change = new
        BY <2>3, <3>2, <4>2, <4>3, <4>4
      <4>5. CASE change # new
        BY <1>3, <4>2, <4>3, <4>5
      <4> QED BY <4>4, <4>5
    <3> QED BY <3>1, <3>2
  <2>4. CASE Clears(c)
    BY <1>1, <1>4, <2>4 DEF Clears
  <2>5. CASE StillPending(c)
    <3>1. CASE p # Proc(c)
      BY <1>4, <2>5, <3>1, StillPendingTyped
    <3>2. CASE p = Proc(c)
      <4>1. ASSUME NEW x \in pending'[p]
            PROVE  \/ x \in pending[p] /\ x.ops # call[c].ops
                   \/ \E old \in pending[p] : /\ old.by = x.by /\ old.ops = call[c].ops
                                              /\ x = [old EXCEPT !.put = TRUE]
        BY <2>5, <3>2, <4>1, StillPendingOf
      <4>2. Proc(change.by) = p /\ call'[change.by].pc \notin NotYet
        BY <1>3, <4>1
      <4>3. ASSUME NEW other \in pending'[p], other.by = change.by
            PROVE  other = change
        <5>1. PICK a \in pending[p] : /\ a.by = change.by
                                      /\ \/ change = a /\ a.ops # call[c].ops
                                         \/ change = [a EXCEPT !.put = TRUE] /\ a.ops = call[c].ops
          BY <4>1
        <5>2. PICK b \in pending[p] : /\ b.by = other.by
                                      /\ \/ other = b /\ b.ops # call[c].ops
                                         \/ other = [b EXCEPT !.put = TRUE] /\ b.ops = call[c].ops
          BY <4>1, <4>3
        <5>3. a = b
          BY <1>3, <4>3, <5>1, <5>2
        <5> QED BY <5>1, <5>2, <5>3
      <4> QED BY <4>2, <4>3
    <3> QED BY <3>1, <3>2
  <2> QED BY <2>1, <2>2, <2>3, <2>4, <2>5 DEF Changes, Pends
<1>6. CASE ~\E c \in Calls : Commits(c) \/ Reverts(c)
  <2>1. pending' = pending \/ \E q \in Procs : pending' = [pending EXCEPT ![q] = {}]
    BY <1>6, CalmSteps DEF Calm, Dies
  <2> QED BY <1>1, <1>4, <2>1
<1> QED
  BY <1>5, <1>6

\* The changes of a process are for the call that holds its mutex to change.
LEMMA PendingElsewhere ==
    ASSUME Basic, NEW c \in Calls, Commits(c) \/ Reverts(c), NEW d \in Calls \ {c},
           call[d].pc \in Locked
    PROVE  pending'[Proc(d)] = pending[Proc(d)]
<1>1. /\ Changes(c, call[c], call'[c]) /\ Proc(c) \in Procs /\ Proc(d) \in Procs
      /\ pending \in [Procs -> SUBSET Change]
  BY CallStep, ProcTyped, BasicTypes DEF Basic
<1>2. CASE pending' = pending
  BY <1>2
<1>3. CASE pending' # pending
  <2>1. call[c].pc \in Locked /\ (Adds(c, call[c]) \/ Clears(c) \/ StillPending(c))
    BY <1>1, <1>3 DEF Changes, Pends, Locked, Committing
  <2>2. Proc(c) # Proc(d)
    BY <2>1, LockOnce DEF Basic
  <2>3. CASE StillPending(c)
    BY <1>1, <2>2, <2>3, StillPendingTyped
  <2> QED BY <1>1, <2>1, <2>2, <2>3 DEF Adds, Clears
<1> QED
  BY <1>2, <1>3

LEMMA FlyNext ==
    ASSUME Basic, PendInv, FlyInv, [Next]_vars
    PROVE  FlyInv'
<1>1. cast' = cast /\ pending \in [Procs -> SUBSET Change] /\ call \in [Calls -> CallRec]
  <2>1. cast' = cast
    BY CallStep, CalmSteps
  <2> QED BY <2>1, BasicTypes
<1>2. SUFFICES ASSUME NEW d \in Calls, call'[d].pc \in Committing
               PROVE  /\ Proc(call'[d].by) = Proc(d) /\ call'[call'[d].by].pc \notin NotYet
                      /\ \A change \in pending'[Proc(d)] : change.by = call'[d].by =>
                           change.ops = call'[d].ops /\ (call'[d].pc = "restore" => change.put)
  BY <1>1 DEF FlyInv, Proc
<1>3. Proc(d) \in Procs
  BY ProcTyped DEF Basic
<1>4. ASSUME call[d].pc \in Committing
      PROVE  /\ call[d].by \in Calls /\ Proc(call[d].by) = Proc(d)
             /\ call[call[d].by].pc \notin NotYet /\ call'[call[d].by].pc \notin NotYet
             /\ \A change \in pending[Proc(d)] : change.by = call[d].by =>
                  change.ops = call[d].ops /\ (call[d].pc = "restore" => change.put)
  <2>1. call[d].by \in Calls
    BY <1>4 DEF Basic, StandInv, Stands
  <2> QED BY <1>4, <2>1, NotYetBack DEF FlyInv
<1>5. CASE /\ call[d].pc \in Committing /\ Alike(call[d], call'[d])
           /\ pending'[Proc(d)] = pending[Proc(d)]
  BY <1>4, <1>5 DEF Alike
<1>6. ASSUME NEW c \in Calls, Commits(c) \/ Reverts(c)
      PROVE  /\ Proc(call'[d].by) = Proc(d) /\ call'[call'[d].by].pc \notin NotYet
             /\ \A change \in pending'[Proc(d)] : change.by = call'[d].by =>
                  change.ops = call'[d].ops /\ (call'[d].pc = "restore" => change.put)
  <2>1. CASE c # d
    <3>1. Alike(call[d], call'[d]) /\ call[d].pc \in Committing
      BY <1>2, <1>6, <2>1, CallStep DEF Alike
    <3>2. pending'[Proc(d)] = pending[Proc(d)]
      BY <1>6, <2>1, <3>1, PendingElsewhere DEF Committing, Locked
    <3> QED BY <1>5, <3>1, <3>2
  <2>2. CASE c = d
    <3>1. Takes(d, call[d], call'[d]) /\ Pends(d, call[d], call'[d])
      BY <1>2, <1>6, <2>2, CallStep DEF Changes
    <3>2. CASE /\ call[d].pc = "propose" /\ call'[d].pc = "diff" /\ call'[d].by = d
               /\ call'[d].ops = call[d].ops /\ Adds(d, call[d])
      <4>1. PICK new : new = [ops |-> call[d].ops, by |-> d, put |-> FALSE]
        OBVIOUS
      <4>2. pending'[Proc(d)] = pending[Proc(d)] \cup {new} /\ new.ops = call[d].ops
        BY <1>1, <1>3, <3>2, <4>1 DEF Adds
      <4>3. \A old \in pending[Proc(d)] : old.by # d
        BY <1>3, <3>2 DEF NotYet, PendInv
      <4> QED BY <3>2, <4>2, <4>3 DEF NotYet
    <3>3. CASE /\ call[d].pc = "waiting" /\ call'[d].pc = "diff" /\ pending' = pending
               /\ \E change \in pending[Proc(d)] :
                    /\ call'[d].ops = change.ops /\ call'[d].by = change.by
                    /\ call'[d].put = change.put
      <4>1. PICK change \in pending[Proc(d)] : call'[d].ops = change.ops /\ call'[d].by = change.by
        BY <3>3
      <4>2. /\ change.by \in Calls /\ Proc(change.by) = Proc(d) /\ call[change.by].pc \notin NotYet
            /\ \A other \in pending[Proc(d)] : other.by = change.by => other = change
        BY <1>1, <1>3, <4>1 DEF PendInv, Change
      <4>3. call'[change.by].pc \notin NotYet
        BY <4>2, NotYetBack
      <4> QED BY <3>3, <4>1, <4>2, <4>3
    <3>4. CASE /\ call[d].pc \in Committing /\ Follows(call[d], call'[d])
               /\ call'[d].pc = "restore" => call[d].pc = "restore" \/ StillPending(d)
      <4>1. CASE pending' = pending /\ (call'[d].pc = "restore" => call[d].pc = "restore")
        BY <1>4, <3>4, <4>1 DEF Follows
      <4>2. CASE StillPending(d)
        <5>1. ASSUME NEW change \in pending'[Proc(d)], change.by = call[d].by
              PROVE  change.ops = call[d].ops /\ change.put
          BY <1>4, <3>4, <4>2, <5>1, StillPendingOf
        <5> QED BY <1>4, <3>4, <5>1 DEF Follows
      <4>3. CASE ~StillPending(d) /\ pending' # pending
        BY <1>2, <3>1, <3>4, <4>3 DEF Pends, Committing
      <4> QED BY <3>4, <4>1, <4>2, <4>3
    <3> QED BY <3>1, <3>2, <3>3, <3>4 DEF Takes
  <2> QED BY <2>1, <2>2
<1>7. CASE ~\E c \in Calls : Commits(c) \/ Reverts(c)
  <2>1. CASE Calm
    BY <1>2, <1>5, <2>1 DEF Calm, Alike, Committing, Final
  <2>2. ASSUME NEW p \in Procs, Dies(p)
        PROVE  /\ call[d].pc \in Committing /\ Alike(call[d], call'[d])
               /\ pending'[Proc(d)] = pending[Proc(d)]
    <3>1. call'[d] = call[d] /\ (Proc(d) # p \/ call[d].pc \in Final \cup {"idle"})
      BY <1>2, <2>2 DEF Dies, Committing
    <3>2. Proc(d) # p
      BY <1>2, <3>1 DEF Committing, Final
    <3> QED BY <1>1, <1>2, <1>3, <2>2, <3>1, <3>2 DEF Dies, Alike
  <2> QED BY <1>5, <1>7, <2>1, <2>2, CalmSteps
<1> QED
  BY <1>6, <1>7

\* Once something of a proposal may be in a file it never again counts as unput.
LEMMA UnputBack ==
    ASSUME Basic, PendInv, FlyInv, [Next]_vars, NEW b \in Calls, Unput(b)'
    PROVE  Unput(b)
<1>1. /\ cast' = cast /\ pending \in [Procs -> SUBSET Change] /\ call \in [Calls -> CallRec]
      /\ Proc(b) \in Procs
  <2>1. cast' = cast
    BY CallStep, CalmSteps
  <2> QED BY <2>1, BasicTypes, ProcTyped DEF Basic
<1>2. \/ call'[b].pc \in NotYet
      \/ /\ \E change \in pending'[Proc(b)] : change.by = b /\ change.put = FALSE
         /\ \A d \in Calls : Late(call'[d]) => call'[d].by # b
      \/ \E d \in Calls : Early(call'[d]) /\ call'[d].by = b /\ call'[d].put = FALSE
  BY <1>1 DEF Unput, Proc, Late, Early
<1>3. CASE call'[b].pc \in NotYet
  BY <1>3, NotYetBack DEF Unput
<1>4. ASSUME NEW d \in Calls, Late(call[d]), call[d].by = b
      PROVE  Proc(d) = Proc(b) /\ call[d].pc \in Locked /\ call[d].pc \in Committing
             /\ \A change \in pending[Proc(d)] : change.by = b =>
                  change.ops = call[d].ops /\ (call[d].pc = "restore" => change.put)
  BY <1>4 DEF FlyInv, Late, Committing, Locked
<1>5. ASSUME NEW c \in Calls, Commits(c) \/ Reverts(c)
      PROVE  Unput(b)
  <2>1. /\ Changes(c, call[c], call'[c]) /\ Proc(c) \in Procs
        /\ \A d \in Calls \ {c} : Alike(call[d], call'[d])
    BY <1>5, CallStep, ProcTyped DEF Basic
  <2>2. CASE c = b /\ call[c].pc = "propose"
    BY <2>2 DEF Unput, NotYet
  <2>3. CASE /\ ~(c = b /\ call[c].pc = "propose")
             /\ \E change \in pending'[Proc(b)] : change.by = b /\ change.put = FALSE
             /\ \A d \in Calls : Late(call'[d]) => call'[d].by # b
    <3>1. PICK change \in pending'[Proc(b)] : change.by = b /\ change.put = FALSE
      BY <2>3
    <3>2. change \in pending[Proc(b)]
      <4>1. CASE pending' = pending
        BY <3>1, <4>1
      <4>2. CASE call[c].pc = "propose" /\ Adds(c, call[c])
        <5>1. PICK new : new = [ops |-> call[c].ops, by |-> c, put |-> FALSE]
          OBVIOUS
        <5>2. pending' = [pending EXCEPT ![Proc(c)] = @ \cup {new}] /\ new.by # b
          BY <2>3, <4>2, <5>1 DEF Adds
        <5> QED BY <1>1, <2>1, <3>1, <5>2
      <4>3. CASE Clears(c)
        BY <1>1, <2>1, <3>1, <4>3 DEF Clears
      <4>4. CASE StillPending(c)
        BY <1>1, <2>1, <3>1, <4>4, StillPendingTyped, StillPendingOf
      <4> QED BY <2>1, <4>1, <4>2, <4>3, <4>4 DEF Changes, Pends
    <3>3. ASSUME NEW d \in Calls, Late(call[d]), call[d].by = b
          PROVE  FALSE
      <4>1. /\ Proc(d) = Proc(b) /\ call[d].pc \in Committing /\ change.ops = call[d].ops
            /\ call[d].pc = "restore" => change.put
        BY <1>4, <3>2, <3>3, <3>1
      <4>2. CASE d # c
        BY <2>1, <2>3, <3>3, <4>2 DEF Alike, Late
      <4>3. CASE d = c
        <5>1. CASE Late(call'[c])
          <6>1. call'[c].by = call[c].by
            BY <2>1, <4>1, <4>3, <5>1 DEF Changes, Takes, Follows, Late, Committing
          <6> QED BY <2>3, <3>3, <4>3, <5>1, <6>1
        <5>2. CASE ~Late(call'[c])
          <6>1. CASE call[c].pc = "restore"
            BY <3>1, <4>1, <4>3, <6>1
          <6>2. CASE Clears(c)
            <7>1. change \in Committed(c)
              BY <3>2, <4>1, <4>3 DEF Committed
            <7>2. pending'[Proc(c)] = pending[Proc(c)] \ Committed(c)
              BY <1>1, <2>1, <6>2 DEF Clears
            <7> QED BY <3>1, <4>1, <4>3, <7>1, <7>2
          <6>3. CASE StillPending(c)
            BY <3>1, <4>1, <4>3, <6>3, StillPendingOf
          <6> QED BY <2>1, <3>3, <4>3, <5>2, <6>1, <6>2, <6>3 DEF Changes, Leaves
        <5> QED BY <5>1, <5>2
      <4> QED BY <4>2, <4>3
    <3> QED BY <3>1, <3>2, <3>3 DEF Unput
  <2>4. CASE /\ ~(c = b /\ call[c].pc = "propose")
             /\ \E d \in Calls : Early(call'[d]) /\ call'[d].by = b /\ call'[d].put = FALSE
    <3>1. PICK d \in Calls : Early(call'[d]) /\ call'[d].by = b /\ call'[d].put = FALSE
      BY <2>4
    <3>2. CASE d # c
      <4>1. Early(call[d]) /\ call[d].by = b /\ call[d].put = FALSE
        BY <2>1, <3>1, <3>2 DEF Alike, Early
      <4> QED BY <4>1 DEF Unput
    <3>3. CASE d = c
      <4>1. Takes(c, call[c], call'[c])
        BY <2>1, <3>1, <3>3 DEF Changes, Early, Committing
      <4>2. CASE call[c].pc = "propose" /\ call'[c].by = c
        BY <2>4, <3>1, <3>3, <4>2
      <4>3. CASE call[c].pc \in Committing /\ Follows(call[c], call'[c]) /\ (Early(call'[c]) => Early(call[c]))
        <5>1. Early(call[c]) /\ call[c].by = b /\ call[c].put = FALSE
          BY <3>1, <3>3, <4>3 DEF Follows
        <5> QED BY <5>1 DEF Unput
      <4>4. CASE /\ lock[Proc(c)] = None
                 /\ \E change \in pending[Proc(c)] :
                      /\ call'[c].ops = change.ops /\ call'[c].by = change.by
                      /\ call'[c].put = change.put
        <5>1. PICK change \in pending[Proc(c)] : change.by = b /\ change.put = FALSE
          BY <3>1, <3>3, <4>4
        <5>2. Proc(b) = Proc(c)
          BY <2>1, <5>1 DEF PendInv
        <5>3. ASSUME NEW e \in Calls, Late(call[e]), call[e].by = b
              PROVE  FALSE
          <6>1. Proc(e) = Proc(c) /\ call[e].pc \in Locked
            BY <1>4, <5>2, <5>3
          <6>2. lock[Proc(e)] = e /\ e # None
            BY <6>1, MarksAssumption DEF Basic, LockInv
          <6> QED BY <4>4, <6>1, <6>2
        <5> QED BY <5>1, <5>2, <5>3 DEF Unput
      <4> QED BY <4>1, <4>2, <4>3, <4>4 DEF Takes
    <3> QED BY <3>2, <3>3
  <2> QED BY <1>2, <1>3, <2>2, <2>3, <2>4
<1>6. CASE ~\E c \in Calls : Commits(c) \/ Reverts(c)
  <2>1. CASE Calm
    <3>1. ASSUME NEW d \in Calls
          PROVE  /\ Late(call[d]) => Late(call'[d]) /\ call'[d].by = call[d].by
                 /\ Early(call'[d]) => Early(call[d]) /\ call'[d].by = call[d].by /\ call'[d].put = call[d].put
      BY <2>1, <3>1 DEF Calm, Alike, Late, Early, Final
    <3>2. pending' = pending
      BY <2>1 DEF Calm
    <3>3. CASE \E d \in Calls : Early(call'[d]) /\ call'[d].by = b /\ call'[d].put = FALSE
      <4>1. PICK d \in Calls : Early(call'[d]) /\ call'[d].by = b /\ call'[d].put = FALSE
        BY <3>3
      <4>2. Early(call[d]) /\ call[d].by = b /\ call[d].put = FALSE
        BY <3>1, <4>1
      <4> QED BY <4>2 DEF Unput
    <3>4. CASE /\ \E change \in pending'[Proc(b)] : change.by = b /\ change.put = FALSE
               /\ \A d \in Calls : Late(call'[d]) => call'[d].by # b
      BY <3>1, <3>2, <3>4 DEF Unput
    <3> QED BY <1>2, <1>3, <3>3, <3>4
  <2>2. ASSUME NEW p \in Procs, Dies(p)
        PROVE  Unput(b)
    <3>1. CASE \E d \in Calls : Early(call'[d]) /\ call'[d].by = b /\ call'[d].put = FALSE
      <4>1. PICK d \in Calls : Early(call'[d]) /\ call'[d].by = b /\ call'[d].put = FALSE
        BY <3>1
      <4>2. call'[d] = call[d]
        BY <2>2, <4>1 DEF Dies, Early
      <4>3. Early(call[d]) /\ call[d].by = b /\ call[d].put = FALSE
        BY <4>1, <4>2
      <4> QED BY <4>3 DEF Unput
    <3>2. CASE /\ \E change \in pending'[Proc(b)] : change.by = b /\ change.put = FALSE
               /\ \A d \in Calls : Late(call'[d]) => call'[d].by # b
      <4>1. Proc(b) # p /\ pending'[Proc(b)] = pending[Proc(b)]
        BY <1>1, <2>2, <3>2 DEF Dies
      <4>2. ASSUME NEW d \in Calls, Late(call[d]), call[d].by = b
            PROVE  FALSE
        <5>1. Proc(d) # p
          BY <1>4, <4>1, <4>2
        <5>2. call'[d] = call[d]
          BY <2>2, <5>1 DEF Dies
        <5> QED BY <3>2, <4>2, <5>2
      <4> QED BY <3>2, <4>1, <4>2 DEF Unput
    <3> QED BY <1>2, <1>3, <3>1, <3>2
  <2> QED BY <1>6, <2>1, <2>2, CalmSteps
<1> QED
  BY <1>5, <1>6

-----------------------------------------------------------------------------
(* Where the marks of a changeset come from.                               *)

LEMMA OpMarksOf ==
    ASSUME NEW n, NEW t
    PROVE  /\ OpMarks(Create(n, t)) \subseteq t.body.marks \cup t.tags
           /\ OpMarks(SetRaw(n, t)) \subseteq t.body.marks \cup t.tags
           /\ OpMarks(UpdateBody(n, t)) \subseteq t.marks
           /\ OpMarks(UpdateTags(n, t)) \subseteq t
           /\ OpMarks(Delete(n)) = {}
BY DEF OpMarks, Create, SetRaw, UpdateBody, UpdateTags, Delete

\* A tool puts its own mark into its changeset, and those of the files it read.
LEMMA OpsMarks ==
    ASSUME NEW c \in Calls, NEW r, IsRequest(r), r.tool \in VaultTools \ {"commit", "revert"}, NEW files,
           r.tool \in FromIndex \cup FromNote => files \in [Notes -> Texts] /\ ~Unfit(r, files),
           NEW b, b # c, r.tool \in FromIndex \cup FromNote => \A n \in Notes : b \notin MarksIn(files[n]),
           NEW o, o = Ops(c, r, files)
    PROVE  \A i \in DOMAIN o : b \notin OpMarks(o[i])
<1> USE DEF VaultTools, IsRequest
<1>1. c \in Marks /\ Fresh(c).body.marks = {c} /\ Fresh(c).tags = {}
  BY FreshTyped DEF Marks
<1>2. r.note \in Notes
  OBVIOUS
<1>3. r.tool \in FromIndex \cup FromNote =>
        /\ files[r.note] \in Texts /\ files[r.note] # None /\ files[r.note].body \in Body
        /\ files[r.note].tags \in SUBSET Marks
        /\ b \notin files[r.note].body.marks /\ b \notin files[r.note].tags
  BY <1>2, TextParts DEF Unfit
<1>4. ASSUME NEW x, o = <<x>>, b \notin OpMarks(x)
      PROVE  \A i \in DOMAIN o : b \notin OpMarks(o[i])
  BY <1>4
<1>5. CASE r.tool = "create"
  BY <1>1, <1>4, <1>5, OpMarksOf DEF Ops
<1>6. CASE r.tool = "update"
  BY <1>1, <1>4, <1>6, OpMarksOf DEF Ops
<1>7. CASE r.tool = "delete"
  BY <1>4, <1>7, OpMarksOf DEF Ops
<1>8. CASE r.tool = "setraw"
  BY <1>1, <1>4, <1>8, OpMarksOf DEF Ops
<1>9. CASE r.tool = "propose"
  <2> DEFINE op(i) == CASE r.ops[i].op = "create" -> Create(r.ops[i].note, Fresh(c))
                        [] r.ops[i].op = "update" -> UpdateBody(r.ops[i].note, Fresh(c).body)
                        [] OTHER -> Delete(r.ops[i].note)
  <2>1. o = [i \in DOMAIN r.ops |-> op(i)]
    BY <1>9 DEF Ops
  <2>2. \A i \in DOMAIN r.ops : b \notin OpMarks(op(i))
    BY <1>1, OpMarksOf
  <2> HIDE DEF op
  <2> QED BY <2>1, <2>2
<1>10. CASE r.tool = "link"
  <2>1. PICK body \in Body : body = files[r.note].body
    BY <1>3, <1>10 DEF FromNote
  <2>2. PICK new : new = IF r.to \in body.links THEN body ELSE [Marked(body, c) EXCEPT !.links = @ \cup {r.to}]
    OBVIOUS
  <2>3. Marked(body, c) \in Body /\ Marked(body, c).marks = body.marks \cup {c}
    BY <1>1, MarkedTyped
  <2>4. new.marks \subseteq body.marks \cup {c}
    BY <2>2, <2>3 DEF Body
  <2>5. o = <<UpdateBody(r.note, new)>>
    BY <1>10, <2>1, <2>2 DEF Ops
  <2>6. b \notin OpMarks(UpdateBody(r.note, new))
    BY <1>3, <1>10, <2>1, <2>4, OpMarksOf DEF FromNote
  <2> QED BY <1>4, <2>5, <2>6
<1>11. CASE r.tool = "tag"
  <2>1. o = <<UpdateTags(r.note, files[r.note].tags \cup {c})>>
    BY <1>11 DEF Ops
  <2>2. b \notin OpMarks(UpdateTags(r.note, files[r.note].tags \cup {c}))
    BY <1>3, <1>11, OpMarksOf DEF FromNote
  <2> QED BY <1>4, <2>1, <2>2
<1>12. CASE r.tool = "toggle"
  <2>1. Marked(files[r.note].body, c).marks = files[r.note].body.marks \cup {c}
    BY <1>1, <1>3, <1>12, MarkedTyped DEF FromIndex
  <2>2. o = <<UpdateBody(r.note, Marked(files[r.note].body, c))>>
    BY <1>12 DEF Ops
  <2>3. b \notin OpMarks(UpdateBody(r.note, Marked(files[r.note].body, c)))
    BY <1>3, <1>12, <2>1, OpMarksOf DEF FromIndex
  <2> QED BY <1>4, <2>2, <2>3
<1>13. CASE r.tool = "rename"
  <2>1. PICK m \in Notes, n \in Notes : m = r.note /\ n = r.to
    BY <1>2, <1>13
  <2>2. files \in [Notes -> Texts] /\ files[m] # None /\ o = RenameOps(files, m, n)
    BY <1>3, <1>13, <2>1 DEF FromIndex, Ops
  <2>3. \A k \in Notes : b \notin MarksIn(files[k])
    BY <1>13 DEF FromIndex
  <2>4. Renames(o, files, m, n)
    BY <2>2, RenameShape
  <2>5. b \notin OpMarks(o[1])
    <3>1. PICK old \in Text : old = files[m] /\ old # None
      BY <2>2, TextParts
    <3>2. PICK t : t = [old EXCEPT !.body = Retargeted(@, m, n)]
      OBVIOUS
    <3>3. t \in Text /\ MarksIn(t) = MarksIn(old)
      BY <3>2, MovedTyped
    <3>4. b \notin t.body.marks \cup t.tags
      BY <2>3, <3>1, <3>3, TextsAssumption DEF MarksIn
    <3>5. o[1] = Create(n, t)
      BY <2>4, <3>1, <3>2 DEF Renames
    <3> QED BY <3>4, <3>5, OpMarksOf
  <2>6. b \notin OpMarks(o[Len(o)])
    BY <2>4, OpMarksOf DEF Renames
  <2>7. ASSUME NEW i \in 2..(Len(o) - 1)
        PROVE  b \notin OpMarks(o[i])
    <3>1. PICK k : k = o[i].note
      OBVIOUS
    <3>2. k \in Notes /\ files[k] # None /\ o[i] = UpdateBody(k, Retargeted(files[k].body, m, n))
      BY <2>4, <3>1 DEF Renames, Backlinks
    <3>3. files[k].body \in Body /\ b \notin files[k].body.marks
      BY <2>2, <2>3, <3>2, TextParts
    <3>4. Retargeted(files[k].body, m, n).marks = files[k].body.marks
      BY <3>3, RetargetedTyped
    <3> QED BY <3>2, <3>3, <3>4, OpMarksOf
  <2>8. DOMAIN o = 1..Len(o) /\ Len(o) \in Nat
    BY <2>4 DEF Renames
  <2> QED BY <2>5, <2>6, <2>7, <2>8
<1> QED
  BY <1>5, <1>6, <1>7, <1>8, <1>9, <1>10, <1>11, <1>12, <1>13

LEMMA AfterMarks ==
    ASSUME NEW o \in Operation, NEW disk \in Texts, ~(o.op \in {"update", "delete"} /\ disk = None)
    PROVE  MarksIn(After(o, disk)) \subseteq OpMarks(o) \cup MarksIn(disk)
<1>1. CASE o.op = "delete"
  BY <1>1 DEF After, MarksIn
<1>2. CASE o.op = "update"
  <2>1. disk.body \in Body /\ disk.tags \in SUBSET Marks /\ MarksIn(disk) = disk.body.marks \cup disk.tags
    BY <1>2, TextParts
  <2>2. PICK body, tags : body = Or(o.body, disk.body) /\ tags = Or(o.tags, disk.tags)
    OBVIOUS
  <2>3. body.marks \cup tags \subseteq OpMarks(o) \cup MarksIn(disk)
    BY <2>1, <2>2 DEF Or, OpMarks
  <2>4. After(o, disk) = [body |-> body, tags |-> tags]
    BY <1>2, <2>2 DEF After
  <2>5. MarksIn([body |-> body, tags |-> tags]) \subseteq body.marks \cup tags
    BY DEF MarksIn
  <2> QED BY <2>3, <2>4, <2>5
<1>3. CASE o.op \in {"create", "raw"}
  <2>1. PICK body, tags : body = o.body /\ tags = o.tags
    OBVIOUS
  <2>2. After(o, disk) = [body |-> body, tags |-> tags]
    BY <1>3, <2>1 DEF After
  <2>3. MarksIn([body |-> body, tags |-> tags]) \subseteq body.marks \cup tags
    BY DEF MarksIn
  <2>4. OpMarks(o) = body.marks \cup tags
    BY <1>3, <2>1 DEF OpMarks, Operation
  <2> QED BY <2>2, <2>3, <2>4
<1> QED
  BY <1>1, <1>2, <1>3 DEF Operation

-----------------------------------------------------------------------------
(* A mark that is in no file stays in its own changeset until it is written. *)

\* What is being written is put.
LEMMA LatePut ==
    ASSUME Basic', FlyInv', cast' = cast, NEW c \in Calls, NEW b \in Calls,
           Late(call'[c]), call'[c].by = b
    PROVE  ~Unput(b)'
<1>1. /\ Proc(b) = Proc(c) /\ call'[b].pc \notin NotYet
      /\ call'[c].pc \in Locked
  BY DEF FlyInv, Late, Committing, Locked, Proc
<1>2. ASSUME NEW d \in Calls, Early(call'[d]), call'[d].by = b
      PROVE  FALSE
  <2>1. Proc(d) = Proc(c) /\ call'[d].pc \in Locked
    BY <1>1, <1>2 DEF FlyInv, Early, Committing, Locked, Proc
  <2>2. d = c
    BY <1>1, <2>1 DEF Basic, LockInv, Proc
  <2> QED BY <1>2, <2>2 DEF Early, Late
<1> QED
  BY <1>1, <1>2 DEF Unput, Late, Early

LEMMA UnseenFiles ==
    ASSUME Basic, Basic', FlyInv', NEW c \in Calls, Commits(c) \/ Reverts(c),
           NEW b \in Calls, Unseen(b), Unput(b)'
    PROVE  \A n \in Notes : b \notin MarksIn(vault'[n])
<1>1. /\ TypeInv /\ StandInv /\ vault \in [Notes -> Texts] /\ cast' = cast
      /\ \A n \in Notes : b \notin MarksIn(vault[n])
  BY CallStep DEF Basic, TypeInv, Unseen
<1>2. ASSUME NEW m \in Notes, NEW t \in Texts, vault' = [vault EXCEPT ![m] = t], b \notin MarksIn(t)
      PROVE  \A n \in Notes : b \notin MarksIn(vault'[n])
  BY <1>1, <1>2
<1>3. CASE Write(c)
  <2>1. /\ call[c].at \in DOMAIN call[c].diff /\ call[c].diff[call[c].at] \in Entry
        /\ vault' = [vault EXCEPT ![call[c].diff[call[c].at].note] = call[c].diff[call[c].at].after]
        /\ call'[c].by = call[c].by
        /\ call'[c].pc = (IF call[c].at = Len(call[c].diff) THEN "version" ELSE "write")
        /\ call'[c].at = (IF call[c].at = Len(call[c].diff) THEN call[c].at ELSE call[c].at + 1)
    BY <1>1, <1>3, WriteEffect
  <2>2. call[c].at \in Nat \ {0}
    BY <1>1 DEF TypeInv, CallRec
  <2>3. Late(call'[c])
    BY <2>1, <2>2 DEF Late
  <2>4. PICK m \in Notes, t \in Texts :
          m = call[c].diff[call[c].at].note /\ t = call[c].diff[call[c].at].after
    BY <2>1 DEF Entry
  <2>5. b \in MarksIn(t) => call[c].by = b
    BY <2>1, <2>4 DEF Unseen, UnseenIn
  <2>6. b \notin MarksIn(t)
    BY <1>1, <2>1, <2>3, <2>5, LatePut
  <2> QED BY <1>2, <2>1, <2>4, <2>6
<1>4. CASE Restore(c)
  <2>1. /\ call[c].ver \in DOMAIN call[c].diff /\ call[c].diff[call[c].ver] \in Entry
        /\ vault' = [vault EXCEPT ![call[c].diff[call[c].ver].note] = call[c].diff[call[c].ver].before]
    BY <1>1, <1>4, RestoreEffect
  <2>2. PICK m \in Notes, t \in Texts :
          m = call[c].diff[call[c].ver].note /\ t = call[c].diff[call[c].ver].before
    BY <2>1 DEF Entry
  <2>3. b \notin MarksIn(t)
    BY <2>1, <2>2 DEF Unseen, UnseenIn
  <2> QED BY <1>2, <2>1, <2>2, <2>3
<1>5. CASE Undo(c)
  <2>1. call[c].ver \in DOMAIN history
    BY <1>1, <1>5, UndoEffect
  <2>2. PICK m \in Notes : /\ m \in DOMAIN history[call[c].ver].before
                           /\ vault' = [vault EXCEPT ![m] = history[call[c].ver].before[m]]
    BY <1>1, <1>5, UndoEffect
  <2>3. PICK t \in Texts : t = history[call[c].ver].before[m]
    BY <1>1, <2>1, <2>2, HistoryTyped
  <2>4. b \notin MarksIn(t)
    BY <2>1, <2>2, <2>3 DEF Unseen
  <2> QED BY <1>2, <2>2, <2>3, <2>4
<1>6. CASE ~(Write(c) \/ Restore(c) \/ Undo(c))
  <2>1. vault' = vault
    BY <1>6 DEF Commits, Reverts, LockFor, Propose, LockForCommit, Diff, WriteFails, RestoreFails,
                Version, Audit, LogFails, LockForRevert, AuditUndo, UndoFails
  <2> QED BY <1>1, <2>1
<1> QED
  BY <1>3, <1>4, <1>5, <1>6

\* What a snapshot holds comes from the entries of the changeset.
LEMMA BeforeFrom ==
    ASSUME NEW diff \in Seq(Entry), NEW n \in DOMAIN Before(diff)
    PROVE  \E i \in DOMAIN diff : Before(diff)[n] = diff[i].before
BY SnapshotTyped, LastOne DEF Before

LEMMA HistoryGrows ==
    ASSUME Basic, NEW c \in Calls, Commits(c) \/ Reverts(c), NEW v \in DOMAIN history'
    PROVE  \/ v \in DOMAIN history /\ history'[v] = history[v]
           \/ /\ Version(c) /\ history'[v].before = Before(call[c].diff)
              /\ history'[v].by = call[c].by /\ history'[v].again = call[c].put
<1>1. CASE Version(c)
  <2>1. PICK snapshot \in Snapshot :
          /\ history' = Append(history, snapshot)
          /\ snapshot.before = Before(call[c].diff) /\ snapshot.by = call[c].by
          /\ snapshot.again = call[c].put
    BY <1>1, BasicVersion
  <2>2. history \in Seq(Snapshot)
    BY DEF Basic, TypeInv
  <2>3. \/ v \in DOMAIN history /\ history'[v] = history[v]
        \/ history'[v] = snapshot
    BY <2>1, <2>2
  <2> QED BY <1>1, <2>1, <2>3
<1>2. CASE ~Version(c)
  <2>1. history' = history
    BY <1>2 DEF Commits, Reverts, LockFor, Propose, LockForCommit, Diff, Write, WriteFails, Restore, RestoreFails,
                Audit, LogFails, LockForRevert, Undo, AuditUndo, UndoFails
  <2> QED BY <2>1
<1> QED
  BY <1>1, <1>2

LEMMA UnseenHistory ==
    ASSUME Basic, NEW c \in Calls, Commits(c) \/ Reverts(c), NEW b \in Calls, Unseen(b)
    PROVE  \A v \in DOMAIN history' : \A n \in DOMAIN history'[v].before :
             b \notin MarksIn(history'[v].before[n])
<1> SUFFICES ASSUME NEW v \in DOMAIN history', NEW n \in DOMAIN history'[v].before
             PROVE  b \notin MarksIn(history'[v].before[n])
  OBVIOUS
<1>1. CASE v \in DOMAIN history /\ history'[v] = history[v]
  BY <1>1 DEF Unseen
<1>2. CASE history'[v].before = Before(call[c].diff)
  <2>1. PICK diff \in Seq(Entry) : diff = call[c].diff
    BY DEF Basic, TypeInv, CallRec
  <2>2. n \in DOMAIN Before(diff)
    BY <1>2, <2>1
  <2>3. PICK i \in DOMAIN diff : Before(diff)[n] = diff[i].before
    BY <2>2, BeforeFrom
  <2>4. b \notin MarksIn(diff[i].before)
    BY <2>1 DEF Unseen, UnseenIn
  <2> QED BY <1>2, <2>1, <2>3, <2>4
<1> QED
  BY <1>1, <1>2, HistoryGrows

LEMMA UnseenPending ==
    ASSUME Basic, NEW c \in Calls, Commits(c) \/ Reverts(c), NEW b \in Calls, Unseen(b)
    PROVE  \A p \in Procs : \A change \in pending'[p] : \A i \in DOMAIN change.ops :
             b \in OpMarks(change.ops[i]) => change.by = b
<1> SUFFICES ASSUME NEW p \in Procs, NEW change \in pending'[p], NEW i \in DOMAIN change.ops,
                    b \in OpMarks(change.ops[i])
             PROVE  change.by = b
  OBVIOUS
<1>1. /\ Pends(c, call[c], call'[c]) /\ Proc(c) \in Procs /\ pending \in [Procs -> SUBSET Change]
      /\ Stands(c, call[c])
  BY CallStep, BasicTypes, ProcTyped DEF Basic, StandInv, Changes
<1>2. CASE change \in pending[p]
  BY <1>2 DEF Unseen
<1>3. CASE change \notin pending[p]
  <2>1. CASE call[c].pc = "propose" /\ Adds(c, call[c])
    <3>1. PICK new : new = [ops |-> call[c].ops, by |-> c, put |-> FALSE]
      OBVIOUS
    <3>2. pending' = [pending EXCEPT ![Proc(c)] = @ \cup {new}]
      BY <2>1, <3>1 DEF Adds
    <3>3. change = new
      BY <1>1, <1>3, <3>2
    <3>4. i \in DOMAIN call[c].ops /\ b \in OpMarks(call[c].ops[i]) /\ change.by = c
      BY <3>1, <3>3
    <3>5. call[c].by = b \/ c = b
      BY <3>4 DEF Unseen, UnseenIn
    <3>6. call[c].by = None
      BY <1>1, <2>1 DEF Stands, NotYet
    <3> QED BY <3>4, <3>5, <3>6, MarksAssumption
  <2>2. CASE Clears(c)
    BY <1>1, <1>3, <2>2 DEF Clears
  <2>3. CASE StillPending(c)
    <3>1. CASE p # Proc(c)
      BY <1>3, <2>3, <3>1, StillPendingTyped
    <3>2. CASE p = Proc(c)
      <4>1. PICK old \in pending[p] : old.by = change.by /\ old.ops = change.ops
        BY <1>3, <2>3, <3>2, StillPendingOf
      <4> QED BY <4>1 DEF Unseen
    <3> QED BY <3>1, <3>2
  <2> QED BY <1>1, <1>3, <2>1, <2>2, <2>3 DEF Pends
<1> QED
  BY <1>2, <1>3

LEMMA LockForRevertEffect ==
    ASSUME Basic, NEW c \in Calls, LockForRevert(c), ~Answer(c, "failed")
    PROVE  /\ call[c].pc = "waiting" /\ call[c].req.tool = "revert"
           /\ call'[c].pc \in Undoing /\ call'[c].ops = call[c].ops /\ call'[c].base = call[c].base
           /\ call'[c].diff = call[c].diff /\ call'[c].by = call[c].by
<1>1. PICK v \in DOMAIN history :
        call' = [call EXCEPT ![c].pc = IF DOMAIN history[v].before = {} THEN "undone" ELSE "undo",
                             ![c].ver = v, ![c].left = DOMAIN history[v].before]
  BY DEF LockForRevert
<1>2. PICK x, y : /\ x \in Undoing /\ x = (IF DOMAIN history[v].before = {} THEN "undone" ELSE "undo")
                  /\ y = DOMAIN history[v].before
  BY DEF Undoing
<1>3. call' = [call EXCEPT ![c].pc = x, ![c].ver = v, ![c].left = y]
  BY <1>1, <1>2
<1>4. call[c] \in CallRec /\ call \in [Calls -> CallRec]
  BY DEF Basic, TypeInv
<1>5. call'[c] = [call[c] EXCEPT !.pc = x, !.ver = v, !.left = y]
  BY <1>3, <1>4
<1> QED
  BY <1>2, <1>4, <1>5 DEF LockForRevert, CallRec

LEMMA UnseenIdle ==
    ASSUME NEW b, NEW d, NEW s, IdleLike(s)
    PROVE  UnseenIn(b, d, s)
BY DEF IdleLike, UnseenIn

\* A call that keeps its changeset and whose it is.
LEMMA UnseenKept ==
    ASSUME NEW b, NEW d, NEW r, NEW s, UnseenIn(b, d, r), s.base = r.base, s.ops = r.ops,
           s.diff = r.diff, s.by = r.by,
           r.pc \notin {"waiting", "propose"} \/ s.pc \in {"waiting", "propose"}
    PROVE  UnseenIn(b, d, s)
BY DEF UnseenIn

LEMMA UnseenOwn ==
    ASSUME Basic, NEW c \in Calls, Commits(c) \/ Reverts(c), NEW b \in Calls, Unseen(b)
    PROVE  UnseenIn(b, c, call'[c])
<1>1. /\ TypeInv /\ StandInv /\ call[c] \in CallRec /\ Stands(c, call[c]) /\ call \in [Calls -> CallRec]
      /\ vault \in [Notes -> Texts] /\ b # None
      /\ UnseenIn(b, c, call[c]) /\ \A n \in Notes : b \notin MarksIn(vault[n])
  BY MarksAssumption DEF Basic, TypeInv, StandInv, Unseen
<1>2. ASSUME NEW a \in Final, Answer(c, a)
      PROVE  UnseenIn(b, c, call'[c])
  BY <1>1, <1>2, AnswerEffect, UnseenIdle
<1>3. CASE LockFor(c)
  <2>1. CASE call[c].req.tool \in FromNote /\ Unfit(call[c].req, vault)
    BY <1>2, <1>3, <2>1 DEF LockFor, Final
  <2>2. CASE ~(call[c].req.tool \in FromNote /\ Unfit(call[c].req, vault))
    <3>1. PICK r, s : r \in CallRec /\ r = call[c] /\ s = call'[c]
      BY <1>1
    <3>2. /\ r.pc = "waiting" /\ s.pc = "propose" /\ s.diff = r.diff /\ s.by = r.by
          /\ s.ops = IF r.req.tool \in FromIndex THEN r.ops ELSE Ops(c, r.req, vault)
          /\ s.base = IF r.req.tool \in FromNote THEN vault ELSE r.base
      BY <1>1, <1>3, <2>2, <3>1, LockForEffect DEF LockFor
    <3>3. r.req.tool \notin {"commit", "revert"} /\ IsRequest(r.req) /\ r.req.tool \in VaultTools
      BY <1>1, <1>3, <3>1, <3>2, Requests DEF LockFor, Stands
    <3>4. CASE r.req.tool \in FromIndex
      <4>1. s.base = r.base /\ s.ops = r.ops
        BY <3>2, <3>4 DEF FromIndex, FromNote
      <4> QED BY <1>1, <3>1, <3>2, <4>1, UnseenKept
    <3>5. CASE r.req.tool \notin FromIndex
      <4>1. ASSUME b # c
            PROVE  \A i \in DOMAIN s.ops : b \notin OpMarks(s.ops[i])
        <5>1. PICK q, files, o : q = r.req /\ files = vault /\ o = Ops(c, q, files)
          OBVIOUS
        <5>2. /\ files \in [Notes -> Texts] /\ \A n \in Notes : b \notin MarksIn(files[n])
              /\ q.tool \in FromNote => ~Unfit(q, files)
          BY <1>1, <2>2, <3>1, <5>1
        <5>3. \A i \in DOMAIN o : b \notin OpMarks(o[i])
          BY <3>3, <3>5, <4>1, <5>1, <5>2, OpsMarks
        <5> QED BY <3>2, <3>5, <5>1, <5>3
      <4>2. s.base # None => \A n \in Notes : b \notin MarksIn(s.base[n])
        BY <1>1, <3>1, <3>2 DEF UnseenIn
      <4>3. \A i \in DOMAIN s.diff : /\ b \notin MarksIn(s.diff[i].before)
                                     /\ b \in MarksIn(s.diff[i].after) => s.by = b
        BY <1>1, <3>1, <3>2 DEF UnseenIn
      <4> QED BY <3>1, <3>2, <4>1, <4>2, <4>3 DEF UnseenIn
    <3> QED BY <3>4, <3>5
  <2> QED BY <2>1, <2>2
<1>4. CASE Propose(c)
  <2>1. call[c].pc = "propose" /\ call[c].by = None
    BY <1>1, <1>4 DEF Propose, Stands, NotYet
  <2>2. CASE Answer(c, "failed") \/ Answer(c, "ok")
    BY <1>2, <2>2 DEF Final
  <2>3. CASE ~(Answer(c, "failed") \/ Answer(c, "ok"))
    <3>1. ~(\E i \in DOMAIN call[c].ops : Refused(call[c].ops[i])) /\ call[c].req.tool # "propose"
      BY <1>4, <2>3 DEF Propose
    <3>2. PICK r, s : r \in CallRec /\ r = call[c] /\ s = call'[c]
      BY <1>1
    <3>3. s.pc = "diff" /\ s.by = c /\ s.ops = r.ops /\ s.base = r.base /\ s.diff = r.diff
      BY <1>1, <1>4, <3>1, <3>2, ProposeEffect
    <3> QED BY <1>1, <2>1, <3>2, <3>3 DEF UnseenIn
  <2> QED BY <2>2, <2>3
<1>5. CASE LockForCommit(c)
  <2>1. call[c].pc = "waiting" /\ call[c].by = None
    BY <1>1, <1>5 DEF LockForCommit, Stands, NotYet
  <2>2. CASE Answer(c, "failed")
    BY <1>2, <2>2 DEF Final
  <2>3. CASE ~Answer(c, "failed")
    <3>1. PICK change \in pending[Proc(c)] :
            call' = [call EXCEPT ![c].pc = "diff", ![c].ops = change.ops,
                                 ![c].by = change.by, ![c].put = change.put]
      BY <1>5, <2>3 DEF LockForCommit
    <3>2. change \in Change /\ Proc(c) \in Procs
      BY BasicTypes, ProcTyped, <1>1
    <3>3. PICK r, s : r \in CallRec /\ r = call[c] /\ s = call'[c]
      BY <1>1
    <3>4. s.pc = "diff" /\ s.ops = change.ops /\ s.by = change.by /\ s.base = r.base /\ s.diff = r.diff
      BY <1>1, <3>1, <3>2, <3>3, LockForCommitEffect
    <3>5. \A i \in DOMAIN change.ops : b \in OpMarks(change.ops[i]) => change.by = b
      BY <3>2 DEF Unseen
    <3> QED BY <1>1, <2>1, <3>3, <3>4, <3>5 DEF UnseenIn
  <2> QED BY <2>2, <2>3
<1>6. CASE Diff(c)
  <2>1. CASE cast.scope[Proc(c)] = "ro" \/ \E i \in DOMAIN call[c].ops : Refused(call[c].ops[i])
    BY <1>2, <1>6, <2>1 DEF Diff, Final
  <2>2. CASE ~(cast.scope[Proc(c)] = "ro" \/ \E i \in DOMAIN call[c].ops : Refused(call[c].ops[i]))
    <3>1. PICK r, s : r \in CallRec /\ r = call[c] /\ s = call'[c]
      BY <1>1
    <3>2. /\ r.pc = "diff" /\ s.ops = r.ops /\ s.base = r.base /\ s.by = r.by /\ s.diff = BuildDiff(r.ops)
      BY <1>1, <1>6, <2>2, <3>1, DiffEffect DEF Diff
    <3>3. PICK ops \in Seq(Operation) : ops = r.ops /\ \A i \in DOMAIN ops : ~Refused(ops[i])
      BY <2>2, <3>1 DEF CallRec
    <3>4. PICK D : D = BuildDiff(ops)
      OBVIOUS
    <3>5. /\ DOMAIN D = DOMAIN ops
          /\ \A i \in DOMAIN ops : /\ ops[i].note \in Notes /\ D[i].before = vault[ops[i].note]
                                   /\ D[i].after = After(ops[i], vault[ops[i].note])
      BY <1>1, <3>3, <3>4, DiffShape
    <3>6. \A i \in DOMAIN ops : b \in OpMarks(ops[i]) => s.by = b
      BY <1>1, <3>1, <3>2, <3>3 DEF UnseenIn
    <3>7. ASSUME NEW i \in DOMAIN D
          PROVE  b \notin MarksIn(D[i].before) /\ (b \in MarksIn(D[i].after) => s.by = b)
      <4>1. PICK disk \in Texts : disk = vault[ops[i].note] /\ b \notin MarksIn(disk)
        BY <1>1, <3>5, <3>7
      <4>2. ops[i] \in Operation /\ ~(ops[i].op \in {"update", "delete"} /\ disk = None)
        BY <3>3, <3>5, <3>7, <4>1, ElementOfSeq DEF Refused
      <4>3. MarksIn(After(ops[i], disk)) \subseteq OpMarks(ops[i]) \cup MarksIn(disk)
        BY <4>2, AfterMarks
      <4> QED BY <3>5, <3>6, <3>7, <4>1, <4>3
    <3> QED BY <1>1, <3>1, <3>2, <3>3, <3>4, <3>6, <3>7 DEF UnseenIn
  <2> QED BY <2>1, <2>2
<1>7. ASSUME NEW r, NEW s, r = call[c], s = call'[c], r.pc \notin {"waiting", "propose"},
             s.base = r.base, s.ops = r.ops, s.diff = r.diff, s.by = r.by
      PROVE  UnseenIn(b, c, call'[c])
  <2>1. UnseenIn(b, c, r)
    BY <1>1, <1>7
  <2>2. UnseenIn(b, c, s)
    BY <1>7, <2>1, UnseenKept
  <2> QED BY <1>7, <2>2
<1>8. CASE Write(c)
  BY <1>1, <1>7, <1>8, WriteEffect
<1>9. CASE WriteFails(c)
  <2>1. CASE call[c].at = 1
    BY <1>2, <1>9, <2>1 DEF WriteFails, Final
  <2>2. CASE call[c].at # 1
    BY <1>1, <1>7, <1>9, <2>2, WriteFailsEffect DEF WriteFails
  <2> QED BY <2>1, <2>2
<1>10. CASE Restore(c) \/ RestoreFails(c)
  <2>1. CASE call[c].ver = call[c].at - 1
    BY <1>1, <1>10, <2>1, RestoreEffect, RestoreFailsEffect, UnseenIdle
  <2>2. CASE call[c].ver # call[c].at - 1
    BY <1>1, <1>7, <1>10, <2>2, RestoreEffect, RestoreFailsEffect
  <2> QED BY <2>1, <2>2
<1>11. CASE Version(c)
  BY <1>1, <1>7, <1>11, VersionEffect DEF Version
<1>12. CASE Audit(c)
  BY <1>2, <1>12 DEF Audit, Final
<1>13. CASE LogFails(c)
  BY <1>2, <1>13 DEF LogFails, Final
<1>14. CASE LockForRevert(c)
  <2>1. CASE Answer(c, "failed")
    BY <1>2, <2>1 DEF Final
  <2>2. CASE ~Answer(c, "failed")
    <3>1. PICK r, s : r = call[c] /\ s = call'[c]
      OBVIOUS
    <3>2. /\ r.pc = "waiting" /\ r.req.tool = "revert" /\ s.ops = r.ops /\ s.base = r.base
          /\ s.diff = r.diff /\ s.by = r.by
      BY <1>14, <2>2, <3>1, LockForRevertEffect
    <3>3. r.ops = <<>>
      BY <1>1, <3>1, <3>2 DEF Stands, FromIndex
    <3> QED BY <1>1, <3>1, <3>2, <3>3 DEF UnseenIn
  <2> QED BY <2>1, <2>2
<1>15. CASE Undo(c)
  BY <1>1, <1>7, <1>15, UndoEffect
<1>16. CASE AuditUndo(c)
  BY <1>2, <1>16 DEF AuditUndo, Final
<1>17. CASE UndoFails(c)
  BY <1>2, <1>17 DEF UndoFails, Final
<1> QED
  BY <1>3, <1>4, <1>5, <1>6, <1>8, <1>9, <1>10, <1>11, <1>12, <1>13, <1>14, <1>15, <1>16, <1>17
     DEF Commits, Reverts

LEMMA UnseenNext ==
    ASSUME Basic, PendInv, FlyInv, UnseenInv, [Next]_vars
    PROVE  UnseenInv'
<1>1. /\ cast' = cast /\ TypeInv /\ Basic' /\ FlyInv' /\ vault \in [Notes -> Texts]
  <2>1. cast' = cast
    BY CallStep, CalmSteps
  <2> QED BY <2>1, BasicNext, FlyNext DEF Basic, TypeInv
<1>2. SUFFICES ASSUME NEW b \in Calls, Unput(b)'
               PROVE  /\ \A n \in Notes : b \notin MarksIn(vault'[n])
                      /\ \A v \in DOMAIN history' : \A n \in DOMAIN history'[v].before :
                           b \notin MarksIn(history'[v].before[n])
                      /\ \A d \in Calls : UnseenIn(b, d, call'[d])
                      /\ \A p \in Procs : \A change \in pending'[p] : \A i \in DOMAIN change.ops :
                           b \in OpMarks(change.ops[i]) => change.by = b
  BY <1>1 DEF UnseenInv, Unseen, UnseenIn, Procs
<1>3. /\ Unseen(b) /\ \A n \in Notes : b \notin MarksIn(vault[n])
      /\ \A d \in Calls : UnseenIn(b, d, call[d])
  BY <1>2, UnputBack DEF UnseenInv, Unseen
<1>4. ASSUME NEW d \in Calls, Alike(call[d], call'[d])
      PROVE  UnseenIn(b, d, call'[d])
  BY <1>3, <1>4 DEF Alike, UnseenIn
<1>5. CASE \E c \in Calls : Commits(c) \/ Reverts(c)
  <2>1. PICK c \in Calls : Commits(c) \/ Reverts(c)
    BY <1>5
  <2>2. \A d \in Calls : UnseenIn(b, d, call'[d])
    BY <1>3, <1>4, <2>1, CallStep, UnseenOwn
  <2> QED BY <1>1, <1>2, <1>3, <2>1, <2>2, UnseenFiles, UnseenHistory, UnseenPending
<1>6. CASE ~\E c \in Calls : Commits(c) \/ Reverts(c)
  <2>1. history' = history /\ (Calm \/ \E p \in Procs : Dies(p)) /\ pending \in [Procs -> SUBSET Change]
    BY <1>6, CalmSteps, BasicTypes
  <2>2. \A p \in Procs : pending'[p] \subseteq pending[p]
    BY <2>1 DEF Calm, Dies
  <2>3. ASSUME NEW c \in Calls, NEW q \in Request, NEW a \in {"ok", "failed"}, Done(c, q, a)
        PROVE  vault' = vault /\ (\A d \in Calls : UnseenIn(b, d, call'[d]))
    <3>1. vault' = vault
      BY <2>3 DEF Done
    <3>2. IdleLike(call'[c]) /\ \A d \in Calls \ {c} : call'[d] = call[d]
      BY <2>3, BasicDone
    <3> QED BY <1>3, <3>1, <3>2, UnseenIdle
  <2>4. ASSUME NEW c \in Calls, NEW q \in Request, q.tool \in VaultTools, Begin(c, q)
        PROVE  vault' = vault /\ (\A d \in Calls : UnseenIn(b, d, call'[d]))
    <3>1. vault' = vault
      BY <2>4 DEF Begin
    <3>2. PICK s : s = call'[c]
      OBVIOUS
    <3>3. /\ \A d \in Calls \ {c} : call'[d] = call[d]
          /\ s.pc \in {"waiting", "failed"} /\ s.diff = <<>>
          /\ (s.pc = "failed" \/ q.tool \notin FromIndex) => s.ops = <<>> /\ s.base = None
          /\ (s.pc = "waiting" /\ q.tool \in FromIndex) =>
               s.ops = Ops(c, q, vault) /\ s.base = vault /\ ~Unfit(q, vault)
      BY <1>1, <2>4, <3>2, BeginEffect
    <3>4. CASE s.pc = "failed" \/ q.tool \notin FromIndex
      BY <1>3, <3>1, <3>2, <3>3, <3>4 DEF UnseenIn
    <3>5. CASE s.pc = "waiting" /\ q.tool \in FromIndex
      <4>1. ASSUME b # c
            PROVE  \A i \in DOMAIN s.ops : b \notin OpMarks(s.ops[i])
        <5>1. PICK files, o : files = vault /\ o = Ops(c, q, files)
          OBVIOUS
        <5>2. /\ files \in [Notes -> Texts] /\ \A n \in Notes : b \notin MarksIn(files[n])
              /\ ~Unfit(q, files)
          BY <1>1, <1>3, <3>3, <3>5, <5>1
        <5>3. IsRequest(q) /\ q.tool \in VaultTools \ {"commit", "revert"}
          BY <2>4, <3>5, Requests DEF FromIndex
        <5>4. \A i \in DOMAIN o : b \notin OpMarks(o[i])
          BY <3>5, <4>1, <5>1, <5>2, <5>3, OpsMarks
        <5> QED BY <3>3, <3>5, <5>1, <5>4
      <4>2. UnseenIn(b, c, s)
        BY <1>3, <3>3, <3>5, <4>1 DEF UnseenIn
      <4> QED BY <1>3, <3>1, <3>2, <3>3, <4>2
    <3> QED BY <3>3, <3>4, <3>5
  <2>5. ASSUME NEW p \in Procs, Crash(p)
        PROVE  vault' = vault /\ (\A d \in Calls : UnseenIn(b, d, call'[d]))
    <3>1. vault' = vault
      BY <2>5 DEF Crash
    <3>2. \A d \in Calls : IdleLike(call'[d]) \/ call'[d] = call[d]
      BY <1>1, <2>5, CrashEffect
    <3> QED BY <1>3, <3>1, <3>2, UnseenIdle
  <2>6. ASSUME NEW u \in Users, Edit(u)
        PROVE  /\ \A n \in Notes : b \notin MarksIn(vault'[n])
               /\ \A d \in Calls : UnseenIn(b, d, call'[d])
    <3>1. PICK m \in Notes, t \in Text :
            /\ vault' = [vault EXCEPT ![m] = t]
            /\ MarksIn(t) = MarksIn(vault[m]) \cup {u}
            /\ \A d \in Calls : Alike(call[d], call'[d])
      BY <2>6, BasicEdit
    <3>2. b # u
      BY MarksAssumption
    <3>3. b \notin MarksIn(t)
      BY <1>3, <3>1, <3>2
    <3> QED BY <1>1, <1>3, <1>4, <3>1, <3>3
  <2>7. CASE UNCHANGED notes
    <3>1. vault' = vault /\ call' = call
      BY <2>7 DEF notes
    <3> QED BY <1>3, <2>1, <2>2, <3>1 DEF Unseen
  <2>8. /\ \A n \in Notes : b \notin MarksIn(vault'[n])
        /\ \A d \in Calls : UnseenIn(b, d, call'[d])
    <3>1. CASE UNCHANGED notes
      BY <1>3, <3>1 DEF notes
    <3>2. CASE ~UNCHANGED notes
      BY <1>1, <1>3, <1>6, <2>3, <2>4, <2>5, <2>6, <3>2, Steps
    <3> QED BY <3>1, <3>2
  <2>9. /\ \A v \in DOMAIN history' : \A n \in DOMAIN history'[v].before :
             b \notin MarksIn(history'[v].before[n])
        /\ \A p \in Procs : \A change \in pending'[p] : \A i \in DOMAIN change.ops :
             b \in OpMarks(change.ops[i]) => change.by = b
    BY <1>3, <2>1, <2>2 DEF Unseen
  <2> QED BY <2>8, <2>9
<1> QED
  BY <1>5, <1>6

\* A first try finds none of its own texts in the files.
LEMMA OldDiff ==
    ASSUME Basic, UnseenInv, NEW c \in Calls, Diff(c), call'[c].pc # "failed", call[c].put = FALSE
    PROVE  /\ \A i \in DOMAIN call'[c].diff : call[c].by \notin MarksIn(call'[c].diff[i].before)
           /\ call'[c].by = call[c].by
<1>1. /\ TypeInv /\ StandInv /\ call[c] \in CallRec /\ Stands(c, call[c]) /\ call[c].pc = "diff"
      /\ vault \in [Notes -> Texts] /\ call \in [Calls -> CallRec]
  BY DEF Basic, TypeInv, StandInv, Diff
<1>2. ~(cast.scope[Proc(c)] = "ro" \/ \E i \in DOMAIN call[c].ops : Refused(call[c].ops[i]))
  <2>1. Answer(c, "failed") => call'[c].pc = "failed"
    BY <1>1, AnswerEffect DEF Final
  <2> QED BY <2>1 DEF Diff
<1>3. call'[c].diff = BuildDiff(call[c].ops) /\ call'[c].by = call[c].by
  BY <1>1, <1>2, DiffEffect
<1>4. PICK b \in Calls : b = call[c].by
  BY <1>1 DEF Stands, Committing
<1>5. Unput(b)
  BY <1>1, <1>4 DEF Unput, Early
<1>6. \A n \in Notes : b \notin MarksIn(vault[n])
  BY <1>5 DEF UnseenInv, Unseen
<1>7. PICK ops \in Seq(Operation) : ops = call[c].ops /\ \A i \in DOMAIN ops : ~Refused(ops[i])
  BY <1>1, <1>2 DEF CallRec
<1>8. /\ DOMAIN BuildDiff(ops) = DOMAIN ops
      /\ \A i \in DOMAIN ops : ops[i].note \in Notes /\ BuildDiff(ops)[i].before = vault[ops[i].note]
  BY <1>1, <1>7, DiffShape
<1> QED
  BY <1>3, <1>4, <1>6, <1>7, <1>8

LEMMA OldNext ==
    ASSUME Basic, UnseenInv, OldInv, [Next]_vars
    PROVE  OldInv'
<1> DEFINE First(r) == r.pc \in {"write", "restore", "version"} /\ r.put = FALSE
           Old(r) == \A i \in DOMAIN r.diff : r.by \notin MarksIn(r.diff[i].before)
<1>1. \A d \in Calls : First(call[d]) => Old(call[d])
  BY DEF OldInv
<1>2. ASSUME NEW d \in Calls, Alike(call[d], call'[d]), First(call'[d])
      PROVE  Old(call'[d])
  BY <1>1, <1>2 DEF Alike
<1>3. TypeInv /\ StandInv
  BY DEF Basic
<1>4. CASE \E c \in Calls : Commits(c) \/ Reverts(c)
  <2>1. PICK c \in Calls : Commits(c) \/ Reverts(c)
    BY <1>4
  <2>2. ASSUME NEW r, NEW s, r = call[c], s = call'[c], First(r), s.put = r.put, s.by = r.by, s.diff = r.diff
        PROVE  Old(call'[c])
    <3>1. Old(r)
      BY <1>1, <2>2
    <3> QED BY <2>2, <3>1
  <2>3. ASSUME First(call'[c])
        PROVE  Old(call'[c])
    <3>1. CASE Diff(c)
      <4>1. call'[c].pc # "failed"
        BY <2>3
      <4>2. ~(cast.scope[Proc(c)] = "ro" \/ \E i \in DOMAIN call[c].ops : Refused(call[c].ops[i]))
        <5>1. Answer(c, "failed") => call'[c].pc = "failed"
          BY BasicTypes, AnswerEffect DEF Final
        <5> QED BY <3>1, <4>1, <5>1 DEF Diff
      <4>3. call'[c].put = call[c].put
        BY <1>3, <3>1, <4>2, DiffEffect
      <4> QED BY <2>3, <3>1, <4>1, <4>3, OldDiff
    <3>2. CASE Write(c)
      <4>1. PICK r, s : r = call[c] /\ s = call'[c]
        OBVIOUS
      <4>2. r.pc = "write" /\ s.put = r.put /\ s.by = r.by /\ s.diff = r.diff
        BY <1>3, <3>2, <4>1, WriteEffect
      <4> QED BY <2>2, <2>3, <4>1, <4>2
    <3>3. CASE WriteFails(c)
      <4>1. call[c].pc = "write"
        BY <3>3 DEF WriteFails
      <4>2. call[c].at # 1
        <5>1. Answer(c, "failed") => call'[c].pc = "failed"
          BY BasicTypes, AnswerEffect DEF Final
        <5> QED BY <2>3, <3>3, <5>1 DEF WriteFails
      <4>3. PICK r, s : r = call[c] /\ s = call'[c]
        OBVIOUS
      <4>4. s.put = r.put /\ s.by = r.by /\ s.diff = r.diff
        BY <1>3, <3>3, <4>2, <4>3, WriteFailsEffect
      <4> QED BY <2>2, <2>3, <4>1, <4>3, <4>4
    <3>4. CASE Restore(c) \/ RestoreFails(c)
      <4>1. PICK r, s : r = call[c] /\ s = call'[c]
        OBVIOUS
      <4>2. r.pc = "restore" /\ (s.pc = "failed" \/ (s.put = r.put /\ s.by = r.by /\ s.diff = r.diff))
        BY <1>3, <3>4, <4>1, RestoreEffect, RestoreFailsEffect
      <4> QED BY <2>2, <2>3, <4>1, <4>2
    <3>5. PICK s : s = call'[c] /\ s.pc \in {"write", "version", "restore"}
      BY <2>3
    <3> QED BY <2>1, <3>1, <3>2, <3>3, <3>4, <3>5, OwnSteps
  <2>4. \A d \in Calls : First(call'[d]) => Old(call'[d])
    BY <1>2, <2>1, <2>3, CallStep
  <2>5. ASSUME NEW v \in DOMAIN history', history'[v].again = FALSE, NEW n \in DOMAIN history'[v].before
        PROVE  history'[v].by \notin MarksIn(history'[v].before[n])
    <3>1. CASE v \in DOMAIN history /\ history'[v] = history[v]
      BY <2>5, <3>1 DEF OldInv
    <3>2. CASE /\ Version(c) /\ history'[v].before = Before(call[c].diff)
               /\ history'[v].by = call[c].by /\ history'[v].again = call[c].put
      <4>1. First(call[c])
        BY <2>5, <3>2 DEF Version
      <4>2. PICK diff \in Seq(Entry) : diff = call[c].diff
        BY <1>3 DEF TypeInv, CallRec
      <4>3. n \in DOMAIN Before(diff)
        BY <2>5, <3>2, <4>2
      <4>4. PICK i \in DOMAIN diff : Before(diff)[n] = diff[i].before
        BY <4>3, BeforeFrom
      <4>5. call[c].by \notin MarksIn(diff[i].before)
        BY <1>1, <4>1, <4>2
      <4> QED BY <3>2, <4>2, <4>4, <4>5
    <3> QED BY <2>1, <3>1, <3>2, HistoryGrows
  <2> QED BY <2>4, <2>5 DEF OldInv
<1>5. CASE ~\E c \in Calls : Commits(c) \/ Reverts(c)
  <2>1. history' = history /\ (Calm \/ \E p \in Procs : Dies(p))
    BY <1>5, CalmSteps
  <2>2. \A d \in Calls : First(call'[d]) => Alike(call[d], call'[d])
    BY <2>1 DEF Calm, Dies, Alike, Final
  <2> QED BY <1>2, <2>1, <2>2 DEF OldInv
<1> QED
  BY <1>4, <1>5

LEMMA OldUndoable ==
    ASSUME Basic, OldInv
    PROVE  Undoable
<1> SUFFICES ASSUME NEW i \in DOMAIN audit, ~history[audit[i].ver].again
             PROVE  LET version == history[audit[i].ver] IN
                    version.by \notin MarksOf([n \in Notes |->
                      IF n \in DOMAIN version.before THEN version.before[n] ELSE None])
  BY DEF Undoable
<1>1. PICK v \in DOMAIN history : v = audit[i].ver
  BY DEF Basic, StandInv
<1>2. PICK version \in Snapshot : version = history[v]
  BY DEF Basic, TypeInv
<1>3. version.again = FALSE /\ version.before \in Files
  BY <1>1, <1>2 DEF Snapshot
<1>4. \A n \in DOMAIN version.before : version.by \notin MarksIn(version.before[n])
  BY <1>2, <1>3 DEF OldInv
<1>5. PICK files : files = [n \in Notes |-> IF n \in DOMAIN version.before THEN version.before[n] ELSE None]
  OBVIOUS
<1>6. files \in [Notes -> Texts]
  BY <1>3, <1>5 DEF Files, Texts
<1>7. \A n \in Notes : version.by \notin MarksIn(files[n])
  BY <1>4, <1>5 DEF MarksIn
<1>8. version.by \notin MarksOf(files)
  BY <1>6, <1>7, MarksAre
<1> QED
  BY <1>1, <1>2, <1>5, <1>8

\* What the audit log names can be undone: the version of a first try holds
\* texts from before the change, for nothing of a proposal is in a file, in a
\* snapshot or in another changeset until it is written, and a change that was
\* tried once is marked so. (write.rs:398-431)
THEOREM Undone == Spec => []Undoable
<1> DEFINE Inv == Basic /\ PendInv /\ FlyInv /\ UnseenInv /\ OldInv
<1>1. Init => Inv
  <2> SUFFICES ASSUME Init PROVE PendInv /\ FlyInv /\ UnseenInv /\ OldInv
    BY BasicInit
  <2>1. /\ cast \in Casts /\ vault = cast.vault /\ history = <<>>
        /\ \A p \in Procs : pending[p] = {}
        /\ \A c \in Calls : call[c].pc = "idle" /\ IdleLike(call[c])
    BY DEF Init, NotesInit, Idle, IdleLike
  <2>2. vault \in [Notes -> Texts] /\ MarksOf(vault) \cap Calls = {}
    BY <2>1, CastTypes
  <2>3. \A b \in Calls : \A n \in Notes : b \notin MarksIn(vault[n])
    BY <2>2, MarksAre
  <2>4. \A b \in Calls : \A d \in Calls : UnseenIn(b, d, call[d])
    BY <2>1, UnseenIdle
  <2> QED BY <2>1, <2>3, <2>4 DEF PendInv, FlyInv, UnseenInv, Unseen, OldInv, Committing
<1>2. Inv /\ [Next]_vars => Inv'
  BY BasicNext, PendNext, FlyNext, UnseenNext, OldNext
<1>3. Inv => Undoable
  BY OldUndoable
<1> QED
  BY <1>1, <1>2, <1>3, PTL DEF Spec
=============================================================================
