---------------------------- MODULE MergeProofs -----------------------------
(***************************************************************************)
(* What Merge guarantees for any devices, items and bounds, proved with     *)
(* TLAPS, whatever is interleaved and wherever a process dies between the   *)
(* files it writes:                                                         *)
(*   - a device's documents and tombstones hold all that another device     *)
(*     sent and the cursor has passed (MInv, ReceiptsKept);                 *)
(*   - a file that lags behind its document is queued for an apply, or its  *)
(*     update comes again (FilesInv, LaggingFilesCovered);                  *)
(*   - what a user typed is in the file or has been folded (EditsInv,       *)
(*     EditsFolded);                                                        *)
(*   - what is deleted in a document, a user has taken out (WantInv,        *)
(*     OnlyUsersDelete);                                                    *)
(*   - devices that have exchanged everything have the same files, with all *)
(*     that was typed and not taken out (SaidInv, StatInv, FilesConverge,   *)
(*     ExchangeKeepsAll);                                                   *)
(*   - each variable has its type: no device's clock outruns the edits      *)
(*     (LagInv), and a document deletes only what it holds (OrderInv,       *)
(*     TypeCorrect).                                                        *)
(***************************************************************************)
EXTENDS Merge, FiniteSetTheorems, TLAPS

\* None stands for what is absent: it is no document, no tombstone and no entry of a shadow.
NoneIsNoRecord ==
    /\ \A o, e : None # [ops |-> o, dels |-> e]
    /\ \A r, b, v : None # [rank |-> r, by |-> b, sv |-> v]
    /\ \A t, s : None # [text |-> t, same |-> s]

IsDocument(x) == x = [ops |-> x.ops, dels |-> x.dels]
IsTomb(t) ==
    /\ t = [rank |-> t.rank, by |-> t.by, sv |-> t.sv]
    /\ t.rank \in Nat
    /\ t.by \in Device

\* How a document and a tombstone may change.
DocGrows(x, y) == x # None => y # None /\ x.ops \subseteq y.ops /\ x.dels \subseteq y.dels
TombGrows(t, u) == t # None => u # None /\ (u = t \/ Beats(u, t))

\* Only the same tombstone has the same rank and author.
Same(t, u) == t.rank = u.rank /\ t.by = u.by

\* Holds, of one device's documents and tombstones.
HeldBy(D, T, p) ==
    /\ \A i \in DOMAIN p.docs : HasDoc(D[i], p.docs[i])
    /\ \A i \in DOMAIN p.tombs : HasTomb(T[i], p.tombs[i])

WellFormed(p) ==
    /\ DOMAIN p.docs \subseteq Item /\ DOMAIN p.tombs \subseteq Item
    /\ \A i \in DOMAIN p.docs : IsDocument(p.docs[i])
    /\ \A i \in DOMAIN p.tombs : IsTomb(p.tombs[i])

IsSeq(s) == \E S : s \in Seq(S)
Cells(f) == \E S : f \in [Device -> [Item -> S]]
Cell(f) == \E S : f \in [Device -> S]
Pairs(f) == \E S, R : f \in [Device -> [docs : S, tombs : R]]

\* What is on its way from a device to the others, and every tombstone there is.
Carried ==
    {log[k] : k \in DOMAIN log}
        \union (UNION {{outbox[e][k] : k \in DOMAIN outbox[e]} : e \in Device})
        \union {updates[e] : e \in Device}
TombsOf(i) ==
    {tombs[e][i] : e \in {f \in Device : tombs[f][i] # None}}
        \union {p.tombs[i] : p \in {q \in Carried : i \in DOMAIN q.tombs}}

Shape ==
    /\ Cells(docs) /\ Cells(tombs) /\ Cell(outbox) /\ Cell(pc)
    /\ \A e \in Device, i \in Item : docs[e][i] = None \/ IsDocument(docs[e][i])
    /\ Pairs(updates)
    /\ \A e \in Device : IsSeq(outbox[e])
    /\ IsSeq(log)
    /\ cursor \in [Device -> Nat]
    /\ \A e \in Device : cursor[e] <= Len(log)

CarriedInv == \A p \in Carried : WellFormed(p)

\* A device's own tombstone is never behind one it has made.
TombInv ==
    \A i \in Item : \A t \in TombsOf(i) :
        /\ IsTomb(t)
        /\ tombs[t.by][i] # None /\ t.rank <= tombs[t.by][i].rank
        /\ \A u \in TombsOf(i) : Same(t, u) => t = u

\* Between the merge of an update and the cursor's move the documents hold it.
ReceiptInv ==
    \A d \in Device :
        pc[d] \in {"queue", "cursor"} => cursor[d] < Len(log) /\ Holds(d, log[cursor[d] + 1])

MInv == Shape /\ CarriedInv /\ TombInv /\ ReceiptInv /\ ReceivedKept

-----------------------------------------------------------------------------
(* Documents and tombstones only grow                                       *)

LEMMA MergeDocGrows ==
    ASSUME NoneIsNoRecord, NEW x, x = None \/ IsDocument(x), NEW u, IsDocument(u)
    PROVE  IsDocument(MergeDoc(x, u)) /\ DocGrows(x, MergeDoc(x, u)) /\ HasDoc(MergeDoc(x, u), u)
<1>1. u # None
  BY DEF NoneIsNoRecord, IsDocument
<1>2. CASE x = None
  BY <1>1, <1>2 DEF MergeDoc, DocGrows, HasDoc
<1>3. CASE x # None
  <2>1. MergeDoc(x, u) = [ops |-> x.ops \union u.ops, dels |-> x.dels \union u.dels]
    BY <1>3 DEF MergeDoc
  <2>2. MergeDoc(x, u) # None
    BY <2>1 DEF NoneIsNoRecord
  <2> QED BY <2>1, <2>2 DEF IsDocument, DocGrows, HasDoc
<1> QED
  BY <1>2, <1>3

LEMMA FoldGrows ==
    ASSUME NoneIsNoRecord, NEW x, x = None \/ IsDocument(x), NEW d, NEW text
    PROVE  /\ IsDocument(ApplyLocalText(d, x, text)) /\ DocGrows(x, ApplyLocalText(d, x, text))
           /\ IsDocument(UpdateSince(x, ApplyLocalText(d, x, text)))
<1> DEFINE y == ApplyLocalText(d, x, text)
<1>1. y = [ops |-> y.ops, dels |-> y.dels] /\ (x # None => x.ops \subseteq y.ops /\ x.dels \subseteq y.dels)
  BY DEF ApplyLocalText
<1>2. y # None
  BY <1>1 DEF NoneIsNoRecord
<1>3. IsDocument(UpdateSince(x, y))
  <2> HIDE DEF y
  <2> QED BY <1>1 DEF UpdateSince, IsDocument
<1> QED
  BY <1>1, <1>2, <1>3 DEF IsDocument, DocGrows

\* Two tombstones beat each other in no circle.
LEMMA BeatsTransitive ==
    ASSUME MergeAssumption, NEW t, NEW u, NEW v, IsTomb(t), IsTomb(u), IsTomb(v),
           t = u \/ Beats(t, u), u = v \/ Beats(u, v)
    PROVE  t = v \/ Beats(t, v)
<1>1. {t.rank, u.rank, v.rank, t.by, u.by, v.by} \subseteq Nat
  BY DEF MergeAssumption, IsTomb
<1> QED
  BY <1>1 DEF Beats

LEMMA MergeTombGrows ==
    ASSUME MergeAssumption, NoneIsNoRecord, NEW t, t = None \/ IsTomb(t), NEW u, IsTomb(u),
           t # None /\ Same(t, u) => t = u
    PROVE  /\ MergeTomb(t, u) \in {t, u} /\ IsTomb(MergeTomb(t, u))
           /\ TombGrows(t, MergeTomb(t, u)) /\ HasTomb(MergeTomb(t, u), u)
<1>1. u # None
  BY DEF NoneIsNoRecord, IsTomb
<1>2. CASE t = None \/ Beats(u, t)
  BY <1>1, <1>2 DEF MergeTomb, TombGrows, HasTomb
<1>3. CASE t # None /\ ~Beats(u, t)
  <2>1. {t.rank, u.rank, t.by, u.by} \subseteq Nat
    BY <1>3 DEF MergeAssumption, IsTomb
  <2>2. t = u \/ Beats(t, u)
    BY <1>3, <2>1 DEF Beats, Same
  <2> QED BY <1>1, <1>3, <2>2 DEF MergeTomb, TombGrows, HasTomb
<1> QED
  BY <1>2, <1>3

LEMMA RecordGrows ==
    ASSUME MergeAssumption, NoneIsNoRecord, NEW t, t = None \/ IsTomb(t), NEW d \in Device, NEW doc
    PROVE  /\ IsTomb(RecordDelete(d, t, doc)) /\ RecordDelete(d, t, doc).by = d
           /\ TombGrows(t, RecordDelete(d, t, doc))
           /\ t # None => t.rank < RecordDelete(d, t, doc).rank
<1> DEFINE y == RecordDelete(d, t, doc)
<1>1. y = [rank |-> y.rank, by |-> d, sv |-> y.sv] /\ y.rank = (IF t = None THEN 1 ELSE t.rank + 1)
  BY DEF RecordDelete
<1>2. y # None
  BY <1>1 DEF NoneIsNoRecord
<1>3. t # None => t.rank \in Nat
  BY DEF IsTomb
<1> HIDE DEF y
<1>4. IsTomb(y) /\ y.by = d /\ (t # None => t.rank < y.rank)
  BY <1>1, <1>3 DEF IsTomb
<1>5. TombGrows(t, y)
  BY <1>2, <1>3, <1>4 DEF TombGrows, Beats, IsTomb
<1> QED
  BY <1>4, <1>5 DEF y

\* One device's documents and tombstones, before and after.
RowsGrow(D, T, D2, T2) == \A i \in Item : DocGrows(D[i], D2[i]) /\ TombGrows(T[i], T2[i])
TombRow(T) == \A i \in Item : T[i] = None \/ IsTomb(T[i])

\* What is held stays held as documents and tombstones grow.
LEMMA HeldGrows ==
    ASSUME MergeAssumption, NEW D, NEW T, NEW D2, NEW T2, NEW p, WellFormed(p), HeldBy(D, T, p),
           RowsGrow(D, T, D2, T2), TombRow(T), TombRow(T2)
    PROVE  HeldBy(D2, T2, p)
<1>1. ASSUME NEW i \in DOMAIN p.docs
      PROVE  HasDoc(D2[i], p.docs[i])
  BY <1>1 DEF WellFormed, HeldBy, HasDoc, RowsGrow, DocGrows
<1>2. ASSUME NEW i \in DOMAIN p.tombs
      PROVE  HasTomb(T2[i], p.tombs[i])
  <2>1. i \in Item /\ IsTomb(p.tombs[i]) /\ HasTomb(T[i], p.tombs[i])
    BY <1>2 DEF WellFormed, HeldBy
  <2>2. IsTomb(T[i]) /\ IsTomb(T2[i]) /\ T2[i] # None /\ (T2[i] = T[i] \/ Beats(T2[i], T[i]))
    BY <2>1 DEF HasTomb, RowsGrow, TombRow, TombGrows
  <2>3. T2[i] = p.tombs[i] \/ Beats(T2[i], p.tombs[i])
    BY <2>1, <2>2, BeatsTransitive DEF HasTomb
  <2> QED BY <2>2, <2>3 DEF HasTomb
<1> QED
  BY <1>1, <1>2 DEF HeldBy

-----------------------------------------------------------------------------
(* What a step has to show                                                  *)

\* A payload with no tombstones, or with those of one that was there before.
LEMMA TombsShrink ==
    ASSUME NEW i \in Item, \A e \in Device : tombs'[e][i] # None => tombs'[e][i] \in TombsOf(i),
           \A p \in Carried' : DOMAIN p.tombs = {} \/ \E q \in Carried : q.tombs = p.tombs
    PROVE  TombsOf(i)' \subseteq TombsOf(i)
BY DEF TombsOf

\* No new tombstone, and none that goes back.
LEMMA TombsKept ==
    ASSUME MergeAssumption, TombInv,
           \A i \in Item : TombsOf(i)' \subseteq TombsOf(i),
           \A e \in Device, i \in Item : TombGrows(tombs[e][i], tombs'[e][i])
    PROVE  TombInv'
<1> SUFFICES ASSUME NEW i \in Item, NEW t \in TombsOf(i)'
             PROVE  /\ IsTomb(t)
                    /\ tombs'[t.by][i] # None /\ t.rank <= tombs'[t.by][i].rank
                    /\ \A u \in TombsOf(i)' : Same(t, u) => t = u
  BY DEF TombInv, IsTomb, Same
<1>1. t \in TombsOf(i) /\ IsTomb(t) /\ t.by \in Device /\ t.rank \in Nat
  BY DEF TombInv, IsTomb
<1>2. tombs[t.by][i] # None /\ t.rank <= tombs[t.by][i].rank
  BY <1>1 DEF TombInv
<1>3. tombs'[t.by][i] # None
  BY <1>1, <1>2 DEF TombGrows
<1>4. tombs'[t.by][i] \in TombsOf(i)' /\ tombs[t.by][i] \in TombsOf(i)
  BY <1>1, <1>2, <1>3 DEF TombsOf
<1>5. tombs'[t.by][i].rank \in Nat /\ tombs[t.by][i].rank \in Nat
  BY <1>4 DEF TombInv, IsTomb
<1>6. t.rank <= tombs'[t.by][i].rank
  <2>1. tombs'[t.by][i] = tombs[t.by][i] \/ Beats(tombs'[t.by][i], tombs[t.by][i])
    BY <1>1, <1>2 DEF TombGrows
  <2>2. tombs[t.by][i].rank <= tombs'[t.by][i].rank
    BY <1>5, <2>1 DEF Beats
  <2> QED BY <1>1, <1>2, <1>5, <2>2
<1> QED
  BY <1>1, <1>3, <1>6 DEF TombInv

\* What every step does to the documents, the tombstones and the log.
Grows ==
    /\ \A e \in Device, i \in Item : /\ DocGrows(docs[e][i], docs'[e][i])
                                    /\ TombGrows(tombs[e][i], tombs'[e][i])
    /\ Len(log) <= Len(log')
    /\ \A k \in 1..Len(log) : log'[k] = log[k]

\* The rest of the invariant follows once documents and tombstones only grow,
\* the log is only appended to, and the cursor moves over what is held or own.
LEMMA StepKeeps ==
    ASSUME MergeAssumption, MInv, Shape', CarriedInv', TombInv',
           \A e \in Device, i \in Item : /\ DocGrows(docs[e][i], docs'[e][i])
                                       /\ TombGrows(tombs[e][i], tombs'[e][i]),
           Len(log) <= Len(log'), \A k \in 1..Len(log) : log'[k] = log[k],
           \A d \in Device :
               \/ cursor'[d] = cursor[d]
               \/ /\ cursor'[d] = cursor[d] + 1
                  /\ pc[d] = "cursor" \/ (cursor[d] < Len(log) /\ log[cursor[d] + 1].dev = d),
           \A d \in Device :
               pc'[d] \in {"queue", "cursor"} =>
                   /\ cursor'[d] = cursor[d]
                   /\ \/ pc[d] \in {"queue", "cursor"}
                      \/ /\ cursor[d] < Len(log)
                         /\ HeldBy(docs'[d], tombs'[d], log[cursor[d] + 1])
    PROVE  MInv' /\ Grows
<1>0. Len(log) \in Nat /\ Len(log') \in Nat
  BY DEF MInv, Shape, IsSeq
<1>1. ASSUME NEW d \in Device, NEW k \in 1..Len(log), Holds(d, log[k])
      PROVE  HeldBy(docs'[d], tombs'[d], log[k])
  <2>1. HeldBy(docs[d], tombs[d], log[k])
    BY <1>1 DEF Holds, HeldBy
  <2>2. WellFormed(log[k])
    <3>1. k \in DOMAIN log
      BY <1>0 DEF MInv, Shape, IsSeq
    <3> QED BY <3>1 DEF MInv, CarriedInv, Carried
  <2>3. TombRow(tombs[d]) /\ TombRow(tombs'[d])
    <3>1. \A i \in Item : tombs[d][i] # None => IsTomb(tombs[d][i])
      BY DEF MInv, TombInv, TombsOf
    <3>2. \A i \in Item : tombs'[d][i] # None => IsTomb(tombs'[d][i])
      <4> SUFFICES ASSUME NEW i \in Item, tombs'[d][i] # None
                   PROVE  IsTomb(tombs'[d][i])
        OBVIOUS
      <4>1. tombs'[d][i] \in TombsOf(i)'
        BY DEF TombsOf
      <4> QED BY <4>1 DEF TombInv, IsTomb
    <3> QED BY <3>1, <3>2 DEF TombRow
  <2>4. RowsGrow(docs[d], tombs[d], docs'[d], tombs'[d])
    BY DEF RowsGrow
  <2> QED BY <2>1, <2>2, <2>3, <2>4, HeldGrows
<1>2. ReceiptInv'
  <2> SUFFICES ASSUME NEW d \in Device, pc'[d] \in {"queue", "cursor"}
               PROVE  cursor'[d] < Len(log') /\ HeldBy(docs'[d], tombs'[d], log'[cursor'[d] + 1])
    BY DEF ReceiptInv, Holds, HeldBy, HasDoc, HasTomb, Beats
  <2>1. cursor[d] \in Nat /\ cursor'[d] = cursor[d]
    BY DEF MInv, Shape
  <2>2. cursor[d] < Len(log)
    BY DEF MInv, ReceiptInv
  <2>3. cursor[d] + 1 \in 1..Len(log)
    BY <1>0, <2>1, <2>2
  <2>4. HeldBy(docs'[d], tombs'[d], log[cursor[d] + 1])
    BY <1>1, <2>3 DEF MInv, ReceiptInv
  <2> QED BY <1>0, <2>1, <2>2, <2>3, <2>4
<1>3. ReceivedKept'
  <2> SUFFICES ASSUME NEW d \in Device, NEW k \in 1..cursor'[d], log'[k].dev # d
               PROVE  HeldBy(docs'[d], tombs'[d], log'[k])
    BY DEF ReceivedKept, Holds, HeldBy, HasDoc, HasTomb, Beats
  <2>1. cursor[d] \in Nat /\ cursor[d] <= Len(log)
    BY DEF MInv, Shape
  <2>2. CASE k \in 1..cursor[d]
    <3>1. k \in 1..Len(log)
      BY <1>0, <2>1, <2>2
    <3>2. Holds(d, log[k])
      BY <2>2, <3>1 DEF MInv, ReceivedKept
    <3> QED BY <1>1, <3>1, <3>2
  <2>3. CASE k \notin 1..cursor[d]
    <3>0. \/ cursor'[d] = cursor[d]
          \/ /\ cursor'[d] = cursor[d] + 1
             /\ pc[d] = "cursor" \/ (cursor[d] < Len(log) /\ log[cursor[d] + 1].dev = d)
      OBVIOUS
    <3>1. cursor'[d] = cursor[d] + 1 /\ k = cursor[d] + 1
      BY <2>1, <2>3, <3>0
    <3>2. CASE pc[d] = "cursor"
      <4>1. k \in 1..Len(log) /\ Holds(d, log[k])
        BY <1>0, <2>1, <3>1, <3>2 DEF MInv, ReceiptInv
      <4> QED BY <1>1, <4>1
    <3>3. CASE cursor[d] < Len(log) /\ log[cursor[d] + 1].dev = d
      <4>1. k \in 1..Len(log)
        BY <1>0, <2>1, <3>1, <3>3
      <4> QED BY <3>1, <3>3, <4>1
    <3> QED BY <3>0, <2>1, <3>1, <3>2, <3>3
  <2> QED BY <2>2, <2>3
<1> QED
  BY <1>2, <1>3 DEF MInv, Grows

\* A document or tombstone that does not change grows.
LEMMA SameGrows ==
    ASSUME NEW x
    PROVE  DocGrows(x, x) /\ TombGrows(x, x)
BY DEF DocGrows, TombGrows

LEMMA NothingCarried == WellFormed(NoUpdates) /\ DOMAIN NoUpdates.tombs = {}
BY DEF WellFormed, NoUpdates, Empty

\* A step that changes no document, tombstone, log or cursor.
LEMMA QuietStep ==
    ASSUME MergeAssumption, MInv, UNCHANGED <<docs, tombs, outbox, cursor, log>>, Cell(pc)',
           Pairs(updates'),
           \A e \in Device : updates'[e] = updates[e] \/ updates'[e] = NoUpdates,
           \A e \in Device : pc'[e] \in {"queue", "cursor"} => pc[e] \in {"queue", "cursor"}
    PROVE  MInv' /\ Grows
<1>1. Shape'
  BY DEF MInv, Shape, Cell, Cells, Pairs, IsDocument, IsSeq
<1>2. Carried' \subseteq Carried \union {NoUpdates}
  BY DEF Carried
<1>3. CarriedInv'
  <2>1. \A p \in Carried' : WellFormed(p)
    BY <1>2, NothingCarried DEF MInv, CarriedInv
  <2> QED BY <2>1 DEF CarriedInv, WellFormed, IsDocument, IsTomb
<1>4. TombInv'
  <2>1. ASSUME NEW i \in Item
        PROVE  TombsOf(i)' \subseteq TombsOf(i)
    <3>1. \A e \in Device : tombs'[e][i] # None => tombs'[e][i] \in TombsOf(i)
      BY DEF TombsOf
    <3>2. \A p \in Carried' : DOMAIN p.tombs = {} \/ \E q \in Carried : q.tombs = p.tombs
      BY <1>2, NothingCarried
    <3> QED BY <3>1, <3>2, TombsShrink
  <2>2. \A e \in Device, i \in Item : TombGrows(tombs[e][i], tombs'[e][i])
    BY SameGrows
  <2> QED BY <2>1, <2>2, TombsKept DEF MInv
<1>5. \A e \in Device, i \in Item : /\ DocGrows(docs[e][i], docs'[e][i])
                                  /\ TombGrows(tombs[e][i], tombs'[e][i])
  BY SameGrows
<1>6. Len(log) <= Len(log')
  BY DEF MInv, Shape, IsSeq
<1> QED
  BY <1>1, <1>3, <1>4, <1>5, <1>6, StepKeeps

-----------------------------------------------------------------------------
(* The actions                                                              *)

LEMMA InitMInv == Init => MInv
<1> SUFFICES ASSUME Init PROVE MInv
  OBVIOUS
<1>1. Shape
  <2>1. IsSeq(<<>>) /\ Len(<<>>) = 0
    BY DEF IsSeq
  <2>2. docs \in [Device -> [Item -> {None}]] /\ tombs \in [Device -> [Item -> {None}]]
    BY DEF Init
  <2>3. /\ outbox \in [Device -> {<<>>}] /\ pc \in [Device -> {"start"}]
        /\ updates \in [Device -> [docs : {Empty}, tombs : {Empty}]] /\ log = <<>>
        /\ cursor \in [Device -> {0}]
    BY DEF Init, NoUpdates
  <2>4. Cells(docs) /\ Cells(tombs) /\ Cell(outbox) /\ Cell(pc) /\ Pairs(updates)
    BY <2>2, <2>3 DEF Cells, Cell, Pairs
  <2>5. /\ \A e \in Device, i \in Item : docs[e][i] = None
        /\ \A e \in Device : outbox[e] = <<>> /\ cursor[e] = 0
    BY <2>2, <2>3
  <2> QED BY <2>1, <2>3, <2>4, <2>5 DEF Shape
<1>2. Carried \subseteq {NoUpdates}
  BY DEF Init, Carried
<1>3. CarriedInv
  BY <1>2, NothingCarried DEF CarriedInv
<1>4. TombInv
  <2>1. \A i \in Item : TombsOf(i) = {}
    BY <1>2, NothingCarried DEF Init, TombsOf
  <2> QED BY <2>1 DEF TombInv
<1>5. ReceiptInv /\ ReceivedKept
  BY DEF Init, ReceiptInv, ReceivedKept
<1> QED
  BY <1>1, <1>3, <1>4, <1>5 DEF MInv

\* An item is folded: its document grows, and the payload being made with it.
LEMMA FoldItemStep ==
    ASSUME MergeAssumption, NoneIsNoRecord, MInv,
           NEW d \in Device, NEW i \in Item, FoldItem(d, i)
    PROVE  MInv' /\ Grows
<1> DEFINE after == ApplyLocalText(d, docs[d][i], todo[d][i])
           made == [j \in {i} \union DOMAIN updates[d].docs |->
                       IF j = i THEN UpdateSince(docs[d][i], after) ELSE updates[d].docs[j]]
<1>0. /\ docs' = [docs EXCEPT ![d][i] = after]
      /\ UNCHANGED <<tombs, outbox, cursor, log, pc>>
      /\ updates' = updates \/ updates' = [updates EXCEPT ![d].docs = made]
  BY DEF FoldItem
<1>1. IsDocument(after) /\ DocGrows(docs[d][i], after) /\ IsDocument(UpdateSince(docs[d][i], after))
  BY FoldGrows DEF MInv, Shape
<1>2. DOMAIN made = {i} \union DOMAIN updates[d].docs
      /\ \A j \in DOMAIN made : made[j] = IF j = i THEN UpdateSince(docs[d][i], after) ELSE updates[d].docs[j]
  OBVIOUS
<1>2a. updates[d] \in Carried
  BY DEF Carried
<1> HIDE DEF after, made
<1>3. /\ Cells(docs')
      /\ \A e \in Device, j \in Item : docs'[e][j] = IF e = d /\ j = i THEN after ELSE docs[e][j]
  <2>1. PICK S : docs \in [Device -> [Item -> S]]
    BY DEF MInv, Shape, Cells
  <2>2. docs' \in [Device -> [Item -> S \union {after}]]
    BY <1>0, <2>1
  <2> QED BY <1>0, <2>1, <2>2 DEF Cells
<1>4. /\ Pairs(updates')
      /\ \A e \in Device \ {d} : updates'[e] = updates[e]
      /\ updates'[d] = updates[d] \/ updates'[d] = [docs |-> made, tombs |-> updates[d].tombs]
  <2>1. PICK S, R : updates \in [Device -> [docs : S, tombs : R]]
    BY DEF MInv, Shape, Pairs
  <2>2. updates' \in [Device -> [docs : S \union {made}, tombs : R]]
    BY <1>0, <2>1
  <2> QED BY <1>0, <2>1, <2>2 DEF Pairs
<1>5. Shape'
  <2>1. \A e \in Device, j \in Item : docs'[e][j] = None \/ IsDocument(docs'[e][j])
    BY <1>1, <1>3 DEF MInv, Shape
  <2> QED BY <1>0, <1>3, <1>4, <2>1 DEF MInv, Shape, Cells, Cell, Pairs, IsSeq, IsDocument
<1>6. Carried' \subseteq Carried \union {[docs |-> made, tombs |-> updates[d].tombs]}
  BY <1>0, <1>4 DEF Carried
<1>7. WellFormed([docs |-> made, tombs |-> updates[d].tombs])
  <2>1. WellFormed(updates[d])
    BY <1>2a DEF MInv, CarriedInv
  <2> QED BY <1>1, <1>2, <2>1 DEF WellFormed
<1>8. CarriedInv'
  <2>1. \A p \in Carried' : WellFormed(p)
    BY <1>6, <1>7 DEF MInv, CarriedInv
  <2> QED BY <2>1 DEF CarriedInv, WellFormed, IsDocument, IsTomb
<1>9. TombInv'
  <2>1. ASSUME NEW j \in Item
        PROVE  TombsOf(j)' \subseteq TombsOf(j)
    <3>1. \A e \in Device : tombs'[e][j] # None => tombs'[e][j] \in TombsOf(j)
      BY <1>0 DEF TombsOf
    <3>2. \A p \in Carried' : DOMAIN p.tombs = {} \/ \E q \in Carried : q.tombs = p.tombs
      BY <1>2a, <1>6
    <3> QED BY <3>1, <3>2, TombsShrink
  <2>2. \A e \in Device, j \in Item : TombGrows(tombs[e][j], tombs'[e][j])
    BY <1>0, SameGrows
  <2> QED BY <2>1, <2>2, TombsKept DEF MInv
<1>10. \A e \in Device, j \in Item : /\ DocGrows(docs[e][j], docs'[e][j])
                                   /\ TombGrows(tombs[e][j], tombs'[e][j])
  BY <1>0, <1>1, <1>3, SameGrows
<1>11. Len(log) <= Len(log')
  BY <1>0 DEF MInv, Shape, IsSeq
<1> QED
  BY <1>0, <1>5, <1>8, <1>9, <1>10, <1>11, StepKeeps

\* A deletion is recorded: nobody else's tombstone, and none of the device's
\* own, has the rank and author of the new one.
LEMMA FoldDeletedStep ==
    ASSUME MergeAssumption, NoneIsNoRecord, MInv,
           NEW d \in Device, NEW i \in Item, FoldDeleted(d, i)
    PROVE  MInv' /\ Grows
<1> DEFINE tomb == RecordDelete(d, tombs[d][i], docs[d][i])
           made == [j \in {i} \union DOMAIN updates[d].tombs |->
                       IF j = i THEN tomb ELSE updates[d].tombs[j]]
<1>0. /\ tombs' = [tombs EXCEPT ![d][i] = tomb]
      /\ UNCHANGED <<docs, outbox, cursor, log, pc>>
      /\ updates' = [updates EXCEPT ![d].tombs = made]
  BY DEF FoldDeleted
<1>1. tombs[d][i] = None \/ (IsTomb(tombs[d][i]) /\ tombs[d][i] \in TombsOf(i))
  BY DEF MInv, TombInv, TombsOf
<1>2. /\ IsTomb(tomb) /\ tomb.by = d /\ TombGrows(tombs[d][i], tomb)
      /\ tombs[d][i] # None => tombs[d][i].rank < tomb.rank
  BY <1>1, RecordGrows
<1>3. DOMAIN made = {i} \union DOMAIN updates[d].tombs
      /\ \A j \in DOMAIN made : made[j] = IF j = i THEN tomb ELSE updates[d].tombs[j]
  OBVIOUS
<1>4. updates[d] \in Carried
  BY DEF Carried
<1> HIDE DEF tomb, made
<1>4a. tomb # None
  BY <1>2 DEF NoneIsNoRecord, IsTomb
<1>5. /\ Cells(tombs')
      /\ \A e \in Device, j \in Item : tombs'[e][j] = IF e = d /\ j = i THEN tomb ELSE tombs[e][j]
  <2>1. PICK S : tombs \in [Device -> [Item -> S]]
    BY DEF MInv, Shape, Cells
  <2>2. tombs' \in [Device -> [Item -> S \union {tomb}]]
    BY <1>0, <2>1
  <2> QED BY <1>0, <2>1, <2>2 DEF Cells
<1>6. /\ Pairs(updates')
      /\ \A e \in Device \ {d} : updates'[e] = updates[e]
      /\ updates'[d] = [docs |-> updates[d].docs, tombs |-> made]
  <2>1. PICK S, R : updates \in [Device -> [docs : S, tombs : R]]
    BY DEF MInv, Shape, Pairs
  <2>2. updates' \in [Device -> [docs : S, tombs : R \union {made}]]
    BY <1>0, <2>1
  <2> QED BY <1>0, <2>1, <2>2 DEF Pairs
<1>7. Shape'
  <2>1. Cells(docs') /\ Cells(tombs') /\ Cell(outbox') /\ Cell(pc') /\ Pairs(updates')
    BY <1>0, <1>5, <1>6 DEF MInv, Shape
  <2> QED BY <1>0, <2>1 DEF MInv, Shape, Cells, Cell, Pairs, IsSeq, IsDocument
<1>8. Carried' \subseteq Carried \union {[docs |-> updates[d].docs, tombs |-> made]}
  BY <1>0, <1>6 DEF Carried
<1>9. WellFormed([docs |-> updates[d].docs, tombs |-> made])
  <2>1. WellFormed(updates[d])
    BY <1>4 DEF MInv, CarriedInv
  <2> QED BY <1>2, <1>3, <2>1 DEF WellFormed
<1>10. CarriedInv'
  <2>1. \A p \in Carried' : WellFormed(p)
    BY <1>8, <1>9 DEF MInv, CarriedInv
  <2> QED BY <2>1 DEF CarriedInv, WellFormed, IsDocument, IsTomb
<1>11. \A j \in Item : TombsOf(j)' \subseteq TombsOf(j) \union {t \in {tomb} : j = i}
  <2> SUFFICES ASSUME NEW j \in Item, NEW t \in TombsOf(j)'
               PROVE  t \in TombsOf(j) \/ (t = tomb /\ j = i)
    OBVIOUS
  <2>1. CASE \E e \in Device : t = tombs'[e][j] /\ t # None
    BY <1>5, <2>1 DEF TombsOf
  <2>2. CASE \E p \in Carried' : j \in DOMAIN p.tombs /\ t = p.tombs[j]
    <3>1. PICK p \in Carried' : j \in DOMAIN p.tombs /\ t = p.tombs[j]
      BY <2>2
    <3>2. CASE p \in Carried
      BY <3>1, <3>2 DEF TombsOf
    <3>3. CASE p = [docs |-> updates[d].docs, tombs |-> made]
      <4>1. (t = tomb /\ j = i) \/ (j \in DOMAIN updates[d].tombs /\ t = updates[d].tombs[j])
        BY <1>3, <3>1, <3>3
      <4> QED BY <1>4, <4>1 DEF TombsOf
    <3> QED BY <1>8, <3>1, <3>2, <3>3
  <2> QED BY <2>1, <2>2 DEF TombsOf
<1>12. TombInv'
  <2> SUFFICES ASSUME NEW j \in Item, NEW t \in TombsOf(j)'
               PROVE  /\ IsTomb(t)
                      /\ tombs'[t.by][j] # None /\ t.rank <= tombs'[t.by][j].rank
                      /\ \A u \in TombsOf(j)' : Same(t, u) => t = u
    BY DEF TombInv, IsTomb, Same
  <2>1. ASSUME NEW u \in TombsOf(j)
        PROVE  /\ IsTomb(u) /\ u.by \in Device /\ u.rank \in Nat
               /\ tombs'[u.by][j] # None /\ u.rank <= tombs'[u.by][j].rank
               /\ j = i => ~Same(tomb, u)
    <3>1. /\ IsTomb(u) /\ u.by \in Device /\ u.rank \in Nat
          /\ tombs[u.by][j] # None /\ u.rank <= tombs[u.by][j].rank
      BY DEF MInv, TombInv, IsTomb
    <3>2. CASE u.by = d /\ j = i
      <4>1. tombs[d][i].rank \in Nat /\ tombs[d][i].rank < tomb.rank /\ tomb.rank \in Nat
        BY <1>1, <1>2, <3>1, <3>2 DEF IsTomb
      <4> QED BY <1>4a, <1>5, <3>1, <3>2, <4>1 DEF Same
    <3>3. CASE ~(u.by = d /\ j = i)
      BY <1>2, <1>5, <3>1, <3>3 DEF Same
    <3> QED BY <3>2, <3>3
  <2>2. j = i => /\ IsTomb(tomb) /\ tomb.by \in Device /\ tombs'[tomb.by][j] = tomb /\ tomb # None
                 /\ tomb.rank <= tombs'[tomb.by][j].rank
    BY <1>2, <1>4a, <1>5 DEF IsTomb
  <2>3. t \in TombsOf(j) \/ (t = tomb /\ j = i)
    BY <1>11
  <2>4. \A u \in TombsOf(j)' : u \in TombsOf(j) \/ (u = tomb /\ j = i)
    BY <1>11
  <2>5. \A u \in TombsOf(j)' : Same(t, u) => t = u
    <3> SUFFICES ASSUME NEW u \in TombsOf(j)', Same(t, u) PROVE t = u
      OBVIOUS
    <3>1. CASE t \in TombsOf(j) /\ u \in TombsOf(j)
      BY <3>1 DEF MInv, TombInv
    <3>2. CASE j = i /\ (t = tomb \/ u = tomb)
      BY <2>1, <2>3, <2>4, <3>2 DEF Same
    <3> QED BY <2>3, <2>4, <3>1, <3>2
  <2> QED BY <2>1, <2>2, <2>3, <2>5
<1>13. \A e \in Device, j \in Item : /\ DocGrows(docs[e][j], docs'[e][j])
                                   /\ TombGrows(tombs[e][j], tombs'[e][j])
  BY <1>0, <1>2, <1>5, SameGrows
<1>14. Len(log) <= Len(log')
  BY <1>0 DEF MInv, Shape, IsSeq
<1> QED
  BY <1>0, <1>7, <1>10, <1>12, <1>13, <1>14, StepKeeps

\* What a sequence holds after an Append, and after its head is gone.
LEMMA SeqFacts ==
    ASSUME NEW q, IsSeq(q), NEW x
    PROVE  /\ DOMAIN q = 1..Len(q) /\ Len(q) \in Nat
           /\ IsSeq(Append(q, x)) /\ Len(Append(q, x)) = Len(q) + 1
           /\ \A k \in 1..Len(q) : Append(q, x)[k] = q[k]
           /\ \A k \in DOMAIN Append(q, x) : (k \in DOMAIN q /\ Append(q, x)[k] = q[k]) \/ Append(q, x)[k] = x
           /\ q # <<>> => /\ IsSeq(Tail(q)) /\ 1 \in DOMAIN q /\ Head(q) = q[1]
                          /\ \A k \in DOMAIN Tail(q) : \E j \in DOMAIN q : Tail(q)[k] = q[j]
<1>1. PICK S : q \in Seq(S)
  BY DEF IsSeq
<1>2. q \in Seq(S \union {x})
  BY <1>1
<1>3. /\ Append(q, x) \in Seq(S \union {x}) /\ Len(Append(q, x)) = Len(q) + 1
      /\ \A k \in 1..Len(q) : Append(q, x)[k] = q[k]
      /\ Append(q, x)[Len(q) + 1] = x
  BY <1>2
<1>4. DOMAIN q = 1..Len(q) /\ Len(q) \in Nat
  BY <1>1
<1>5. DOMAIN Append(q, x) = 1..(Len(q) + 1)
  BY <1>3
<1>6. ASSUME q # <<>>
      PROVE  /\ Tail(q) \in Seq(S) /\ Len(Tail(q)) = Len(q) - 1 /\ Len(q) > 0 /\ Head(q) = q[1]
             /\ \A k \in 1..(Len(q) - 1) : Tail(q)[k] = q[k + 1]
  BY <1>1, <1>6
<1>7. ASSUME q # <<>>, NEW k \in DOMAIN Tail(q)
      PROVE  \E j \in DOMAIN q : Tail(q)[k] = q[j]
  <2>1. k \in 1..(Len(q) - 1)
    BY <1>6, <1>7
  <2>2. k + 1 \in DOMAIN q
    BY <1>4, <2>1
  <2> QED BY <1>6, <1>7, <2>1, <2>2
<1>8. ASSUME NEW k \in DOMAIN Append(q, x)
      PROVE  (k \in DOMAIN q /\ Append(q, x)[k] = q[k]) \/ Append(q, x)[k] = x
  <2>1. k \in 1..Len(q) \/ k = Len(q) + 1
    BY <1>4, <1>5
  <2> QED BY <1>3, <1>4, <2>1
<1> QED
  BY <1>3, <1>4, <1>6, <1>7, <1>8 DEF IsSeq

\* A step that hands payloads on, and changes no document, tombstone or cursor.
LEMMA HandOn ==
    ASSUME MergeAssumption, MInv, Shape', UNCHANGED <<docs, tombs, cursor>>,
           Len(log) <= Len(log'), \A k \in 1..Len(log) : log'[k] = log[k],
           \A e \in Device : pc'[e] \in {"queue", "cursor"} => pc[e] \in {"queue", "cursor"},
           \A p \in Carried' : \/ p = NoUpdates
                              \/ \E q \in Carried : q.docs = p.docs /\ q.tombs = p.tombs
    PROVE  MInv' /\ Grows
<1>1. CarriedInv'
  <2>1. \A p \in Carried' : WellFormed(p)
    BY NothingCarried DEF MInv, CarriedInv, WellFormed
  <2> QED BY <2>1 DEF CarriedInv, WellFormed, IsDocument, IsTomb
<1>2. TombInv'
  <2>1. ASSUME NEW i \in Item
        PROVE  TombsOf(i)' \subseteq TombsOf(i)
    <3>1. \A e \in Device : tombs'[e][i] # None => tombs'[e][i] \in TombsOf(i)
      BY DEF TombsOf
    <3>2. \A p \in Carried' : DOMAIN p.tombs = {} \/ \E q \in Carried : q.tombs = p.tombs
      BY NothingCarried
    <3> QED BY <3>1, <3>2, TombsShrink
  <2>2. \A e \in Device, i \in Item : TombGrows(tombs[e][i], tombs'[e][i])
    BY SameGrows
  <2> QED BY <2>1, <2>2, TombsKept DEF MInv
<1>3. \A e \in Device, i \in Item : /\ DocGrows(docs[e][i], docs'[e][i])
                                  /\ TombGrows(tombs[e][i], tombs'[e][i])
  BY SameGrows
<1> QED
  BY <1>1, <1>2, <1>3, StepKeeps

LEMMA QueuePushStep ==
    ASSUME MergeAssumption, MInv, NEW d \in Device, QueuePush(d)
    PROVE  MInv' /\ Grows
<1> DEFINE p == Payload(d, updates[d].docs, updates[d].tombs)
<1>0. /\ outbox' = [outbox EXCEPT ![d] = Append(@, p)]
      /\ updates' = [updates EXCEPT ![d] = NoUpdates] /\ pc' = [pc EXCEPT ![d] = "idle"]
      /\ UNCHANGED <<docs, tombs, cursor, log>>
      /\ p.docs = updates[d].docs /\ p.tombs = updates[d].tombs
  BY DEF QueuePush, Payload
<1> HIDE DEF p
<1>1. /\ Cell(outbox') /\ \A e \in Device : outbox'[e] = IF e = d THEN Append(outbox[d], p) ELSE outbox[e]
      /\ \A e \in Device : IsSeq(outbox'[e])
  <2>1. PICK S : outbox \in [Device -> S]
    BY DEF MInv, Shape, Cell
  <2>2. outbox' \in [Device -> S \union {Append(outbox[d], p)}]
    BY <1>0, <2>1
  <2>3. IsSeq(Append(outbox[d], p))
    BY SeqFacts DEF MInv, Shape
  <2> QED BY <1>0, <2>1, <2>2, <2>3 DEF Cell, MInv, Shape
<1>2. /\ Pairs(updates') /\ \A e \in Device : updates'[e] = IF e = d THEN NoUpdates ELSE updates[e]
  <2>1. PICK S, R : updates \in [Device -> [docs : S, tombs : R]]
    BY DEF MInv, Shape, Pairs
  <2>2. updates' \in [Device -> [docs : S \union {Empty}, tombs : R \union {Empty}]]
    BY <1>0, <2>1 DEF NoUpdates
  <2> QED BY <1>0, <2>1, <2>2 DEF Pairs
<1>3. Cell(pc') /\ \A e \in Device : pc'[e] = IF e = d THEN "idle" ELSE pc[e]
  <2>1. PICK S : pc \in [Device -> S]
    BY DEF MInv, Shape, Cell
  <2>2. pc' \in [Device -> S \union {"idle"}]
    BY <1>0, <2>1
  <2> QED BY <1>0, <2>1, <2>2 DEF Cell
<1>4. Shape'
  <2>1. Cells(docs') /\ Cells(tombs')
    BY <1>0 DEF MInv, Shape
  <2>2. Cells(docs)' /\ Cells(tombs)' /\ Cell(outbox)' /\ Cell(pc)' /\ Pairs(updates)'
    BY <1>1, <1>2, <1>3, <2>1 DEF Cells, Cell, Pairs
  <2>3. cursor' \in [Device -> Nat] /\ \A e \in Device : cursor'[e] <= Len(log')
    BY <1>0 DEF MInv, Shape
  <2>4. (\A e \in Device : IsSeq(outbox[e]))' /\ IsSeq(log)'
    BY <1>0, <1>1 DEF MInv, Shape, IsSeq
  <2>5. (\A e \in Device, i \in Item : docs[e][i] = None \/ IsDocument(docs[e][i]))'
    BY <1>0 DEF MInv, Shape, IsDocument
  <2> QED BY <2>2, <2>3, <2>4, <2>5 DEF Shape
<1>7. IsSeq(outbox[d])
  BY DEF MInv, Shape
<1>5. ASSUME NEW x \in Carried'
      PROVE  x = NoUpdates \/ \E q \in Carried : q.docs = x.docs /\ q.tombs = x.tombs
  <2>1. CASE x \in {log'[k] : k \in DOMAIN log'}
    BY <1>0, <2>1 DEF Carried
  <2>2. CASE x \in {updates'[e] : e \in Device}
    BY <1>2, <2>2 DEF Carried
  <2>3. ASSUME NEW e \in Device, NEW k \in DOMAIN outbox'[e], x = outbox'[e][k]
        PROVE  \E q \in Carried : q.docs = x.docs /\ q.tombs = x.tombs
    <3>1. CASE x = p
      BY <1>0, <3>1 DEF Carried
    <3>2. CASE x # p
      <4>1. \A j \in DOMAIN Append(outbox[d], p) :
                (j \in DOMAIN outbox[d] /\ Append(outbox[d], p)[j] = outbox[d][j]) \/ Append(outbox[d], p)[j] = p
        BY <1>7, SeqFacts
      <4>2. outbox'[e] = IF e = d THEN Append(outbox[d], p) ELSE outbox[e]
        BY <1>1
      <4>3. k \in DOMAIN outbox[e] /\ x = outbox[e][k]
        BY <4>1, <4>2, <2>3, <3>2
      <4> QED BY <4>3 DEF Carried
    <3> QED BY <3>1, <3>2
  <2>4. \/ x \in {log'[k] : k \in DOMAIN log'}
        \/ x \in {updates'[e] : e \in Device}
        \/ \E e \in Device : \E k \in DOMAIN outbox'[e] : x = outbox'[e][k]
    BY <1>5 DEF Carried
  <2> QED BY <2>1, <2>2, <2>3, <2>4
<1>6. Len(log) <= Len(log') /\ \A k \in 1..Len(log) : log'[k] = log[k]
  BY <1>0 DEF MInv, Shape, IsSeq
<1>8. \A e \in Device : pc'[e] \in {"queue", "cursor"} => pc[e] \in {"queue", "cursor"}
  BY <1>3
<1> QED
  BY <1>0, <1>4, <1>5, <1>6, <1>8, HandOn

LEMMA DeliverStep ==
    ASSUME MergeAssumption, MInv, NEW d \in Device, Deliver(d)
    PROVE  MInv' /\ Grows
<1> DEFINE p == Head(outbox[d])
<1>0. /\ outbox[d] # <<>> /\ log' = Append(log, p) /\ outbox' = [outbox EXCEPT ![d] = Tail(@)]
      /\ UNCHANGED <<docs, tombs, cursor, updates, pc>>
  BY DEF Deliver, memory
<1> HIDE DEF p
<1>1. /\ IsSeq(outbox[d]) /\ IsSeq(log)
  BY DEF MInv, Shape
<1>2. p \in Carried
  <2>1. 1 \in DOMAIN outbox[d] /\ p = outbox[d][1]
    BY <1>0, <1>1, SeqFacts DEF p
  <2>2. p \in {outbox[d][k] : k \in DOMAIN outbox[d]}
    BY <2>1
  <2> QED BY <2>2 DEF Carried
<1>3. /\ Cell(outbox') /\ \A e \in Device : outbox'[e] = IF e = d THEN Tail(outbox[d]) ELSE outbox[e]
      /\ \A e \in Device : IsSeq(outbox'[e])
  <2>1. PICK S : outbox \in [Device -> S]
    BY DEF MInv, Shape, Cell
  <2>2. outbox' \in [Device -> S \union {Tail(outbox[d])}]
    BY <1>0, <2>1
  <2>3. IsSeq(Tail(outbox[d]))
    BY <1>0, <1>1, SeqFacts
  <2> QED BY <1>0, <2>1, <2>2, <2>3 DEF Cell, MInv, Shape
<1>4. /\ IsSeq(log') /\ Len(log) \in Nat /\ Len(log') = Len(log) + 1
      /\ \A k \in 1..Len(log) : log'[k] = log[k]
      /\ \A k \in DOMAIN log' : (k \in DOMAIN log /\ log'[k] = log[k]) \/ log'[k] = p
  BY <1>0, <1>1, SeqFacts
<1>5. Shape'
  <2>1. Cells(docs') /\ Cells(tombs') /\ Cell(pc') /\ Pairs(updates')
    BY <1>0 DEF MInv, Shape
  <2>2. cursor' \in [Device -> Nat] /\ \A e \in Device : cursor'[e] <= Len(log')
    BY <1>0, <1>4 DEF MInv, Shape
  <2>3. \A e \in Device, i \in Item : docs'[e][i] = None \/ IsDocument(docs'[e][i])
    BY <1>0 DEF MInv, Shape
  <2>4. Cells(docs)' /\ Cells(tombs)' /\ Cell(outbox)' /\ Cell(pc)' /\ Pairs(updates)'
    BY <1>3, <2>1 DEF Cells, Cell, Pairs
  <2>5. (\A e \in Device : IsSeq(outbox[e]))' /\ IsSeq(log)'
    BY <1>3, <1>4 DEF IsSeq
  <2>6. (\A e \in Device, i \in Item : docs[e][i] = None \/ IsDocument(docs[e][i]))'
    BY <2>3 DEF IsDocument
  <2> QED BY <2>2, <2>4, <2>5, <2>6 DEF Shape
<1>6. ASSUME NEW x \in Carried'
      PROVE  x \in Carried
  <2>1. CASE x \in {log'[k] : k \in DOMAIN log'}
    BY <1>2, <1>4, <2>1 DEF Carried
  <2>2. CASE x \in {updates'[e] : e \in Device}
    BY <1>0, <2>2 DEF Carried
  <2>3. ASSUME NEW e \in Device, NEW k \in DOMAIN outbox'[e], x = outbox'[e][k]
        PROVE  x \in Carried
    <3>0. outbox'[e] = IF e = d THEN Tail(outbox[d]) ELSE outbox[e]
      BY <1>3
    <3>1. \A m \in DOMAIN Tail(outbox[d]) : \E j \in DOMAIN outbox[d] : Tail(outbox[d])[m] = outbox[d][j]
      BY <1>0, <1>1, SeqFacts
    <3>2. PICK j \in DOMAIN outbox[e] : x = outbox[e][j]
      BY <2>3, <3>0, <3>1
    <3> QED BY <3>2 DEF Carried
  <2>4. \/ x \in {log'[k] : k \in DOMAIN log'} \/ x \in {updates'[e] : e \in Device}
        \/ \E e \in Device : \E k \in DOMAIN outbox'[e] : x = outbox'[e][k]
    BY DEF Carried
  <2> QED BY <2>1, <2>2, <2>3, <2>4
<1>7. Len(log) <= Len(log')
  BY <1>4
<1> QED
  BY <1>0, <1>4, <1>5, <1>6, <1>7, HandOn

LEMMA MoveCursorStep ==
    ASSUME MergeAssumption, MInv, NEW d \in Device, MoveCursor(d)
    PROVE  MInv' /\ Grows
<1>0. /\ cursor' = [cursor EXCEPT ![d] = @ + 1] /\ pc' = [pc EXCEPT ![d] = "idle"]
      /\ pc[d] = "cursor" \/ (cursor[d] < Len(log) /\ log[cursor[d] + 1].dev = d)
      /\ UNCHANGED <<docs, tombs, outbox, updates, log>>
  BY DEF MoveCursor
<1>1. Len(log) \in Nat /\ cursor \in [Device -> Nat] /\ \A e \in Device : cursor[e] <= Len(log)
  <2>1. Shape
    BY DEF MInv
  <2>2. IsSeq(log)
    BY <2>1 DEF Shape
  <2>3. Len(log) \in Nat
    BY <2>2, SeqFacts
  <2> QED BY <2>1, <2>3 DEF Shape
<1>2. cursor[d] < Len(log)
  BY <1>0 DEF MInv, ReceiptInv
<1>3. Cell(pc') /\ \A e \in Device : pc'[e] = IF e = d THEN "idle" ELSE pc[e]
  <2>1. PICK S : pc \in [Device -> S]
    BY DEF MInv, Shape, Cell
  <2>2. pc' \in [Device -> S \union {"idle"}]
    BY <1>0, <2>1
  <2> QED BY <1>0, <2>1, <2>2 DEF Cell
<1>4. /\ cursor' \in [Device -> Nat] /\ \A e \in Device : cursor'[e] <= Len(log)
      /\ \A e \in Device : cursor'[e] = IF e = d THEN cursor[d] + 1 ELSE cursor[e]
  BY <1>0, <1>1, <1>2
<1>5. Shape'
  <2>1. Cells(docs)' /\ Cells(tombs)' /\ Cell(outbox)' /\ Pairs(updates)' /\ Cell(pc)'
    BY <1>0, <1>3 DEF MInv, Shape, Cells, Cell, Pairs
  <2>2. (\A e \in Device : IsSeq(outbox[e]))' /\ IsSeq(log)'
    BY <1>0 DEF MInv, Shape, IsSeq
  <2>3. (\A e \in Device, i \in Item : docs[e][i] = None \/ IsDocument(docs[e][i]))'
    BY <1>0 DEF MInv, Shape, IsDocument
  <2> QED BY <1>0, <1>4, <2>1, <2>2, <2>3 DEF Shape
<1>6. CarriedInv' /\ TombInv'
  <2>1. CarriedInv'
    <3>1. \A p \in Carried' : WellFormed(p)
      BY <1>0 DEF MInv, CarriedInv, Carried
    <3> QED BY <3>1 DEF CarriedInv, WellFormed, IsDocument, IsTomb
  <2>2. TombInv'
    BY <1>0 DEF MInv, TombInv, TombsOf, Carried, IsTomb, Same
  <2> QED BY <2>1, <2>2
<1>7. \A e \in Device, i \in Item : /\ DocGrows(docs[e][i], docs'[e][i])
                                  /\ TombGrows(tombs[e][i], tombs'[e][i])
  BY <1>0, SameGrows
<1>8. \A e \in Device :
        \/ cursor'[e] = cursor[e]
        \/ /\ cursor'[e] = cursor[e] + 1
           /\ pc[e] = "cursor" \/ (cursor[e] < Len(log) /\ log[cursor[e] + 1].dev = e)
  BY <1>0, <1>4
<1>9. \A e \in Device :
        pc'[e] \in {"queue", "cursor"} => cursor'[e] = cursor[e] /\ pc[e] \in {"queue", "cursor"}
  BY <1>3, <1>4
<1>10. Len(log) <= Len(log') /\ \A k \in 1..Len(log) : log'[k] = log[k]
  BY <1>0, <1>1
<1> QED
  BY <1>5, <1>6, <1>7, <1>8, <1>9, <1>10, StepKeeps

\* An update of another device is merged: the documents then hold it.
LEMMA ReceiveStep ==
    ASSUME MergeAssumption, NoneIsNoRecord, MInv, NEW d \in Device, Receive(d)
    PROVE  MInv' /\ Grows
<1> DEFINE p == log[cursor[d] + 1]
           D == [i \in Item |-> IF i \in DOMAIN p.docs THEN MergeDoc(docs[d][i], p.docs[i]) ELSE docs[d][i]]
           T == [i \in Item |-> IF i \in DOMAIN p.tombs THEN MergeTomb(tombs[d][i], p.tombs[i]) ELSE tombs[d][i]]
<1>0. /\ docs' = [docs EXCEPT ![d] = D] /\ tombs' = [tombs EXCEPT ![d] = T]
      /\ pc' = [pc EXCEPT ![d] = "queue"] /\ cursor[d] < Len(log)
      /\ UNCHANGED <<outbox, cursor, updates, log>>
  BY DEF Receive
<1>1. Len(log) \in Nat /\ cursor[d] \in Nat /\ DOMAIN log = 1..Len(log)
  BY SeqFacts DEF MInv, Shape
<1>2. p \in Carried /\ WellFormed(p)
  <2>1. cursor[d] + 1 \in DOMAIN log
    BY <1>0, <1>1
  <2>2. p \in {log[k] : k \in DOMAIN log}
    BY <2>1
  <2>3. p \in Carried
    BY <2>2 DEF Carried
  <2> QED BY <2>3 DEF MInv, CarriedInv
<1>3. \A i \in Item : /\ D[i] = IF i \in DOMAIN p.docs THEN MergeDoc(docs[d][i], p.docs[i]) ELSE docs[d][i]
                      /\ T[i] = IF i \in DOMAIN p.tombs THEN MergeTomb(tombs[d][i], p.tombs[i]) ELSE tombs[d][i]
  OBVIOUS
<1>3a. D \in [Item -> {D[i] : i \in Item}] /\ T \in [Item -> {T[i] : i \in Item}]
  OBVIOUS
<1> HIDE DEF p, D, T
<1>4. Cells(docs') /\ \A e \in Device : docs'[e] = IF e = d THEN D ELSE docs[e]
  <2>1. PICK S : docs \in [Device -> [Item -> S]]
    BY DEF MInv, Shape, Cells
  <2>2. docs' \in [Device -> [Item -> S \union {D[i] : i \in Item}]]
    <3>1. D \in [Item -> S \union {D[i] : i \in Item}]
      BY <1>3a
    <3>2. \A e \in Device : docs[e] \in [Item -> S \union {D[i] : i \in Item}]
      BY <2>1
    <3> QED BY <1>0, <2>1, <3>1, <3>2
  <2> QED BY <1>0, <2>1, <2>2 DEF Cells
<1>5. Cells(tombs') /\ \A e \in Device : tombs'[e] = IF e = d THEN T ELSE tombs[e]
  <2>1. PICK S : tombs \in [Device -> [Item -> S]]
    BY DEF MInv, Shape, Cells
  <2>2. tombs' \in [Device -> [Item -> S \union {T[i] : i \in Item}]]
    <3>1. T \in [Item -> S \union {T[i] : i \in Item}]
      BY <1>3a
    <3>2. \A e \in Device : tombs[e] \in [Item -> S \union {T[i] : i \in Item}]
      BY <2>1
    <3> QED BY <1>0, <2>1, <3>1, <3>2
  <2> QED BY <1>0, <2>1, <2>2 DEF Cells
<1>6. Cell(pc') /\ \A e \in Device : pc'[e] = IF e = d THEN "queue" ELSE pc[e]
  <2>1. PICK S : pc \in [Device -> S]
    BY DEF MInv, Shape, Cell
  <2>2. pc' \in [Device -> S \union {"queue"}]
    BY <1>0, <2>1
  <2> QED BY <1>0, <2>1, <2>2 DEF Cell
<1>7. \A i \in Item : /\ D[i] = None \/ IsDocument(D[i])
                      /\ DocGrows(docs[d][i], D[i])
                      /\ i \in DOMAIN p.docs => HasDoc(D[i], p.docs[i])
  <2> SUFFICES ASSUME NEW i \in Item
               PROVE  /\ D[i] = None \/ IsDocument(D[i])
                      /\ DocGrows(docs[d][i], D[i])
                      /\ i \in DOMAIN p.docs => HasDoc(D[i], p.docs[i])
    OBVIOUS
  <2>0. docs[d][i] = None \/ IsDocument(docs[d][i])
    BY DEF MInv, Shape
  <2>1. CASE i \in DOMAIN p.docs
    <3>1. IsDocument(p.docs[i])
      BY <1>2, <2>1 DEF WellFormed
    <3> QED BY <1>3, <2>0, <2>1, <3>1, MergeDocGrows
  <2>2. CASE i \notin DOMAIN p.docs
    BY <1>3, <2>0, <2>2, SameGrows
  <2> QED BY <2>1, <2>2
<1>8. \A i \in Item : /\ T[i] # None => T[i] \in TombsOf(i)
                      /\ TombGrows(tombs[d][i], T[i])
                      /\ i \in DOMAIN p.tombs => HasTomb(T[i], p.tombs[i])
  <2> SUFFICES ASSUME NEW i \in Item
               PROVE  /\ T[i] # None => T[i] \in TombsOf(i)
                      /\ TombGrows(tombs[d][i], T[i])
                      /\ i \in DOMAIN p.tombs => HasTomb(T[i], p.tombs[i])
    OBVIOUS
  <2>0. tombs[d][i] # None => tombs[d][i] \in TombsOf(i) /\ IsTomb(tombs[d][i])
    BY DEF MInv, TombInv, TombsOf
  <2>1. CASE i \in DOMAIN p.tombs
    <3>1. p.tombs[i] \in TombsOf(i) /\ IsTomb(p.tombs[i])
      BY <1>2, <2>1 DEF TombsOf, WellFormed
    <3>2. tombs[d][i] # None /\ Same(tombs[d][i], p.tombs[i]) => tombs[d][i] = p.tombs[i]
      BY <2>0, <3>1 DEF MInv, TombInv
    <3>3. /\ MergeTomb(tombs[d][i], p.tombs[i]) \in {tombs[d][i], p.tombs[i]}
          /\ TombGrows(tombs[d][i], MergeTomb(tombs[d][i], p.tombs[i]))
          /\ HasTomb(MergeTomb(tombs[d][i], p.tombs[i]), p.tombs[i])
      BY <2>0, <3>1, <3>2, MergeTombGrows
    <3> QED BY <1>3, <2>0, <2>1, <3>1, <3>3
  <2>2. CASE i \notin DOMAIN p.tombs
    BY <1>3, <2>0, <2>2, SameGrows
  <2> QED BY <2>1, <2>2
<1>9. Shape'
  <2>1. Cells(docs)' /\ Cells(tombs)' /\ Cell(outbox)' /\ Pairs(updates)' /\ Cell(pc)'
    BY <1>0, <1>4, <1>5, <1>6 DEF MInv, Shape, Cells, Cell, Pairs
  <2>2. (\A e \in Device : IsSeq(outbox[e]))' /\ IsSeq(log)'
    BY <1>0 DEF MInv, Shape, IsSeq
  <2>3. (\A e \in Device, i \in Item : docs[e][i] = None \/ IsDocument(docs[e][i]))'
    BY <1>4, <1>7 DEF MInv, Shape, IsDocument
  <2>4. (cursor \in [Device -> Nat] /\ \A e \in Device : cursor[e] <= Len(log))'
    BY <1>0 DEF MInv, Shape
  <2> QED BY <2>1, <2>2, <2>3, <2>4 DEF Shape
<1>10. Carried' = Carried
  BY <1>0 DEF Carried
<1>11. CarriedInv'
  <2>1. \A q \in Carried' : WellFormed(q)
    BY <1>10 DEF MInv, CarriedInv
  <2> QED BY <2>1 DEF CarriedInv, WellFormed, IsDocument, IsTomb
<1>12. \A e \in Device, i \in Item : /\ DocGrows(docs[e][i], docs'[e][i])
                                   /\ TombGrows(tombs[e][i], tombs'[e][i])
  BY <1>4, <1>5, <1>7, <1>8, SameGrows
<1>13. TombInv'
  <2>1. ASSUME NEW i \in Item
        PROVE  TombsOf(i)' \subseteq TombsOf(i)
    <3>1. \A e \in Device : tombs'[e][i] # None => tombs'[e][i] \in TombsOf(i)
      <4> SUFFICES ASSUME NEW e \in Device, tombs'[e][i] # None
                   PROVE  tombs'[e][i] \in TombsOf(i)
        OBVIOUS
      <4>1. CASE e = d
        BY <1>5, <1>8, <4>1
      <4>2. CASE e # d
        <5>1. tombs'[e] = tombs[e]
          BY <1>5, <4>2
        <5> QED BY <5>1 DEF TombsOf
      <4> QED BY <4>1, <4>2
    <3>2. \A q \in Carried' : DOMAIN q.tombs = {} \/ \E r \in Carried : r.tombs = q.tombs
      BY <1>10
    <3> QED BY <3>1, <3>2, TombsShrink
  <2> QED BY <1>12, <2>1, TombsKept DEF MInv
<1>14. HeldBy(docs'[d], tombs'[d], p)
  BY <1>2, <1>4, <1>5, <1>7, <1>8 DEF HeldBy, WellFormed
<1>15. \A e \in Device :
         pc'[e] \in {"queue", "cursor"} =>
             /\ cursor'[e] = cursor[e]
             /\ \/ pc[e] \in {"queue", "cursor"}
                \/ /\ cursor[e] < Len(log)
                   /\ HeldBy(docs'[e], tombs'[e], log[cursor[e] + 1])
  BY <1>0, <1>6, <1>14 DEF p
<1>16. Len(log) <= Len(log') /\ \A k \in 1..Len(log) : log'[k] = log[k]
  BY <1>0, <1>1
<1> QED
  BY <1>0, <1>9, <1>11, <1>12, <1>13, <1>15, <1>16, StepKeeps

\* The sync thread's other steps, the users' edits and a crash.
Quiet(d) ==
    \/ Scan(d) \/ SaveShadow(d) \/ QueueDirty(d)
    \/ ApplyCheck(d) \/ ApplyWrite(d) \/ ApplyStat(d) \/ ApplyClear(d)
    \/ User(d) \/ Crash(d)

LEMMA QuietAction ==
    ASSUME MergeAssumption, MInv, NEW d \in Device, Quiet(d)
    PROVE  MInv' /\ Grows
<1>1. UNCHANGED <<docs, tombs, outbox, cursor, log>>
  BY DEF Quiet, Scan, SaveShadow, QueueDirty, ApplyCheck, ApplyWrite, ApplyStat, ApplyClear,
         User, Type, Erase, Delete, Undelete, UserWrites, Crash, disk
<1>2. updates' = updates \/ updates' = [updates EXCEPT ![d] = NoUpdates]
  BY DEF Quiet, Scan, SaveShadow, QueueDirty, ApplyCheck, ApplyWrite, ApplyStat, ApplyClear,
         User, Type, Erase, Delete, Undelete, UserWrites, Crash
<1>3. \/ pc' = pc
      \/ \E s \in {"start", "idle", "fold", "push", "write", "stat", "clear"} : pc' = [pc EXCEPT ![d] = s]
      \/ pc[d] = "queue" /\ pc' = [pc EXCEPT ![d] = "cursor"]
  <2>1. CASE User(d)
    BY <2>1 DEF User, Type, Erase, Delete, Undelete, UserWrites
  <2>2. CASE Scan(d)
    BY <2>2 DEF Scan
  <2>3. CASE SaveShadow(d)
    BY <2>3 DEF SaveShadow
  <2>4. CASE QueueDirty(d)
    BY <2>4 DEF QueueDirty
  <2>5. CASE ApplyCheck(d) \/ ApplyWrite(d) \/ ApplyStat(d) \/ ApplyClear(d)
    BY <2>5 DEF ApplyCheck, ApplyWrite, ApplyStat, ApplyClear
  <2>6. CASE Crash(d)
    BY <2>6 DEF Crash
  <2> QED BY <2>1, <2>2, <2>3, <2>4, <2>5, <2>6 DEF Quiet
<1>4. PICK s : pc' = pc \/ (pc' = [pc EXCEPT ![d] = s] /\ (s = "cursor" => pc[d] = "queue") /\ s # "queue")
  <2>1. CASE pc' = pc
    BY <2>1
  <2>2. CASE \E s \in {"start", "idle", "fold", "push", "write", "stat", "clear"} : pc' = [pc EXCEPT ![d] = s]
    BY <2>2
  <2>3. CASE pc[d] = "queue" /\ pc' = [pc EXCEPT ![d] = "cursor"]
    BY <2>3
  <2> QED BY <1>3, <2>1, <2>2, <2>3
<1>5. Cell(pc)' /\ \A e \in Device : pc'[e] = pc[e] \/ (e = d /\ pc'[e] = s)
  <2>1. PICK S : pc \in [Device -> S]
    BY DEF MInv, Shape, Cell
  <2>2. pc' \in [Device -> S \union {s}]
    BY <1>4, <2>1
  <2> QED BY <1>4, <2>1, <2>2 DEF Cell
<1>6. Pairs(updates') /\ \A e \in Device : updates'[e] = updates[e] \/ updates'[e] = NoUpdates
  <2>1. PICK S, R : updates \in [Device -> [docs : S, tombs : R]]
    BY DEF MInv, Shape, Pairs
  <2>2. updates' \in [Device -> [docs : S \union {Empty}, tombs : R \union {Empty}]]
    BY <1>2, <2>1 DEF NoUpdates
  <2> QED BY <1>2, <2>1, <2>2 DEF Pairs
<1>7. \A e \in Device : pc'[e] \in {"queue", "cursor"} => pc[e] \in {"queue", "cursor"}
  BY <1>4, <1>5
<1> QED
  BY <1>1, <1>5, <1>6, <1>7, QuietStep

LEMMA StepMInv ==
    ASSUME MergeAssumption, NoneIsNoRecord, MInv, [Next]_vars
    PROVE  MInv' /\ Grows
<1>1. CASE UNCHANGED vars
  <2>1. UNCHANGED <<docs, tombs, outbox, cursor, log, pc, updates>>
    BY <1>1 DEF vars, disk, memory
  <2>2. Cell(pc)' /\ Pairs(updates')
    BY <2>1 DEF MInv, Shape, Cell, Pairs
  <2> QED BY <2>1, <2>2, QuietStep
<1>2. ASSUME NEW d \in Device, User(d) \/ Sync(d) \/ Crash(d)
      PROVE  MInv' /\ Grows
  <2>1. CASE Quiet(d)
    BY <2>1, QuietAction
  <2>2. CASE Fold(d)
    BY <2>2, FoldItemStep, FoldDeletedStep DEF Fold
  <2>3. CASE QueuePush(d)
    BY <2>3, QueuePushStep
  <2>4. CASE Deliver(d)
    BY <2>4, DeliverStep
  <2>5. CASE Receive(d)
    BY <2>5, ReceiveStep
  <2>6. CASE MoveCursor(d)
    BY <2>6, MoveCursorStep
  <2> QED BY <1>2, <2>1, <2>2, <2>3, <2>4, <2>5, <2>6 DEF Sync, Quiet
<1> QED
  BY <1>1, <1>2 DEF Next

-----------------------------------------------------------------------------
(* The theorems                                                             *)

\* The inductive invariant: what is on its way is well formed, no two
\* tombstones of an item have the same rank and author, and between the merge
\* of an update and the cursor's move the documents hold it.
THEOREM MergeInvariance ==
    ASSUME NoneIsNoRecord
    PROVE  Spec => []MInv
<1>1. Init => MInv
  BY InitMInv
<1>2. MInv /\ [Next]_vars => MInv'
  BY StepMInv, MergeAssumption
<1> QED
  BY <1>1, <1>2, PTL DEF Spec

\* What another device sent and the cursor has passed is in the documents and
\* the manifest, whatever crashes between the files that a receipt and a fold
\* write (engine.rs:545): the cursor is the last of them.
THEOREM ReceiptsKept ==
    ASSUME NoneIsNoRecord
    PROVE  Spec => []ReceivedKept
<1>1. MInv => ReceivedKept
  BY DEF MInv
<1> QED
  BY <1>1, MergeInvariance, PTL

-----------------------------------------------------------------------------
(* Files and shadows                                                        *)

\* The text that the sync thread last saw, in memory and as it was saved.
Seen(d, i) == TextIn(shadow[d][i])
Kept(d, i) == TextIn(saved[d][i])

IsEntry(e) == e = None \/ e = [text |-> e.text, same |-> e.same]
Entries(f) == Cells(f) /\ \A d \in Device, i \in Item : IsEntry(f[d][i])

Phases == {"start", "idle", "fold", "push", "queue", "cursor", "write", "stat", "clear"}

\* One cell of such an array is replaced, or a row of it.
PutCell(f, g, d, i, x) == g = [f EXCEPT ![d][i] = x]
PutRow(f, g, d, r) == g = [f EXCEPT ![d] = r]

LEMMA CellsPoint ==
    ASSUME NEW f, Cells(f), NEW d \in Device, NEW i \in Item, NEW x, NEW g, PutCell(f, g, d, i, x)
    PROVE  Cells(g) /\ \A e \in Device, j \in Item : g[e][j] = IF e = d /\ j = i THEN x ELSE f[e][j]
<1>1. PICK S : f \in [Device -> [Item -> S]]
  BY DEF Cells
<1>2. g \in [Device -> [Item -> S \union {x}]]
  BY <1>1 DEF PutCell
<1> QED
  BY <1>1, <1>2 DEF Cells, PutCell

LEMMA CellsRow ==
    ASSUME NEW f, Cells(f), NEW d \in Device, NEW r, r = [i \in Item |-> r[i]],
           NEW g, PutRow(f, g, d, r)
    PROVE  Cells(g) /\ \A e \in Device, j \in Item : g[e][j] = IF e = d THEN r[j] ELSE f[e][j]
<1>1. PICK S : f \in [Device -> [Item -> S]]
  BY DEF Cells
<1>2. r \in [Item -> S \union {r[i] : i \in Item}]
  OBVIOUS
<1>3. \A e \in Device : f[e] \in [Item -> S \union {r[i] : i \in Item}]
  BY <1>1
<1>4. g \in [Device -> [Item -> S \union {r[i] : i \in Item}]]
  BY <1>1, <1>2, <1>3 DEF PutRow
<1> QED
  BY <1>1, <1>4 DEF Cells, PutRow

LEMMA CellPut ==
    ASSUME NEW f, Cell(f), NEW d \in Device, NEW x, NEW g, PutRow(f, g, d, x)
    PROVE  Cell(g) /\ \A e \in Device : g[e] = IF e = d THEN x ELSE f[e]
<1>1. PICK S : f \in [Device -> S]
  BY DEF Cell
<1>2. g \in [Device -> S \union {x}]
  BY <1>1 DEF PutRow
<1> QED
  BY <1>1, <1>2 DEF Cell, PutRow

\* A stale entry has the text it had.
LEMMA StaleText ==
    ASSUME NoneIsNoRecord, NEW e, IsEntry(e)
    PROVE  IsEntry(Stale(e)) /\ TextIn(Stale(e)) = TextIn(e)
<1>1. CASE e = None
  BY <1>1 DEF IsEntry, Stale
<1>2. CASE e # None
  <2>1. Stale(e) = [text |-> e.text, same |-> FALSE]
    BY <1>2 DEF IsEntry, Stale
  <2>2. Stale(e) # None
    BY <2>1 DEF NoneIsNoRecord
  <2> QED BY <1>2, <2>1, <2>2 DEF IsEntry, TextIn
<1> QED
  BY <1>1, <1>2

LEMMA NewEntry ==
    ASSUME NoneIsNoRecord, NEW t, NEW s
    PROVE  IsEntry(Entry(t, s)) /\ TextIn(Entry(t, s)) = t
<1>1. Entry(t, s) # None
  BY DEF Entry, NoneIsNoRecord
<1> QED
  BY <1>1 DEF Entry, IsEntry, TextIn

\* What the steps of this part start from.
FShape ==
    /\ Cells(file) /\ Entries(shadow) /\ Entries(saved)
    /\ Cell(todo) /\ Cell(queue)
    /\ \A d \in Device : pc[d] \in Phases

\* What a step leaves of the slips.
LEMMA SlipsGrow ==
    ASSUME [Next]_vars
    PROVE  slips \subseteq slips'
<1>1. CASE UNCHANGED vars
  BY <1>1 DEF vars
<1>2. ASSUME NEW d \in Device, User(d)
      PROVE  slips \subseteq slips'
  BY <1>2 DEF User, Type, Erase, Delete, Undelete, UserWrites, Note
<1>3. ASSUME NEW d \in Device, Fold(d)
      PROVE  slips \subseteq slips'
  BY <1>3 DEF Fold, FoldItem, FoldDeleted, Note
<1>4. ASSUME NEW d \in Device, Scan(d) \/ SaveShadow(d) \/ QueuePush(d) \/ Deliver(d) \/ Receive(d)
                                  \/ QueueDirty(d) \/ MoveCursor(d)
      PROVE  slips \subseteq slips'
  BY <1>4 DEF Scan, SaveShadow, QueuePush, Deliver, Receive, QueueDirty, MoveCursor, Note
<1>5. ASSUME NEW d \in Device, ApplyCheck(d) \/ ApplyWrite(d) \/ ApplyStat(d) \/ ApplyClear(d) \/ Crash(d)
      PROVE  slips \subseteq slips'
  BY <1>5 DEF ApplyCheck, ApplyWrite, ApplyStat, ApplyClear, Crash, Note
<1> QED
  BY <1>1, <1>2, <1>3, <1>4, <1>5 DEF Next, Sync

\* A user changes one file; the shadow's texts stay.
LEMMA UserEffect ==
    ASSUME NoneIsNoRecord, FShape, NEW d \in Device, NEW i \in Item, NEW text, UserWrites(d, i, text)
    PROVE  /\ FShape'
           /\ \A e \in Device, j \in Item :
                /\ file'[e][j] = IF e = d /\ j = i THEN text ELSE file[e][j]
                /\ Seen(e, j)' = Seen(e, j) /\ Kept(e, j)' = Kept(e, j)
           /\ TooLate(d, i) \union Restored(d, i, text) \subseteq slips'
           /\ UNCHANGED <<docs, tombs, queue, cursor, pc, todo, updates, log>>
<1>1. Cells(file') /\ \A e \in Device, j \in Item : file'[e][j] = IF e = d /\ j = i THEN text ELSE file[e][j]
  <2>1. Cells(file)
    BY DEF FShape
  <2>2. PutCell(file, file', d, i, text)
    BY DEF UserWrites, PutCell
  <2> QED BY <2>1, <2>2, CellsPoint
<1>3. Cells(shadow') /\ \A e \in Device, j \in Item :
        shadow'[e][j] = IF e = d /\ j = i THEN Stale(shadow[d][i]) ELSE shadow[e][j]
  <2>1. Cells(shadow)
    BY DEF FShape, Entries
  <2>2. PutCell(shadow, shadow', d, i, Stale(shadow[d][i]))
    BY DEF UserWrites, PutCell
  <2> QED BY <2>1, <2>2, CellsPoint
<1>4. Cells(saved') /\ \A e \in Device, j \in Item :
        saved'[e][j] = IF e = d /\ j = i THEN Stale(saved[d][i]) ELSE saved[e][j]
  <2>1. Cells(saved)
    BY DEF FShape, Entries
  <2>2. PutCell(saved, saved', d, i, Stale(saved[d][i]))
    BY DEF UserWrites, PutCell
  <2> QED BY <2>1, <2>2, CellsPoint
<1>5. \A e \in Device, j \in Item : /\ IsEntry(shadow'[e][j]) /\ Seen(e, j)' = Seen(e, j)
                                   /\ IsEntry(saved'[e][j]) /\ Kept(e, j)' = Kept(e, j)
  <2>1. IsEntry(shadow[d][i]) /\ IsEntry(saved[d][i])
    BY DEF FShape, Entries
  <2>2. /\ IsEntry(Stale(shadow[d][i])) /\ TextIn(Stale(shadow[d][i])) = TextIn(shadow[d][i])
        /\ IsEntry(Stale(saved[d][i])) /\ TextIn(Stale(saved[d][i])) = TextIn(saved[d][i])
    BY <2>1, StaleText
  <2>3. \A e \in Device, j \in Item : TextIn(shadow'[e][j]) = TextIn(shadow[e][j]) /\ TextIn(saved'[e][j]) = TextIn(saved[e][j])
    BY <1>3, <1>4, <2>2
  <2>4. \A e \in Device, j \in Item : IsEntry(shadow'[e][j]) /\ IsEntry(saved'[e][j])
    BY <1>3, <1>4, <2>2 DEF FShape, Entries
  <2> QED BY <2>3, <2>4 DEF Seen, Kept, TextIn
<1>6. UNCHANGED <<docs, tombs, queue, cursor, pc, todo, updates, log>>
  BY DEF UserWrites
<1>7. TooLate(d, i) \union Restored(d, i, text) \subseteq slips'
  BY DEF UserWrites, Note
<1>8. FShape'
  BY <1>1, <1>3, <1>4, <1>5, <1>6 DEF FShape, Entries, IsEntry, Cell, Cells
<1> QED
  BY <1>1, <1>5, <1>6, <1>7, <1>8

\* A step of one device leaves the others' rows alone.
OthersSame(d) ==
    \A e \in Device \ {d} :
        /\ \A j \in Item : /\ file'[e][j] = file[e][j]
                           /\ Seen(e, j)' = Seen(e, j) /\ Kept(e, j)' = Kept(e, j)
                           /\ docs'[e][j] = docs[e][j] /\ tombs'[e][j] = tombs[e][j]
        /\ pc'[e] = pc[e] /\ todo'[e] = todo[e] /\ updates'[e] = updates[e]
        /\ queue'[e] = queue[e] /\ cursor'[e] = cursor[e]

\* What a step at d leaves alone, where it is not the step's own business.
TextsSame == \A e \in Device, j \in Item :
    file'[e][j] = file[e][j] /\ Seen(e, j)' = Seen(e, j) /\ Kept(e, j)' = Kept(e, j)
DocsSame == \A e \in Device, j \in Item : docs'[e][j] = docs[e][j] /\ tombs'[e][j] = tombs[e][j]
MovesTo(d, s) == \A e \in Device : pc'[e] = IF e = d THEN s ELSE pc[e]

LEMMA PcMoves ==
    ASSUME Shape, NEW d \in Device, NEW s, PutRow(pc, pc', d, s)
    PROVE  MovesTo(d, s)
<1>1. Cell(pc)
  BY DEF Shape
<1>2. \A e \in Device : pc'[e] = IF e = d THEN s ELSE pc[e]
  BY <1>1, CellPut
<1> QED
  BY <1>2 DEF MovesTo

LEMMA ScanEffect ==
    ASSUME NoneIsNoRecord, Shape, FShape, NEW d \in Device, Scan(d)
    PROVE  /\ FShape' /\ OthersSame(d) /\ DocsSame /\ MovesTo(d, "fold")
           /\ pc[d] \in {"start", "idle"}
           /\ UNCHANGED <<file, docs, tombs, queue, cursor, updates, log>>
           /\ \A i \in Item :
                /\ Kept(d, i)' = Kept(d, i)
                /\ i \in DOMAIN todo'[d] => todo'[d][i] = file[d][i] /\ Seen(d, i)' = file[d][i]
                /\ i \notin DOMAIN todo'[d] => Seen(d, i)' = Seen(d, i)
<1> DEFINE delta == [i \in Gone(d) \union Changed(d) |-> file[d][i]]
           row == [i \in Item |-> IF i \in Gone(d) THEN None
                                  ELSE IF i \in ToRead(d) THEN Entry(file[d][i], TRUE)
                                  ELSE shadow[d][i]]
<1>1. PutRow(todo, todo', d, delta) /\ PutRow(shadow, shadow', d, row)
  BY DEF Scan, PutRow
<1>2. pc[d] \in {"start", "idle"} /\ UNCHANGED <<file, saved, docs, tombs, queue, cursor, updates, log>>
  BY DEF Scan, disk
<1>3. MovesTo(d, "fold")
  <2>1. PutRow(pc, pc', d, "fold")
    BY DEF Scan, PutRow
  <2> QED BY <2>1, PcMoves
<1>4. row = [i \in Item |-> row[i]]
  OBVIOUS
<1>5. \A i \in Item : row[i] = IF i \in Gone(d) THEN None
                               ELSE IF i \in ToRead(d) THEN Entry(file[d][i], TRUE) ELSE shadow[d][i]
  OBVIOUS
<1>6. DOMAIN delta = Gone(d) \union Changed(d) /\ \A i \in DOMAIN delta : delta[i] = file[d][i]
  OBVIOUS
<1> HIDE DEF delta, row
<1>7. Cell(todo') /\ \A e \in Device : todo'[e] = IF e = d THEN delta ELSE todo[e]
  BY <1>1, CellPut DEF FShape
<1>8. Cells(shadow') /\ \A e \in Device, j \in Item : shadow'[e][j] = IF e = d THEN row[j] ELSE shadow[e][j]
  BY <1>1, <1>4, CellsRow DEF FShape, Entries
<1>9. \A i \in Item : IsEntry(row[i])
  <2>1. \A i \in Item : IsEntry(Entry(file[d][i], TRUE)) /\ IsEntry(shadow[d][i])
    BY NewEntry DEF FShape, Entries
  <2>2. IsEntry(None)
    BY DEF IsEntry
  <2> QED BY <1>5, <2>1, <2>2
<1>10. \A i \in Item :
          /\ i \in DOMAIN delta => TextIn(row[i]) = file[d][i]
          /\ i \notin DOMAIN delta => TextIn(row[i]) = TextIn(shadow[d][i])
  <2> SUFFICES ASSUME NEW i \in Item
               PROVE  /\ i \in DOMAIN delta => TextIn(row[i]) = file[d][i]
                      /\ i \notin DOMAIN delta => TextIn(row[i]) = TextIn(shadow[d][i])
    OBVIOUS
  <2>1. CASE i \in Gone(d)
    <3>1. row[i] = None /\ file[d][i] = None
      BY <1>5, <2>1 DEF Gone
    <3> QED BY <1>6, <2>1, <3>1 DEF TextIn
  <2>2. CASE i \notin Gone(d) /\ i \in ToRead(d)
    <3>1. TextIn(row[i]) = file[d][i]
      BY <1>5, <2>2, NewEntry
    <3>2. i \in Changed(d) <=> file[d][i] # TextIn(shadow[d][i])
      BY <2>2 DEF Changed
    <3> QED BY <1>6, <2>2, <3>1, <3>2
  <2>3. CASE i \notin Gone(d) /\ i \notin ToRead(d)
    <3>1. i \notin DOMAIN delta
      BY <1>6, <2>3 DEF Changed
    <3> QED BY <1>5, <2>3, <3>1
  <2> QED BY <2>1, <2>2, <2>3
<1>11. \A e \in Device, j \in Item : TextIn(shadow'[e][j]) = IF e = d THEN TextIn(row[j]) ELSE TextIn(shadow[e][j])
  BY <1>8
<1>12. FShape'
  <2>1. \A e \in Device, j \in Item : IsEntry(shadow'[e][j])
    BY <1>8, <1>9 DEF FShape, Entries
  <2>2. \A e \in Device : pc'[e] \in Phases
    BY <1>3 DEF MovesTo, FShape, Phases
  <2> QED BY <1>2, <1>7, <1>8, <2>1, <2>2 DEF FShape, Entries, Cells, Cell, IsEntry, Phases
<1>13. OthersSame(d) /\ DocsSame
  BY <1>2, <1>3, <1>7, <1>11 DEF OthersSame, DocsSame, MovesTo, Seen, Kept, TextIn
<1>14. \A i \in Item :
          /\ Kept(d, i)' = Kept(d, i)
          /\ i \in DOMAIN todo'[d] => todo'[d][i] = file[d][i] /\ Seen(d, i)' = file[d][i]
          /\ i \notin DOMAIN todo'[d] => Seen(d, i)' = Seen(d, i)
  BY <1>2, <1>6, <1>7, <1>10, <1>11 DEF Seen, Kept, TextIn
<1> QED
  BY <1>2, <1>3, <1>12, <1>13, <1>14

LEMMA SameTexts ==
    ASSUME UNCHANGED <<file, shadow, saved>>
    PROVE  /\ TextsSame
           /\ Cells(file) => Cells(file)'
           /\ Entries(shadow) => Entries(shadow)'
           /\ Entries(saved) => Entries(saved)'
BY DEF TextsSame, Seen, Kept, TextIn, Cells, Entries, IsEntry

LEMMA SamePhases ==
    ASSUME FShape, NEW d \in Device, NEW s \in Phases, MovesTo(d, s)
    PROVE  \A e \in Device : pc'[e] \in Phases
BY DEF FShape, MovesTo

\* An item is folded: the delta loses it.
LEMMA TodoDrops ==
    ASSUME FShape, NEW d \in Device, NEW i,
           PutRow(todo, todo', d, [j \in DOMAIN todo[d] \ {i} |-> todo[d][j]])
    PROVE  /\ Cell(todo)'
           /\ \A e \in Device \ {d} : todo'[e] = todo[e]
           /\ DOMAIN todo'[d] = DOMAIN todo[d] \ {i}
           /\ \A j \in DOMAIN todo'[d] : todo'[d][j] = todo[d][j]
<1> DEFINE rest == [j \in DOMAIN todo[d] \ {i} |-> todo[d][j]]
<1>1. DOMAIN rest = DOMAIN todo[d] \ {i} /\ \A j \in DOMAIN rest : rest[j] = todo[d][j]
  OBVIOUS
<1>2. PutRow(todo, todo', d, rest)
  OBVIOUS
<1> HIDE DEF rest
<1>3. Cell(todo') /\ \A e \in Device : todo'[e] = IF e = d THEN rest ELSE todo[e]
  BY <1>2, CellPut DEF FShape
<1> QED
  BY <1>1, <1>3 DEF Cell

LEMMA UpdatesCell ==
    ASSUME Shape
    PROVE  /\ Cell(updates)
           /\ \A e \in Device : updates[e] = [docs |-> updates[e].docs, tombs |-> updates[e].tombs]
BY DEF Shape, Pairs, Cell

LEMMA FoldItemEffect ==
    ASSUME Shape, FShape, NEW d \in Device, NEW i \in Item, FoldItem(d, i)
    PROVE  /\ FShape' /\ OthersSame(d) /\ TextsSame
           /\ UNCHANGED <<tombs, queue, cursor, pc, log>>
           /\ pc[d] = "fold" /\ i \in DOMAIN todo[d]
           /\ DOMAIN todo'[d] = DOMAIN todo[d] \ {i}
           /\ \A j \in DOMAIN todo'[d] : todo'[d][j] = todo[d][j]
           /\ docs'[d][i] = ApplyLocalText(d, docs[d][i], todo[d][i])
           /\ \A j \in Item \ {i} : docs'[d][j] = docs[d][j]
           /\ \/ updates'[d] # NoUpdates
              \/ updates'[d] = updates[d] /\ docs[d][i] # None /\ TextOf(docs[d][i]) = todo[d][i]
           /\ Materialize(d, i)' # todo[d][i] => "buried" \in slips'
<1> DEFINE after == ApplyLocalText(d, docs[d][i], todo[d][i])
           made == [j \in {i} \union DOMAIN updates[d].docs |->
                       IF j = i THEN UpdateSince(docs[d][i], after) ELSE updates[d].docs[j]]
<1>1. PutCell(docs, docs', d, i, after)
  BY DEF FoldItem, PutCell
<1>2. PutRow(todo, todo', d, [j \in DOMAIN todo[d] \ {i} |-> todo[d][j]])
  BY DEF FoldItem, PutRow
<1>3. \/ updates' = updates /\ docs[d][i] # None /\ TextOf(docs[d][i]) = todo[d][i]
      \/ PutRow(updates, updates', d, [updates[d] EXCEPT !.docs = made])
  BY DEF FoldItem, PutRow
<1>4. UNCHANGED <<file, shadow, saved, tombs, queue, cursor, pc, log>> /\ pc[d] = "fold" /\ i \in DOMAIN todo[d]
  BY DEF FoldItem
<1>5. Materialize(d, i)' # todo[d][i] => "buried" \in slips'
  BY DEF FoldItem, Note
<1>6. DOMAIN made = {i} \union DOMAIN updates[d].docs
  OBVIOUS
<1> HIDE DEF after, made
<1>7. \A e \in Device, j \in Item : docs'[e][j] = IF e = d /\ j = i THEN after ELSE docs[e][j]
  BY <1>1, CellsPoint DEF Shape
<1>8. /\ Cell(todo)' /\ \A e \in Device \ {d} : todo'[e] = todo[e]
      /\ DOMAIN todo'[d] = DOMAIN todo[d] \ {i} /\ \A j \in DOMAIN todo'[d] : todo'[d][j] = todo[d][j]
  BY <1>2, TodoDrops
<1>9. /\ \A e \in Device \ {d} : updates'[e] = updates[e]
      /\ \/ updates'[d] # NoUpdates
         \/ updates'[d] = updates[d] /\ docs[d][i] # None /\ TextOf(docs[d][i]) = todo[d][i]
  <2>1. CASE PutRow(updates, updates', d, [updates[d] EXCEPT !.docs = made])
    <3>1. \A e \in Device : updates'[e] = IF e = d THEN [updates[d] EXCEPT !.docs = made] ELSE updates[e]
      BY <2>1, CellPut, UpdatesCell
    <3>2. updates'[d].docs = made
      BY <3>1, UpdatesCell
    <3>3. NoUpdates.docs = Empty /\ DOMAIN Empty = {}
      BY DEF NoUpdates, Empty
    <3> QED BY <1>6, <3>1, <3>2, <3>3
  <2> QED BY <1>3, <2>1
<1>10. TextsSame /\ FShape'
  BY <1>4, <1>8, SameTexts DEF FShape, Cell, Phases
<1>11. OthersSame(d)
  BY <1>4, <1>7, <1>8, <1>9, <1>10 DEF OthersSame, TextsSame
<1> QED
  BY <1>4, <1>5, <1>7, <1>8, <1>9, <1>10, <1>11 DEF after

LEMMA FoldDeletedEffect ==
    ASSUME Shape, FShape, NEW d \in Device, NEW i \in Item, FoldDeleted(d, i)
    PROVE  /\ FShape' /\ OthersSame(d) /\ TextsSame
           /\ UNCHANGED <<docs, queue, cursor, pc, log>>
           /\ pc[d] = "fold" /\ i \in DOMAIN todo[d] /\ todo[d][i] = None
           /\ DOMAIN todo'[d] = DOMAIN todo[d] \ {i}
           /\ \A j \in DOMAIN todo'[d] : todo'[d][j] = todo[d][j]
           /\ tombs'[d][i] = RecordDelete(d, tombs[d][i], docs[d][i])
           /\ \A j \in Item \ {i} : tombs'[d][j] = tombs[d][j]
           /\ updates'[d] # NoUpdates
<1> DEFINE tomb == RecordDelete(d, tombs[d][i], docs[d][i])
           made == [j \in {i} \union DOMAIN updates[d].tombs |->
                       IF j = i THEN tomb ELSE updates[d].tombs[j]]
<1>1. PutCell(tombs, tombs', d, i, tomb)
  BY DEF FoldDeleted, PutCell
<1>2. PutRow(todo, todo', d, [j \in DOMAIN todo[d] \ {i} |-> todo[d][j]])
  BY DEF FoldDeleted, PutRow
<1>3. PutRow(updates, updates', d, [updates[d] EXCEPT !.tombs = made])
  BY DEF FoldDeleted, PutRow
<1>4. /\ UNCHANGED <<file, shadow, saved, docs, queue, cursor, pc, log>>
      /\ pc[d] = "fold" /\ i \in DOMAIN todo[d] /\ todo[d][i] = None
  BY DEF FoldDeleted
<1>5. DOMAIN made = {i} \union DOMAIN updates[d].tombs
  OBVIOUS
<1> HIDE DEF tomb, made
<1>6. \A e \in Device, j \in Item : tombs'[e][j] = IF e = d /\ j = i THEN tomb ELSE tombs[e][j]
  BY <1>1, CellsPoint DEF Shape
<1>7. /\ Cell(todo)' /\ \A e \in Device \ {d} : todo'[e] = todo[e]
      /\ DOMAIN todo'[d] = DOMAIN todo[d] \ {i} /\ \A j \in DOMAIN todo'[d] : todo'[d][j] = todo[d][j]
  BY <1>2, TodoDrops
<1>8. (\A e \in Device \ {d} : updates'[e] = updates[e]) /\ updates'[d] # NoUpdates
  <2>1. \A e \in Device : updates'[e] = IF e = d THEN [updates[d] EXCEPT !.tombs = made] ELSE updates[e]
    BY <1>3, CellPut, UpdatesCell
  <2>2. updates'[d].tombs = made
    BY <2>1, UpdatesCell
  <2>3. NoUpdates.tombs = Empty /\ DOMAIN Empty = {}
    BY DEF NoUpdates, Empty
  <2> QED BY <1>5, <2>1, <2>2, <2>3
<1>9. TextsSame /\ FShape'
  BY <1>4, <1>7, SameTexts DEF FShape, Cell, Phases
<1>10. OthersSame(d)
  BY <1>4, <1>6, <1>7, <1>8, <1>9 DEF OthersSame, TextsSame
<1> QED
  BY <1>4, <1>6, <1>7, <1>8, <1>9, <1>10 DEF tomb

LEMMA SaveShadowEffect ==
    ASSUME Shape, FShape, NEW d \in Device, SaveShadow(d)
    PROVE  /\ FShape' /\ OthersSame(d) /\ DocsSame
           /\ UNCHANGED <<file, docs, tombs, queue, cursor, todo, updates, log>>
           /\ pc[d] = "fold" /\ DOMAIN todo[d] = {}
           /\ MovesTo(d, "idle") \/ MovesTo(d, "push")
           /\ \A i \in Item : Seen(d, i)' = Seen(d, i) /\ Kept(d, i)' = Seen(d, i)
<1>1. PutRow(saved, saved', d, shadow[d])
  BY DEF SaveShadow, PutRow
<1>2. /\ UNCHANGED <<file, docs, tombs, queue, cursor, shadow, todo, updates, log>>
      /\ pc[d] = "fold" /\ DOMAIN todo[d] = {}
  BY DEF SaveShadow, Empty
<1>3. PICK s \in {"idle", "push"} : PutRow(pc, pc', d, s)
  BY DEF SaveShadow, PutRow
<1>4. MovesTo(d, s) /\ \A e \in Device : pc'[e] \in Phases
  BY <1>3, PcMoves, SamePhases DEF Phases
<1>5. shadow[d] = [i \in Item |-> shadow[d][i]]
  BY DEF FShape, Entries, Cells
<1>6. Cells(saved') /\ \A e \in Device, j \in Item : saved'[e][j] = IF e = d THEN shadow[d][j] ELSE saved[e][j]
  <2>1. Cells(saved)
    BY DEF FShape, Entries
  <2> QED BY <1>1, <1>5, <2>1, CellsRow
<1>7. \A e \in Device, j \in Item : IsEntry(saved'[e][j])
  BY <1>6 DEF FShape, Entries
<1>8. FShape'
  BY <1>2, <1>4, <1>6, <1>7 DEF FShape, Entries, Cells, Cell, IsEntry, Phases
<1>9. OthersSame(d) /\ DocsSame
  BY <1>2, <1>4, <1>6 DEF OthersSame, DocsSame, MovesTo, Seen, Kept, TextIn
<1>10. \A i \in Item : Seen(d, i)' = Seen(d, i) /\ Kept(d, i)' = Seen(d, i)
  BY <1>2, <1>6 DEF Seen, Kept, TextIn
<1> QED
  BY <1>2, <1>3, <1>4, <1>8, <1>9, <1>10

\* Steps that touch neither a file nor a shadow.
LEMMA QueuePushEffect ==
    ASSUME Shape, FShape, NEW d \in Device, QueuePush(d)
    PROVE  /\ FShape' /\ OthersSame(d) /\ DocsSame /\ TextsSame /\ MovesTo(d, "idle")
           /\ UNCHANGED <<queue, cursor, todo, log>> /\ pc[d] = "push"
<1>1. /\ UNCHANGED <<file, shadow, saved, docs, tombs, queue, cursor, todo, log>> /\ pc[d] = "push"
      /\ PutRow(pc, pc', d, "idle") /\ PutRow(updates, updates', d, NoUpdates)
  BY DEF QueuePush, PutRow
<1>2. MovesTo(d, "idle") /\ \A e \in Device : pc'[e] \in Phases
  BY <1>1, PcMoves, SamePhases DEF Phases
<1>3. \A e \in Device \ {d} : updates'[e] = updates[e]
  BY <1>1, CellPut, UpdatesCell
<1>4. TextsSame /\ DocsSame /\ FShape'
  BY <1>1, <1>2, SameTexts DEF FShape, DocsSame, Cell, Phases
<1>5. OthersSame(d)
  BY <1>1, <1>2, <1>3, <1>4 DEF OthersSame, TextsSame, MovesTo
<1> QED
  BY <1>1, <1>2, <1>4, <1>5

LEMMA DeliverEffect ==
    ASSUME FShape, NEW d \in Device, Deliver(d)
    PROVE  /\ FShape' /\ DocsSame /\ TextsSame
           /\ UNCHANGED <<pc, todo, updates, queue, cursor>>
<1>1. UNCHANGED <<file, shadow, saved, docs, tombs, queue, cursor, pc, todo, updates>>
  BY DEF Deliver, memory
<1> QED
  BY <1>1, SameTexts DEF FShape, DocsSame, Cell, Phases

LEMMA QueueDirtyEffect ==
    ASSUME Shape, FShape, NEW d \in Device, QueueDirty(d)
    PROVE  /\ FShape' /\ OthersSame(d) /\ DocsSame /\ TextsSame /\ MovesTo(d, "cursor")
           /\ UNCHANGED <<cursor, todo, updates, log>> /\ pc[d] = "queue"
           /\ queue'[d] = queue[d] \union Dirty(log[cursor[d] + 1])
<1>1. /\ UNCHANGED <<file, shadow, saved, docs, tombs, cursor, todo, updates, log>> /\ pc[d] = "queue"
      /\ PutRow(pc, pc', d, "cursor")
      /\ PutRow(queue, queue', d, queue[d] \union Dirty(log[cursor[d] + 1]))
  BY DEF QueueDirty, PutRow
<1>2. MovesTo(d, "cursor") /\ \A e \in Device : pc'[e] \in Phases
  BY <1>1, PcMoves, SamePhases DEF Phases
<1>3. /\ Cell(queue')
      /\ \A e \in Device : queue'[e] = IF e = d THEN queue[d] \union Dirty(log[cursor[d] + 1]) ELSE queue[e]
  BY <1>1, CellPut DEF FShape
<1>4. TextsSame /\ DocsSame /\ FShape'
  BY <1>1, <1>2, <1>3, SameTexts DEF FShape, DocsSame, Cell, Phases
<1>5. OthersSame(d)
  BY <1>1, <1>2, <1>3, <1>4 DEF OthersSame, TextsSame, MovesTo
<1> QED
  BY <1>1, <1>2, <1>3, <1>4, <1>5

LEMMA MoveCursorEffect ==
    ASSUME Shape, FShape, NEW d \in Device, MoveCursor(d)
    PROVE  /\ FShape' /\ OthersSame(d) /\ DocsSame /\ TextsSame /\ MovesTo(d, "idle")
           /\ UNCHANGED <<queue, todo, updates, log>>
           /\ pc[d] = "cursor" \/ (pc[d] = "idle" /\ cursor[d] < Len(log) /\ log[cursor[d] + 1].dev = d)
<1>1. /\ UNCHANGED <<file, shadow, saved, docs, tombs, queue, todo, updates, log>>
      /\ pc[d] = "cursor" \/ (pc[d] = "idle" /\ cursor[d] < Len(log) /\ log[cursor[d] + 1].dev = d)
      /\ PutRow(pc, pc', d, "idle") /\ PutRow(cursor, cursor', d, cursor[d] + 1)
  BY DEF MoveCursor, PutRow
<1>2. MovesTo(d, "idle") /\ \A e \in Device : pc'[e] \in Phases
  BY <1>1, PcMoves, SamePhases DEF Phases
<1>3. \A e \in Device \ {d} : cursor'[e] = cursor[e]
  <2>1. Cell(cursor)
    BY DEF Shape, Cell
  <2> QED BY <1>1, <2>1, CellPut
<1>4. TextsSame /\ DocsSame /\ FShape'
  BY <1>1, <1>2, SameTexts DEF FShape, DocsSame, Cell, Phases
<1>5. OthersSame(d)
  BY <1>1, <1>2, <1>3, <1>4 DEF OthersSame, TextsSame, MovesTo
<1> QED
  BY <1>1, <1>2, <1>4, <1>5

LEMMA ApplyClearEffect ==
    ASSUME Shape, FShape, NEW d \in Device, ApplyClear(d)
    PROVE  /\ FShape' /\ OthersSame(d) /\ DocsSame /\ TextsSame /\ MovesTo(d, "idle")
           /\ UNCHANGED <<cursor, todo, updates, log>> /\ pc[d] = "clear"
<1>1. /\ UNCHANGED <<file, shadow, saved, docs, tombs, cursor, todo, updates, log>> /\ pc[d] = "clear"
      /\ PutRow(pc, pc', d, "idle") /\ PutRow(queue, queue', d, {})
  BY DEF ApplyClear, PutRow
<1>2. MovesTo(d, "idle") /\ \A e \in Device : pc'[e] \in Phases
  BY <1>1, PcMoves, SamePhases DEF Phases
<1>3. Cell(queue') /\ \A e \in Device : queue'[e] = IF e = d THEN {} ELSE queue[e]
  BY <1>1, CellPut DEF FShape
<1>4. TextsSame /\ DocsSame /\ FShape'
  BY <1>1, <1>2, <1>3, SameTexts DEF FShape, DocsSame, Cell, Phases
<1>5. OthersSame(d)
  BY <1>1, <1>2, <1>3, <1>4 DEF OthersSame, TextsSame, MovesTo
<1> QED
  BY <1>1, <1>2, <1>4, <1>5

LEMMA ReceiveEffect ==
    ASSUME Shape, FShape, NEW d \in Device, Receive(d)
    PROVE  /\ FShape' /\ OthersSame(d) /\ TextsSame /\ MovesTo(d, "queue")
           /\ UNCHANGED <<queue, cursor, todo, updates, log>>
           /\ pc[d] = "idle" /\ cursor[d] < Len(log) /\ log[cursor[d] + 1].dev # d
           /\ \A i \in Item :
                /\ i \notin DOMAIN log[cursor[d] + 1].docs => docs'[d][i] = docs[d][i]
                /\ i \notin DOMAIN log[cursor[d] + 1].tombs => tombs'[d][i] = tombs[d][i]
<1> DEFINE p == log[cursor[d] + 1]
           D == [i \in Item |-> IF i \in DOMAIN p.docs THEN MergeDoc(docs[d][i], p.docs[i]) ELSE docs[d][i]]
           T == [i \in Item |-> IF i \in DOMAIN p.tombs THEN MergeTomb(tombs[d][i], p.tombs[i]) ELSE tombs[d][i]]
<1>1. /\ UNCHANGED <<file, shadow, saved, queue, cursor, todo, updates, log>>
      /\ pc[d] = "idle" /\ cursor[d] < Len(log) /\ p.dev # d
      /\ PutRow(pc, pc', d, "queue") /\ PutRow(docs, docs', d, D) /\ PutRow(tombs, tombs', d, T)
  BY DEF Receive, PutRow
<1>2. D = [i \in Item |-> D[i]] /\ T = [i \in Item |-> T[i]]
  OBVIOUS
<1>3. \A i \in Item : /\ i \notin DOMAIN p.docs => D[i] = docs[d][i]
                      /\ i \notin DOMAIN p.tombs => T[i] = tombs[d][i]
  OBVIOUS
<1> HIDE DEF D, T, p
<1>4. MovesTo(d, "queue") /\ \A e \in Device : pc'[e] \in Phases
  BY <1>1, PcMoves, SamePhases DEF Phases
<1>5. \A e \in Device, j \in Item : docs'[e][j] = IF e = d THEN D[j] ELSE docs[e][j]
  BY <1>1, <1>2, CellsRow DEF Shape
<1>6. \A e \in Device, j \in Item : tombs'[e][j] = IF e = d THEN T[j] ELSE tombs[e][j]
  BY <1>1, <1>2, CellsRow DEF Shape
<1>7. TextsSame /\ FShape'
  BY <1>1, <1>4, SameTexts DEF FShape, Cell, Phases
<1>8. OthersSame(d)
  BY <1>1, <1>4, <1>5, <1>6, <1>7 DEF OthersSame, TextsSame, MovesTo
<1> QED
  BY <1>1, <1>3, <1>4, <1>5, <1>6, <1>7, <1>8 DEF p

LEMMA ApplyCheckEffect ==
    ASSUME NoneIsNoRecord, Shape, FShape, NEW d \in Device, ApplyCheck(d)
    PROVE  /\ FShape' /\ OthersSame(d) /\ DocsSame /\ MovesTo(d, "write")
           /\ UNCHANGED <<file, docs, tombs, queue, cursor, updates, log>> /\ pc[d] = "idle"
           /\ DOMAIN todo'[d] = ToWrite(d)
           /\ \A i \in ToWrite(d) : todo'[d][i] = Materialize(d, i)
           /\ \A i \in Item :
                /\ Kept(d, i)' = Kept(d, i)
                /\ Seen(d, i)' = IF i \in ToWrite(d) THEN Materialize(d, i) ELSE Seen(d, i)
<1> DEFINE plan == [i \in ToWrite(d) |-> Materialize(d, i)]
           row == [i \in Item |-> IF i \notin ToWrite(d) THEN shadow[d][i]
                                  ELSE IF Materialize(d, i) = None THEN None
                                  ELSE Entry(Materialize(d, i), FALSE)]
<1>1. /\ UNCHANGED <<file, saved, docs, tombs, queue, cursor, updates, log>> /\ pc[d] = "idle"
      /\ PutRow(pc, pc', d, "write") /\ PutRow(todo, todo', d, plan) /\ PutRow(shadow, shadow', d, row)
  BY DEF ApplyCheck, PutRow, disk
<1>2. row = [i \in Item |-> row[i]]
  OBVIOUS
<1>3. \A i \in Item : row[i] = IF i \notin ToWrite(d) THEN shadow[d][i]
                               ELSE IF Materialize(d, i) = None THEN None
                               ELSE Entry(Materialize(d, i), FALSE)
  OBVIOUS
<1>4. DOMAIN plan = ToWrite(d) /\ \A i \in ToWrite(d) : plan[i] = Materialize(d, i)
  OBVIOUS
<1> HIDE DEF plan, row
<1>5. MovesTo(d, "write") /\ \A e \in Device : pc'[e] \in Phases
  BY <1>1, PcMoves, SamePhases DEF Phases
<1>6. Cell(todo') /\ \A e \in Device : todo'[e] = IF e = d THEN plan ELSE todo[e]
  BY <1>1, CellPut DEF FShape
<1>7. Cells(shadow') /\ \A e \in Device, j \in Item : shadow'[e][j] = IF e = d THEN row[j] ELSE shadow[e][j]
  BY <1>1, <1>2, CellsRow DEF FShape, Entries
<1>8. \A i \in Item : /\ IsEntry(row[i])
                      /\ TextIn(row[i]) = IF i \in ToWrite(d) THEN Materialize(d, i) ELSE TextIn(shadow[d][i])
  <2> SUFFICES ASSUME NEW i \in Item
               PROVE  /\ IsEntry(row[i])
                      /\ TextIn(row[i]) = IF i \in ToWrite(d) THEN Materialize(d, i) ELSE TextIn(shadow[d][i])
    OBVIOUS
  <2>1. IsEntry(shadow[d][i]) /\ IsEntry(None) /\ TextIn(None) = None
    BY DEF FShape, Entries, IsEntry, TextIn
  <2>2. /\ IsEntry(Entry(Materialize(d, i), FALSE))
        /\ TextIn(Entry(Materialize(d, i), FALSE)) = Materialize(d, i)
    BY NewEntry
  <2> QED BY <1>3, <2>1, <2>2
<1>9. \A e \in Device, j \in Item : TextIn(shadow'[e][j]) = IF e = d THEN TextIn(row[j]) ELSE TextIn(shadow[e][j])
  BY <1>7
<1>10. FShape'
  <2>1. \A e \in Device, j \in Item : IsEntry(shadow'[e][j])
    BY <1>7, <1>8 DEF FShape, Entries
  <2> QED BY <1>1, <1>5, <1>6, <1>7, <2>1 DEF FShape, Entries, Cells, Cell, IsEntry, Phases
<1>11. OthersSame(d) /\ DocsSame
  BY <1>1, <1>5, <1>6, <1>9 DEF OthersSame, DocsSame, MovesTo, Seen, Kept, TextIn
<1>12. \A i \in Item :
          /\ Kept(d, i)' = Kept(d, i)
          /\ Seen(d, i)' = IF i \in ToWrite(d) THEN Materialize(d, i) ELSE Seen(d, i)
  BY <1>1, <1>8, <1>9 DEF Seen, Kept, TextIn
<1> QED
  BY <1>1, <1>4, <1>5, <1>6, <1>10, <1>11, <1>12

LEMMA ApplyWriteEffect ==
    ASSUME NoneIsNoRecord, Shape, FShape, NEW d \in Device, ApplyWrite(d)
    PROVE  /\ FShape' /\ OthersSame(d) /\ DocsSame /\ MovesTo(d, "stat")
           /\ UNCHANGED <<docs, tombs, queue, cursor, todo, updates, log>> /\ pc[d] = "write"
           /\ \A i \in Item :
                /\ file'[d][i] = IF i \in DOMAIN todo[d] THEN todo[d][i] ELSE file[d][i]
                /\ Seen(d, i)' = Seen(d, i) /\ Kept(d, i)' = Kept(d, i)
<1> DEFINE texts == [i \in Item |-> IF i \in DOMAIN todo[d] THEN todo[d][i] ELSE file[d][i]]
           row == [i \in Item |-> IF i \in DOMAIN todo[d] THEN Stale(saved[d][i]) ELSE saved[d][i]]
<1>1. /\ UNCHANGED <<docs, tombs, queue, cursor, shadow, todo, updates, log>> /\ pc[d] = "write"
      /\ PutRow(pc, pc', d, "stat") /\ PutRow(file, file', d, texts) /\ PutRow(saved, saved', d, row)
  BY DEF ApplyWrite, PutRow
<1>2. texts = [i \in Item |-> texts[i]] /\ row = [i \in Item |-> row[i]]
  OBVIOUS
<1>3. \A i \in Item : /\ texts[i] = IF i \in DOMAIN todo[d] THEN todo[d][i] ELSE file[d][i]
                      /\ row[i] = IF i \in DOMAIN todo[d] THEN Stale(saved[d][i]) ELSE saved[d][i]
  OBVIOUS
<1> HIDE DEF texts, row
<1>4. MovesTo(d, "stat") /\ \A e \in Device : pc'[e] \in Phases
  BY <1>1, PcMoves, SamePhases DEF Phases
<1>5. Cells(file') /\ \A e \in Device, j \in Item : file'[e][j] = IF e = d THEN texts[j] ELSE file[e][j]
  BY <1>1, <1>2, CellsRow DEF FShape
<1>6. Cells(saved') /\ \A e \in Device, j \in Item : saved'[e][j] = IF e = d THEN row[j] ELSE saved[e][j]
  BY <1>1, <1>2, CellsRow DEF FShape, Entries
<1>7. \A i \in Item : IsEntry(row[i]) /\ TextIn(row[i]) = TextIn(saved[d][i])
  BY <1>3, StaleText DEF FShape, Entries
<1>8. \A e \in Device, j \in Item : TextIn(saved'[e][j]) = TextIn(saved[e][j])
  BY <1>6, <1>7
<1>9. FShape'
  <2>1. \A e \in Device, j \in Item : IsEntry(saved'[e][j])
    BY <1>6, <1>7 DEF FShape, Entries
  <2> QED BY <1>1, <1>4, <1>5, <1>6, <2>1 DEF FShape, Entries, Cells, Cell, IsEntry, Phases
<1>10. OthersSame(d) /\ DocsSame
  BY <1>1, <1>4, <1>5, <1>8 DEF OthersSame, DocsSame, MovesTo, Seen, Kept, TextIn
<1>11. \A i \in Item :
          /\ file'[d][i] = IF i \in DOMAIN todo[d] THEN todo[d][i] ELSE file[d][i]
          /\ Seen(d, i)' = Seen(d, i) /\ Kept(d, i)' = Kept(d, i)
  BY <1>1, <1>3, <1>5, <1>8 DEF Seen, Kept, TextIn
<1> QED
  BY <1>1, <1>4, <1>9, <1>10, <1>11

LEMMA ApplyStatEffect ==
    ASSUME NoneIsNoRecord, Shape, FShape, NEW d \in Device, ApplyStat(d)
    PROVE  /\ FShape' /\ OthersSame(d) /\ DocsSame /\ MovesTo(d, "clear")
           /\ UNCHANGED <<file, docs, tombs, queue, cursor, updates, log>> /\ pc[d] = "stat"
           /\ \A i \in Item :
                /\ Kept(d, i)' = Seen(d, i)'
                /\ Seen(d, i)' = Seen(d, i) \/ (i \in DOMAIN todo[d] /\ Seen(d, i)' = None)
                /\ i \in DOMAIN todo[d] => file[d][i] = todo[d][i] \/ "unseen" \in slips'
<1> DEFINE row == [i \in Item |-> IF i \notin DOMAIN todo[d] THEN shadow[d][i]
                                  ELSE IF file[d][i] = None \/ shadow[d][i] = None THEN None
                                  ELSE [shadow[d][i] EXCEPT !.same = TRUE]]
<1>1. /\ UNCHANGED <<file, docs, tombs, queue, cursor, updates, log>> /\ pc[d] = "stat"
      /\ PutRow(pc, pc', d, "clear") /\ PutRow(todo, todo', d, Empty)
      /\ PutRow(shadow, shadow', d, row) /\ PutRow(saved, saved', d, shadow'[d])
  BY DEF ApplyStat, PutRow
<1>1a. (\E i \in DOMAIN todo[d] : file[d][i] # todo[d][i]) => "unseen" \in slips'
  BY DEF ApplyStat, Note
<1>2. row = [i \in Item |-> row[i]]
  OBVIOUS
<1>3. \A i \in Item : row[i] = IF i \notin DOMAIN todo[d] THEN shadow[d][i]
                               ELSE IF file[d][i] = None \/ shadow[d][i] = None THEN None
                               ELSE [shadow[d][i] EXCEPT !.same = TRUE]
  OBVIOUS
<1> HIDE DEF row
<1>4. MovesTo(d, "clear") /\ \A e \in Device : pc'[e] \in Phases
  BY <1>1, PcMoves, SamePhases DEF Phases
<1>5. Cell(todo') /\ \A e \in Device : todo'[e] = IF e = d THEN Empty ELSE todo[e]
  BY <1>1, CellPut DEF FShape
<1>6. Cells(shadow') /\ \A e \in Device, j \in Item : shadow'[e][j] = IF e = d THEN row[j] ELSE shadow[e][j]
  BY <1>1, <1>2, CellsRow DEF FShape, Entries
<1>7. shadow'[d] = [i \in Item |-> shadow'[d][i]]
  BY <1>6 DEF Cells
<1>8. Cells(saved') /\ \A e \in Device, j \in Item : saved'[e][j] = IF e = d THEN shadow'[d][j] ELSE saved[e][j]
  BY <1>1, <1>7, CellsRow DEF FShape, Entries
<1>9. \A i \in Item : /\ IsEntry(row[i])
                      /\ \/ TextIn(row[i]) = TextIn(shadow[d][i])
                         \/ i \in DOMAIN todo[d] /\ TextIn(row[i]) = None
  <2> SUFFICES ASSUME NEW i \in Item
               PROVE  /\ IsEntry(row[i])
                      /\ \/ TextIn(row[i]) = TextIn(shadow[d][i])
                         \/ i \in DOMAIN todo[d] /\ TextIn(row[i]) = None
    OBVIOUS
  <2>1. IsEntry(shadow[d][i]) /\ IsEntry(None) /\ TextIn(None) = None
    BY DEF FShape, Entries, IsEntry, TextIn
  <2>2. CASE i \in DOMAIN todo[d] /\ file[d][i] # None /\ shadow[d][i] # None
    <3>1. row[i] = [text |-> shadow[d][i].text, same |-> TRUE]
      BY <1>3, <2>1, <2>2 DEF IsEntry
    <3>2. row[i] # None
      BY <3>1 DEF NoneIsNoRecord
    <3>3. row[i].text = shadow[d][i].text /\ row[i].same = TRUE
      BY <3>1
    <3> QED BY <2>2, <3>1, <3>2, <3>3 DEF IsEntry, TextIn
  <2>3. CASE ~(i \in DOMAIN todo[d] /\ file[d][i] # None /\ shadow[d][i] # None)
    BY <1>3, <2>1, <2>3
  <2> QED BY <2>2, <2>3
<1>10. \A e \in Device, j \in Item :
         /\ TextIn(shadow'[e][j]) = IF e = d THEN TextIn(row[j]) ELSE TextIn(shadow[e][j])
         /\ TextIn(saved'[e][j]) = IF e = d THEN TextIn(shadow'[d][j]) ELSE TextIn(saved[e][j])
  BY <1>6, <1>8
<1>11. FShape'
  <2>1. \A e \in Device, j \in Item : IsEntry(shadow'[e][j]) /\ IsEntry(saved'[e][j])
    BY <1>6, <1>8, <1>9 DEF FShape, Entries
  <2> QED BY <1>1, <1>4, <1>5, <1>6, <1>8, <2>1 DEF FShape, Entries, Cells, Cell, IsEntry, Phases
<1>12. OthersSame(d) /\ DocsSame
  BY <1>1, <1>4, <1>5, <1>10 DEF OthersSame, DocsSame, MovesTo, Seen, Kept, TextIn
<1>13. \A i \in Item :
          /\ Kept(d, i)' = Seen(d, i)'
          /\ Seen(d, i)' = Seen(d, i) \/ (i \in DOMAIN todo[d] /\ Seen(d, i)' = None)
  BY <1>9, <1>10 DEF Seen, Kept, TextIn
<1> QED
  BY <1>1, <1>1a, <1>4, <1>11, <1>12, <1>13

LEMMA CrashEffect ==
    ASSUME Shape, FShape, NEW d \in Device, Crash(d)
    PROVE  /\ FShape' /\ OthersSame(d) /\ DocsSame /\ MovesTo(d, "start")
           /\ UNCHANGED <<file, docs, tombs, queue, cursor, log>>
           /\ pc[d] # "start"
           /\ updates[d] # NoUpdates => "orphaned" \in slips'
           /\ \A i \in Item : Seen(d, i)' = Kept(d, i) /\ Kept(d, i)' = Kept(d, i)
<1>1. /\ UNCHANGED <<file, saved, docs, tombs, queue, cursor, log>> /\ pc[d] # "start"
      /\ PutRow(pc, pc', d, "start") /\ PutRow(todo, todo', d, Empty)
      /\ PutRow(updates, updates', d, NoUpdates) /\ PutRow(shadow, shadow', d, saved[d])
  BY DEF Crash, PutRow, disk
<1>2. updates[d] # NoUpdates => "orphaned" \in slips'
  BY DEF Crash, Note
<1>3. MovesTo(d, "start") /\ \A e \in Device : pc'[e] \in Phases
  BY <1>1, PcMoves, SamePhases DEF Phases
<1>4. Cell(todo') /\ \A e \in Device : todo'[e] = IF e = d THEN Empty ELSE todo[e]
  BY <1>1, CellPut DEF FShape
<1>5. \A e \in Device \ {d} : updates'[e] = updates[e]
  BY <1>1, CellPut, UpdatesCell
<1>6. saved[d] = [i \in Item |-> saved[d][i]]
  BY DEF FShape, Entries, Cells
<1>7. Cells(shadow') /\ \A e \in Device, j \in Item : shadow'[e][j] = IF e = d THEN saved[d][j] ELSE shadow[e][j]
  BY <1>1, <1>6, CellsRow DEF FShape, Entries
<1>8. FShape'
  <2>1. \A e \in Device, j \in Item : IsEntry(shadow'[e][j])
    BY <1>7 DEF FShape, Entries
  <2> QED BY <1>1, <1>3, <1>4, <1>7, <2>1 DEF FShape, Entries, Cells, Cell, IsEntry, Phases
<1>9. OthersSame(d) /\ DocsSame
  BY <1>1, <1>3, <1>4, <1>5, <1>7 DEF OthersSame, DocsSame, MovesTo, Seen, Kept, TextIn
<1>10. \A i \in Item : Seen(d, i)' = Kept(d, i) /\ Kept(d, i)' = Kept(d, i)
  BY <1>1, <1>7 DEF Seen, Kept, TextIn
<1> QED
  BY <1>1, <1>2, <1>3, <1>8, <1>9, <1>10

-----------------------------------------------------------------------------
(* What is on the way to the files                                          *)

\* The keys of the next update, once it has been merged.
NextKeys(d) ==
    IF cursor[d] < Len(log) /\ log[cursor[d] + 1].dev # d /\ Holds(d, log[cursor[d] + 1])
    THEN Dirty(log[cursor[d] + 1]) ELSE {}

Queued(d, i) == i \in Candidates(d, queue[d])
Coming(d, i) == i \in Candidates(d, NextKeys(d))

LEMMA UnappliedSplit ==
    ASSUME NEW d \in Device, NEW i \in Item
    PROVE  i \in Candidates(d, Unapplied(d)) <=> Queued(d, i) \/ Coming(d, i)
<1>1. Unapplied(d) = queue[d] \union NextKeys(d)
  BY DEF Unapplied, NextKeys
<1> QED
  BY <1>1 DEF Candidates, Queued, Coming

\* What was queued stays queued for as long as the queue is not cleared.
LEMMA QueuedGrows ==
    ASSUME NEW d \in Device, NEW i \in Item, DocGrows(docs[d][i], docs'[d][i]),
           queue[d] \subseteq queue'[d], Queued(d, i)
    PROVE  Queued(d, i)'
BY DEF Queued, Candidates, DocGrows

\* What a device's documents hold of the log they keep.
LEMMA HoldsKept ==
    ASSUME MergeAssumption, MInv, MInv', Grows, NEW d \in Device, NEW k \in 1..Len(log), Holds(d, log[k])
    PROVE  HeldBy(docs'[d], tombs'[d], log'[k])
<1>1. HeldBy(docs[d], tombs[d], log[k])
  BY DEF Holds, HeldBy
<1>2. WellFormed(log[k])
  <2>1. k \in DOMAIN log
    BY DEF MInv, Shape, IsSeq
  <2> QED BY <2>1 DEF MInv, CarriedInv, Carried
<1>3. TombRow(tombs[d]) /\ TombRow(tombs'[d])
  <2>1. \A i \in Item : tombs[d][i] # None => IsTomb(tombs[d][i])
    BY DEF MInv, TombInv, TombsOf
  <2>2. \A i \in Item : tombs'[d][i] # None => IsTomb(tombs'[d][i])
    <3> SUFFICES ASSUME NEW i \in Item, tombs'[d][i] # None
                 PROVE  IsTomb(tombs'[d][i])
      OBVIOUS
    <3>1. tombs'[d][i] \in TombsOf(i)'
      BY DEF TombsOf
    <3> QED BY <3>1 DEF MInv, TombInv, IsTomb
  <2> QED BY <2>1, <2>2 DEF TombRow
<1>4. RowsGrow(docs[d], tombs[d], docs'[d], tombs'[d])
  BY DEF RowsGrow, Grows
<1>5. HeldBy(docs'[d], tombs'[d], log[k])
  BY <1>1, <1>2, <1>3, <1>4, HeldGrows
<1>6. log'[k] = log[k]
  BY DEF Grows
<1> QED
  BY <1>5, <1>6

LEMMA ComingGrows ==
    ASSUME MergeAssumption, MInv, MInv', Grows, NEW d \in Device, NEW i \in Item,
           cursor'[d] = cursor[d], Coming(d, i)
    PROVE  Coming(d, i)'
<1>1. cursor[d] < Len(log) /\ log[cursor[d] + 1].dev # d /\ Holds(d, log[cursor[d] + 1])
  BY DEF Coming, NextKeys, Candidates
<1>2. /\ cursor[d] \in Nat /\ Len(log) \in Nat /\ Len(log') \in Nat /\ cursor[d] + 1 \in 1..Len(log)
  BY <1>1, SeqFacts DEF MInv, Shape
<1>3. log'[cursor[d] + 1] = log[cursor[d] + 1] /\ cursor[d] < Len(log')
  BY <1>1, <1>2 DEF Grows
<1>4. PICK k \in 1..Len(log) : k = cursor[d] + 1
  BY <1>2
<1>5. HeldBy(docs'[d], tombs'[d], log'[k])
  BY <1>1, <1>4, HoldsKept
<1>6. NextKeys(d)' = NextKeys(d)
  <2>1. Holds(d, log[cursor[d] + 1])' <=> HeldBy(docs'[d], tombs'[d], log'[cursor'[d] + 1])
    BY DEF Holds, HeldBy, HasDoc, HasTomb, Beats
  <2>2. Holds(d, log[cursor[d] + 1])'
    BY <1>4, <1>5, <2>1
  <2> QED BY <1>1, <1>3, <2>2 DEF NextKeys, Dirty, Empty
<1>7. DocGrows(docs[d][i], docs'[d][i])
  BY DEF Grows
<1> QED
  BY <1>6, <1>7 DEF Coming, Candidates, DocGrows

-----------------------------------------------------------------------------
(* What the files need: the inductive invariant                             *)

\* The file is as it was last saved, or seen, and is not what the documents say.
LagsKept(d, i) == file[d][i] = Kept(d, i) /\ file[d][i] # Materialize(d, i)
LagsSeen(d, i) == file[d][i] = Seen(d, i) /\ file[d][i] # Materialize(d, i)

\* Between two rounds; while a scan is folded; while an apply writes; and after it.
Calm(d, i) == Seen(d, i) = Kept(d, i) /\ (LagsKept(d, i) => Queued(d, i) \/ Coming(d, i))
Folding(d, i) ==
    /\ LagsKept(d, i) => Queued(d, i) \/ Coming(d, i) \/ updates[d] # NoUpdates
    /\ LagsSeen(d, i) => Queued(d, i) \/ Coming(d, i) \/ i \in DOMAIN todo[d]
Writing(d, i) ==
    IF i \in DOMAIN todo[d] THEN Queued(d, i) /\ todo[d][i] = Materialize(d, i)
    ELSE Seen(d, i) = Kept(d, i) /\ (LagsKept(d, i) => Coming(d, i))
Passed(d, i) == Seen(d, i) = Kept(d, i) /\ (LagsKept(d, i) => Coming(d, i))

CoverInv(d, i) ==
    /\ pc[d] \in {"start", "idle", "push", "queue", "cursor"} => Calm(d, i)
    /\ pc[d] = "fold" => Folding(d, i)
    /\ pc[d] \in {"write", "stat"} => Writing(d, i)
    /\ pc[d] = "clear" => Passed(d, i)

\* The delta of a scan is what the scan saw, and the queue goes before the cursor.
FoldsSeen(d, i) == pc[d] = "fold" /\ i \in DOMAIN todo[d] => todo[d][i] = Seen(d, i)
QueueFirst(d) == pc[d] = "cursor" => Dirty(log[cursor[d] + 1]) \subseteq queue[d]

-----------------------------------------------------------------------------
(* Every step keeps what covers the lagging files                           *)

LEMMA SameMaterial ==
    ASSUME NEW d \in Device, NEW i \in Item, docs'[d][i] = docs[d][i], tombs'[d][i] = tombs[d][i]
    PROVE  Materialize(d, i)' = Materialize(d, i)
BY DEF Materialize, Covers, TextOf

\* Documents and queue grow, and the cursor stays.
LEMMA WayKept ==
    ASSUME MergeAssumption, MInv, MInv', Grows, NEW d \in Device, NEW i \in Item,
           queue[d] \subseteq queue'[d], cursor'[d] = cursor[d]
    PROVE  /\ Queued(d, i) => Queued(d, i)'
           /\ Coming(d, i) => Coming(d, i)'
<1>1. DocGrows(docs[d][i], docs'[d][i])
  BY DEF Grows
<1>2. Queued(d, i) => Queued(d, i)'
  BY <1>1, QueuedGrows
<1>3. Coming(d, i) => Coming(d, i)'
  BY ComingGrows
<1> QED
  BY <1>2, <1>3

\* A row that no step has touched.
LEMMA CoverKept ==
    ASSUME MergeAssumption, MInv, MInv', Grows, NEW d \in Device, NEW i \in Item,
           file'[d][i] = file[d][i], Seen(d, i)' = Seen(d, i), Kept(d, i)' = Kept(d, i),
           docs'[d][i] = docs[d][i], tombs'[d][i] = tombs[d][i],
           pc'[d] = pc[d], todo'[d] = todo[d], updates'[d] = updates[d],
           queue'[d] = queue[d], cursor'[d] = cursor[d], CoverInv(d, i)
    PROVE  CoverInv(d, i)'
<1>1. Materialize(d, i)' = Materialize(d, i)
  BY SameMaterial
<1>2. (Queued(d, i) => Queued(d, i)') /\ (Coming(d, i) => Coming(d, i)')
  BY WayKept
<1>3. (LagsKept(d, i)' <=> LagsKept(d, i)) /\ (LagsSeen(d, i)' <=> LagsSeen(d, i))
  BY <1>1 DEF LagsKept, LagsSeen
<1>4. (updates'[d] # NoUpdates) <=> (updates[d] # NoUpdates)
  OBVIOUS
<1>5. Calm(d, i) => Calm(d, i)'
  BY <1>2, <1>3 DEF Calm
<1>6. Folding(d, i) => Folding(d, i)'
  BY <1>2, <1>3 DEF Folding, NoUpdates, Empty
<1>7. Writing(d, i) => Writing(d, i)'
  BY <1>1, <1>2, <1>3 DEF Writing
<1>8. Passed(d, i) => Passed(d, i)'
  BY <1>2, <1>3 DEF Passed
<1> QED
  BY <1>5, <1>6, <1>7, <1>8 DEF CoverInv

\* A user's edit: whatever gives the bytes back that were last seen is a slip,
\* but for what is queued or coming.
LEMMA UserCovers ==
    ASSUME MergeAssumption, NoneIsNoRecord, MInv, MInv', Grows, FShape, slips' = {},
           NEW d \in Device, NEW i \in Item, NEW text, UserWrites(d, i, text), CoverInv(d, i)
    PROVE  CoverInv(d, i)'
<1>1. /\ file'[d][i] = text /\ Seen(d, i)' = Seen(d, i) /\ Kept(d, i)' = Kept(d, i)
      /\ TooLate(d, i) \union Restored(d, i, text) \subseteq slips'
      /\ UNCHANGED <<docs, tombs, queue, cursor, pc, todo, updates, log>>
  <2>1. \A e \in Device, j \in Item :
          /\ file'[e][j] = IF e = d /\ j = i THEN text ELSE file[e][j]
          /\ Seen(e, j)' = Seen(e, j) /\ Kept(e, j)' = Kept(e, j)
    BY UserEffect
  <2>2. /\ TooLate(d, i) \union Restored(d, i, text) \subseteq slips'
        /\ UNCHANGED <<docs, tombs, queue, cursor, pc, todo, updates, log>>
    BY UserEffect
  <2> QED BY <2>1, <2>2
<1>2. Materialize(d, i)' = Materialize(d, i)
  BY <1>1, SameMaterial
<1>3. (Queued(d, i) => Queued(d, i)') /\ (Coming(d, i) => Coming(d, i)')
  BY <1>1, WayKept
<1>4. \/ text = Materialize(d, i)
      \/ pc[d] \notin {"write", "stat", "clear"} /\ (Queued(d, i) \/ Coming(d, i))
      \/ /\ text = Seen(d, i) => pc[d] = "fold" /\ i \in DOMAIN todo[d]
         /\ text = Kept(d, i) => updates[d] # NoUpdates
  BY <1>1, UnappliedSplit DEF Restored, Seen, Kept
<1>5. LagsKept(d, i)' <=> text = Kept(d, i) /\ text # Materialize(d, i)
  BY <1>1, <1>2 DEF LagsKept
<1>6. LagsSeen(d, i)' <=> text = Seen(d, i) /\ text # Materialize(d, i)
  BY <1>1, <1>2 DEF LagsSeen
<1>7. pc[d] # "fold" /\ Calm(d, i) => Calm(d, i)'
  BY <1>1, <1>3, <1>4, <1>5 DEF Calm
<1>8. pc[d] = "fold" => Folding(d, i)'
  <2>1. pc[d] = "fold" /\ LagsKept(d, i)' => Queued(d, i)' \/ Coming(d, i)' \/ updates[d] # NoUpdates
    BY <1>3, <1>4, <1>5
  <2>2. pc[d] = "fold" /\ LagsSeen(d, i)' => Queued(d, i)' \/ Coming(d, i)' \/ i \in DOMAIN todo[d]
    BY <1>3, <1>4, <1>6
  <2> QED BY <1>1, <2>1, <2>2 DEF Folding, NoUpdates, Empty
<1>9. pc[d] \in {"write", "stat"} /\ Writing(d, i) => Writing(d, i)'
  BY <1>1, <1>2, <1>3, <1>4, <1>5 DEF Writing
<1>10. pc[d] = "clear" /\ Passed(d, i) => Passed(d, i)'
  BY <1>1, <1>3, <1>4, <1>5 DEF Passed
<1> QED
  BY <1>1, <1>7, <1>8, <1>9, <1>10 DEF CoverInv

LEMMA ScanCovers ==
    ASSUME MergeAssumption, NoneIsNoRecord, MInv, MInv', Grows, FShape,
           NEW d \in Device, Scan(d), NEW i \in Item, CoverInv(d, i)
    PROVE  CoverInv(d, i)'
<1>1. /\ DocsSame /\ MovesTo(d, "fold") /\ pc[d] \in {"start", "idle"}
      /\ UNCHANGED <<file, queue, cursor>>
      /\ Kept(d, i)' = Kept(d, i)
      /\ i \notin DOMAIN todo'[d] => Seen(d, i)' = Seen(d, i)
  BY ScanEffect DEF MInv
<1>2. Materialize(d, i)' = Materialize(d, i)
  BY <1>1, SameMaterial DEF DocsSame
<1>3. (Queued(d, i) => Queued(d, i)') /\ (Coming(d, i) => Coming(d, i)')
  BY <1>1, WayKept
<1>4. Calm(d, i)
  BY <1>1 DEF CoverInv
<1>5. LagsKept(d, i)' => LagsKept(d, i)
  BY <1>1, <1>2 DEF LagsKept
<1>6. LagsSeen(d, i)' => LagsKept(d, i) \/ i \in DOMAIN todo'[d]
  BY <1>1, <1>2, <1>4 DEF LagsKept, LagsSeen, Calm
<1>7. Folding(d, i)'
  BY <1>3, <1>4, <1>5, <1>6 DEF Folding, Calm
<1>8. pc'[d] = "fold"
  BY <1>1 DEF MovesTo
<1> QED
  BY <1>7, <1>8 DEF CoverInv

\* A document that says what is folded into it stays as it is.
LEMMA FoldOfSame ==
    ASSUME NEW x, x # None, IsDocument(x), NEW d
    PROVE  ApplyLocalText(d, x, TextOf(x)) = x
<1>1. NewOps(d, x, TextOf(x) \ TextOf(x)) = {}
  BY DEF NewOps
<1>2. {o \in x.ops : o.atom \notin TextOf(x)} \subseteq x.dels
  BY DEF TextOf
<1>3. ApplyLocalText(d, x, TextOf(x))
        = [ops  |-> x.ops \union NewOps(d, x, TextOf(x) \ TextOf(x)),
           dels |-> x.dels \union {o \in x.ops : o.atom \notin TextOf(x)}]
  BY DEF ApplyLocalText
<1>4. x.dels \union {o \in x.ops : o.atom \notin TextOf(x)} = x.dels /\ x.ops \union {} = x.ops
  BY <1>2
<1> QED
  BY <1>1, <1>3, <1>4 DEF IsDocument

LEMMA FoldItemCovers ==
    ASSUME MergeAssumption, MInv, MInv', Grows, FShape, slips' = {},
           NEW d \in Device, NEW k \in Item, FoldItem(d, k), FoldsSeen(d, k),
           NEW i \in Item, CoverInv(d, i)
    PROVE  CoverInv(d, i)'
<1>1. /\ TextsSame /\ UNCHANGED <<tombs, queue, cursor, pc>>
      /\ pc[d] = "fold" /\ k \in DOMAIN todo[d]
      /\ DOMAIN todo'[d] = DOMAIN todo[d] \ {k}
      /\ docs'[d][k] = ApplyLocalText(d, docs[d][k], todo[d][k])
      /\ \A j \in Item \ {k} : docs'[d][j] = docs[d][j]
      /\ \/ updates'[d] # NoUpdates
         \/ updates'[d] = updates[d] /\ docs[d][k] # None /\ TextOf(docs[d][k]) = todo[d][k]
      /\ Materialize(d, k)' = todo[d][k]
  BY FoldItemEffect DEF MInv
<1>2. file'[d][i] = file[d][i] /\ Seen(d, i)' = Seen(d, i) /\ Kept(d, i)' = Kept(d, i)
  BY <1>1 DEF TextsSame
<1>3. (Queued(d, i) => Queued(d, i)') /\ (Coming(d, i) => Coming(d, i)')
  BY <1>1, WayKept
<1>4. Folding(d, i)
  BY <1>1 DEF CoverInv
<1>5. updates'[d] # NoUpdates \/ (updates'[d] = updates[d] /\ docs'[d][i] = docs[d][i])
  <2>1. docs[d][k] = None \/ IsDocument(docs[d][k])
    BY DEF MInv, Shape
  <2>2. docs[d][k] # None /\ TextOf(docs[d][k]) = todo[d][k] => docs'[d][k] = docs[d][k]
    BY <1>1, <2>1, FoldOfSame
  <2> QED BY <1>1, <2>2
<1>6. LagsKept(d, i)' => Queued(d, i)' \/ Coming(d, i)' \/ updates'[d] # NoUpdates
  <2>1. CASE updates'[d] = updates[d] /\ docs'[d][i] = docs[d][i]
    <3>1. Materialize(d, i)' = Materialize(d, i)
      BY <1>1, <2>1, SameMaterial
    <3>2. LagsKept(d, i)' => LagsKept(d, i)
      BY <1>2, <3>1 DEF LagsKept
    <3> QED BY <1>3, <1>4, <2>1, <3>2 DEF Folding
  <2> QED BY <1>5, <2>1
<1>7. LagsSeen(d, i)' => Queued(d, i)' \/ Coming(d, i)' \/ i \in DOMAIN todo'[d]
  <2>1. CASE i = k
    BY <1>1, <1>2, <2>1 DEF LagsSeen, FoldsSeen
  <2>2. CASE i # k
    <3>1. Materialize(d, i)' = Materialize(d, i)
      BY <1>1, <2>2, SameMaterial
    <3>2. LagsSeen(d, i)' => LagsSeen(d, i)
      BY <1>2, <3>1 DEF LagsSeen
    <3> QED BY <1>1, <1>3, <1>4, <2>2, <3>2 DEF Folding
  <2> QED BY <2>1, <2>2
<1> QED
  BY <1>1, <1>6, <1>7 DEF CoverInv, Folding, NoUpdates, Empty

LEMMA FoldDeletedCovers ==
    ASSUME MergeAssumption, NoneIsNoRecord, MInv, MInv', Grows, FShape,
           NEW d \in Device, NEW k \in Item, FoldDeleted(d, k), FoldsSeen(d, k),
           NEW i \in Item, CoverInv(d, i)
    PROVE  CoverInv(d, i)'
<1>1. /\ TextsSame /\ UNCHANGED <<docs, queue, cursor, pc>>
      /\ pc[d] = "fold" /\ k \in DOMAIN todo[d] /\ todo[d][k] = None
      /\ DOMAIN todo'[d] = DOMAIN todo[d] \ {k}
      /\ tombs'[d][k] = RecordDelete(d, tombs[d][k], docs[d][k])
      /\ \A j \in Item \ {k} : tombs'[d][j] = tombs[d][j]
      /\ updates'[d] # NoUpdates
  BY FoldDeletedEffect DEF MInv
<1>2. file'[d][i] = file[d][i] /\ Seen(d, i)' = Seen(d, i) /\ Kept(d, i)' = Kept(d, i)
  BY <1>1 DEF TextsSame
<1>3. (Queued(d, i) => Queued(d, i)') /\ (Coming(d, i) => Coming(d, i)')
  BY <1>1, WayKept
<1>4. Folding(d, i)
  BY <1>1 DEF CoverInv
<1>5. Materialize(d, k)' = None
  <2>1. docs'[d][k] # None => docs'[d][k].ops \subseteq tombs'[d][k].sv
    BY <1>1 DEF RecordDelete
  <2>2. tombs'[d][k] # None
    BY <1>1 DEF RecordDelete, NoneIsNoRecord
  <2> QED BY <2>1, <2>2 DEF Materialize, Covers
<1>6. LagsSeen(d, i)' => Queued(d, i)' \/ Coming(d, i)' \/ i \in DOMAIN todo'[d]
  <2>1. CASE i = k
    BY <1>1, <1>2, <1>5, <2>1 DEF LagsSeen, FoldsSeen
  <2>2. CASE i # k
    <3>1. Materialize(d, i)' = Materialize(d, i)
      BY <1>1, <2>2, SameMaterial
    <3>2. LagsSeen(d, i)' => LagsSeen(d, i)
      BY <1>2, <3>1 DEF LagsSeen
    <3> QED BY <1>1, <1>3, <1>4, <2>2, <3>2 DEF Folding
  <2> QED BY <2>1, <2>2
<1> QED
  BY <1>1, <1>6 DEF CoverInv, Folding, NoUpdates, Empty

LEMMA SaveShadowCovers ==
    ASSUME MergeAssumption, MInv, MInv', Grows, FShape,
           NEW d \in Device, SaveShadow(d), NEW i \in Item, CoverInv(d, i)
    PROVE  CoverInv(d, i)'
<1>1. /\ DocsSame /\ UNCHANGED <<file, queue, cursor>>
      /\ pc[d] = "fold" /\ DOMAIN todo[d] = {}
      /\ MovesTo(d, "idle") \/ MovesTo(d, "push")
      /\ Seen(d, i)' = Seen(d, i) /\ Kept(d, i)' = Seen(d, i)
  BY SaveShadowEffect DEF MInv
<1>2. Materialize(d, i)' = Materialize(d, i)
  BY <1>1, SameMaterial DEF DocsSame
<1>3. (Queued(d, i) => Queued(d, i)') /\ (Coming(d, i) => Coming(d, i)')
  BY <1>1, WayKept
<1>4. Folding(d, i)
  BY <1>1 DEF CoverInv
<1>5. LagsKept(d, i)' => LagsSeen(d, i)
  BY <1>1, <1>2 DEF LagsKept, LagsSeen
<1>6. Calm(d, i)'
  BY <1>1, <1>3, <1>4, <1>5 DEF Folding, Calm
<1>7. pc'[d] \in {"idle", "push"}
  BY <1>1 DEF MovesTo
<1> QED
  BY <1>6, <1>7 DEF CoverInv

\* Between two rounds, with nothing of the files or the documents touched.
LEMMA CalmStays ==
    ASSUME MergeAssumption, MInv, MInv', Grows, NEW d \in Device, NEW i \in Item, DocsSame, TextsSame,
           queue[d] \subseteq queue'[d], cursor'[d] = cursor[d], Calm(d, i),
           pc'[d] \in {"start", "idle", "push", "queue", "cursor"}
    PROVE  CoverInv(d, i)'
<1>1. Materialize(d, i)' = Materialize(d, i)
  BY SameMaterial DEF DocsSame
<1>2. (Queued(d, i) => Queued(d, i)') /\ (Coming(d, i) => Coming(d, i)')
  BY WayKept
<1>3. LagsKept(d, i)' => LagsKept(d, i)
  BY <1>1 DEF LagsKept, TextsSame
<1>4. Calm(d, i)'
  BY <1>2, <1>3 DEF Calm, TextsSame
<1> QED
  BY <1>4 DEF CoverInv

\* Whatever a merge changes is an item the next apply will look at.
LEMMA ReceiveCovers ==
    ASSUME MergeAssumption, MInv, MInv', Grows, FShape,
           NEW d \in Device, Receive(d), NEW i \in Item, CoverInv(d, i)
    PROVE  CoverInv(d, i)'
<1> DEFINE p == log[cursor[d] + 1]
<1>1. /\ TextsSame /\ MovesTo(d, "queue") /\ UNCHANGED <<queue, cursor, log>>
      /\ pc[d] = "idle" /\ cursor[d] < Len(log) /\ p.dev # d
      /\ i \notin DOMAIN p.docs => docs'[d][i] = docs[d][i]
      /\ i \notin DOMAIN p.tombs => tombs'[d][i] = tombs[d][i]
  BY ReceiveEffect DEF MInv
<1>2. (Queued(d, i) => Queued(d, i)') /\ (Coming(d, i) => Coming(d, i)')
  BY <1>1, WayKept
<1>3. Calm(d, i)
  BY <1>1 DEF CoverInv
<1>4. pc'[d] = "queue"
  BY <1>1 DEF MovesTo
<1>5. NextKeys(d)' = Dirty(p)
  <2>1. Holds(d, log[cursor[d] + 1])'
    BY <1>4 DEF MInv, ReceiptInv
  <2> QED BY <1>1, <2>1 DEF NextKeys, Dirty, Empty
<1>6. i \in DOMAIN p.docs => Coming(d, i)'
  BY <1>5 DEF Coming, Candidates, Dirty
<1>7. i \in DOMAIN p.tombs /\ docs'[d][i] # None => Coming(d, i)'
  <2>1. i \in DOMAIN p.tombs => p.tombs # Empty
    BY DEF Empty
  <2>2. i \in DOMAIN p.tombs => Manifest \in Dirty(p)
    BY <2>1 DEF Dirty
  <2> QED BY <1>5, <2>2 DEF Coming, Candidates
<1>8. Coming(d, i)' \/ Materialize(d, i)' = Materialize(d, i)
  <2>1. CASE i \notin DOMAIN p.docs /\ i \notin DOMAIN p.tombs
    BY <1>1, <2>1, SameMaterial
  <2>2. CASE i \notin DOMAIN p.docs /\ docs'[d][i] = None
    BY <1>1, <2>2 DEF Materialize
  <2> QED BY <1>6, <1>7, <2>1, <2>2
<1>9. LagsKept(d, i)' => Queued(d, i)' \/ Coming(d, i)'
  <2>1. CASE Materialize(d, i)' = Materialize(d, i)
    <3>1. LagsKept(d, i)' => LagsKept(d, i)
      BY <1>1, <2>1 DEF LagsKept, TextsSame
    <3> QED BY <1>2, <1>3, <3>1 DEF Calm
  <2> QED BY <1>8, <2>1
<1>10. Calm(d, i)'
  BY <1>1, <1>3, <1>9 DEF Calm, TextsSame
<1> QED
  BY <1>4, <1>10 DEF CoverInv

\* The cursor moves over what is in the queue, or over the device's own.
LEMMA MoveCursorCovers ==
    ASSUME MergeAssumption, FShape, Shape, NEW d \in Device, MoveCursor(d), QueueFirst(d),
           NEW i \in Item, CoverInv(d, i)
    PROVE  CoverInv(d, i)'
<1>1. /\ DocsSame /\ TextsSame /\ MovesTo(d, "idle") /\ UNCHANGED <<queue>>
      /\ pc[d] = "cursor" \/ (pc[d] = "idle" /\ cursor[d] < Len(log) /\ log[cursor[d] + 1].dev = d)
  BY MoveCursorEffect
<1>2. Calm(d, i)
  BY <1>1 DEF CoverInv
<1>3. Materialize(d, i)' = Materialize(d, i)
  BY <1>1, SameMaterial DEF DocsSame
<1>4. LagsKept(d, i)' => LagsKept(d, i)
  BY <1>1, <1>3 DEF LagsKept, TextsSame
<1>5. Coming(d, i) => Queued(d, i)
  <2>1. NextKeys(d) \subseteq queue[d]
    BY <1>1 DEF NextKeys, QueueFirst
  <2> QED BY <2>1 DEF Coming, Queued, Candidates
<1>6. Queued(d, i) => Queued(d, i)'
  BY <1>1 DEF Queued, Candidates, DocsSame
<1>7. Calm(d, i)'
  BY <1>1, <1>2, <1>4, <1>5, <1>6 DEF Calm, TextsSame
<1>8. pc'[d] = "idle"
  BY <1>1 DEF MovesTo
<1> QED
  BY <1>7, <1>8 DEF CoverInv

LEMMA ApplyCheckCovers ==
    ASSUME MergeAssumption, NoneIsNoRecord, MInv, MInv', Grows, FShape,
           NEW d \in Device, ApplyCheck(d), NEW i \in Item, CoverInv(d, i)
    PROVE  CoverInv(d, i)'
<1>1. /\ DocsSame /\ MovesTo(d, "write") /\ UNCHANGED <<file, queue, cursor>> /\ pc[d] = "idle"
      /\ DOMAIN todo'[d] = ToWrite(d)
      /\ i \in ToWrite(d) => todo'[d][i] = Materialize(d, i)
      /\ Kept(d, i)' = Kept(d, i)
      /\ i \notin ToWrite(d) => Seen(d, i)' = Seen(d, i)
  BY ApplyCheckEffect DEF MInv
<1>2. Materialize(d, i)' = Materialize(d, i)
  BY <1>1, SameMaterial DEF DocsSame
<1>3. (Queued(d, i) => Queued(d, i)') /\ (Coming(d, i) => Coming(d, i)')
  BY <1>1, WayKept
<1>4. Calm(d, i)
  BY <1>1 DEF CoverInv
<1>5. i \in ToWrite(d) => Queued(d, i)
  BY DEF ToWrite, Queued
<1>6. i \notin ToWrite(d) /\ LagsKept(d, i) => ~Queued(d, i)
  BY <1>4 DEF ToWrite, Queued, LagsKept, Calm, Seen
<1>7. LagsKept(d, i)' => LagsKept(d, i)
  BY <1>1, <1>2 DEF LagsKept
<1>8. Writing(d, i)'
  <2>1. CASE i \in ToWrite(d)
    <3>1. Queued(d, i)' /\ todo'[d][i] = Materialize(d, i)' /\ i \in DOMAIN todo'[d]
      BY <1>1, <1>2, <1>3, <1>5, <2>1
    <3> QED BY <3>1 DEF Writing
  <2>2. CASE i \notin ToWrite(d)
    <3>1. Seen(d, i)' = Kept(d, i)' /\ i \notin DOMAIN todo'[d]
      BY <1>1, <1>4, <2>2 DEF Calm
    <3>2. LagsKept(d, i)' => Coming(d, i)'
      BY <1>3, <1>4, <1>6, <1>7, <2>2 DEF Calm
    <3> QED BY <3>1, <3>2 DEF Writing
  <2> QED BY <2>1, <2>2
<1>9. pc'[d] = "write"
  BY <1>1 DEF MovesTo
<1> QED
  BY <1>8, <1>9 DEF CoverInv

LEMMA ApplyWriteCovers ==
    ASSUME MergeAssumption, NoneIsNoRecord, MInv, MInv', Grows, FShape,
           NEW d \in Device, ApplyWrite(d), NEW i \in Item, CoverInv(d, i)
    PROVE  CoverInv(d, i)'
<1>1. /\ DocsSame /\ MovesTo(d, "stat") /\ UNCHANGED <<queue, cursor, todo>> /\ pc[d] = "write"
      /\ i \notin DOMAIN todo[d] => file'[d][i] = file[d][i]
      /\ Seen(d, i)' = Seen(d, i) /\ Kept(d, i)' = Kept(d, i)
  BY ApplyWriteEffect DEF MInv
<1>2. Materialize(d, i)' = Materialize(d, i)
  BY <1>1, SameMaterial DEF DocsSame
<1>3. (Queued(d, i) => Queued(d, i)') /\ (Coming(d, i) => Coming(d, i)')
  BY <1>1, WayKept
<1>4. Writing(d, i)
  BY <1>1 DEF CoverInv
<1>5. i \notin DOMAIN todo[d] /\ LagsKept(d, i)' => LagsKept(d, i)
  BY <1>1, <1>2 DEF LagsKept
<1>6. Writing(d, i)'
  BY <1>1, <1>2, <1>3, <1>4, <1>5 DEF Writing
<1>7. pc'[d] = "stat"
  BY <1>1 DEF MovesTo
<1> QED
  BY <1>6, <1>7 DEF CoverInv

LEMMA ApplyStatCovers ==
    ASSUME MergeAssumption, NoneIsNoRecord, MInv, MInv', Grows, FShape, slips' = {},
           NEW d \in Device, ApplyStat(d), NEW i \in Item, CoverInv(d, i)
    PROVE  CoverInv(d, i)'
<1>1. /\ DocsSame /\ MovesTo(d, "clear") /\ UNCHANGED <<file, queue, cursor>> /\ pc[d] = "stat"
      /\ Kept(d, i)' = Seen(d, i)'
      /\ i \notin DOMAIN todo[d] => Seen(d, i)' = Seen(d, i)
      /\ i \in DOMAIN todo[d] => file[d][i] = todo[d][i]
  <2>1. \A j \in Item :
          /\ Kept(d, j)' = Seen(d, j)'
          /\ Seen(d, j)' = Seen(d, j) \/ (j \in DOMAIN todo[d] /\ Seen(d, j)' = None)
          /\ j \in DOMAIN todo[d] => file[d][j] = todo[d][j] \/ "unseen" \in slips'
    BY ApplyStatEffect DEF MInv
  <2>2. /\ DocsSame /\ MovesTo(d, "clear") /\ UNCHANGED <<file, queue, cursor>> /\ pc[d] = "stat"
    BY ApplyStatEffect DEF MInv
  <2> QED BY <2>1, <2>2
<1>2. Materialize(d, i)' = Materialize(d, i)
  BY <1>1, SameMaterial DEF DocsSame
<1>3. Coming(d, i) => Coming(d, i)'
  BY <1>1, WayKept
<1>4. Writing(d, i)
  BY <1>1 DEF CoverInv
<1>5. i \in DOMAIN todo[d] => ~LagsKept(d, i)'
  BY <1>1, <1>2, <1>4 DEF LagsKept, Writing
<1>6. i \notin DOMAIN todo[d] /\ LagsKept(d, i)' => LagsKept(d, i)
  BY <1>1, <1>2, <1>4 DEF LagsKept, Writing
<1>7. Passed(d, i)'
  BY <1>1, <1>3, <1>4, <1>5, <1>6 DEF Writing, Passed
<1>8. pc'[d] = "clear"
  BY <1>1 DEF MovesTo
<1> QED
  BY <1>7, <1>8 DEF CoverInv

LEMMA ApplyClearCovers ==
    ASSUME MergeAssumption, MInv, MInv', Grows, FShape,
           NEW d \in Device, ApplyClear(d), NEW i \in Item, CoverInv(d, i)
    PROVE  CoverInv(d, i)'
<1>1. DocsSame /\ TextsSame /\ MovesTo(d, "idle") /\ UNCHANGED <<cursor>> /\ pc[d] = "clear"
  BY ApplyClearEffect DEF MInv
<1>2. Materialize(d, i)' = Materialize(d, i)
  BY <1>1, SameMaterial DEF DocsSame
<1>3. Coming(d, i) => Coming(d, i)'
  BY <1>1, ComingGrows
<1>4. Passed(d, i)
  BY <1>1 DEF CoverInv
<1>5. LagsKept(d, i)' => LagsKept(d, i)
  BY <1>1, <1>2 DEF LagsKept, TextsSame
<1>6. Calm(d, i)'
  BY <1>1, <1>3, <1>4, <1>5 DEF Passed, Calm, TextsSame
<1>7. pc'[d] = "idle"
  BY <1>1 DEF MovesTo
<1> QED
  BY <1>6, <1>7 DEF CoverInv

\* The process dies: what its apply had taken out of the queue's way is still queued.
LEMMA CrashCovers ==
    ASSUME MergeAssumption, MInv, MInv', Grows, FShape, slips' = {},
           NEW d \in Device, Crash(d), NEW i \in Item, CoverInv(d, i)
    PROVE  CoverInv(d, i)'
<1>1. /\ DocsSame /\ MovesTo(d, "start") /\ UNCHANGED <<file, queue, cursor>>
      /\ updates[d] = NoUpdates /\ Seen(d, i)' = Kept(d, i) /\ Kept(d, i)' = Kept(d, i)
  BY CrashEffect DEF MInv
<1>2. Materialize(d, i)' = Materialize(d, i)
  BY <1>1, SameMaterial DEF DocsSame
<1>3. (Queued(d, i) => Queued(d, i)') /\ (Coming(d, i) => Coming(d, i)')
  BY <1>1, WayKept
<1>4. LagsKept(d, i)' => LagsKept(d, i)
  BY <1>1, <1>2 DEF LagsKept
<1>5. LagsKept(d, i) => Queued(d, i) \/ Coming(d, i)
  <2>1. pc[d] \in Phases
    BY DEF FShape
  <2> QED BY <1>1, <2>1 DEF CoverInv, Phases, Calm, Folding, Writing, Passed
<1>6. Calm(d, i)'
  BY <1>1, <1>3, <1>4, <1>5 DEF Calm
<1>7. pc'[d] = "start"
  BY <1>1 DEF MovesTo
<1> QED
  BY <1>6, <1>7 DEF CoverInv

\* What the files' shadows and the documents agree on, for a device and an item.
RowInv(d, i) ==
    /\ QueueFirst(d) /\ FoldsSeen(d, i)
    /\ slips = {} => CoverInv(d, i)
FilesInv == FShape /\ \A d \in Device, i \in Item : RowInv(d, i)

LEMMA QueueFirstKept ==
    ASSUME MInv, Grows, NEW d \in Device, pc'[d] = pc[d], queue'[d] = queue[d], cursor'[d] = cursor[d],
           QueueFirst(d)
    PROVE  QueueFirst(d)'
<1> SUFFICES ASSUME pc'[d] = "cursor"
             PROVE  Dirty(log'[cursor'[d] + 1]) \subseteq queue'[d]
  BY DEF QueueFirst, Dirty, Empty
<1>1. cursor[d] < Len(log) /\ cursor[d] \in Nat /\ Len(log) \in Nat
  BY SeqFacts DEF MInv, ReceiptInv, Shape
<1>2. log'[cursor[d] + 1] = log[cursor[d] + 1]
  BY <1>1 DEF Grows
<1> QED
  BY <1>2 DEF QueueFirst

LEMMA RowKept ==
    ASSUME MergeAssumption, MInv, MInv', Grows, slips \subseteq slips', NEW d \in Device, NEW i \in Item,
           file'[d][i] = file[d][i], Seen(d, i)' = Seen(d, i), Kept(d, i)' = Kept(d, i),
           docs'[d][i] = docs[d][i], tombs'[d][i] = tombs[d][i],
           pc'[d] = pc[d], todo'[d] = todo[d], updates'[d] = updates[d],
           queue'[d] = queue[d], cursor'[d] = cursor[d], RowInv(d, i)
    PROVE  RowInv(d, i)'
<1>1. QueueFirst(d)'
  BY QueueFirstKept DEF RowInv
<1>2. FoldsSeen(d, i)'
  BY DEF RowInv, FoldsSeen
<1>3. slips' = {} => CoverInv(d, i)'
  BY CoverKept DEF RowInv
<1> QED
  BY <1>1, <1>2, <1>3 DEF RowInv

\* A step of one device leaves the others as they are.
LEMMA OthersKept ==
    ASSUME MergeAssumption, MInv, MInv', Grows, slips \subseteq slips', FilesInv, NEW d \in Device, OthersSame(d)
    PROVE  \A e \in Device \ {d}, i \in Item : RowInv(e, i)'
<1> SUFFICES ASSUME NEW e \in Device \ {d}, NEW i \in Item
             PROVE  RowInv(e, i)'
  OBVIOUS
<1>1. /\ file'[e][i] = file[e][i] /\ Seen(e, i)' = Seen(e, i) /\ Kept(e, i)' = Kept(e, i)
      /\ docs'[e][i] = docs[e][i] /\ tombs'[e][i] = tombs[e][i]
      /\ pc'[e] = pc[e] /\ todo'[e] = todo[e] /\ updates'[e] = updates[e]
      /\ queue'[e] = queue[e] /\ cursor'[e] = cursor[e]
  BY DEF OthersSame
<1>2. RowInv(e, i)
  BY DEF FilesInv
<1> QED
  BY <1>1, <1>2, RowKept

LEMMA UserWritesOne ==
    ASSUME NEW d \in Device, User(d)
    PROVE  \E i \in Item : \E text : UserWrites(d, i, text)
BY DEF User, Type, Erase, Delete, Undelete

LEMMA UserFiles ==
    ASSUME MergeAssumption, NoneIsNoRecord, MInv, MInv', Grows, slips \subseteq slips', FilesInv,
           NEW d \in Device, User(d)
    PROVE  FilesInv'
<1>1. PICK k \in Item : \E text : UserWrites(d, k, text)
  BY UserWritesOne
<1>2. PICK text : UserWrites(d, k, text)
  BY <1>1
<1>3. FShape
  BY DEF FilesInv
<1>4. \A e \in Device, j \in Item :
        /\ file'[e][j] = IF e = d /\ j = k THEN text ELSE file[e][j]
        /\ Seen(e, j)' = Seen(e, j) /\ Kept(e, j)' = Kept(e, j)
  BY <1>2, <1>3, UserEffect
<1>5. FShape' /\ UNCHANGED <<docs, tombs, queue, cursor, pc, todo, updates, log>>
  BY <1>2, <1>3, UserEffect
<1>6. ASSUME NEW e \in Device, NEW i \in Item
      PROVE  RowInv(e, i)'
  <2>0. RowInv(e, i)
    BY DEF FilesInv
  <2>1. CASE e = d /\ i = k
    <3>1. QueueFirst(e)'
      BY <1>5, <2>0, QueueFirstKept DEF RowInv
    <3>2. FoldsSeen(e, i)'
      BY <1>4, <1>5, <2>0 DEF RowInv, FoldsSeen
    <3>3. slips' = {} => CoverInv(e, i)'
      BY <1>2, <1>3, <2>0, <2>1, UserCovers DEF RowInv
    <3> QED BY <3>1, <3>2, <3>3 DEF RowInv
  <2>2. CASE ~(e = d /\ i = k)
    <3>1. file'[e][i] = file[e][i] /\ Seen(e, i)' = Seen(e, i) /\ Kept(e, i)' = Kept(e, i)
      BY <1>4, <2>2
    <3> QED BY <1>5, <2>0, <3>1, RowKept
  <2> QED BY <2>1, <2>2
<1> QED
  BY <1>5, <1>6 DEF FilesInv

\* What a step of the sync thread has to show: its own row.
LEMMA OwnRow ==
    ASSUME MergeAssumption, MInv, MInv', Grows, slips \subseteq slips', FilesInv, FShape',
           NEW d \in Device, OthersSame(d), \A i \in Item : RowInv(d, i)'
    PROVE  FilesInv'
BY OthersKept DEF FilesInv

LEMMA ScanFiles ==
    ASSUME MergeAssumption, NoneIsNoRecord, MInv, MInv', Grows, slips \subseteq slips', FilesInv,
           NEW d \in Device, Scan(d)
    PROVE  FilesInv'
<1>0. FShape /\ Shape
  BY DEF FilesInv, MInv
<1>1. /\ FShape' /\ OthersSame(d) /\ MovesTo(d, "fold")
      /\ \A i \in Item : i \in DOMAIN todo'[d] => todo'[d][i] = file[d][i] /\ Seen(d, i)' = file[d][i]
  BY <1>0, ScanEffect
<1>2. pc'[d] = "fold"
  BY <1>1 DEF MovesTo
<1>3. ASSUME NEW i \in Item
      PROVE  RowInv(d, i)'
  <2>0. RowInv(d, i)
    BY DEF FilesInv
  <2>1. QueueFirst(d)' /\ FoldsSeen(d, i)'
    BY <1>1, <1>2 DEF QueueFirst, FoldsSeen
  <2>2. slips' = {} => CoverInv(d, i)'
    BY <1>0, <2>0, ScanCovers DEF RowInv
  <2> QED BY <2>1, <2>2 DEF RowInv
<1> QED
  BY <1>1, <1>3, OwnRow

LEMMA FoldItemFiles ==
    ASSUME MergeAssumption, NoneIsNoRecord, MInv, MInv', Grows, slips \subseteq slips', FilesInv,
           NEW d \in Device, NEW k \in Item, FoldItem(d, k)
    PROVE  FilesInv'
<1>0. FShape /\ Shape
  BY DEF FilesInv, MInv
<1>1. /\ FShape' /\ OthersSame(d) /\ TextsSame /\ pc' = pc /\ pc[d] = "fold"
      /\ DOMAIN todo'[d] = DOMAIN todo[d] \ {k}
      /\ \A j \in DOMAIN todo'[d] : todo'[d][j] = todo[d][j]
  BY <1>0, FoldItemEffect
<1>2. ASSUME NEW i \in Item
      PROVE  RowInv(d, i)'
  <2>0. RowInv(d, i) /\ RowInv(d, k)
    BY DEF FilesInv
  <2>1. QueueFirst(d)' /\ FoldsSeen(d, i)'
    BY <1>1, <2>0 DEF RowInv, QueueFirst, FoldsSeen, TextsSame
  <2>2. slips' = {} => CoverInv(d, i)'
    BY <1>0, <2>0, FoldItemCovers DEF RowInv
  <2> QED BY <2>1, <2>2 DEF RowInv
<1> QED
  BY <1>1, <1>2, OwnRow

LEMMA FoldDeletedFiles ==
    ASSUME MergeAssumption, NoneIsNoRecord, MInv, MInv', Grows, slips \subseteq slips', FilesInv,
           NEW d \in Device, NEW k \in Item, FoldDeleted(d, k)
    PROVE  FilesInv'
<1>0. FShape /\ Shape
  BY DEF FilesInv, MInv
<1>1. /\ FShape' /\ OthersSame(d) /\ TextsSame /\ pc' = pc /\ pc[d] = "fold"
      /\ DOMAIN todo'[d] = DOMAIN todo[d] \ {k}
      /\ \A j \in DOMAIN todo'[d] : todo'[d][j] = todo[d][j]
  BY <1>0, FoldDeletedEffect
<1>2. ASSUME NEW i \in Item
      PROVE  RowInv(d, i)'
  <2>0. RowInv(d, i) /\ RowInv(d, k)
    BY DEF FilesInv
  <2>1. QueueFirst(d)' /\ FoldsSeen(d, i)'
    BY <1>1, <2>0 DEF RowInv, QueueFirst, FoldsSeen, TextsSame
  <2>2. slips' = {} => CoverInv(d, i)'
    BY <1>0, <2>0, FoldDeletedCovers DEF RowInv
  <2> QED BY <2>1, <2>2 DEF RowInv
<1> QED
  BY <1>1, <1>2, OwnRow

\* A step that ends neither in a fold nor before the cursor.
LEMMA PlainRow ==
    ASSUME NEW d \in Device, NEW i \in Item, NEW s \in Phases \ {"fold", "cursor"}, MovesTo(d, s),
           slips' = {} => CoverInv(d, i)'
    PROVE  RowInv(d, i)'
<1>1. pc'[d] = s
  BY DEF MovesTo
<1> QED
  BY <1>1 DEF RowInv, QueueFirst, FoldsSeen

LEMMA PlainFiles ==
    ASSUME MergeAssumption, NoneIsNoRecord, MInv, MInv', Grows, slips \subseteq slips', FilesInv,
           NEW d \in Device,
           SaveShadow(d) \/ QueuePush(d) \/ Receive(d) \/ MoveCursor(d)
               \/ ApplyCheck(d) \/ ApplyWrite(d) \/ ApplyStat(d) \/ ApplyClear(d) \/ Crash(d)
    PROVE  FilesInv'
<1>0. FShape /\ Shape /\ \A i \in Item : RowInv(d, i)
  BY DEF FilesInv, MInv
<1> DEFINE Done == FShape' /\ OthersSame(d) /\ \A i \in Item : RowInv(d, i)'
<1>1. ASSUME SaveShadow(d)
      PROVE  Done
  <2>1. FShape' /\ OthersSame(d) /\ (MovesTo(d, "idle") \/ MovesTo(d, "push"))
    BY <1>0, <1>1, SaveShadowEffect
  <2>2. \A i \in Item : slips' = {} => CoverInv(d, i)'
    BY <1>0, <1>1, SaveShadowCovers DEF RowInv
  <2> QED BY <2>1, <2>2, PlainRow DEF Phases
<1>2. ASSUME QueuePush(d)
      PROVE  Done
  <2>1. /\ FShape' /\ OthersSame(d) /\ DocsSame /\ TextsSame /\ MovesTo(d, "idle")
        /\ queue' = queue /\ cursor' = cursor /\ pc[d] = "push"
    BY <1>0, <1>2, QueuePushEffect
  <2>2. pc'[d] = "idle"
    BY <2>1 DEF MovesTo
  <2>3. \A i \in Item : slips' = {} => CoverInv(d, i)'
    <3> SUFFICES ASSUME NEW i \in Item, slips' = {}
                 PROVE  CoverInv(d, i)'
      OBVIOUS
    <3>1. Calm(d, i)
      BY <1>0, <2>1 DEF RowInv, CoverInv
    <3> QED BY <2>1, <2>2, <3>1, CalmStays
  <2> QED BY <2>1, <2>3, PlainRow DEF Phases
<1>3. ASSUME Receive(d)
      PROVE  Done
  <2>1. FShape' /\ OthersSame(d) /\ MovesTo(d, "queue")
    BY <1>0, <1>3, ReceiveEffect
  <2>2. \A i \in Item : slips' = {} => CoverInv(d, i)'
    BY <1>0, <1>3, ReceiveCovers DEF RowInv
  <2> QED BY <2>1, <2>2, PlainRow DEF Phases
<1>4. ASSUME MoveCursor(d)
      PROVE  Done
  <2>1. FShape' /\ OthersSame(d) /\ MovesTo(d, "idle")
    BY <1>0, <1>4, MoveCursorEffect
  <2>2. \A i \in Item : slips' = {} => CoverInv(d, i)'
    BY <1>0, <1>4, MoveCursorCovers DEF RowInv
  <2> QED BY <2>1, <2>2, PlainRow DEF Phases
<1>5. ASSUME ApplyCheck(d)
      PROVE  Done
  <2>1. FShape' /\ OthersSame(d) /\ MovesTo(d, "write")
    BY <1>0, <1>5, ApplyCheckEffect
  <2>2. \A i \in Item : slips' = {} => CoverInv(d, i)'
    BY <1>0, <1>5, ApplyCheckCovers DEF RowInv
  <2> QED BY <2>1, <2>2, PlainRow DEF Phases
<1>6. ASSUME ApplyWrite(d)
      PROVE  Done
  <2>1. FShape' /\ OthersSame(d) /\ MovesTo(d, "stat")
    BY <1>0, <1>6, ApplyWriteEffect
  <2>2. \A i \in Item : slips' = {} => CoverInv(d, i)'
    BY <1>0, <1>6, ApplyWriteCovers DEF RowInv
  <2> QED BY <2>1, <2>2, PlainRow DEF Phases
<1>7. ASSUME ApplyStat(d)
      PROVE  Done
  <2>1. FShape' /\ OthersSame(d) /\ MovesTo(d, "clear")
    BY <1>0, <1>7, ApplyStatEffect
  <2>2. \A i \in Item : slips' = {} => CoverInv(d, i)'
    BY <1>0, <1>7, ApplyStatCovers DEF RowInv
  <2> QED BY <2>1, <2>2, PlainRow DEF Phases
<1>8. ASSUME ApplyClear(d)
      PROVE  Done
  <2>1. FShape' /\ OthersSame(d) /\ MovesTo(d, "idle")
    BY <1>0, <1>8, ApplyClearEffect
  <2>2. \A i \in Item : slips' = {} => CoverInv(d, i)'
    BY <1>0, <1>8, ApplyClearCovers DEF RowInv
  <2> QED BY <2>1, <2>2, PlainRow DEF Phases
<1>9. ASSUME Crash(d)
      PROVE  Done
  <2>1. FShape' /\ OthersSame(d) /\ MovesTo(d, "start")
    BY <1>0, <1>9, CrashEffect
  <2>2. \A i \in Item : slips' = {} => CoverInv(d, i)'
    BY <1>0, <1>9, CrashCovers DEF RowInv
  <2> QED BY <2>1, <2>2, PlainRow DEF Phases
<1>10. Done
  <2> HIDE DEF Done
  <2> QED BY <1>1, <1>2, <1>3, <1>4, <1>5, <1>6, <1>7, <1>8, <1>9
<1> QED
  BY <1>10, OwnRow

LEMMA QueueDirtyFiles ==
    ASSUME MergeAssumption, NoneIsNoRecord, MInv, MInv', Grows, slips \subseteq slips', FilesInv,
           NEW d \in Device, QueueDirty(d)
    PROVE  FilesInv'
<1>0. FShape /\ Shape /\ \A i \in Item : RowInv(d, i)
  BY DEF FilesInv, MInv
<1>1. /\ FShape' /\ OthersSame(d) /\ DocsSame /\ TextsSame /\ MovesTo(d, "cursor")
      /\ cursor' = cursor /\ log' = log /\ pc[d] = "queue"
      /\ queue'[d] = queue[d] \union Dirty(log[cursor[d] + 1])
  BY <1>0, QueueDirtyEffect
<1>2. pc'[d] = "cursor"
  BY <1>1 DEF MovesTo
<1>3. QueueFirst(d)'
  <2>1. Dirty(log'[cursor'[d] + 1]) \subseteq queue'[d]
    BY <1>1
  <2> QED BY <2>1 DEF QueueFirst, Dirty, Empty
<1>4. ASSUME NEW i \in Item
      PROVE  RowInv(d, i)'
  <2>1. FoldsSeen(d, i)'
    BY <1>2 DEF FoldsSeen
  <2>2. slips' = {} => CoverInv(d, i)'
    <3> SUFFICES ASSUME slips' = {}
                 PROVE  CoverInv(d, i)'
      OBVIOUS
    <3>1. Calm(d, i)
      BY <1>0, <1>1 DEF RowInv, CoverInv
    <3> QED BY <1>1, <1>2, <3>1, CalmStays
  <2> QED BY <1>3, <2>1, <2>2 DEF RowInv
<1> QED
  BY <1>1, <1>4, OwnRow

LEMMA DeliverFiles ==
    ASSUME MergeAssumption, MInv, MInv', Grows, slips \subseteq slips', FilesInv,
           NEW d \in Device, Deliver(d)
    PROVE  FilesInv'
<1>1. FShape' /\ DocsSame /\ TextsSame /\ UNCHANGED <<pc, todo, updates, queue, cursor>>
  BY DeliverEffect DEF FilesInv
<1>2. ASSUME NEW e \in Device, NEW i \in Item
      PROVE  RowInv(e, i)'
  <2>1. /\ file'[e][i] = file[e][i] /\ Seen(e, i)' = Seen(e, i) /\ Kept(e, i)' = Kept(e, i)
        /\ docs'[e][i] = docs[e][i] /\ tombs'[e][i] = tombs[e][i]
    BY <1>1 DEF DocsSame, TextsSame
  <2>2. RowInv(e, i)
    BY DEF FilesInv
  <2> QED BY <1>1, <2>1, <2>2, RowKept
<1> QED
  BY <1>1, <1>2 DEF FilesInv

LEMMA InitFiles == Init => FilesInv
<1> SUFFICES ASSUME Init
             PROVE  FilesInv
  OBVIOUS
<1>1. FShape
  <2>1. Cells(file) /\ Cells(shadow) /\ Cells(saved)
    BY DEF Init, Cells
  <2>2. Cell(todo) /\ Cell(queue)
    BY DEF Init, Cell
  <2> QED BY <2>1, <2>2 DEF Init, FShape, Entries, IsEntry, Phases
<1>2. ASSUME NEW d \in Device, NEW i \in Item
      PROVE  RowInv(d, i)
  <2>1. pc[d] = "start" /\ file[d][i] = None /\ docs[d][i] = None /\ shadow[d][i] = None /\ saved[d][i] = None
    BY DEF Init
  <2>2. Calm(d, i)
    BY <2>1 DEF Calm, Seen, Kept, LagsKept, Materialize
  <2> QED BY <2>1, <2>2 DEF RowInv, QueueFirst, FoldsSeen, CoverInv
<1> QED
  BY <1>1, <1>2 DEF FilesInv

LEMMA StepFiles ==
    ASSUME MergeAssumption, NoneIsNoRecord, MInv, FilesInv, [Next]_vars
    PROVE  FilesInv'
<1>1. MInv' /\ Grows /\ slips \subseteq slips'
  BY StepMInv, SlipsGrow
<1>2. CASE UNCHANGED vars
  <2>1. /\ UNCHANGED <<file, shadow, saved, docs, tombs, pc, todo, updates, queue, cursor>>
    BY <1>2 DEF vars, disk, memory
  <2>2. FShape'
    BY <2>1, SameTexts DEF FilesInv, FShape, Cell, Phases
  <2>3. ASSUME NEW e \in Device, NEW i \in Item
        PROVE  RowInv(e, i)'
    <3>1. Seen(e, i)' = Seen(e, i) /\ Kept(e, i)' = Kept(e, i)
      BY <2>1, SameTexts DEF TextsSame
    <3>2. RowInv(e, i)
      BY DEF FilesInv
    <3> QED BY <1>1, <2>1, <3>1, <3>2, RowKept
  <2> QED BY <2>2, <2>3 DEF FilesInv
<1>3. ASSUME NEW d \in Device, User(d) \/ Sync(d) \/ Crash(d)
      PROVE  FilesInv'
  <2>1. CASE User(d)
    BY <1>1, <2>1, UserFiles
  <2>2. CASE Scan(d)
    BY <1>1, <2>2, ScanFiles
  <2>3. CASE Fold(d)
    <3>1. PICK i \in Item : FoldItem(d, i) \/ FoldDeleted(d, i)
      BY <2>3 DEF Fold
    <3> QED BY <1>1, <3>1, FoldItemFiles, FoldDeletedFiles
  <2>4. CASE QueueDirty(d)
    BY <1>1, <2>4, QueueDirtyFiles
  <2>5. CASE Deliver(d)
    BY <1>1, <2>5, DeliverFiles
  <2>6. CASE SaveShadow(d) \/ QueuePush(d) \/ Receive(d) \/ MoveCursor(d)
                \/ ApplyCheck(d) \/ ApplyWrite(d) \/ ApplyStat(d) \/ ApplyClear(d) \/ Crash(d)
    BY <1>1, <2>6, PlainFiles
  <2> QED BY <1>3, <2>1, <2>2, <2>3, <2>4, <2>5, <2>6 DEF Sync
<1> QED
  BY <1>2, <1>3 DEF Next

\* At every place the sync thread can be, a file that lags behind its document is
\* owed the merged text by somebody, and apply_queue.json is written before cursor.json.
THEOREM FilesInvariance ==
    ASSUME NoneIsNoRecord
    PROVE  Spec => []FilesInv
<1>1. Init => FilesInv
  BY InitFiles
<1>2. MInv /\ FilesInv /\ [Next]_vars => FilesInv'
  BY StepFiles, MergeAssumption
<1> QED
  BY <1>1, <1>2, MergeInvariance, PTL DEF Spec

\* A file that is as the sync thread left it, and is not what the documents
\* say, is queued or comes again, wherever the process has died in between: but
\* for the named slips, apply_queue.json loses no item (engine.rs:545, apply.rs:236).
THEOREM LaggingFilesCovered ==
    ASSUME NoneIsNoRecord
    PROVE  Spec => []QueueCovers
<1>1. FilesInv => QueueCovers
  <2> SUFFICES ASSUME FilesInv, slips = {}, NEW d \in Device, NEW i \in Item, pc[d] = "idle",
                      file[d][i] = TextIn(saved[d][i]), file[d][i] # Materialize(d, i)
               PROVE  i \in Candidates(d, Unapplied(d))
    BY DEF QueueCovers
  <2>1. CoverInv(d, i)
    BY DEF FilesInv, RowInv
  <2>2. Queued(d, i) \/ Coming(d, i)
    BY <2>1 DEF CoverInv, Calm, LagsKept, Kept
  <2> QED BY <2>2, UnappliedSplit
<1> QED
  BY <1>1, FilesInvariance, PTL

-----------------------------------------------------------------------------
(* What a user typed is in the file or has been folded                      *)

\* None holds no atom.
NoneHoldsNothing == \A a \in Nat : a \notin None

\* A text of which nothing is missing in a set of atoms.
Within(text, atoms) == text # None => text \subseteq atoms
AtomsOf(d, i) == IF docs[d][i] = None THEN {} ELSE {o.atom : o \in docs[d][i].ops}

\* What was seen has been folded, or is about to be; what an apply is about to
\* overwrite has been.
ReadInv(d, i) ==
    /\ Within(Kept(d, i), AtomsOf(d, i))
    /\ (pc[d] = "fold" /\ i \in DOMAIN todo[d]) \/ Within(Seen(d, i), AtomsOf(d, i))
    /\ pc[d] = "write" /\ i \in DOMAIN todo[d] /\ "overwritten" \notin slips
         => Within(file[d][i], AtomsOf(d, i))

Met(w) ==
    \/ file[w[1]][w[2]] # None /\ w[3] \in file[w[1]][w[2]]
    \/ w[3] \in AtomsOf(w[1], w[2])
WantedInv ==
    /\ edits \in Nat
    /\ \A w \in wanted : w[1] \in Device /\ w[2] \in Item /\ w[3] \in Nat
    /\ "overwritten" \notin slips => \A w \in wanted : Met(w)
EditsInv == WantedInv /\ \A d \in Device, i \in Item : ReadInv(d, i)

\* The atoms of a document stay in it.
LEMMA AtomsGrow ==
    ASSUME Grows, NEW d \in Device, NEW i \in Item
    PROVE  AtomsOf(d, i) \subseteq AtomsOf(d, i)'
<1>1. DocGrows(docs[d][i], docs'[d][i])
  BY DEF Grows
<1> QED
  BY <1>1 DEF AtomsOf, DocGrows

\* The document that a text is folded into has all of its atoms.
LEMMA FoldReads ==
    ASSUME NoneIsNoRecord, NEW d, NEW x, NEW text
    PROVE  /\ ApplyLocalText(d, x, text) # None
           /\ text \subseteq {o.atom : o \in ApplyLocalText(d, x, text).ops}
<1>1. ApplyLocalText(d, x, text) # None
  BY DEF ApplyLocalText, NoneIsNoRecord
<1>2. CASE x = None
  <2>1. ApplyLocalText(d, x, text).ops = BootOps(text)
    BY <1>2 DEF ApplyLocalText
  <2>2. ASSUME NEW a \in text
        PROVE  \E o \in BootOps(text) : o.atom = a
    <3>1. [atom |-> a, dev |-> None, at |-> text] \in BootOps(text)
      BY DEF BootOps
    <3> QED BY <3>1
  <2> QED BY <1>1, <2>1, <2>2
<1>3. CASE x # None
  <2>1. ApplyLocalText(d, x, text).ops = x.ops \union NewOps(d, x, text \ TextOf(x))
    BY <1>3 DEF ApplyLocalText
  <2>2. ASSUME NEW a \in text
        PROVE  \E o \in x.ops \union NewOps(d, x, text \ TextOf(x)) : o.atom = a
    <3>1. CASE a \in TextOf(x)
      BY <3>1 DEF TextOf
    <3>2. CASE a \notin TextOf(x)
      <4>1. \E c : [atom |-> a, dev |-> d, at |-> {c}] \in NewOps(d, x, text \ TextOf(x))
        BY <3>2 DEF NewOps
      <4> QED BY <4>1
    <3> QED BY <3>1, <3>2
  <2> QED BY <1>1, <2>1, <2>2
<1> QED
  BY <1>2, <1>3

LEMMA MaterialWithin ==
    ASSUME NEW d \in Device, NEW i \in Item
    PROVE  Within(Materialize(d, i), AtomsOf(d, i))
BY DEF Within, Materialize, TextOf, AtomsOf

\* A row whose texts, delta and place stay.
LEMMA ReadKept ==
    ASSUME Grows, slips \subseteq slips', NEW d \in Device, NEW i \in Item,
           Seen(d, i)' = Seen(d, i), Kept(d, i)' = Kept(d, i), pc'[d] = pc[d], todo'[d] = todo[d],
           file'[d][i] = file[d][i] \/ (pc[d] = "write" /\ i \in DOMAIN todo[d] => "overwritten" \in slips'),
           ReadInv(d, i)
    PROVE  ReadInv(d, i)'
<1>1. AtomsOf(d, i) \subseteq AtomsOf(d, i)'
  BY AtomsGrow
<1>2. Within(Kept(d, i)', AtomsOf(d, i)')
  BY <1>1 DEF ReadInv, Within
<1>3. (pc'[d] = "fold" /\ i \in DOMAIN todo'[d]) \/ Within(Seen(d, i)', AtomsOf(d, i)')
  BY <1>1 DEF ReadInv, Within
<1>4. pc'[d] = "write" /\ i \in DOMAIN todo'[d] /\ "overwritten" \notin slips'
        => Within(file'[d][i], AtomsOf(d, i)')
  BY <1>1 DEF ReadInv, Within
<1> QED
  BY <1>2, <1>3, <1>4 DEF ReadInv, Within

\* A step that neither starts nor ends in a fold, and starts no write.
LEMMA ReadMoves ==
    ASSUME Grows, NEW d \in Device, NEW i \in Item,
           pc[d] # "fold" \/ DOMAIN todo[d] = {}, pc'[d] \notin {"fold", "write"},
           Seen(d, i)' \in {Seen(d, i), Kept(d, i), None}, Kept(d, i)' \in {Kept(d, i), Seen(d, i)'},
           ReadInv(d, i)
    PROVE  ReadInv(d, i)'
<1>1. AtomsOf(d, i) \subseteq AtomsOf(d, i)'
  BY AtomsGrow
<1>2. Within(Kept(d, i), AtomsOf(d, i)') /\ Within(Seen(d, i), AtomsOf(d, i)') /\ Within(None, AtomsOf(d, i)')
  BY <1>1 DEF ReadInv, Within
<1>3. Within(Seen(d, i)', AtomsOf(d, i)') /\ Within(Kept(d, i)', AtomsOf(d, i)')
  BY <1>2
<1> QED
  BY <1>3 DEF ReadInv, Within

LEMMA OthersRead ==
    ASSUME Grows, slips \subseteq slips', EditsInv, NEW d \in Device, OthersSame(d)
    PROVE  \A e \in Device \ {d}, i \in Item : ReadInv(e, i)'
<1> SUFFICES ASSUME NEW e \in Device \ {d}, NEW i \in Item
             PROVE  ReadInv(e, i)'
  OBVIOUS
<1>1. /\ file'[e][i] = file[e][i] /\ Seen(e, i)' = Seen(e, i) /\ Kept(e, i)' = Kept(e, i)
      /\ pc'[e] = pc[e] /\ todo'[e] = todo[e]
  BY DEF OthersSame
<1>2. ReadInv(e, i)
  BY DEF EditsInv
<1> QED
  BY <1>1, <1>2, ReadKept

\* What was met stays met where the file stays.
LEMMA MetStays ==
    ASSUME Grows, NEW w, w[1] \in Device, w[2] \in Item, Met(w),
           file'[w[1]][w[2]] = file[w[1]][w[2]] \/ w[3] \in AtomsOf(w[1], w[2])
    PROVE  Met(w)'
<1>1. AtomsOf(w[1], w[2]) \subseteq AtomsOf(w[1], w[2])'
  BY AtomsGrow
<1> QED
  BY <1>1 DEF Met

\* What a step of the sync thread has to show: its own row, and whose file it writes.
LEMMA OwnRead ==
    ASSUME Grows, slips \subseteq slips', EditsInv, NEW d \in Device, OthersSame(d),
           wanted' = wanted, edits' = edits, \A i \in Item : ReadInv(d, i)',
           \A i \in Item : file'[d][i] = file[d][i]
               \/ ("overwritten" \notin slips => Within(file[d][i], AtomsOf(d, i)))
    PROVE  EditsInv'
<1>1. \A e \in Device, i \in Item : ReadInv(e, i)'
  BY OthersRead
<1>2. ASSUME NEW w \in wanted, "overwritten" \notin slips'
      PROVE  Met(w)'
  <2>1. w[1] \in Device /\ w[2] \in Item /\ Met(w)
    BY <1>2 DEF EditsInv, WantedInv
  <2>2. file'[w[1]][w[2]] = file[w[1]][w[2]] \/ w[3] \in AtomsOf(w[1], w[2])
    <3>1. CASE w[1] # d
      BY <2>1, <3>1 DEF OthersSame
    <3>2. CASE w[1] = d
      BY <1>2, <2>1, <3>2 DEF Met, Within
    <3> QED BY <3>1, <3>2
  <2> QED BY <2>1, <2>2, MetStays
<1>3. WantedInv'
  BY <1>2 DEF EditsInv, WantedInv
<1> QED
  BY <1>1, <1>3 DEF EditsInv

LEMMA ScanRead ==
    ASSUME NoneIsNoRecord, MInv, FShape, Grows, slips \subseteq slips', EditsInv, NEW d \in Device, Scan(d)
    PROVE  EditsInv'
<1>1. /\ OthersSame(d) /\ MovesTo(d, "fold") /\ pc[d] \in {"start", "idle"} /\ file' = file
      /\ \A i \in Item : Kept(d, i)' = Kept(d, i) /\ (i \notin DOMAIN todo'[d] => Seen(d, i)' = Seen(d, i))
  BY ScanEffect DEF MInv
<1>2. wanted' = wanted /\ edits' = edits
  BY DEF Scan, users
<1>3. pc'[d] = "fold"
  BY <1>1 DEF MovesTo
<1>4. ASSUME NEW i \in Item
      PROVE  ReadInv(d, i)'
  <2>1. AtomsOf(d, i) \subseteq AtomsOf(d, i)'
    BY AtomsGrow
  <2>2. Within(Kept(d, i), AtomsOf(d, i)) /\ Within(Seen(d, i), AtomsOf(d, i))
    BY <1>1 DEF EditsInv, ReadInv
  <2> QED BY <1>1, <1>3, <2>1, <2>2 DEF ReadInv, Within
<1> QED
  BY <1>1, <1>2, <1>4, OwnRead

LEMMA FoldItemRead ==
    ASSUME NoneIsNoRecord, MInv, FilesInv, Grows, slips \subseteq slips', EditsInv,
           NEW d \in Device, NEW k \in Item, FoldItem(d, k)
    PROVE  EditsInv'
<1>1. /\ OthersSame(d) /\ TextsSame /\ pc' = pc /\ pc[d] = "fold" /\ k \in DOMAIN todo[d]
      /\ DOMAIN todo'[d] = DOMAIN todo[d] \ {k}
      /\ docs'[d][k] = ApplyLocalText(d, docs[d][k], todo[d][k])
  BY FoldItemEffect DEF MInv, FilesInv
<1>2. wanted' = wanted /\ edits' = edits
  BY DEF FoldItem, users
<1>3. Within(Seen(d, k), AtomsOf(d, k)')
  <2>1. Seen(d, k) = todo[d][k]
    BY <1>1 DEF FilesInv, RowInv, FoldsSeen
  <2>2. /\ docs'[d][k] # None
        /\ todo[d][k] \subseteq {o.atom : o \in docs'[d][k].ops}
    BY <1>1, FoldReads
  <2> QED BY <2>1, <2>2 DEF Within, AtomsOf
<1>4. ASSUME NEW i \in Item
      PROVE  ReadInv(d, i)'
  <2>1. AtomsOf(d, i) \subseteq AtomsOf(d, i)'
    BY AtomsGrow
  <2>2. /\ Within(Kept(d, i), AtomsOf(d, i))
        /\ i \in DOMAIN todo[d] \/ Within(Seen(d, i), AtomsOf(d, i))
    BY <1>1 DEF EditsInv, ReadInv
  <2>3. Seen(d, i)' = Seen(d, i) /\ Kept(d, i)' = Kept(d, i)
    BY <1>1 DEF TextsSame
  <2>4. i \in DOMAIN todo'[d] \/ Within(Seen(d, i), AtomsOf(d, i)')
    <3>1. CASE i = k
      BY <1>3, <3>1
    <3>2. CASE i # k
      BY <1>1, <2>1, <2>2, <3>2 DEF Within
    <3> QED BY <3>1, <3>2
  <2> QED BY <1>1, <2>1, <2>2, <2>3, <2>4 DEF ReadInv, Within
<1> QED
  BY <1>1, <1>2, <1>4, OwnRead DEF TextsSame

LEMMA FoldDeletedRead ==
    ASSUME MInv, FilesInv, Grows, slips \subseteq slips', EditsInv,
           NEW d \in Device, NEW k \in Item, FoldDeleted(d, k)
    PROVE  EditsInv'
<1>1. /\ OthersSame(d) /\ TextsSame /\ pc' = pc /\ pc[d] = "fold" /\ k \in DOMAIN todo[d]
      /\ todo[d][k] = None /\ DOMAIN todo'[d] = DOMAIN todo[d] \ {k}
  BY FoldDeletedEffect DEF MInv, FilesInv
<1>2. wanted' = wanted /\ edits' = edits
  BY DEF FoldDeleted, users
<1>3. Seen(d, k) = None
  BY <1>1 DEF FilesInv, RowInv, FoldsSeen
<1>4. ASSUME NEW i \in Item
      PROVE  ReadInv(d, i)'
  <2>1. AtomsOf(d, i) \subseteq AtomsOf(d, i)'
    BY AtomsGrow
  <2>2. /\ Within(Kept(d, i), AtomsOf(d, i))
        /\ i \in DOMAIN todo[d] \/ Within(Seen(d, i), AtomsOf(d, i))
    BY <1>1 DEF EditsInv, ReadInv
  <2>3. Seen(d, i)' = Seen(d, i) /\ Kept(d, i)' = Kept(d, i)
    BY <1>1 DEF TextsSame
  <2>4. i \in DOMAIN todo'[d] \/ Within(Seen(d, i), AtomsOf(d, i)')
    BY <1>1, <1>3, <2>1, <2>2 DEF Within
  <2> QED BY <1>1, <2>1, <2>2, <2>3, <2>4 DEF ReadInv, Within
<1> QED
  BY <1>1, <1>2, <1>4, OwnRead DEF TextsSame

LEMMA ApplyCheckRead ==
    ASSUME NoneIsNoRecord, MInv, FShape, Grows, slips \subseteq slips', EditsInv, NEW d \in Device, ApplyCheck(d)
    PROVE  EditsInv'
<1>1. /\ OthersSame(d) /\ MovesTo(d, "write") /\ pc[d] = "idle" /\ file' = file
      /\ DOMAIN todo'[d] = ToWrite(d)
      /\ \A i \in Item : /\ Kept(d, i)' = Kept(d, i)
                         /\ Seen(d, i)' = IF i \in ToWrite(d) THEN Materialize(d, i) ELSE Seen(d, i)
  BY ApplyCheckEffect DEF MInv
<1>2. wanted' = wanted /\ edits' = edits
  BY DEF ApplyCheck, users
<1>3. pc'[d] = "write"
  BY <1>1 DEF MovesTo
<1>4. ASSUME NEW i \in Item
      PROVE  ReadInv(d, i)'
  <2>1. AtomsOf(d, i) \subseteq AtomsOf(d, i)'
    BY AtomsGrow
  <2>2. Within(Kept(d, i), AtomsOf(d, i)) /\ Within(Seen(d, i), AtomsOf(d, i))
    BY <1>1 DEF EditsInv, ReadInv
  <2>3. Within(Materialize(d, i), AtomsOf(d, i))
    BY MaterialWithin
  <2>4. i \in ToWrite(d) => file[d][i] = Seen(d, i)
    BY DEF ToWrite, Seen
  <2>5. /\ Within(Kept(d, i)', AtomsOf(d, i)') /\ Within(Seen(d, i)', AtomsOf(d, i)')
        /\ i \in ToWrite(d) => Within(file'[d][i], AtomsOf(d, i)')
    BY <1>1, <2>1, <2>2, <2>3, <2>4 DEF Within
  <2> QED BY <1>1, <1>3, <2>5 DEF ReadInv, Within
<1> QED
  BY <1>1, <1>2, <1>4, OwnRead

LEMMA ApplyWriteRead ==
    ASSUME NoneIsNoRecord, MInv, FShape, Grows, slips \subseteq slips', EditsInv, NEW d \in Device, ApplyWrite(d)
    PROVE  EditsInv'
<1>1. /\ OthersSame(d) /\ MovesTo(d, "stat") /\ pc[d] = "write"
      /\ \A i \in Item : /\ file'[d][i] = IF i \in DOMAIN todo[d] THEN todo[d][i] ELSE file[d][i]
                         /\ Seen(d, i)' = Seen(d, i) /\ Kept(d, i)' = Kept(d, i)
  BY ApplyWriteEffect DEF MInv
<1>2. wanted' = wanted /\ edits' = edits
  BY DEF ApplyWrite, users
<1>3. pc'[d] = "stat"
  BY <1>1 DEF MovesTo
<1>4. ASSUME NEW i \in Item
      PROVE  ReadInv(d, i)'
  <2>1. ReadInv(d, i)
    BY DEF EditsInv
  <2> QED BY <1>1, <1>3, <2>1, ReadMoves
<1>5. \A i \in Item : file'[d][i] = file[d][i]
                         \/ ("overwritten" \notin slips => Within(file[d][i], AtomsOf(d, i)))
  BY <1>1 DEF EditsInv, ReadInv
<1> QED
  BY <1>1, <1>2, <1>4, <1>5, OwnRead

LEMMA SaveShadowRead ==
    ASSUME MInv, FShape, Grows, slips \subseteq slips', EditsInv, NEW d \in Device, SaveShadow(d)
    PROVE  EditsInv'
<1>1. /\ OthersSame(d) /\ DOMAIN todo[d] = {} /\ file' = file
      /\ MovesTo(d, "idle") \/ MovesTo(d, "push")
      /\ \A i \in Item : Seen(d, i)' = Seen(d, i) /\ Kept(d, i)' = Seen(d, i)
  BY SaveShadowEffect DEF MInv
<1>2. wanted' = wanted /\ edits' = edits
  BY DEF SaveShadow, users
<1>3. pc'[d] \in {"idle", "push"}
  BY <1>1 DEF MovesTo
<1>4. ASSUME NEW i \in Item
      PROVE  ReadInv(d, i)'
  <2>1. ReadInv(d, i)
    BY DEF EditsInv
  <2> QED BY <1>1, <1>3, <2>1, ReadMoves
<1> QED
  BY <1>1, <1>2, <1>4, OwnRead

\* Steps that leave the texts alone.
LEMMA MoveRead ==
    ASSUME MInv, FShape, Grows, slips \subseteq slips', EditsInv, NEW d \in Device,
           QueuePush(d) \/ Receive(d) \/ QueueDirty(d) \/ MoveCursor(d) \/ ApplyClear(d)
    PROVE  EditsInv'
<1>1. OthersSame(d) /\ TextsSame /\ pc[d] # "fold" /\ pc'[d] \notin {"fold", "write"}
  <2>1. \E s \in {"idle", "queue", "cursor"} : OthersSame(d) /\ TextsSame /\ pc[d] # "fold" /\ MovesTo(d, s)
    <3>1. CASE QueuePush(d)
      BY <3>1, QueuePushEffect DEF MInv
    <3>2. CASE Receive(d)
      BY <3>2, ReceiveEffect DEF MInv
    <3>3. CASE QueueDirty(d)
      BY <3>3, QueueDirtyEffect DEF MInv
    <3>4. CASE MoveCursor(d)
      BY <3>4, MoveCursorEffect DEF MInv
    <3>5. CASE ApplyClear(d)
      BY <3>5, ApplyClearEffect DEF MInv
    <3> QED BY <3>1, <3>2, <3>3, <3>4, <3>5
  <2> QED BY <2>1 DEF MovesTo
<1>2. wanted' = wanted /\ edits' = edits
  BY DEF QueuePush, Receive, QueueDirty, MoveCursor, ApplyClear, users
<1>3. ASSUME NEW i \in Item
      PROVE  ReadInv(d, i)'
  <2>1. ReadInv(d, i)
    BY DEF EditsInv
  <2>2. Seen(d, i)' = Seen(d, i) /\ Kept(d, i)' = Kept(d, i)
    BY <1>1 DEF TextsSame
  <2> QED BY <1>1, <2>1, <2>2, ReadMoves
<1> QED
  BY <1>1, <1>2, <1>3, OwnRead DEF TextsSame

LEMMA ApplyStatRead ==
    ASSUME NoneIsNoRecord, MInv, FShape, Grows, slips \subseteq slips', EditsInv, NEW d \in Device, ApplyStat(d)
    PROVE  EditsInv'
<1>1. /\ OthersSame(d) /\ MovesTo(d, "clear") /\ file' = file /\ pc[d] = "stat"
      /\ \A i \in Item : Kept(d, i)' = Seen(d, i)' /\ Seen(d, i)' \in {Seen(d, i), None}
  BY ApplyStatEffect DEF MInv
<1>2. wanted' = wanted /\ edits' = edits
  BY DEF ApplyStat, users
<1>3. pc'[d] = "clear"
  BY <1>1 DEF MovesTo
<1>4. ASSUME NEW i \in Item
      PROVE  ReadInv(d, i)'
  <2>1. AtomsOf(d, i) \subseteq AtomsOf(d, i)'
    BY AtomsGrow
  <2>2. Within(Seen(d, i), AtomsOf(d, i)') /\ Within(None, AtomsOf(d, i)')
    BY <1>1, <2>1 DEF EditsInv, ReadInv, Within
  <2>3. Within(Seen(d, i)', AtomsOf(d, i)') /\ Within(Kept(d, i)', AtomsOf(d, i)')
    BY <1>1, <2>2
  <2> QED BY <1>3, <2>3 DEF ReadInv, Within
<1> QED
  BY <1>1, <1>2, <1>4, OwnRead

LEMMA CrashRead ==
    ASSUME MInv, FShape, Grows, slips \subseteq slips', EditsInv, NEW d \in Device, Crash(d)
    PROVE  EditsInv'
<1>1. /\ OthersSame(d) /\ MovesTo(d, "start") /\ file' = file
      /\ \A i \in Item : Seen(d, i)' = Kept(d, i) /\ Kept(d, i)' = Kept(d, i)
  BY CrashEffect DEF MInv
<1>2. wanted' = wanted /\ edits' = edits
  BY DEF Crash
<1>3. pc'[d] = "start"
  BY <1>1 DEF MovesTo
<1>4. ASSUME NEW i \in Item
      PROVE  ReadInv(d, i)'
  <2>1. AtomsOf(d, i) \subseteq AtomsOf(d, i)'
    BY AtomsGrow
  <2>2. Within(Kept(d, i), AtomsOf(d, i))
    BY DEF EditsInv, ReadInv
  <2> QED BY <1>1, <1>3, <2>1, <2>2 DEF ReadInv, Within
<1> QED
  BY <1>1, <1>2, <1>4, OwnRead

\* Steps after which every text, delta and place is as it was.
LEMMA StillRead ==
    ASSUME Grows, slips \subseteq slips', EditsInv, TextsSame, wanted' = wanted, edits' = edits,
           pc' = pc, todo' = todo
    PROVE  EditsInv'
<1>1. ASSUME NEW e \in Device, NEW i \in Item
      PROVE  ReadInv(e, i)'
  <2>1. file'[e][i] = file[e][i] /\ Seen(e, i)' = Seen(e, i) /\ Kept(e, i)' = Kept(e, i)
    BY DEF TextsSame
  <2>2. ReadInv(e, i)
    BY DEF EditsInv
  <2> QED BY <2>1, <2>2, ReadKept
<1>2. ASSUME NEW w \in wanted, "overwritten" \notin slips'
      PROVE  Met(w)'
  <2>1. w[1] \in Device /\ w[2] \in Item /\ Met(w)
    BY <1>2 DEF EditsInv, WantedInv
  <2>2. file'[w[1]][w[2]] = file[w[1]][w[2]]
    BY <2>1 DEF TextsSame
  <2> QED BY <2>1, <2>2, MetStays
<1>3. WantedInv'
  BY <1>2 DEF EditsInv, WantedInv
<1> QED
  BY <1>1, <1>3 DEF EditsInv

\* A user's write: what was met stays met, unless it was in the file and is not in the text.
LEMMA UserReads ==
    ASSUME NoneIsNoRecord, NoneHoldsNothing, FShape, Grows, slips \subseteq slips', EditsInv,
           NEW d \in Device, NEW i \in Item, NEW text, UserWrites(d, i, text)
    PROVE  /\ \A e \in Device, j \in Item : ReadInv(e, j)'
           /\ edits' \in Nat /\ file'[d][i] = text
           /\ "overwritten" \notin slips' =>
                \A w \in wanted : w[1] # d \/ w[2] # i \/ w[3] \notin file[d][i] \/ w[3] \in text => Met(w)'
<1>1. /\ \A e \in Device, j \in Item :
           /\ file'[e][j] = IF e = d /\ j = i THEN text ELSE file[e][j]
           /\ Seen(e, j)' = Seen(e, j) /\ Kept(e, j)' = Kept(e, j)
      /\ TooLate(d, i) \subseteq slips' /\ pc' = pc /\ todo' = todo
  BY UserEffect
<1>2. pc[d] = "write" /\ i \in DOMAIN todo[d] => "overwritten" \in slips'
  BY <1>1 DEF TooLate
<1>3. ASSUME NEW e \in Device, NEW j \in Item
      PROVE  ReadInv(e, j)'
  <2>1. file'[e][j] = file[e][j] \/ (pc[e] = "write" /\ j \in DOMAIN todo[e] => "overwritten" \in slips')
    BY <1>1, <1>2
  <2>2. ReadInv(e, j)
    BY DEF EditsInv
  <2>3. Seen(e, j)' = Seen(e, j) /\ Kept(e, j)' = Kept(e, j) /\ pc'[e] = pc[e] /\ todo'[e] = todo[e]
    BY <1>1
  <2> QED BY <2>1, <2>2, <2>3, ReadKept
<1>4. ASSUME "overwritten" \notin slips', NEW w \in wanted,
             w[1] # d \/ w[2] # i \/ w[3] \notin file[d][i] \/ w[3] \in text
      PROVE  Met(w)'
  <2>1. w[1] \in Device /\ w[2] \in Item /\ w[3] \in Nat /\ Met(w)
    BY <1>4 DEF EditsInv, WantedInv
  <2>2. file'[w[1]][w[2]] = IF w[1] = d /\ w[2] = i THEN text ELSE file[w[1]][w[2]]
    BY <1>1, <2>1
  <2>3. CASE file'[w[1]][w[2]] = file[w[1]][w[2]] \/ w[3] \in AtomsOf(w[1], w[2])
    BY <2>1, <2>3, MetStays
  <2>4. CASE w[1] = d /\ w[2] = i /\ w[3] \notin AtomsOf(w[1], w[2])
    <3>1. w[3] \in text
      BY <1>4, <2>1, <2>4 DEF Met
    <3>2. text # None
      BY <2>1, <3>1 DEF NoneHoldsNothing
    <3> QED BY <2>2, <2>4, <3>1, <3>2 DEF Met
  <2> QED BY <2>2, <2>3, <2>4
<1>5. edits' \in Nat
  BY DEF UserWrites, EditsInv, WantedInv
<1> QED
  BY <1>1, <1>3, <1>4, <1>5

LEMMA UserRead ==
    ASSUME NoneIsNoRecord, NoneHoldsNothing, FShape, Grows, slips \subseteq slips', EditsInv,
           NEW d \in Device, User(d)
    PROVE  EditsInv'
<1>1. PICK i \in Item : Type(d, i) \/ Erase(d, i) \/ Delete(d, i) \/ Undelete(d, i)
  BY DEF User
<1>2. /\ edits \in Nat
      /\ \A w \in wanted : w[1] \in Device /\ w[2] \in Item /\ w[3] \in Nat
  BY DEF EditsInv, WantedInv
<1>3. CASE Type(d, i)
  <2> PICK a \in Nat : a = edits + 1
    BY <1>2
  <2> PICK text : text = {a} \union IF file[d][i] = None THEN {} ELSE file[d][i]
    OBVIOUS
  <2>1. UserWrites(d, i, text) /\ wanted' = wanted \union {<<d, i, a>>}
    BY <1>3 DEF Type
  <2>2. a \in text /\ text # None
    BY DEF NoneHoldsNothing
  <2>3. \A w \in wanted : w[3] \notin file[d][i] \/ w[3] \in text
    BY <1>2 DEF NoneHoldsNothing
  <2>4. /\ \A e \in Device, j \in Item : ReadInv(e, j)'
        /\ edits' \in Nat /\ file'[d][i] = text
        /\ "overwritten" \notin slips' => \A w \in wanted : Met(w)'
    BY <2>1, <2>3, UserReads
  <2>5. Met(<<d, i, a>>)'
    BY <2>2, <2>4 DEF Met
  <2>6. \A w \in wanted' : w[1] \in Device /\ w[2] \in Item /\ w[3] \in Nat
    BY <1>2, <2>1, <2>2
  <2>7. "overwritten" \notin slips' => \A w \in wanted' : Met(w)'
    BY <2>1, <2>4, <2>5
  <2> QED BY <2>4, <2>6, <2>7 DEF EditsInv, WantedInv
<1>4. ASSUME NEW text, UserWrites(d, i, text), wanted' \subseteq wanted,
             \A w \in wanted' : w[1] # d \/ w[2] # i \/ w[3] \notin file[d][i] \/ w[3] \in text
      PROVE  EditsInv'
  <2>1. /\ \A e \in Device, j \in Item : ReadInv(e, j)'
        /\ edits' \in Nat
        /\ "overwritten" \notin slips' =>
             \A w \in wanted : w[1] # d \/ w[2] # i \/ w[3] \notin file[d][i] \/ w[3] \in text => Met(w)'
    BY <1>4, UserReads
  <2>2. "overwritten" \notin slips' => \A w \in wanted' : Met(w)'
    BY <1>4, <2>1
  <2>3. \A w \in wanted' : w[1] \in Device /\ w[2] \in Item /\ w[3] \in Nat
    BY <1>2, <1>4
  <2> QED BY <2>1, <2>2, <2>3 DEF EditsInv, WantedInv
<1>5. CASE Erase(d, i)
  <2>1. PICK a \in file[d][i] : UserWrites(d, i, file[d][i] \ {a}) /\ wanted' = Without(i, {a})
    BY <1>5 DEF Erase
  <2>2. /\ wanted' \subseteq wanted
        /\ \A w \in wanted' : w[2] # i \/ w[3] # a
    BY <2>1 DEF Without
  <2>3. \A w \in wanted' : w[1] # d \/ w[2] # i \/ w[3] \notin file[d][i] \/ w[3] \in file[d][i] \ {a}
    BY <2>2
  <2> QED BY <1>4, <2>1, <2>2, <2>3
<1>6. CASE Delete(d, i)
  <2>1. UserWrites(d, i, None) /\ wanted' = Without(i, file[d][i])
    BY <1>6 DEF Delete
  <2>2. \A w \in wanted' : w \in wanted /\ (w[2] # i \/ w[3] \notin file[d][i])
    BY <2>1 DEF Without
  <2> QED BY <1>4, <2>1, <2>2
<1>7. CASE Undelete(d, i)
  <2>1. file[d][i] = None /\ UserWrites(d, i, trash[d][i]) /\ wanted' = wanted
    BY <1>7 DEF Undelete
  <2>2. \A w \in wanted' : w[3] \notin file[d][i]
    BY <1>2, <2>1 DEF NoneHoldsNothing
  <2> QED BY <1>4, <2>1, <2>2
<1> QED
  BY <1>1, <1>3, <1>5, <1>6, <1>7

LEMMA InitEdits == Init => EditsInv
<1> SUFFICES ASSUME Init
             PROVE  EditsInv
  OBVIOUS
<1>1. ASSUME NEW d \in Device, NEW i \in Item
      PROVE  Seen(d, i) = None /\ Kept(d, i) = None /\ pc[d] = "start"
  BY DEF Init, Seen, Kept, TextIn
<1>2. \A d \in Device, i \in Item : ReadInv(d, i)
  BY <1>1 DEF ReadInv, Within
<1>3. WantedInv
  BY DEF Init, WantedInv
<1> QED
  BY <1>2, <1>3 DEF EditsInv

LEMMA StepEdits ==
    ASSUME MergeAssumption, NoneIsNoRecord, NoneHoldsNothing, MInv, FilesInv, EditsInv, [Next]_vars
    PROVE  EditsInv'
<1>1. Grows /\ slips \subseteq slips' /\ FShape
  BY StepMInv, SlipsGrow DEF FilesInv
<1>2. CASE UNCHANGED vars
  <2>1. UNCHANGED <<file, shadow, saved, pc, todo, wanted, edits>>
    BY <1>2 DEF vars, disk, memory, users
  <2>2. TextsSame
    BY <2>1, SameTexts DEF TextsSame
  <2> QED BY <1>1, <2>1, <2>2, StillRead
<1>3. ASSUME NEW d \in Device, User(d) \/ Sync(d) \/ Crash(d)
      PROVE  EditsInv'
  <2>1. CASE User(d)
    BY <1>1, <2>1, UserRead
  <2>2. CASE Scan(d)
    BY <1>1, <2>2, ScanRead
  <2>3. CASE Fold(d)
    <3>1. PICK i \in Item : FoldItem(d, i) \/ FoldDeleted(d, i)
      BY <2>3 DEF Fold
    <3> QED BY <1>1, <3>1, FoldItemRead, FoldDeletedRead
  <2>4. CASE SaveShadow(d)
    BY <1>1, <2>4, SaveShadowRead
  <2>5. CASE QueuePush(d) \/ Receive(d) \/ QueueDirty(d) \/ MoveCursor(d) \/ ApplyClear(d)
    BY <1>1, <2>5, MoveRead
  <2>6. CASE Deliver(d)
    <3>1. TextsSame /\ pc' = pc /\ todo' = todo
      BY <1>1, <2>6, DeliverEffect
    <3>2. wanted' = wanted /\ edits' = edits
      BY <2>6 DEF Deliver, users
    <3> QED BY <1>1, <3>1, <3>2, StillRead
  <2>7. CASE ApplyCheck(d)
    BY <1>1, <2>7, ApplyCheckRead
  <2>8. CASE ApplyWrite(d)
    BY <1>1, <2>8, ApplyWriteRead
  <2>9. CASE ApplyStat(d)
    BY <1>1, <2>9, ApplyStatRead
  <2>10. CASE Crash(d)
    BY <1>1, <2>10, CrashRead
  <2> QED BY <1>3, <2>1, <2>2, <2>3, <2>4, <2>5, <2>6, <2>7, <2>8, <2>9, <2>10 DEF Sync
<1> QED
  BY <1>2, <1>3 DEF Next

\* Both shadows' texts are in the documents, but for what a scan has still to fold;
\* so is the file that an apply has just compared with its shadow.
THEOREM EditsInvariance ==
    ASSUME NoneIsNoRecord, NoneHoldsNothing
    PROVE  Spec => []EditsInv
<1>1. Init => EditsInv
  BY InitEdits
<1>2. MInv /\ FilesInv /\ EditsInv /\ [Next]_vars => EditsInv'
  BY StepEdits, MergeAssumption
<1> QED
  BY <1>1, <1>2, MergeInvariance, FilesInvariance, PTL DEF Spec

\* What a user typed is in the file or has been folded into the document of the device it
\* was typed on: no apply and no crash takes it away unread, but for a write that falls
\* between an apply's check and its write (apply.rs:6).
THEOREM EditsFolded ==
    ASSUME NoneIsNoRecord, NoneHoldsNothing
    PROVE  Spec => []LocalEditFolded
<1>1. EditsInv => LocalEditFolded
  <2> SUFFICES ASSUME EditsInv, "overwritten" \notin slips, NEW w \in wanted
               PROVE  \/ file[w[1]][w[2]] # None /\ w[3] \in file[w[1]][w[2]]
                      \/ docs[w[1]][w[2]] # None /\ \E o \in docs[w[1]][w[2]].ops : o.atom = w[3]
    BY DEF LocalEditFolded
  <2>1. Met(w)
    BY DEF EditsInv, WantedInv
  <2>2. CASE w[3] \in AtomsOf(w[1], w[2])
    BY <2>2 DEF AtomsOf
  <2> QED BY <2>1, <2>2 DEF Met
<1> QED
  BY <1>1, EditsInvariance, PTL

-----------------------------------------------------------------------------
(* What the documents hold has been sent, or is about to be                 *)

Elements(s) == {s[k] : k \in DOMAIN s}
Logged == Elements(log)
Out(d) == Elements(outbox[d])
Near(d) == Logged \union Out(d) \union {updates[d]}
Own(d) == {p \in Logged : p.dev = d} \union Out(d) \union {updates[d]}

SaidDoc(d, i) == \E p \in Near(d) : i \in DOMAIN p.docs
SaidOp(d, i, o) == \E p \in Near(d) : i \in DOMAIN p.docs /\ o \in p.docs[i].ops
SaidDel(d, i, o) == \E p \in Near(d) : i \in DOMAIN p.docs /\ o \in p.docs[i].dels
SaidTomb(d, i, t) == \E p \in Near(d) : i \in DOMAIN p.tombs /\ p.tombs[i] = t

\* A device's documents and tombstones say no more than the log and what it
\* has still to send; and they hold all that it sends itself.
SaidAll(d, i) ==
    /\ docs[d][i] # None =>
         /\ SaidDoc(d, i)
         /\ \A o \in docs[d][i].ops : SaidOp(d, i, o)
         /\ \A o \in docs[d][i].dels : SaidDel(d, i, o)
    /\ tombs[d][i] # None => SaidTomb(d, i, tombs[d][i])
OwnInv(d) ==
    /\ \A p \in Out(d) : p.dev = d
    /\ \A p \in Own(d) : HeldBy(docs[d], tombs[d], p)

\* A scan folds each item once, and what it folds is handed over before the next one.
FoldsOnce(d) ==
    /\ pc[d] \notin {"fold", "push"} => updates[d] = NoUpdates
    /\ pc[d] = "fold" =>
         \A i \in DOMAIN todo[d] : i \notin DOMAIN updates[d].docs /\ i \notin DOMAIN updates[d].tombs

SaidInv ==
    /\ \A d \in Device : OwnInv(d) /\ FoldsOnce(d)
    /\ "orphaned" \notin slips => \A d \in Device, i \in Item : SaidAll(d, i)

\* What an Append and a Tail do to the elements of a sequence.
LEMMA ImageFacts ==
    ASSUME NEW q, IsSeq(q), NEW x
    PROVE  /\ Elements(Append(q, x)) = Elements(q) \union {x}
           /\ q # <<>> => Head(q) \in Elements(q) /\ Elements(q) = Elements(Tail(q)) \union {Head(q)}
<1>1. PICK S : q \in Seq(S)
  BY DEF IsSeq
<1>2. q \in Seq(S \union {x})
  BY <1>1
<1>3. /\ DOMAIN q = 1..Len(q) /\ Len(q) \in Nat
      /\ DOMAIN Append(q, x) = 1..(Len(q) + 1)
      /\ \A k \in 1..Len(q) : Append(q, x)[k] = q[k]
      /\ Append(q, x)[Len(q) + 1] = x
  BY <1>2
<1>4. Elements(Append(q, x)) = Elements(q) \union {x}
  <2>1. ASSUME NEW k \in DOMAIN q
        PROVE  q[k] \in Elements(Append(q, x))
    <3>1. k \in DOMAIN Append(q, x) /\ Append(q, x)[k] = q[k]
      BY <1>3
    <3> QED BY <3>1 DEF Elements
  <2>2. x \in Elements(Append(q, x))
    <3>1. Len(q) + 1 \in DOMAIN Append(q, x)
      BY <1>3
    <3> QED BY <1>3, <3>1 DEF Elements
  <2>3. \A j \in DOMAIN Append(q, x) : Append(q, x)[j] = x \/ Append(q, x)[j] \in Elements(q)
    BY SeqFacts DEF Elements
  <2> QED BY <2>1, <2>2, <2>3 DEF Elements
<1>5. ASSUME q # <<>>
      PROVE  Head(q) \in Elements(q) /\ Elements(q) = Elements(Tail(q)) \union {Head(q)}
  <2>1. /\ DOMAIN Tail(q) = 1..(Len(q) - 1) /\ Len(q) > 0 /\ Head(q) = q[1]
        /\ \A k \in 1..(Len(q) - 1) : Tail(q)[k] = q[k + 1]
    BY <1>1, <1>5
  <2>2. ASSUME NEW k \in DOMAIN q
        PROVE  q[k] = Head(q) \/ q[k] \in Elements(Tail(q))
    <3>1. CASE k = 1
      BY <2>1, <3>1
    <3>2. CASE k # 1
      <4>1. k - 1 \in DOMAIN Tail(q) /\ Tail(q)[k - 1] = q[k]
        BY <1>3, <2>1, <3>2
      <4> QED BY <4>1 DEF Elements
    <3> QED BY <3>1, <3>2
  <2>3. Head(q) \in Elements(q)
    <3>1. 1 \in DOMAIN q
      BY <1>3, <2>1
    <3> QED BY <2>1, <3>1 DEF Elements
  <2>4. ASSUME NEW j \in DOMAIN Tail(q)
        PROVE  Tail(q)[j] \in Elements(q)
    <3>1. j + 1 \in DOMAIN q /\ Tail(q)[j] = q[j + 1]
      BY <1>3, <2>1
    <3> QED BY <3>1 DEF Elements
  <2> QED BY <2>2, <2>3, <2>4 DEF Elements
<1> QED
  BY <1>4, <1>5

\* What is sent, after a scan's payload is queued and after the oldest one is delivered.
LEMMA QueuePushSends ==
    ASSUME Shape, NEW d \in Device, QueuePush(d)
    PROVE  LET p == Payload(d, updates[d].docs, updates[d].tombs)
           IN  /\ Logged' = Logged /\ Out(d)' = Out(d) \union {p}
               /\ \A e \in Device \ {d} : Out(e)' = Out(e)
               /\ \A e \in Device : updates'[e] = IF e = d THEN NoUpdates ELSE updates[e]
<1> DEFINE p == Payload(d, updates[d].docs, updates[d].tombs)
<1>1. /\ PutRow(outbox, outbox', d, Append(outbox[d], p))
      /\ PutRow(updates, updates', d, NoUpdates) /\ log' = log
  BY DEF QueuePush, PutRow
<1> HIDE DEF p
<1>2. \A e \in Device : outbox'[e] = IF e = d THEN Append(outbox[d], p) ELSE outbox[e]
  BY <1>1, CellPut DEF Shape
<1>3. \A e \in Device : updates'[e] = IF e = d THEN NoUpdates ELSE updates[e]
  BY <1>1, CellPut, UpdatesCell
<1>4. IsSeq(outbox[d])
  BY DEF Shape
<1>5. Elements(Append(outbox[d], p)) = Elements(outbox[d]) \union {p}
  BY <1>4, ImageFacts
<1>6. Logged' = Logged /\ \A e \in Device : Out(e)' = Elements(outbox'[e])
  BY <1>1 DEF Logged, Out, Elements
<1>7. Out(d)' = Out(d) \union {p} /\ \A e \in Device \ {d} : Out(e)' = Out(e)
  BY <1>2, <1>5, <1>6 DEF Out
<1> QED
  BY <1>3, <1>6, <1>7 DEF p

LEMMA DeliverSends ==
    ASSUME Shape, NEW d \in Device, Deliver(d)
    PROVE  \E p \in Out(d) : /\ Logged' = Logged \union {p} /\ Out(d) = Out(d)' \union {p}
                             /\ \A e \in Device \ {d} : Out(e)' = Out(e)
                             /\ updates' = updates
<1> DEFINE p == Head(outbox[d])
<1>1. /\ outbox[d] # <<>> /\ PutRow(outbox, outbox', d, Tail(outbox[d]))
      /\ log' = Append(log, p) /\ updates' = updates
  BY DEF Deliver, PutRow, memory
<1>2. IsSeq(outbox[d]) /\ IsSeq(log)
  BY DEF Shape
<1>3. \A e \in Device : outbox'[e] = IF e = d THEN Tail(outbox[d]) ELSE outbox[e]
  BY <1>1, CellPut DEF Shape
<1>4. p \in Elements(outbox[d]) /\ Elements(outbox[d]) = Elements(Tail(outbox[d])) \union {p}
  BY <1>1, <1>2, ImageFacts
<1> HIDE DEF p
<1>5. Elements(Append(log, p)) = Elements(log) \union {p}
  BY <1>2, ImageFacts
<1>6. Logged' = Elements(log') /\ \A e \in Device : Out(e)' = Elements(outbox'[e])
  BY DEF Logged, Out, Elements
<1>7. p \in Out(d) /\ Logged' = Logged \union {p} /\ Out(d) = Out(d)' \union {p}
  BY <1>1, <1>3, <1>4, <1>5, <1>6 DEF Logged, Out
<1>8. \A e \in Device \ {d} : Out(e)' = Out(e)
  BY <1>3, <1>6 DEF Out
<1> QED
  BY <1>1, <1>7, <1>8

\* Every device's payloads are among those carried.
LEMMA NearCarried ==
    ASSUME NEW d \in Device
    PROVE  Own(d) \subseteq Near(d) /\ Near(d) \subseteq Carried
BY DEF Own, Near, Logged, Out, Elements, Carried

LEMMA HeldStays ==
    ASSUME MergeAssumption, MInv, MInv', Grows, NEW d \in Device, NEW p \in Carried,
           HeldBy(docs[d], tombs[d], p)
    PROVE  HeldBy(docs'[d], tombs'[d], p)
<1>1. WellFormed(p)
  BY DEF MInv, CarriedInv
<1>2. RowsGrow(docs[d], tombs[d], docs'[d], tombs'[d])
  BY DEF Grows, RowsGrow
<1>3. TombRow(tombs[d])
  BY DEF MInv, TombInv, TombsOf, TombRow
<1>4. TombRow(tombs'[d])
  <2> SUFFICES ASSUME NEW i \in Item, tombs'[d][i] # None
               PROVE  IsTomb(tombs'[d][i])
    BY DEF TombRow
  <2>1. tombs'[d][i] \in TombsOf(i)'
    BY DEF TombsOf
  <2> QED BY <2>1 DEF MInv, TombInv, IsTomb
<1> QED
  BY <1>1, <1>2, <1>3, <1>4, HeldGrows

LEMMA OwnStays ==
    ASSUME MergeAssumption, MInv, MInv', Grows, NEW d \in Device, OwnInv(d),
           \A p \in Out(d)' : p.dev = d,
           \A p \in Own(d)' : p \in Own(d) \/ HeldBy(docs'[d], tombs'[d], p)
    PROVE  OwnInv(d)'
<1>1. \A p \in Own(d)' : HeldBy(docs'[d], tombs'[d], p)
  <2> SUFFICES ASSUME NEW p \in Own(d)
               PROVE  HeldBy(docs'[d], tombs'[d], p)
    OBVIOUS
  <2>1. p \in Carried /\ HeldBy(docs[d], tombs[d], p)
    BY NearCarried DEF OwnInv
  <2> QED BY <2>1, HeldStays
<1> QED
  BY <1>1 DEF OwnInv, HeldBy, HasDoc, HasTomb, Beats

\* One payload says all that another does.
Carries(q, p) ==
    /\ \A i \in DOMAIN p.docs : i \in DOMAIN q.docs /\ q.docs[i] = p.docs[i]
    /\ \A i \in DOMAIN p.tombs : i \in DOMAIN q.tombs /\ q.tombs[i] = p.tombs[i]
Remains(d) == \A p \in Near(d) : \E q \in Near(d)' : Carries(q, p)

LEMMA SaidGrows ==
    ASSUME NEW d \in Device, NEW i \in Item, Remains(d)
    PROVE  /\ SaidDoc(d, i) => SaidDoc(d, i)'
           /\ \A o : SaidOp(d, i, o) => SaidOp(d, i, o)'
           /\ \A o : SaidDel(d, i, o) => SaidDel(d, i, o)'
           /\ \A t : SaidTomb(d, i, t) => SaidTomb(d, i, t)'
<1>1. SaidDoc(d, i) => SaidDoc(d, i)'
  BY DEF SaidDoc, Remains, Carries
<1>2. ASSUME NEW o, SaidOp(d, i, o)
      PROVE  SaidOp(d, i, o)'
  BY <1>2 DEF SaidOp, Remains, Carries
<1>3. ASSUME NEW o, SaidDel(d, i, o)
      PROVE  SaidDel(d, i, o)'
  BY <1>3 DEF SaidDel, Remains, Carries
<1>4. ASSUME NEW t, SaidTomb(d, i, t)
      PROVE  SaidTomb(d, i, t)'
  BY <1>4 DEF SaidTomb, Remains, Carries
<1> QED
  BY <1>1, <1>2, <1>3, <1>4

\* A document and a tombstone that stay as they were.
LEMMA SaidStays ==
    ASSUME NEW d \in Device, NEW i \in Item, Remains(d), SaidAll(d, i),
           docs'[d][i] = docs[d][i], tombs'[d][i] = tombs[d][i]
    PROVE  SaidAll(d, i)'
<1>1. /\ SaidDoc(d, i) => SaidDoc(d, i)'
      /\ \A o : SaidOp(d, i, o) => SaidOp(d, i, o)'
      /\ \A o : SaidDel(d, i, o) => SaidDel(d, i, o)'
      /\ \A t : SaidTomb(d, i, t) => SaidTomb(d, i, t)'
  BY SaidGrows
<1>2. docs'[d][i] # None => /\ SaidDoc(d, i)'
                            /\ \A o \in docs'[d][i].ops : SaidOp(d, i, o)'
                            /\ \A o \in docs'[d][i].dels : SaidDel(d, i, o)'
  BY <1>1 DEF SaidAll
<1>3. tombs'[d][i] # None => \E p \in Near(d)' : i \in DOMAIN p.tombs /\ p.tombs[i] = tombs'[d][i]
  BY <1>1 DEF SaidAll, SaidTomb
<1> QED
  BY <1>2, <1>3 DEF SaidAll, SaidTomb

\* What is near stays near where nothing is sent.
LEMMA NearStays ==
    ASSUME NEW d \in Device, log' = log, outbox'[d] = outbox[d],
           updates'[d] = updates[d] \/ updates[d] = NoUpdates
    PROVE  Remains(d)
<1>1. Logged' = Logged /\ Out(d)' = Out(d)
  BY DEF Logged, Out, Elements
<1>2. \A p : Carries(p, p)
  BY DEF Carries
<1>3. \A q : Carries(q, NoUpdates)
  BY DEF Carries, NoUpdates, Empty
<1>4. updates'[d] \in Near(d)' /\ Logged' \union Out(d)' \subseteq Near(d)'
  BY DEF Near
<1> QED
  BY <1>1, <1>2, <1>3, <1>4 DEF Remains, Near

\* Steps that send nothing and fold nothing.
Plain(d) == Quiet(d) \/ MoveCursor(d)

LEMMA PlainSends ==
    ASSUME Shape, NEW d \in Device, Plain(d)
    PROVE  /\ docs' = docs /\ tombs' = tombs /\ log' = log /\ outbox' = outbox
           /\ \A e \in Device : updates'[e] = updates[e] \/ (e = d /\ Crash(d) /\ updates'[e] = NoUpdates)
<1>1. docs' = docs /\ tombs' = tombs /\ log' = log /\ outbox' = outbox
  BY DEF Plain, MoveCursor, Quiet, Scan, SaveShadow, QueueDirty, ApplyCheck, ApplyWrite, ApplyStat,
         ApplyClear, User, Type, Erase, Delete, Undelete, UserWrites, Crash, disk
<1>2. updates' = updates \/ (Crash(d) /\ PutRow(updates, updates', d, NoUpdates))
  BY DEF Plain, MoveCursor, Quiet, Scan, SaveShadow, QueueDirty, ApplyCheck, ApplyWrite, ApplyStat,
         ApplyClear, User, Type, Erase, Delete, Undelete, UserWrites, Crash, PutRow
<1>3. CASE Crash(d) /\ PutRow(updates, updates', d, NoUpdates)
  <2>1. \A e \in Device : updates'[e] = IF e = d THEN NoUpdates ELSE updates[e]
    BY <1>3, CellPut, UpdatesCell
  <2> QED BY <1>1, <1>3, <2>1
<1> QED
  BY <1>1, <1>2, <1>3

\* A device whose delta, place and payload stay.
LEMMA OnceStays ==
    ASSUME NEW e \in Device, FoldsOnce(e), pc'[e] = pc[e], todo'[e] = todo[e], updates'[e] = updates[e]
    PROVE  FoldsOnce(e)'
BY DEF FoldsOnce, NoUpdates, Empty

\* A device that is not in a scan, or has nothing to fold and hands over what it has.
LEMMA OnceEnds ==
    ASSUME NEW e \in Device, pc'[e] # "fold", pc'[e] = "push" \/ updates'[e] = NoUpdates
    PROVE  FoldsOnce(e)'
BY DEF FoldsOnce, NoUpdates, Empty

LEMMA PlainOnce ==
    ASSUME NoneIsNoRecord, MInv, FShape, NEW d \in Device, Plain(d), \A e \in Device : FoldsOnce(e)
    PROVE  \A e \in Device : FoldsOnce(e)'
<1>1. \A e \in Device : updates'[e] = updates[e] \/ (e = d /\ Crash(d) /\ updates'[e] = NoUpdates)
  BY PlainSends DEF MInv
<1>2. CASE User(d)
  <2>1. UNCHANGED <<pc, todo, updates>>
    BY <1>2 DEF User, Type, Erase, Delete, Undelete, UserWrites
  <2> QED BY <2>1, OnceStays
<1>3. CASE ~User(d)
  <2>1. OthersSame(d)
    <3>1. CASE Scan(d)
      BY <3>1, ScanEffect DEF MInv
    <3>2. CASE SaveShadow(d)
      BY <3>2, SaveShadowEffect DEF MInv
    <3>3. CASE QueueDirty(d)
      BY <3>3, QueueDirtyEffect DEF MInv
    <3>4. CASE MoveCursor(d)
      BY <3>4, MoveCursorEffect DEF MInv
    <3>5. CASE ApplyCheck(d)
      BY <3>5, ApplyCheckEffect DEF MInv
    <3>6. CASE ApplyWrite(d)
      BY <3>6, ApplyWriteEffect DEF MInv
    <3>7. CASE ApplyStat(d)
      BY <3>7, ApplyStatEffect DEF MInv
    <3>8. CASE ApplyClear(d)
      BY <3>8, ApplyClearEffect DEF MInv
    <3>9. CASE Crash(d)
      BY <3>9, CrashEffect DEF MInv
    <3> QED BY <1>3, <3>1, <3>2, <3>3, <3>4, <3>5, <3>6, <3>7, <3>8, <3>9 DEF Plain, Quiet
  <2>2. \A e \in Device \ {d} : FoldsOnce(e)'
    BY <2>1, OnceStays DEF OthersSame
  <2>3. FoldsOnce(d)'
    <3>1. CASE Scan(d)
      <4>1. updates[d] = NoUpdates /\ updates'[d] = NoUpdates
        BY <1>1, <3>1 DEF FoldsOnce, Scan
      <4>2. DOMAIN updates'[d].docs = {} /\ DOMAIN updates'[d].tombs = {}
        BY <4>1 DEF NoUpdates, Empty
      <4> QED BY <4>1, <4>2 DEF FoldsOnce, NoUpdates, Empty
    <3>2. CASE SaveShadow(d)
      <4>1. PutRow(pc, pc', d, IF updates[d] = NoUpdates THEN "idle" ELSE "push") /\ updates' = updates
        BY <3>2 DEF SaveShadow, PutRow
      <4>2. pc'[d] = IF updates[d] = NoUpdates THEN "idle" ELSE "push"
        BY <4>1, CellPut DEF MInv, Shape
      <4> QED BY <4>1, <4>2, OnceEnds
    <3>3. CASE Crash(d)
      <4>1. pc'[d] = "start"
        BY <3>3, CrashEffect DEF MInv, MovesTo
      <4>2. updates'[d] = NoUpdates
        <5>1. PutRow(updates, updates', d, NoUpdates)
          BY <3>3 DEF Crash, PutRow
        <5> QED BY <5>1, CellPut, UpdatesCell DEF MInv
      <4> QED BY <4>1, <4>2, OnceEnds
    <3>4. CASE QueueDirty(d) \/ MoveCursor(d) \/ ApplyCheck(d) \/ ApplyWrite(d) \/ ApplyStat(d) \/ ApplyClear(d)
      <4>1. pc[d] \notin {"fold", "push"}
        BY <3>4 DEF QueueDirty, MoveCursor, ApplyCheck, ApplyWrite, ApplyStat, ApplyClear
      <4>2. updates'[d] = NoUpdates
        BY <1>1, <4>1 DEF FoldsOnce
      <4>3. \E s \in {"cursor", "idle", "write", "stat", "clear"} : pc'[d] = s
        <5>1. \E s \in {"cursor", "idle", "write", "stat", "clear"} : PutRow(pc, pc', d, s)
          BY <3>4 DEF QueueDirty, MoveCursor, ApplyCheck, ApplyWrite, ApplyStat, ApplyClear, PutRow
        <5> QED BY <5>1, CellPut DEF MInv, Shape
      <4> QED BY <4>2, <4>3, OnceEnds
    <3> QED BY <1>3, <3>1, <3>2, <3>3, <3>4 DEF Plain, Quiet
  <2> QED BY <2>2, <2>3
<1> QED
  BY <1>2, <1>3

LEMMA PlainSaid ==
    ASSUME MergeAssumption, NoneIsNoRecord, MInv, MInv', Grows, FShape, slips \subseteq slips', SaidInv,
           NEW d \in Device, Plain(d)
    PROVE  SaidInv'
<1>1. /\ docs' = docs /\ tombs' = tombs /\ log' = log /\ outbox' = outbox
      /\ \A e \in Device : updates'[e] = updates[e] \/ (e = d /\ Crash(d) /\ updates'[e] = NoUpdates)
  BY PlainSends DEF MInv
<1>2. \A e \in Device : FoldsOnce(e)'
  BY PlainOnce DEF SaidInv
<1>3. ASSUME NEW e \in Device
      PROVE  OwnInv(e)'
  <2>1. Logged' = Logged /\ Out(e)' = Out(e)
    BY <1>1 DEF Logged, Out, Elements
  <2>2. HeldBy(docs'[e], tombs'[e], NoUpdates)
    BY DEF HeldBy, NoUpdates, Empty
  <2>3. OwnInv(e)
    BY DEF SaidInv
  <2>4. \A p \in Own(e)' : p \in Own(e) \/ HeldBy(docs'[e], tombs'[e], p)
    BY <1>1, <2>1, <2>2 DEF Own
  <2>5. \A p \in Out(e)' : p.dev = e
    BY <2>1, <2>3 DEF OwnInv
  <2> QED BY <2>3, <2>4, <2>5, OwnStays
<1>4. ASSUME "orphaned" \notin slips', NEW e \in Device, NEW i \in Item
      PROVE  SaidAll(e, i)'
  <2>1. updates'[e] = updates[e] \/ updates[e] = NoUpdates
    BY <1>1, <1>4, CrashEffect DEF MInv
  <2>2. Remains(e)
    BY <1>1, <2>1, NearStays
  <2>3. SaidAll(e, i)
    BY <1>4 DEF SaidInv
  <2> QED BY <1>1, <2>2, <2>3, SaidStays
<1> QED
  BY <1>2, <1>3, <1>4 DEF SaidInv

LEMMA FoldItemSends ==
    ASSUME Shape, NEW d \in Device, NEW i \in Item, FoldItem(d, i)
    PROVE  /\ log' = log /\ outbox' = outbox /\ tombs' = tombs
           /\ \A e \in Device \ {d} : updates'[e] = updates[e]
           /\ updates'[d].tombs = updates[d].tombs
           /\ \/ updates'[d] = updates[d] /\ docs[d][i] # None /\ TextOf(docs[d][i]) = todo[d][i]
              \/ /\ DOMAIN updates'[d].docs = {i} \union DOMAIN updates[d].docs
                 /\ updates'[d].docs[i] = UpdateSince(docs[d][i], ApplyLocalText(d, docs[d][i], todo[d][i]))
                 /\ \A j \in DOMAIN updates[d].docs \ {i} : updates'[d].docs[j] = updates[d].docs[j]
<1> DEFINE u == UpdateSince(docs[d][i], ApplyLocalText(d, docs[d][i], todo[d][i]))
           made == [j \in {i} \union DOMAIN updates[d].docs |-> IF j = i THEN u ELSE updates[d].docs[j]]
<1>1. /\ log' = log /\ outbox' = outbox /\ tombs' = tombs
      /\ \/ updates' = updates /\ docs[d][i] # None /\ TextOf(docs[d][i]) = todo[d][i]
         \/ PutRow(updates, updates', d, [updates[d] EXCEPT !.docs = made])
  BY DEF FoldItem, PutRow
<1>2. /\ DOMAIN made = {i} \union DOMAIN updates[d].docs /\ made[i] = u
      /\ \A j \in DOMAIN updates[d].docs \ {i} : made[j] = updates[d].docs[j]
  OBVIOUS
<1> HIDE DEF made
<1>3. CASE PutRow(updates, updates', d, [updates[d] EXCEPT !.docs = made])
  <2>1. \A e \in Device : updates'[e] = IF e = d THEN [updates[d] EXCEPT !.docs = made] ELSE updates[e]
    BY <1>3, CellPut, UpdatesCell
  <2>2. updates'[d].docs = made /\ updates'[d].tombs = updates[d].tombs
    BY <2>1, UpdatesCell
  <2> QED BY <1>1, <1>2, <2>1, <2>2
<1> QED
  BY <1>1, <1>3

LEMMA FoldDeletedSends ==
    ASSUME Shape, NEW d \in Device, NEW i \in Item, FoldDeleted(d, i)
    PROVE  /\ log' = log /\ outbox' = outbox /\ docs' = docs
           /\ \A e \in Device \ {d} : updates'[e] = updates[e]
           /\ updates'[d].docs = updates[d].docs
           /\ DOMAIN updates'[d].tombs = {i} \union DOMAIN updates[d].tombs
           /\ updates'[d].tombs[i] = RecordDelete(d, tombs[d][i], docs[d][i])
           /\ \A j \in DOMAIN updates[d].tombs \ {i} : updates'[d].tombs[j] = updates[d].tombs[j]
<1> DEFINE t == RecordDelete(d, tombs[d][i], docs[d][i])
           made == [j \in {i} \union DOMAIN updates[d].tombs |-> IF j = i THEN t ELSE updates[d].tombs[j]]
<1>1. /\ log' = log /\ outbox' = outbox /\ docs' = docs
      /\ PutRow(updates, updates', d, [updates[d] EXCEPT !.tombs = made])
  BY DEF FoldDeleted, PutRow
<1>2. /\ DOMAIN made = {i} \union DOMAIN updates[d].tombs /\ made[i] = t
      /\ \A j \in DOMAIN updates[d].tombs \ {i} : made[j] = updates[d].tombs[j]
  OBVIOUS
<1> HIDE DEF made
<1>3. \A e \in Device : updates'[e] = IF e = d THEN [updates[d] EXCEPT !.tombs = made] ELSE updates[e]
  BY <1>1, CellPut, UpdatesCell
<1>4. updates'[d].tombs = made /\ updates'[d].docs = updates[d].docs
  BY <1>3, UpdatesCell
<1> QED
  BY <1>1, <1>2, <1>3, <1>4

\* What a device says of itself stays said through a step of another one.
LEMMA OthersSaid ==
    ASSUME MergeAssumption, MInv, MInv', Grows, slips \subseteq slips', SaidInv,
           NEW d \in Device, OthersSame(d), log' = log, \A e \in Device \ {d} : Out(e)' = Out(e)
    PROVE  \A e \in Device \ {d} :
               /\ OwnInv(e)' /\ FoldsOnce(e)'
               /\ "orphaned" \notin slips' => \A i \in Item : SaidAll(e, i)'
<1> SUFFICES ASSUME NEW e \in Device \ {d}
             PROVE  /\ OwnInv(e)' /\ FoldsOnce(e)'
                    /\ "orphaned" \notin slips' => \A i \in Item : SaidAll(e, i)'
  OBVIOUS
<1>1. /\ pc'[e] = pc[e] /\ todo'[e] = todo[e] /\ updates'[e] = updates[e]
      /\ \A i \in Item : docs'[e][i] = docs[e][i] /\ tombs'[e][i] = tombs[e][i]
  BY DEF OthersSame
<1>2. Logged' = Logged /\ Out(e)' = Out(e)
  BY DEF Logged, Elements
<1>3. FoldsOnce(e)'
  BY <1>1, OnceStays DEF SaidInv
<1>4. OwnInv(e)'
  <2>1. Own(e)' = Own(e)
    BY <1>1, <1>2 DEF Own
  <2>2. OwnInv(e) /\ \A p \in Out(e)' : p.dev = e
    BY <1>2 DEF SaidInv, OwnInv
  <2> QED BY <2>1, <2>2, OwnStays
<1>5. ASSUME "orphaned" \notin slips', NEW i \in Item
      PROVE  SaidAll(e, i)'
  <2>1. Near(e)' = Near(e)
    BY <1>1, <1>2 DEF Near
  <2>2. Remains(e)
    BY <2>1 DEF Remains, Carries
  <2>3. SaidAll(e, i)
    BY <1>5 DEF SaidInv
  <2> QED BY <1>1, <2>2, <2>3, SaidStays
<1> QED
  BY <1>3, <1>4, <1>5

\* What an update leaves out of the document was there before.
LEMMA UpdateSays ==
    ASSUME NoneIsNoRecord, NEW x, NEW y, IsDocument(y)
    PROVE  /\ \A o \in y.ops : (x # None /\ o \in x.ops) \/ o \in UpdateSince(x, y).ops
           /\ y.dels = UpdateSince(x, y).dels
           /\ HasDoc(y, UpdateSince(x, y))
<1>1. y # None
  BY DEF NoneIsNoRecord, IsDocument
<1>2. CASE x = None
  BY <1>1, <1>2 DEF UpdateSince, HasDoc
<1>3. CASE x # None
  <2>1. UpdateSince(x, y) = [ops |-> y.ops \ x.ops, dels |-> y.dels]
    BY <1>3 DEF UpdateSince, IsDocument
  <2>2. UpdateSince(x, y).ops = y.ops \ x.ops /\ UpdateSince(x, y).dels = y.dels
    BY <2>1
  <2> QED BY <1>1, <1>3, <2>2 DEF HasDoc
<1> QED
  BY <1>2, <1>3

LEMMA FoldItemSaid ==
    ASSUME MergeAssumption, NoneIsNoRecord, MInv, MInv', Grows, FShape, slips \subseteq slips', SaidInv,
           NEW d \in Device, NEW i \in Item, FoldItem(d, i)
    PROVE  SaidInv'
<1>1. /\ OthersSame(d) /\ pc' = pc /\ pc[d] = "fold" /\ i \in DOMAIN todo[d]
      /\ DOMAIN todo'[d] = DOMAIN todo[d] \ {i}
      /\ docs'[d][i] = ApplyLocalText(d, docs[d][i], todo[d][i])
      /\ \A j \in Item \ {i} : docs'[d][j] = docs[d][j]
  BY FoldItemEffect DEF MInv
<1>2. /\ log' = log /\ outbox' = outbox /\ tombs' = tombs
      /\ updates'[d].tombs = updates[d].tombs
      /\ \/ updates'[d] = updates[d] /\ docs[d][i] # None /\ TextOf(docs[d][i]) = todo[d][i]
         \/ /\ DOMAIN updates'[d].docs = {i} \union DOMAIN updates[d].docs
            /\ updates'[d].docs[i] = UpdateSince(docs[d][i], docs'[d][i])
            /\ \A j \in DOMAIN updates[d].docs \ {i} : updates'[d].docs[j] = updates[d].docs[j]
  BY <1>1, FoldItemSends DEF MInv
<1>3. Logged' = Logged /\ \A e \in Device : Out(e)' = Out(e)
  BY <1>2 DEF Logged, Out, Elements
<1>4. /\ i \notin DOMAIN updates[d].docs /\ FoldsOnce(d) /\ OwnInv(d)
      /\ docs[d][i] = None \/ IsDocument(docs[d][i])
  BY <1>1 DEF SaidInv, FoldsOnce, MInv, Shape
<1>5. IsDocument(docs'[d][i])
  BY <1>1, <1>4, FoldGrows
<1>6. CASE updates'[d] = updates[d] /\ docs[d][i] # None /\ TextOf(docs[d][i]) = todo[d][i]
  <2>1. docs'[d][i] = docs[d][i]
    BY <1>1, <1>4, <1>6, FoldOfSame
  <2>2. FoldsOnce(d)'
    BY <1>1, <1>4, <1>6 DEF FoldsOnce
  <2>3. Own(d)' = Own(d)
    BY <1>3, <1>6 DEF Own
  <2>4. OwnInv(d)'
    BY <1>3, <1>4, <2>3, OwnStays DEF OwnInv
  <2>5. ASSUME "orphaned" \notin slips', NEW j \in Item
        PROVE  SaidAll(d, j)'
    <3>1. SaidAll(d, j) /\ docs'[d][j] = docs[d][j] /\ tombs'[d][j] = tombs[d][j]
      BY <1>1, <1>2, <2>1, <2>5 DEF SaidInv
    <3>2. Remains(d)
      BY <1>2, <1>6, NearStays
    <3> QED BY <3>1, <3>2, SaidStays
  <2>6. \A e \in Device \ {d} :
            /\ OwnInv(e)' /\ FoldsOnce(e)'
            /\ "orphaned" \notin slips' => \A j \in Item : SaidAll(e, j)'
    BY <1>1, <1>2, <1>3, OthersSaid
  <2> QED BY <2>2, <2>4, <2>5, <2>6 DEF SaidInv
<1>7. CASE /\ DOMAIN updates'[d].docs = {i} \union DOMAIN updates[d].docs
           /\ updates'[d].docs[i] = UpdateSince(docs[d][i], docs'[d][i])
           /\ \A j \in DOMAIN updates[d].docs \ {i} : updates'[d].docs[j] = updates[d].docs[j]
  <2>1. Carries(updates'[d], updates[d])
    BY <1>2, <1>4, <1>7 DEF Carries
  <2>2. Remains(d)
    <3>1. updates'[d] \in Near(d)' /\ \A p \in Logged \union Out(d) : p \in Near(d)' /\ Carries(p, p)
      BY <1>3 DEF Near, Carries
    <3> QED BY <2>1, <3>1 DEF Remains, Near
  <2>3. FoldsOnce(d)'
    BY <1>1, <1>2, <1>4, <1>7 DEF FoldsOnce
  <2>4. HeldBy(docs'[d], tombs'[d], updates'[d])
    <3>1. updates[d] \in Own(d) /\ updates[d] \in Carried
      BY NearCarried DEF Own
    <3>2. HeldBy(docs'[d], tombs'[d], updates[d])
      BY <1>4, <3>1, HeldStays DEF OwnInv
    <3>3. HasDoc(docs'[d][i], updates'[d].docs[i])
      BY <1>5, <1>7, UpdateSays
    <3> QED BY <1>2, <1>4, <1>7, <3>2, <3>3 DEF HeldBy
  <2>5. OwnInv(d)'
    <3>1. \A p \in Own(d)' : p \in Own(d) \/ p = updates'[d]
      BY <1>3 DEF Own
    <3>2. \A p \in Out(d)' : p.dev = d
      BY <1>3, <1>4 DEF OwnInv
    <3> QED BY <1>4, <2>4, <3>1, <3>2, OwnStays
  <2>6. ASSUME "orphaned" \notin slips', NEW j \in Item
        PROVE  SaidAll(d, j)'
    <3>0. SaidAll(d, j) /\ tombs'[d][j] = tombs[d][j]
      BY <1>2, <2>6 DEF SaidInv
    <3>1. CASE j # i
      BY <1>1, <2>2, <3>0, <3>1, SaidStays
    <3>2. CASE j = i
      <4>1. updates'[d] \in Near(d)' /\ i \in DOMAIN updates'[d].docs
        BY <1>7 DEF Near
      <4>2. SaidDoc(d, i)'
        BY <4>1 DEF SaidDoc
      <4>3. ASSUME NEW o \in docs'[d][i].ops
            PROVE  SaidOp(d, i, o)'
        <5>1. (docs[d][i] # None /\ o \in docs[d][i].ops) \/ o \in updates'[d].docs[i].ops
          BY <1>5, <1>7, UpdateSays
        <5>2. CASE docs[d][i] # None /\ o \in docs[d][i].ops
          BY <2>2, <3>0, <3>2, <5>2, SaidGrows DEF SaidAll
        <5>3. CASE o \in updates'[d].docs[i].ops
          BY <4>1, <5>3 DEF SaidOp
        <5> QED BY <5>1, <5>2, <5>3
      <4>4. ASSUME NEW o \in docs'[d][i].dels
            PROVE  SaidDel(d, i, o)'
        <5>1. o \in updates'[d].docs[i].dels
          BY <1>5, <1>7, UpdateSays
        <5> QED BY <4>1, <5>1 DEF SaidDel
      <4>5. tombs'[d][i] # None => SaidTomb(d, i, tombs[d][i])'
        BY <2>2, <3>0, <3>2, SaidGrows DEF SaidAll, SaidTomb
      <4> QED BY <3>2, <4>2, <4>3, <4>4, <4>5 DEF SaidAll
    <3> QED BY <3>1, <3>2
  <2>7. \A e \in Device \ {d} :
            /\ OwnInv(e)' /\ FoldsOnce(e)'
            /\ "orphaned" \notin slips' => \A j \in Item : SaidAll(e, j)'
    BY <1>1, <1>2, <1>3, OthersSaid
  <2> QED BY <2>3, <2>5, <2>6, <2>7 DEF SaidInv
<1> QED
  BY <1>2, <1>6, <1>7

LEMMA FoldDeletedSaid ==
    ASSUME MergeAssumption, NoneIsNoRecord, MInv, MInv', Grows, FShape, slips \subseteq slips', SaidInv,
           NEW d \in Device, NEW i \in Item, FoldDeleted(d, i)
    PROVE  SaidInv'
<1>1. /\ OthersSame(d) /\ pc' = pc /\ pc[d] = "fold" /\ i \in DOMAIN todo[d]
      /\ DOMAIN todo'[d] = DOMAIN todo[d] \ {i}
      /\ tombs'[d][i] = RecordDelete(d, tombs[d][i], docs[d][i])
      /\ \A j \in Item \ {i} : tombs'[d][j] = tombs[d][j]
  BY FoldDeletedEffect DEF MInv
<1>2. /\ log' = log /\ outbox' = outbox /\ docs' = docs
      /\ updates'[d].docs = updates[d].docs
      /\ DOMAIN updates'[d].tombs = {i} \union DOMAIN updates[d].tombs
      /\ updates'[d].tombs[i] = tombs'[d][i]
      /\ \A j \in DOMAIN updates[d].tombs \ {i} : updates'[d].tombs[j] = updates[d].tombs[j]
  BY <1>1, FoldDeletedSends DEF MInv
<1>3. Logged' = Logged /\ \A e \in Device : Out(e)' = Out(e)
  BY <1>2 DEF Logged, Out, Elements
<1>4. i \notin DOMAIN updates[d].tombs /\ FoldsOnce(d) /\ OwnInv(d)
  BY <1>1 DEF SaidInv, FoldsOnce
<1>5. tombs'[d][i] # None
  <2>1. tombs[d][i] = None \/ IsTomb(tombs[d][i])
    BY DEF MInv, TombInv, TombsOf
  <2>2. IsTomb(RecordDelete(d, tombs[d][i], docs[d][i]))
    BY <2>1, RecordGrows
  <2> QED BY <1>1, <2>2 DEF IsTomb, NoneIsNoRecord
<1>6. Carries(updates'[d], updates[d])
  BY <1>2, <1>4 DEF Carries
<1>7. Remains(d)
  <2>1. updates'[d] \in Near(d)' /\ \A p \in Logged \union Out(d) : p \in Near(d)' /\ Carries(p, p)
    BY <1>3 DEF Near, Carries
  <2> QED BY <1>6, <2>1 DEF Remains, Near
<1>8. FoldsOnce(d)'
  BY <1>1, <1>2, <1>4 DEF FoldsOnce
<1>9. HeldBy(docs'[d], tombs'[d], updates'[d])
  <2>1. updates[d] \in Own(d) /\ updates[d] \in Carried
    BY NearCarried DEF Own
  <2>2. HeldBy(docs'[d], tombs'[d], updates[d])
    BY <1>4, <2>1, HeldStays DEF OwnInv
  <2>3. HasTomb(tombs'[d][i], updates'[d].tombs[i])
    BY <1>2, <1>5 DEF HasTomb
  <2> QED BY <1>2, <1>4, <2>2, <2>3 DEF HeldBy
<1>10. OwnInv(d)'
  <2>1. \A p \in Own(d)' : p \in Own(d) \/ p = updates'[d]
    BY <1>3 DEF Own
  <2>2. \A p \in Out(d)' : p.dev = d
    BY <1>3, <1>4 DEF OwnInv
  <2> QED BY <1>4, <1>9, <2>1, <2>2, OwnStays
<1>11. ASSUME "orphaned" \notin slips', NEW j \in Item
       PROVE  SaidAll(d, j)'
  <2>0. SaidAll(d, j) /\ docs'[d][j] = docs[d][j]
    BY <1>2, <1>11 DEF SaidInv
  <2>1. CASE j # i
    BY <1>1, <1>7, <2>0, <2>1, SaidStays
  <2>2. CASE j = i
    <3>1. /\ SaidDoc(d, i) => SaidDoc(d, i)'
          /\ \A o : SaidOp(d, i, o) => SaidOp(d, i, o)'
          /\ \A o : SaidDel(d, i, o) => SaidDel(d, i, o)'
      BY <1>7, SaidGrows
    <3>2. updates'[d] \in Near(d)' /\ i \in DOMAIN updates'[d].tombs
      BY <1>2 DEF Near
    <3>3. SaidTomb(d, i, tombs[d][i])'
      BY <1>2, <3>2 DEF SaidTomb
    <3> QED BY <2>0, <2>2, <3>1, <3>3 DEF SaidAll
  <2> QED BY <2>1, <2>2
<1>12. \A e \in Device \ {d} :
           /\ OwnInv(e)' /\ FoldsOnce(e)'
           /\ "orphaned" \notin slips' => \A j \in Item : SaidAll(e, j)'
  BY <1>1, <1>2, <1>3, OthersSaid
<1> QED
  BY <1>8, <1>10, <1>11, <1>12 DEF SaidInv

LEMMA QueuePushSaid ==
    ASSUME MergeAssumption, NoneIsNoRecord, MInv, MInv', Grows, FShape, slips \subseteq slips', SaidInv,
           NEW d \in Device, QueuePush(d)
    PROVE  SaidInv'
<1> DEFINE p == Payload(d, updates[d].docs, updates[d].tombs)
<1>1. /\ OthersSame(d) /\ DocsSame /\ MovesTo(d, "idle") /\ log' = log
  BY QueuePushEffect DEF MInv
<1>2. /\ Logged' = Logged /\ Out(d)' = Out(d) \union {p}
      /\ \A e \in Device \ {d} : Out(e)' = Out(e)
      /\ updates'[d] = NoUpdates
  BY QueuePushSends DEF MInv
<1>3. p.dev = d /\ p.docs = updates[d].docs /\ p.tombs = updates[d].tombs
  BY DEF Payload
<1> HIDE DEF p
<1>4. Remains(d)
  <2>1. Carries(p, updates[d]) /\ \A q : Carries(q, q)
    BY <1>3 DEF Carries
  <2>2. p \in Near(d)' /\ \A q \in Logged \union Out(d) : q \in Near(d)'
    BY <1>2 DEF Near
  <2> QED BY <2>1, <2>2 DEF Remains, Near
<1>5. OwnInv(d)'
  <2>0. OwnInv(d)
    BY DEF SaidInv
  <2>1. updates[d] \in Own(d) /\ updates[d] \in Carried
    BY NearCarried DEF Own
  <2>2. HeldBy(docs'[d], tombs'[d], updates[d])
    BY <2>0, <2>1, HeldStays DEF OwnInv
  <2>3. HeldBy(docs'[d], tombs'[d], p)
    BY <1>3, <2>2 DEF HeldBy
  <2>4. HeldBy(docs'[d], tombs'[d], NoUpdates)
    BY DEF HeldBy, NoUpdates, Empty
  <2>5. \A q \in Own(d)' : q \in Own(d) \/ q = p \/ q = NoUpdates
    BY <1>2 DEF Own
  <2>6. \A q \in Out(d)' : q.dev = d
    BY <1>2, <1>3, <2>0 DEF OwnInv
  <2> QED BY <2>0, <2>3, <2>4, <2>5, <2>6, OwnStays
<1>6. FoldsOnce(d)'
  <2>1. pc'[d] = "idle"
    BY <1>1 DEF MovesTo
  <2> QED BY <1>2, <2>1, OnceEnds
<1>7. ASSUME "orphaned" \notin slips', NEW j \in Item
      PROVE  SaidAll(d, j)'
  <2>1. SaidAll(d, j) /\ docs'[d][j] = docs[d][j] /\ tombs'[d][j] = tombs[d][j]
    BY <1>1, <1>7 DEF SaidInv, DocsSame
  <2> QED BY <1>4, <2>1, SaidStays
<1>8. \A e \in Device \ {d} :
          /\ OwnInv(e)' /\ FoldsOnce(e)'
          /\ "orphaned" \notin slips' => \A j \in Item : SaidAll(e, j)'
  BY <1>1, <1>2, OthersSaid
<1> QED
  BY <1>5, <1>6, <1>7, <1>8 DEF SaidInv

LEMMA DeliverSaid ==
    ASSUME MergeAssumption, MInv, MInv', Grows, FShape, slips \subseteq slips', SaidInv,
           NEW d \in Device, Deliver(d)
    PROVE  SaidInv'
<1>1. DocsSame /\ pc' = pc /\ todo' = todo
  BY DeliverEffect
<1>2. PICK p \in Out(d) : /\ Logged' = Logged \union {p} /\ Out(d) = Out(d)' \union {p}
                          /\ \A e \in Device \ {d} : Out(e)' = Out(e)
                          /\ updates' = updates
  BY DeliverSends DEF MInv
<1>3. p.dev = d
  BY DEF SaidInv, OwnInv
<1>4. ASSUME NEW e \in Device
      PROVE  OwnInv(e)'
  <2>0. OwnInv(e) /\ Out(e)' \subseteq Out(e)
    BY <1>2 DEF SaidInv
  <2>1. \A q \in Own(e)' : q \in Own(e)
    BY <1>2, <1>3, <2>0 DEF Own
  <2>2. \A q \in Out(e)' : q.dev = e
    BY <2>0 DEF OwnInv
  <2> QED BY <2>0, <2>1, <2>2, OwnStays
<1>5. \A e \in Device : FoldsOnce(e)'
  BY <1>1, <1>2, OnceStays DEF SaidInv
<1>6. ASSUME "orphaned" \notin slips', NEW e \in Device, NEW i \in Item
      PROVE  SaidAll(e, i)'
  <2>1. \A q \in Near(e) : q \in Near(e)' /\ Carries(q, q)
    BY <1>2 DEF Near, Carries
  <2>2. Remains(e)
    BY <2>1 DEF Remains
  <2>3. SaidAll(e, i) /\ docs'[e][i] = docs[e][i] /\ tombs'[e][i] = tombs[e][i]
    BY <1>1, <1>6 DEF SaidInv, DocsSame
  <2> QED BY <2>2, <2>3, SaidStays
<1> QED
  BY <1>4, <1>5, <1>6 DEF SaidInv

\* What the documents are after an update was merged.
LEMMA ReceiveMerges ==
    ASSUME Shape, NEW d \in Device, Receive(d)
    PROVE  /\ outbox' = outbox /\ log[cursor[d] + 1] \in Logged
           /\ \A i \in Item :
                /\ docs'[d][i] = IF i \in DOMAIN log[cursor[d] + 1].docs
                                 THEN MergeDoc(docs[d][i], log[cursor[d] + 1].docs[i]) ELSE docs[d][i]
                /\ tombs'[d][i] = IF i \in DOMAIN log[cursor[d] + 1].tombs
                                  THEN MergeTomb(tombs[d][i], log[cursor[d] + 1].tombs[i]) ELSE tombs[d][i]
<1> DEFINE p == log[cursor[d] + 1]
           D == [i \in Item |-> IF i \in DOMAIN p.docs THEN MergeDoc(docs[d][i], p.docs[i]) ELSE docs[d][i]]
           T == [i \in Item |-> IF i \in DOMAIN p.tombs THEN MergeTomb(tombs[d][i], p.tombs[i]) ELSE tombs[d][i]]
<1>1. PutRow(docs, docs', d, D) /\ PutRow(tombs, tombs', d, T) /\ outbox' = outbox /\ cursor[d] < Len(log)
  BY DEF Receive, PutRow
<1>2. D = [i \in Item |-> D[i]] /\ T = [i \in Item |-> T[i]]
  OBVIOUS
<1>3. p \in Logged
  <2>1. DOMAIN log = 1..Len(log) /\ Len(log) \in Nat /\ cursor[d] \in Nat
    BY SeqFacts DEF Shape
  <2> QED BY <1>1, <2>1 DEF Logged, Elements
<1>4. \A i \in Item : /\ D[i] = IF i \in DOMAIN p.docs THEN MergeDoc(docs[d][i], p.docs[i]) ELSE docs[d][i]
                      /\ T[i] = IF i \in DOMAIN p.tombs THEN MergeTomb(tombs[d][i], p.tombs[i]) ELSE tombs[d][i]
  OBVIOUS
<1> HIDE DEF D, T
<1>5. \A i \in Item : docs'[d][i] = D[i]
  BY <1>1, <1>2, CellsRow DEF Shape
<1>6. \A i \in Item : tombs'[d][i] = T[i]
  BY <1>1, <1>2, CellsRow DEF Shape
<1> QED
  BY <1>1, <1>3, <1>4, <1>5, <1>6

LEMMA ReceiveSaid ==
    ASSUME MergeAssumption, NoneIsNoRecord, MInv, MInv', Grows, FShape, slips \subseteq slips', SaidInv,
           NEW d \in Device, Receive(d)
    PROVE  SaidInv'
<1> DEFINE p == log[cursor[d] + 1]
<1>1. /\ OthersSame(d) /\ MovesTo(d, "queue") /\ pc[d] = "idle" /\ updates' = updates /\ log' = log
  BY ReceiveEffect DEF MInv
<1>2. /\ outbox' = outbox /\ p \in Logged
      /\ \A i \in Item :
            /\ docs'[d][i] = IF i \in DOMAIN p.docs THEN MergeDoc(docs[d][i], p.docs[i]) ELSE docs[d][i]
            /\ tombs'[d][i] = IF i \in DOMAIN p.tombs THEN MergeTomb(tombs[d][i], p.tombs[i]) ELSE tombs[d][i]
  BY ReceiveMerges DEF MInv
<1> HIDE DEF p
<1>3. Logged' = Logged /\ \A e \in Device : Out(e)' = Out(e)
  BY <1>1, <1>2 DEF Logged, Out, Elements
<1>4. Remains(d)
  BY <1>1, <1>2, NearStays
<1>5. OwnInv(d)'
  <2>1. Own(d)' = Own(d) /\ OwnInv(d)
    BY <1>1, <1>3 DEF Own, SaidInv
  <2>2. \A q \in Out(d)' : q.dev = d
    BY <1>3, <2>1 DEF OwnInv
  <2> QED BY <2>1, <2>2, OwnStays
<1>6. FoldsOnce(d)'
  <2>1. pc'[d] = "queue" /\ updates'[d] = NoUpdates
    BY <1>1 DEF MovesTo, SaidInv, FoldsOnce
  <2> QED BY <2>1, OnceEnds
<1>7. ASSUME "orphaned" \notin slips', NEW i \in Item
      PROVE  SaidAll(d, i)'
  <2>0. SaidAll(d, i)
    BY <1>7 DEF SaidInv
  <2>1. /\ SaidDoc(d, i) => SaidDoc(d, i)'
        /\ \A o : SaidOp(d, i, o) => SaidOp(d, i, o)'
        /\ \A o : SaidDel(d, i, o) => SaidDel(d, i, o)'
        /\ \A t : SaidTomb(d, i, t) => SaidTomb(d, i, t)'
    BY <1>4, SaidGrows
  <2>2. p \in Near(d)' /\ WellFormed(p)
    <3>1. p \in Near(d) /\ p \in Carried
      BY <1>2, NearCarried DEF Near
    <3>2. p \in Near(d)'
      BY <1>2, <1>3 DEF Near
    <3> QED BY <3>1, <3>2 DEF MInv, CarriedInv
  <2>3. docs'[d][i] # None => /\ SaidDoc(d, i)'
                              /\ \A o \in docs'[d][i].ops : SaidOp(d, i, o)'
                              /\ \A o \in docs'[d][i].dels : SaidDel(d, i, o)'
    <3>1. CASE i \notin DOMAIN p.docs
      BY <1>2, <2>0, <2>1, <3>1 DEF SaidAll
    <3>2. CASE i \in DOMAIN p.docs
      <4>1. SaidDoc(d, i)' /\ (\A o \in p.docs[i].ops : SaidOp(d, i, o)')
                /\ (\A o \in p.docs[i].dels : SaidDel(d, i, o)')
        BY <2>2, <3>2 DEF SaidDoc, SaidOp, SaidDel
      <4>2. CASE docs[d][i] = None
        BY <1>2, <3>2, <4>1, <4>2 DEF MergeDoc
      <4>3. CASE docs[d][i] # None
        <5>1. docs'[d][i] = [ops |-> docs[d][i].ops \union p.docs[i].ops, dels |-> docs[d][i].dels \union p.docs[i].dels]
          BY <1>2, <3>2, <4>3 DEF MergeDoc
        <5>2. /\ docs'[d][i].ops = docs[d][i].ops \union p.docs[i].ops
              /\ docs'[d][i].dels = docs[d][i].dels \union p.docs[i].dels
          BY <5>1
        <5> QED BY <2>0, <2>1, <4>1, <4>3, <5>2 DEF SaidAll
      <4> QED BY <4>2, <4>3
    <3> QED BY <3>1, <3>2
  <2>4. tombs'[d][i] # None => \E q \in Near(d)' : i \in DOMAIN q.tombs /\ q.tombs[i] = tombs'[d][i]
    <3>1. tombs'[d][i] = tombs[d][i] \/ (i \in DOMAIN p.tombs /\ tombs'[d][i] = p.tombs[i])
      BY <1>2 DEF MergeTomb
    <3>2. CASE tombs'[d][i] = tombs[d][i]
      <4>1. tombs[d][i] # None => SaidTomb(d, i, tombs[d][i])
        BY <2>0 DEF SaidAll
      <4>2. tombs[d][i] # None => \E q \in Near(d)' : i \in DOMAIN q.tombs /\ q.tombs[i] = tombs[d][i]
        BY <1>4, <4>1 DEF SaidTomb, Remains, Carries
      <4> QED BY <3>2, <4>2
    <3>3. CASE i \in DOMAIN p.tombs /\ tombs'[d][i] = p.tombs[i]
      BY <2>2, <3>3
    <3> QED BY <3>1, <3>2, <3>3
  <2> QED BY <2>3, <2>4 DEF SaidAll, SaidTomb
<1>8. \A e \in Device \ {d} :
          /\ OwnInv(e)' /\ FoldsOnce(e)'
          /\ "orphaned" \notin slips' => \A j \in Item : SaidAll(e, j)'
  BY <1>1, <1>3, OthersSaid
<1> QED
  BY <1>5, <1>6, <1>7, <1>8 DEF SaidInv

LEMMA InitSaid == Init => SaidInv
<1> SUFFICES ASSUME Init
             PROVE  SaidInv
  OBVIOUS
<1>1. \A d \in Device : /\ updates[d] = NoUpdates /\ outbox[d] = <<>> /\ pc[d] = "start"
                        /\ \A i \in Item : docs[d][i] = None /\ tombs[d][i] = None
  BY DEF Init
<1>2. log = <<>>
  BY DEF Init
<1>3. \A d \in Device : Out(d) = {} /\ Own(d) = {NoUpdates}
  BY <1>1, <1>2 DEF Out, Own, Logged, Elements
<1>4. \A d \in Device : HeldBy(docs[d], tombs[d], NoUpdates)
  BY DEF HeldBy, NoUpdates, Empty
<1>5. \A d \in Device : OwnInv(d)
  BY <1>3, <1>4 DEF OwnInv
<1>6. \A d \in Device : FoldsOnce(d)
  BY <1>1 DEF FoldsOnce
<1>7. \A d \in Device, i \in Item : SaidAll(d, i)
  BY <1>1 DEF SaidAll
<1> QED
  BY <1>5, <1>6, <1>7 DEF SaidInv

LEMMA StepSaid ==
    ASSUME MergeAssumption, NoneIsNoRecord, MInv, FShape, SaidInv, [Next]_vars
    PROVE  SaidInv'
<1>1. MInv' /\ Grows /\ slips \subseteq slips'
  BY StepMInv, SlipsGrow
<1>2. CASE UNCHANGED vars
  <2>1. UNCHANGED <<docs, tombs, outbox, log, pc, todo, updates, slips>>
    BY <1>2 DEF vars, disk, memory
  <2>2. Logged' = Logged /\ \A e \in Device : Out(e)' = Out(e)
    BY <2>1 DEF Logged, Out, Elements
  <2>3. \A e \in Device : FoldsOnce(e)'
    BY <2>1, OnceStays DEF SaidInv
  <2>4. ASSUME NEW e \in Device
        PROVE  OwnInv(e)'
    <3>1. Own(e)' = Own(e) /\ OwnInv(e)
      BY <2>1, <2>2 DEF Own, SaidInv
    <3>2. \A p \in Out(e)' : p.dev = e
      BY <2>2, <3>1 DEF OwnInv
    <3> QED BY <1>1, <3>1, <3>2, OwnStays
  <2>5. ASSUME "orphaned" \notin slips', NEW e \in Device, NEW i \in Item
        PROVE  SaidAll(e, i)'
    <3>1. Remains(e) /\ SaidAll(e, i)
      BY <1>1, <2>1, <2>5, NearStays DEF SaidInv
    <3> QED BY <2>1, <3>1, SaidStays
  <2> QED BY <2>3, <2>4, <2>5 DEF SaidInv
<1>3. ASSUME NEW d \in Device, User(d) \/ Sync(d) \/ Crash(d)
      PROVE  SaidInv'
  <2>1. CASE Plain(d)
    BY <1>1, <2>1, PlainSaid
  <2>2. CASE Fold(d)
    <3>1. PICK i \in Item : FoldItem(d, i) \/ FoldDeleted(d, i)
      BY <2>2 DEF Fold
    <3> QED BY <1>1, <3>1, FoldItemSaid, FoldDeletedSaid
  <2>3. CASE QueuePush(d)
    BY <1>1, <2>3, QueuePushSaid
  <2>4. CASE Deliver(d)
    BY <1>1, <2>4, DeliverSaid
  <2>5. CASE Receive(d)
    BY <1>1, <2>5, ReceiveSaid
  <2> QED BY <1>3, <2>1, <2>2, <2>3, <2>4, <2>5 DEF Sync, Plain, Quiet
<1> QED
  BY <1>2, <1>3 DEF Next

\* A device's documents and tombstones say no more than the log and what it has still
\* to send, unless a crash orphaned an update; and they hold all that it sends itself.
THEOREM SaidInvariance ==
    ASSUME NoneIsNoRecord
    PROVE  Spec => []SaidInv
<1>1. Init => SaidInv
  BY InitSaid
<1>2. MInv /\ FilesInv /\ SaidInv /\ [Next]_vars => SaidInv'
  BY StepSaid, MergeAssumption DEF FilesInv
<1> QED
  BY <1>1, <1>2, MergeInvariance, FilesInvariance, PTL DEF Spec

-----------------------------------------------------------------------------
(* A stat that is taken for the file's is the file's                        *)

\* What a shadow entry with a fitting stat says of the file, and an entry without.
Fits(text, e) == (e # None /\ e.same /\ text # None) => text = e.text
Loose(e) == e # None => ~e.same
Solid(e) == e # None => e.text # None

\* Unless an apply has taken the stat of a file that it had not written, an
\* entry whose stat fits has the file's text; what an apply is about to write
\* it does not pass for seen before the write; and an entry is of a file.
StatRow(d, i) ==
    /\ Solid(shadow[d][i]) /\ Solid(saved[d][i])
    /\ "unseen" \notin slips => Fits(file[d][i], shadow[d][i]) /\ Fits(file[d][i], saved[d][i])
    /\ pc[d] \in {"write", "stat"} /\ i \in DOMAIN todo[d] =>
        /\ Seen(d, i) = todo[d][i] /\ Loose(shadow[d][i])
        /\ pc[d] = "stat" => Loose(saved[d][i])
StatInv == \A d \in Device, i \in Item : StatRow(d, i)

LEMMA LooseFits ==
    ASSUME NoneIsNoRecord, NEW e, IsEntry(e), NEW x
    PROVE  /\ Loose(e) => Fits(x, e)
           /\ Loose(Stale(e)) /\ Fits(x, Stale(e))
           /\ Solid(e) => Solid(Stale(e))
<1>1. Loose(e) => Fits(x, e)
  BY DEF Loose, Fits
<1>2. Loose(Stale(e))
  <2>1. CASE e = None
    BY <2>1 DEF Stale, Loose
  <2>2. CASE e # None
    <3>1. Stale(e) = [text |-> e.text, same |-> FALSE]
      BY <2>2 DEF IsEntry, Stale
    <3> QED BY <3>1 DEF Loose
  <2> QED BY <2>1, <2>2
<1>3. Fits(x, Stale(e))
  BY <1>2 DEF Loose, Fits
<1>4. Solid(e) => Solid(Stale(e))
  BY StaleText DEF Solid, Stale, TextIn
<1> QED
  BY <1>1, <1>2, <1>3, <1>4

LEMMA NewEntryFits ==
    ASSUME NoneIsNoRecord, NEW t
    PROVE  /\ Fits(t, Entry(t, TRUE)) /\ Loose(Entry(t, FALSE))
           /\ \A x : Fits(x, None) /\ Fits(None, x)
           /\ Loose(None) /\ Solid(None)
           /\ t # None => \A s : Solid(Entry(t, s))
BY DEF Entry, Fits, Loose, Solid

\* A row of which nothing changes that an apply has at hand.
LEMMA StatStays ==
    ASSUME slips \subseteq slips', NEW d \in Device, NEW i \in Item, StatRow(d, i),
           file'[d][i] = file[d][i], shadow'[d][i] = shadow[d][i], saved'[d][i] = saved[d][i],
           \/ pc'[d] \notin {"write", "stat"}
           \/ pc'[d] = pc[d] /\ todo'[d] = todo[d]
    PROVE  StatRow(d, i)'
<1>1. "unseen" \notin slips' => Fits(file'[d][i], shadow'[d][i]) /\ Fits(file'[d][i], saved'[d][i])
  BY DEF StatRow
<1>2. ASSUME pc'[d] \in {"write", "stat"}, i \in DOMAIN todo'[d]
      PROVE  /\ TextIn(shadow'[d][i]) = todo'[d][i] /\ Loose(shadow'[d][i])
             /\ pc'[d] = "stat" => Loose(saved'[d][i])
  BY <1>2 DEF StatRow, Seen
<1> QED
  BY <1>1, <1>2 DEF StatRow, Fits, Loose, Solid, Seen, TextIn

\* What a step that changes one device's row of the shadows and the files has to show.
LEMMA StatOthers ==
    ASSUME Shape, FShape, slips \subseteq slips', StatInv, NEW d \in Device,
           \A e \in Device \ {d}, i \in Item :
               file'[e][i] = file[e][i] /\ shadow'[e][i] = shadow[e][i] /\ saved'[e][i] = saved[e][i],
           \A e \in Device \ {d} : pc'[e] = pc[e] /\ todo'[e] = todo[e],
           \A i \in Item : StatRow(d, i)'
    PROVE  StatInv'
<1>1. ASSUME NEW e \in Device \ {d}, NEW i \in Item
      PROVE  StatRow(e, i)'
  <2>1. StatRow(e, i)
    BY DEF StatInv
  <2>2. /\ file'[e][i] = file[e][i] /\ shadow'[e][i] = shadow[e][i] /\ saved'[e][i] = saved[e][i]
        /\ pc'[e] = pc[e] /\ todo'[e] = todo[e]
    OBVIOUS
  <2> QED BY <2>1, <2>2, StatStays
<1> QED
  BY <1>1 DEF StatInv

\* A user's write leaves no entry whose stat fits.
LEMMA UserStat ==
    ASSUME NoneIsNoRecord, Shape, FShape, slips \subseteq slips', StatInv,
           NEW d \in Device, NEW k \in Item, NEW text, UserWrites(d, k, text)
    PROVE  StatInv'
<1>1. /\ \A e \in Device, j \in Item : file'[e][j] = IF e = d /\ j = k THEN text ELSE file[e][j]
      /\ UNCHANGED <<pc, todo>>
      /\ \A e \in Device, j \in Item : Seen(e, j)' = Seen(e, j)
  <2>1. \A e \in Device, j \in Item :
          /\ file'[e][j] = IF e = d /\ j = k THEN text ELSE file[e][j]
          /\ Seen(e, j)' = Seen(e, j) /\ Kept(e, j)' = Kept(e, j)
    BY UserEffect
  <2>2. UNCHANGED <<pc, todo>>
    BY UserEffect
  <2> QED BY <2>1, <2>2
<1>2. \A e \in Device, j \in Item :
        shadow'[e][j] = IF e = d /\ j = k THEN Stale(shadow[d][k]) ELSE shadow[e][j]
  <2>1. Cells(shadow)
    BY DEF FShape, Entries
  <2>2. PutCell(shadow, shadow', d, k, Stale(shadow[d][k]))
    BY DEF UserWrites, PutCell
  <2> QED BY <2>1, <2>2, CellsPoint
<1>3. \A e \in Device, j \in Item :
        saved'[e][j] = IF e = d /\ j = k THEN Stale(saved[d][k]) ELSE saved[e][j]
  <2>1. Cells(saved)
    BY DEF FShape, Entries
  <2>2. PutCell(saved, saved', d, k, Stale(saved[d][k]))
    BY DEF UserWrites, PutCell
  <2> QED BY <2>1, <2>2, CellsPoint
<1>4. ASSUME NEW i \in Item
      PROVE  StatRow(d, i)'
  <2>0. StatRow(d, i)
    BY DEF StatInv
  <2>1. CASE i = k
    <3>1. IsEntry(shadow[d][i]) /\ IsEntry(saved[d][i])
      BY DEF FShape, Entries
    <3>2. Loose(shadow'[d][i]) /\ Loose(saved'[d][i])
      BY <1>2, <1>3, <2>1, <3>1, LooseFits
    <3>3. TextIn(shadow'[d][i]) = TextIn(shadow[d][i])
      BY <1>1 DEF Seen, TextIn
    <3>4. Fits(file'[d][i], shadow'[d][i]) /\ Fits(file'[d][i], saved'[d][i])
      BY <3>2 DEF Loose, Fits
    <3>5. Solid(shadow'[d][i]) /\ Solid(saved'[d][i])
      BY <1>2, <1>3, <2>0, <2>1, <3>1, LooseFits DEF StatRow
    <3> QED BY <1>1, <2>0, <3>2, <3>3, <3>4, <3>5 DEF StatRow, Seen, Loose, Fits, Solid, TextIn
  <2>2. CASE i # k
    <3>1. file'[d][i] = file[d][i] /\ shadow'[d][i] = shadow[d][i] /\ saved'[d][i] = saved[d][i]
      BY <1>1, <1>2, <1>3, <2>2
    <3> QED BY <1>1, <2>0, <3>1, StatStays
  <2> QED BY <2>1, <2>2
<1>5. \A e \in Device \ {d}, i \in Item :
        file'[e][i] = file[e][i] /\ shadow'[e][i] = shadow[e][i] /\ saved'[e][i] = saved[e][i]
  BY <1>1, <1>2, <1>3
<1> QED
  BY <1>1, <1>4, <1>5, StatOthers

\* The shadow's row after the step, where the saved one and the files are left alone.
LEMMA ShadowRow ==
    ASSUME FShape, NEW d \in Device, NEW row, row = [i \in Item |-> row[i]],
           PutRow(shadow, shadow', d, row)
    PROVE  \A e \in Device, i \in Item : shadow'[e][i] = IF e = d THEN row[i] ELSE shadow[e][i]
<1>1. Cells(shadow)
  BY DEF FShape, Entries
<1> QED
  BY <1>1, CellsRow

LEMMA ScanStat ==
    ASSUME NoneIsNoRecord, Shape, FShape, slips \subseteq slips', StatInv, NEW d \in Device, Scan(d)
    PROVE  StatInv'
<1> DEFINE row == [i \in Item |-> IF i \in Gone(d) THEN None
                                  ELSE IF i \in ToRead(d) THEN Entry(file[d][i], TRUE)
                                  ELSE shadow[d][i]]
<1>1. /\ PutRow(shadow, shadow', d, row) /\ UNCHANGED <<file, saved>>
  BY DEF Scan, PutRow, disk
<1>2. OthersSame(d) /\ MovesTo(d, "fold")
  BY ScanEffect
<1>3. row = [i \in Item |-> row[i]]
  OBVIOUS
<1>4. \A i \in Item : row[i] = IF i \in Gone(d) THEN None
                               ELSE IF i \in ToRead(d) THEN Entry(file[d][i], TRUE)
                               ELSE shadow[d][i]
  OBVIOUS
<1> HIDE DEF row
<1>5. \A e \in Device, i \in Item : shadow'[e][i] = IF e = d THEN row[i] ELSE shadow[e][i]
  BY <1>1, <1>3, ShadowRow
<1>6. ASSUME NEW i \in Item
      PROVE  StatRow(d, i)'
  <2>0. StatRow(d, i) /\ pc'[d] = "fold"
    BY <1>2 DEF StatInv, MovesTo
  <2>1. "unseen" \notin slips' => Fits(file[d][i], row[i]) /\ Fits(file[d][i], saved[d][i])
    BY <1>4, <2>0, NewEntryFits DEF StatRow
  <2>2. "unseen" \notin slips' => Fits(file'[d][i], shadow'[d][i]) /\ Fits(file'[d][i], saved'[d][i])
    BY <1>1, <1>5, <2>1
  <2>3. Solid(row[i])
    BY <1>4, <2>0, NewEntryFits DEF StatRow, ToRead
  <2>4. Solid(shadow'[d][i]) /\ Solid(saved'[d][i])
    BY <1>1, <1>5, <2>0, <2>3 DEF StatRow
  <2> QED BY <2>0, <2>2, <2>4 DEF StatRow, Fits, Solid
<1>7. \A e \in Device \ {d}, i \in Item :
        file'[e][i] = file[e][i] /\ shadow'[e][i] = shadow[e][i] /\ saved'[e][i] = saved[e][i]
  BY <1>1, <1>5
<1>8. \A e \in Device \ {d} : pc'[e] = pc[e] /\ todo'[e] = todo[e]
  BY <1>2 DEF OthersSame
<1> QED
  BY <1>6, <1>7, <1>8, StatOthers

\* One shadow is copied to the other.
LEMMA CopyStat ==
    ASSUME NoneIsNoRecord, Shape, FShape, slips \subseteq slips', StatInv,
           NEW d \in Device, SaveShadow(d) \/ Crash(d)
    PROVE  StatInv'
<1>1. file' = file /\ OthersSame(d) /\ pc'[d] \notin {"write", "stat"}
  <2>1. CASE SaveShadow(d)
    <3>1. OthersSame(d) /\ file' = file /\ (MovesTo(d, "idle") \/ MovesTo(d, "push"))
      BY <2>1, SaveShadowEffect
    <3> QED BY <3>1 DEF MovesTo
  <2>2. CASE Crash(d)
    <3>1. OthersSame(d) /\ file' = file /\ MovesTo(d, "start")
      BY <2>2, CrashEffect
    <3> QED BY <3>1 DEF MovesTo
  <2> QED BY <2>1, <2>2
<1>2. \/ shadow' = shadow /\ PutRow(saved, saved', d, shadow[d])
      \/ saved' = saved /\ PutRow(shadow, shadow', d, saved[d])
  BY DEF SaveShadow, Crash, PutRow, disk
<1>3. /\ saved[d] = [i \in Item |-> saved[d][i]] /\ shadow[d] = [i \in Item |-> shadow[d][i]]
      /\ Cells(saved) /\ Cells(shadow)
  BY DEF FShape, Entries, Cells
<1>4. \/ /\ shadow' = shadow
         /\ \A e \in Device, i \in Item : saved'[e][i] = IF e = d THEN shadow[d][i] ELSE saved[e][i]
      \/ /\ saved' = saved
         /\ \A e \in Device, i \in Item : shadow'[e][i] = IF e = d THEN saved[d][i] ELSE shadow[e][i]
  <2>1. CASE shadow' = shadow /\ PutRow(saved, saved', d, shadow[d])
    BY <1>3, <2>1, CellsRow
  <2>2. CASE saved' = saved /\ PutRow(shadow, shadow', d, saved[d])
    BY <1>3, <2>2, CellsRow
  <2> QED BY <1>2, <2>1, <2>2
<1>5. ASSUME NEW i \in Item
      PROVE  StatRow(d, i)'
  <2>1. StatRow(d, i)
    BY DEF StatInv
  <2>2. /\ shadow'[d][i] \in {shadow[d][i], saved[d][i]}
        /\ saved'[d][i] \in {shadow[d][i], saved[d][i]}
    BY <1>4
  <2>3. "unseen" \notin slips' => Fits(file'[d][i], shadow'[d][i]) /\ Fits(file'[d][i], saved'[d][i])
    BY <1>1, <2>1, <2>2 DEF StatRow
  <2>4. Solid(shadow'[d][i]) /\ Solid(saved'[d][i])
    BY <2>1, <2>2 DEF StatRow
  <2> QED BY <1>1, <2>3, <2>4 DEF StatRow, Fits, Solid
<1>6. \A e \in Device \ {d}, i \in Item :
        file'[e][i] = file[e][i] /\ shadow'[e][i] = shadow[e][i] /\ saved'[e][i] = saved[e][i]
  BY <1>1, <1>4
<1>7. \A e \in Device \ {d} : pc'[e] = pc[e] /\ todo'[e] = todo[e]
  BY <1>1 DEF OthersSame
<1> QED
  BY <1>5, <1>6, <1>7, StatOthers

LEMMA ApplyCheckStat ==
    ASSUME NoneIsNoRecord, Shape, FShape, slips \subseteq slips', StatInv, NEW d \in Device, ApplyCheck(d)
    PROVE  StatInv'
<1> DEFINE row == [i \in Item |-> IF i \notin ToWrite(d) THEN shadow[d][i]
                                  ELSE IF Materialize(d, i) = None THEN None
                                  ELSE Entry(Materialize(d, i), FALSE)]
<1>1. /\ UNCHANGED <<file, saved>> /\ PutRow(shadow, shadow', d, row)
  BY DEF ApplyCheck, PutRow, disk
<1>2. /\ OthersSame(d) /\ MovesTo(d, "write") /\ DOMAIN todo'[d] = ToWrite(d)
      /\ \A i \in ToWrite(d) : todo'[d][i] = Materialize(d, i)
      /\ \A i \in Item : Seen(d, i)' = IF i \in ToWrite(d) THEN Materialize(d, i) ELSE Seen(d, i)
  BY ApplyCheckEffect
<1>3. row = [i \in Item |-> row[i]]
  OBVIOUS
<1>4. \A i \in Item : row[i] = IF i \notin ToWrite(d) THEN shadow[d][i]
                               ELSE IF Materialize(d, i) = None THEN None
                               ELSE Entry(Materialize(d, i), FALSE)
  OBVIOUS
<1> HIDE DEF row
<1>5. \A e \in Device, i \in Item : shadow'[e][i] = IF e = d THEN row[i] ELSE shadow[e][i]
  BY <1>1, <1>3, ShadowRow
<1>6. ASSUME NEW i \in Item
      PROVE  StatRow(d, i)'
  <2>0. StatRow(d, i) /\ pc'[d] = "write"
    BY <1>2 DEF StatInv, MovesTo
  <2>1. i \in ToWrite(d) => Loose(row[i])
    BY <1>4, NewEntryFits
  <2>2. "unseen" \notin slips' => Fits(file[d][i], row[i]) /\ Fits(file[d][i], saved[d][i])
    BY <1>4, <2>0, <2>1 DEF StatRow, Loose, Fits
  <2>3. "unseen" \notin slips' => Fits(file'[d][i], shadow'[d][i]) /\ Fits(file'[d][i], saved'[d][i])
    BY <1>1, <1>5, <2>2
  <2>4. i \in DOMAIN todo'[d] => Seen(d, i)' = todo'[d][i] /\ Loose(shadow'[d][i])
    BY <1>2, <1>5, <2>1
  <2>5. Solid(row[i])
    BY <1>4, <2>0, NewEntryFits DEF StatRow
  <2>6. Solid(shadow'[d][i]) /\ Solid(saved'[d][i])
    BY <1>1, <1>5, <2>0, <2>5 DEF StatRow
  <2> QED BY <2>0, <2>3, <2>4, <2>6 DEF StatRow, Fits, Loose, Solid
<1>7. \A e \in Device \ {d}, i \in Item :
        file'[e][i] = file[e][i] /\ shadow'[e][i] = shadow[e][i] /\ saved'[e][i] = saved[e][i]
  BY <1>1, <1>5
<1>8. \A e \in Device \ {d} : pc'[e] = pc[e] /\ todo'[e] = todo[e]
  BY <1>2 DEF OthersSame
<1> QED
  BY <1>6, <1>7, <1>8, StatOthers

LEMMA ApplyWriteStat ==
    ASSUME NoneIsNoRecord, Shape, FShape, slips \subseteq slips', StatInv, NEW d \in Device, ApplyWrite(d)
    PROVE  StatInv'
<1> DEFINE row == [i \in Item |-> IF i \in DOMAIN todo[d] THEN Stale(saved[d][i]) ELSE saved[d][i]]
<1>1. shadow' = shadow /\ PutRow(saved, saved', d, row)
  BY DEF ApplyWrite, PutRow
<1>2. /\ OthersSame(d) /\ MovesTo(d, "stat") /\ todo' = todo /\ pc[d] = "write"
      /\ \A i \in Item : file'[d][i] = IF i \in DOMAIN todo[d] THEN todo[d][i] ELSE file[d][i]
  BY ApplyWriteEffect
<1>3. row = [i \in Item |-> row[i]]
  OBVIOUS
<1>4. \A i \in Item : row[i] = IF i \in DOMAIN todo[d] THEN Stale(saved[d][i]) ELSE saved[d][i]
  OBVIOUS
<1> HIDE DEF row
<1>5. \A e \in Device, i \in Item : saved'[e][i] = IF e = d THEN row[i] ELSE saved[e][i]
  <2>1. Cells(saved)
    BY DEF FShape, Entries
  <2> QED BY <1>1, <1>3, <2>1, CellsRow
<1>6. ASSUME NEW i \in Item
      PROVE  StatRow(d, i)'
  <2>0. StatRow(d, i) /\ pc'[d] = "stat"
    BY <1>2 DEF StatInv, MovesTo
  <2>0a. Solid(shadow'[d][i]) /\ Solid(saved'[d][i])
    <3>1. IsEntry(saved[d][i])
      BY DEF FShape, Entries
    <3>2. Solid(row[i])
      BY <1>4, <2>0, <3>1, LooseFits DEF StatRow
    <3> QED BY <1>1, <1>5, <2>0, <3>2 DEF StatRow
  <2>1. CASE i \in DOMAIN todo[d]
    <3>1. Loose(shadow'[d][i]) /\ Seen(d, i)' = todo'[d][i]
      BY <1>1, <1>2, <2>0, <2>1 DEF StatRow, Seen, TextIn
    <3>2. Loose(saved'[d][i])
      <4>1. IsEntry(saved[d][i])
        BY DEF FShape, Entries
      <4> QED BY <1>4, <1>5, <2>1, <4>1, LooseFits
    <3>3. Fits(file'[d][i], shadow'[d][i]) /\ Fits(file'[d][i], saved'[d][i])
      BY <3>1, <3>2 DEF Loose, Fits
    <3> QED BY <2>0a, <3>1, <3>2, <3>3 DEF StatRow, Fits, Loose, Solid
  <2>2. CASE i \notin DOMAIN todo[d]
    <3>1. file'[d][i] = file[d][i] /\ shadow'[d][i] = shadow[d][i] /\ saved'[d][i] = saved[d][i]
      BY <1>1, <1>2, <1>4, <1>5, <2>2
    <3>2. "unseen" \notin slips' => Fits(file'[d][i], shadow'[d][i]) /\ Fits(file'[d][i], saved'[d][i])
      BY <2>0, <3>1 DEF StatRow
    <3> QED BY <1>2, <2>0a, <2>2, <3>2 DEF StatRow, Fits, Solid
  <2> QED BY <2>1, <2>2
<1>7. \A e \in Device \ {d}, i \in Item :
        file'[e][i] = file[e][i] /\ shadow'[e][i] = shadow[e][i] /\ saved'[e][i] = saved[e][i]
  BY <1>1, <1>2, <1>5 DEF OthersSame
<1>8. \A e \in Device \ {d} : pc'[e] = pc[e] /\ todo'[e] = todo[e]
  BY <1>2 DEF OthersSame
<1> QED
  BY <1>6, <1>7, <1>8, StatOthers

\* The entry is completed with the stat of a file that is as it was written,
\* or that is a slip.
LEMMA ApplyStatStat ==
    ASSUME NoneIsNoRecord, Shape, FShape, slips \subseteq slips', StatInv, NEW d \in Device, ApplyStat(d)
    PROVE  StatInv'
<1> DEFINE row == [i \in Item |-> IF i \notin DOMAIN todo[d] THEN shadow[d][i]
                                  ELSE IF file[d][i] = None \/ shadow[d][i] = None THEN None
                                  ELSE [shadow[d][i] EXCEPT !.same = TRUE]]
<1>1. file' = file /\ PutRow(shadow, shadow', d, row) /\ PutRow(saved, saved', d, shadow'[d])
  BY DEF ApplyStat, PutRow
<1>2. /\ OthersSame(d) /\ MovesTo(d, "clear") /\ pc[d] = "stat"
      /\ \A i \in Item : i \in DOMAIN todo[d] => file[d][i] = todo[d][i] \/ "unseen" \in slips'
  BY ApplyStatEffect
<1>3. row = [i \in Item |-> row[i]]
  OBVIOUS
<1>4. \A i \in Item : row[i] = IF i \notin DOMAIN todo[d] THEN shadow[d][i]
                               ELSE IF file[d][i] = None \/ shadow[d][i] = None THEN None
                               ELSE [shadow[d][i] EXCEPT !.same = TRUE]
  OBVIOUS
<1> HIDE DEF row
<1>5. \A e \in Device, i \in Item : shadow'[e][i] = IF e = d THEN row[i] ELSE shadow[e][i]
  BY <1>1, <1>3, ShadowRow
<1>6. Cells(shadow')
  <2>1. Cells(shadow)
    BY DEF FShape, Entries
  <2> QED BY <1>1, <1>3, <2>1, CellsRow
<1>7. shadow'[d] = [i \in Item |-> shadow'[d][i]]
  BY <1>6 DEF Cells
<1>8. \A e \in Device, i \in Item : saved'[e][i] = IF e = d THEN shadow'[d][i] ELSE saved[e][i]
  <2>1. Cells(saved)
    BY DEF FShape, Entries
  <2> QED BY <1>1, <1>7, <2>1, CellsRow
<1>9. ASSUME NEW i \in Item
      PROVE  StatRow(d, i)'
  <2>0. StatRow(d, i) /\ pc'[d] = "clear" /\ IsEntry(shadow[d][i])
    BY <1>2 DEF StatInv, MovesTo, FShape, Entries
  <2>1. ASSUME "unseen" \notin slips'
        PROVE  Fits(file[d][i], row[i])
    <3>1. CASE i \in DOMAIN todo[d] /\ file[d][i] # None /\ shadow[d][i] # None
      <4>1. file[d][i] = TextIn(shadow[d][i])
        BY <1>2, <2>0, <2>1, <3>1 DEF StatRow, Seen
      <4>2. row[i] = [text |-> shadow[d][i].text, same |-> TRUE]
        BY <1>4, <2>0, <3>1 DEF IsEntry
      <4>3. row[i].text = shadow[d][i].text
        BY <4>2
      <4> QED BY <3>1, <4>1, <4>3 DEF Fits, TextIn
    <3>2. CASE i \in DOMAIN todo[d] /\ (file[d][i] = None \/ shadow[d][i] = None)
      BY <1>4, <3>2 DEF Fits
    <3>3. CASE i \notin DOMAIN todo[d]
      BY <1>4, <2>0, <2>1, <3>3 DEF StatRow
    <3> QED BY <3>1, <3>2, <3>3
  <2>2. "unseen" \notin slips' => Fits(file'[d][i], shadow'[d][i]) /\ Fits(file'[d][i], saved'[d][i])
    BY <1>1, <1>5, <1>8, <2>1
  <2>3. Solid(row[i])
    <3>1. CASE i \in DOMAIN todo[d] /\ file[d][i] # None /\ shadow[d][i] # None
      <4>1. row[i] = [text |-> shadow[d][i].text, same |-> TRUE]
        BY <1>4, <2>0, <3>1 DEF IsEntry
      <4> QED BY <2>0, <3>1, <4>1 DEF StatRow, Solid
    <3>2. CASE ~(i \in DOMAIN todo[d] /\ file[d][i] # None /\ shadow[d][i] # None)
      BY <1>4, <2>0, <3>2 DEF StatRow, Solid
    <3> QED BY <3>1, <3>2
  <2>4. Solid(shadow'[d][i]) /\ Solid(saved'[d][i])
    BY <1>5, <1>8, <2>3
  <2> QED BY <2>0, <2>2, <2>4 DEF StatRow, Fits, Solid
<1>10. \A e \in Device \ {d}, i \in Item :
        file'[e][i] = file[e][i] /\ shadow'[e][i] = shadow[e][i] /\ saved'[e][i] = saved[e][i]
  BY <1>1, <1>5, <1>8
<1>11. \A e \in Device \ {d} : pc'[e] = pc[e] /\ todo'[e] = todo[e]
  BY <1>2 DEF OthersSame
<1> QED
  BY <1>9, <1>10, <1>11, StatOthers

\* The steps that leave the files and the shadows alone.
LEMMA StillStat ==
    ASSUME slips \subseteq slips', StatInv, UNCHANGED <<file, shadow, saved>>,
           \A e \in Device : pc'[e] \notin {"write", "stat"} \/ (pc'[e] = pc[e] /\ todo'[e] = todo[e])
    PROVE  StatInv'
<1>1. ASSUME NEW e \in Device, NEW i \in Item
      PROVE  StatRow(e, i)'
  <2>1. StatRow(e, i)
    BY DEF StatInv
  <2> QED BY <2>1, StatStays
<1> QED
  BY <1>1 DEF StatInv

LEMMA QuietStat ==
    ASSUME Shape, FShape, slips \subseteq slips', StatInv, NEW d \in Device,
           Fold(d) \/ QueuePush(d) \/ Deliver(d) \/ Receive(d) \/ QueueDirty(d)
               \/ MoveCursor(d) \/ ApplyClear(d)
    PROVE  StatInv'
<1>1. UNCHANGED <<file, shadow, saved>>
  BY DEF Fold, FoldItem, FoldDeleted, QueuePush, Deliver, Receive, QueueDirty, MoveCursor, ApplyClear,
         disk, memory
<1>2. ASSUME NEW e \in Device
      PROVE  pc'[e] \notin {"write", "stat"} \/ (pc'[e] = pc[e] /\ todo'[e] = todo[e])
  <2>1. CASE Fold(d)
    <3>1. PICK i \in Item : FoldItem(d, i) \/ FoldDeleted(d, i)
      BY <2>1 DEF Fold
    <3>2. OthersSame(d) /\ pc' = pc /\ pc[d] = "fold"
      BY <3>1, FoldItemEffect, FoldDeletedEffect
    <3> QED BY <3>2 DEF OthersSame
  <2>2. CASE QueuePush(d)
    <3>1. MovesTo(d, "idle") /\ todo' = todo
      BY <2>2, QueuePushEffect
    <3> QED BY <3>1 DEF MovesTo
  <2>3. CASE Deliver(d)
    BY <2>3 DEF Deliver, memory
  <2>4. CASE Receive(d)
    <3>1. MovesTo(d, "queue") /\ todo' = todo
      BY <2>4, ReceiveEffect
    <3> QED BY <3>1 DEF MovesTo
  <2>5. CASE QueueDirty(d)
    <3>1. MovesTo(d, "cursor") /\ todo' = todo
      BY <2>5, QueueDirtyEffect
    <3> QED BY <3>1 DEF MovesTo
  <2>6. CASE MoveCursor(d)
    <3>1. MovesTo(d, "idle") /\ todo' = todo
      BY <2>6, MoveCursorEffect
    <3> QED BY <3>1 DEF MovesTo
  <2>7. CASE ApplyClear(d)
    <3>1. MovesTo(d, "idle") /\ todo' = todo
      BY <2>7, ApplyClearEffect DEF ApplyClear
    <3> QED BY <3>1 DEF MovesTo
  <2> QED BY <2>1, <2>2, <2>3, <2>4, <2>5, <2>6, <2>7
<1> QED
  BY <1>1, <1>2, StillStat

LEMMA StepStat ==
    ASSUME NoneIsNoRecord, MInv, FilesInv, StatInv, [Next]_vars
    PROVE  StatInv'
<1>0. Shape /\ FShape /\ slips \subseteq slips'
  BY SlipsGrow DEF MInv, FilesInv
<1>1. CASE UNCHANGED vars
  <2>1. UNCHANGED <<file, shadow, saved, pc, todo>>
    BY <1>1 DEF vars, disk, memory
  <2> QED BY <1>0, <2>1, StillStat
<1>2. ASSUME NEW d \in Device, User(d) \/ Sync(d) \/ Crash(d)
      PROVE  StatInv'
  <2>1. CASE User(d)
    <3>1. PICK i \in Item : \E text : UserWrites(d, i, text)
      BY <2>1, UserWritesOne
    <3>2. PICK text : UserWrites(d, i, text)
      BY <3>1
    <3> QED BY <1>0, <3>2, UserStat
  <2>2. CASE Scan(d)
    BY <1>0, <2>2, ScanStat
  <2>3. CASE SaveShadow(d) \/ Crash(d)
    BY <1>0, <2>3, CopyStat
  <2>4. CASE ApplyCheck(d)
    BY <1>0, <2>4, ApplyCheckStat
  <2>5. CASE ApplyWrite(d)
    BY <1>0, <2>5, ApplyWriteStat
  <2>6. CASE ApplyStat(d)
    BY <1>0, <2>6, ApplyStatStat
  <2>7. CASE Fold(d) \/ QueuePush(d) \/ Deliver(d) \/ Receive(d) \/ QueueDirty(d)
                 \/ MoveCursor(d) \/ ApplyClear(d)
    BY <1>0, <2>7, QuietStat
  <2> QED BY <1>2, <2>1, <2>2, <2>3, <2>4, <2>5, <2>6, <2>7 DEF Sync
<1> QED
  BY <1>1, <1>2 DEF Next

\* A file whose recorded stat fits is not read again (scan.rs): it has the text
\* that the shadow says, unless a write fell into an apply unseen.
THEOREM StatInvariance ==
    ASSUME NoneIsNoRecord
    PROVE  Spec => []StatInv
<1>1. Init => StatInv
  <2> SUFFICES ASSUME Init, NEW d \in Device, NEW i \in Item
               PROVE  StatRow(d, i)
    BY DEF StatInv
  <2>1. shadow[d][i] = None /\ saved[d][i] = None /\ pc[d] = "start"
    BY DEF Init
  <2> QED BY <2>1 DEF StatRow, Fits, Solid
<1>2. MInv /\ FilesInv /\ StatInv /\ [Next]_vars => StatInv'
  BY StepStat
<1> QED
  BY <1>1, <1>2, MergeInvariance, FilesInvariance, PTL DEF Spec

-----------------------------------------------------------------------------
(* When everything has been exchanged                                       *)

\* What all that the log carries amounts to is in every device's documents.
LEMMA RestHolds ==
    ASSUME MInv, SaidInv, AtRest, NEW d \in Device
    PROVE  /\ updates[d] = NoUpdates
           /\ \A p \in Near(d) : p \in Logged \/ p = NoUpdates
           /\ \A p \in Logged : HeldBy(docs[d], tombs[d], p) /\ WellFormed(p)
<1>0. pc[d] = "idle" /\ outbox[d] = <<>> /\ cursor[d] = Len(log)
  BY DEF AtRest
<1>1. updates[d] = NoUpdates
  BY <1>0 DEF SaidInv, FoldsOnce
<1>2. Out(d) = {}
  BY <1>0 DEF Out, Elements
<1>3. ASSUME NEW p \in Logged
      PROVE  HeldBy(docs[d], tombs[d], p) /\ WellFormed(p)
  <2>1. PICK k \in DOMAIN log : p = log[k]
    BY DEF Logged, Elements
  <2>2. k \in 1..cursor[d]
    BY <1>0, <2>1 DEF MInv, Shape, IsSeq
  <2>3. WellFormed(p)
    BY <2>1 DEF MInv, CarriedInv, Carried
  <2>4. CASE p.dev = d
    <3>1. p \in Own(d)
      BY <2>4 DEF Own
    <3> QED BY <2>3, <3>1 DEF SaidInv, OwnInv
  <2>5. CASE p.dev # d
    <3>1. Holds(d, p)
      BY <2>1, <2>2, <2>5 DEF MInv, ReceivedKept
    <3> QED BY <2>3, <3>1 DEF Holds, HeldBy
  <2> QED BY <2>4, <2>5
<1> QED
  BY <1>1, <1>2, <1>3 DEF Near

\* So no device's document or tombstone says more than another's.
LEMMA RestWithin ==
    ASSUME MInv, SaidInv, AtRest, "orphaned" \notin slips,
           NEW d \in Device, NEW e \in Device, NEW i \in Item
    PROVE  /\ DocGrows(docs[d][i], docs[e][i])
           /\ tombs[d][i] # None => HasTomb(tombs[e][i], tombs[d][i])
<1>1. SaidAll(d, i)
  BY DEF SaidInv
<1>2. \A p \in Near(d) : p \in Logged \/ p = NoUpdates
  BY RestHolds
<1>3. \A p \in Logged : HeldBy(docs[e], tombs[e], p)
  BY RestHolds
<1>4. DOMAIN NoUpdates.docs = {} /\ DOMAIN NoUpdates.tombs = {}
  BY DEF NoUpdates, Empty
<1>5. ASSUME NEW p \in Near(d), i \in DOMAIN p.docs
      PROVE  HasDoc(docs[e][i], p.docs[i])
  BY <1>2, <1>3, <1>4, <1>5 DEF HeldBy
<1>6. ASSUME docs[d][i] # None
      PROVE  docs[e][i] # None /\ docs[d][i].ops \subseteq docs[e][i].ops /\ docs[d][i].dels \subseteq docs[e][i].dels
  <2>1. docs[e][i] # None
    BY <1>1, <1>5, <1>6 DEF SaidAll, SaidDoc, HasDoc
  <2>2. ASSUME NEW o \in docs[d][i].ops
        PROVE  o \in docs[e][i].ops
    BY <1>1, <1>5, <1>6, <2>2 DEF SaidAll, SaidOp, HasDoc
  <2>3. ASSUME NEW o \in docs[d][i].dels
        PROVE  o \in docs[e][i].dels
    BY <1>1, <1>5, <1>6, <2>3 DEF SaidAll, SaidDel, HasDoc
  <2> QED BY <2>1, <2>2, <2>3
<1>7. ASSUME tombs[d][i] # None
      PROVE  HasTomb(tombs[e][i], tombs[d][i])
  <2>1. PICK p \in Near(d) : i \in DOMAIN p.tombs /\ p.tombs[i] = tombs[d][i]
    BY <1>1, <1>7 DEF SaidAll, SaidTomb
  <2> QED BY <1>2, <1>3, <1>4, <2>1 DEF HeldBy
<1> QED
  BY <1>6, <1>7 DEF DocGrows

LEMMA RestSame ==
    ASSUME MergeAssumption, NoneIsNoRecord, MInv, SaidInv, AtRest, "orphaned" \notin slips,
           NEW d \in Device, NEW e \in Device, NEW i \in Item
    PROVE  docs[d][i] = docs[e][i] /\ tombs[d][i] = tombs[e][i]
<1>1. DocGrows(docs[d][i], docs[e][i]) /\ DocGrows(docs[e][i], docs[d][i])
  BY RestWithin
<1>2. docs[d][i] = docs[e][i]
  <2>1. (docs[d][i] = None \/ IsDocument(docs[d][i])) /\ (docs[e][i] = None \/ IsDocument(docs[e][i]))
    BY DEF MInv, Shape
  <2>2. CASE docs[d][i] = None
    BY <1>1, <2>2 DEF DocGrows
  <2>3. CASE docs[d][i] # None
    <3>1. docs[e][i] # None /\ docs[d][i].ops = docs[e][i].ops /\ docs[d][i].dels = docs[e][i].dels
      BY <1>1, <2>3 DEF DocGrows
    <3> QED BY <2>1, <2>3, <3>1 DEF IsDocument
  <2> QED BY <2>2, <2>3
<1>3. /\ tombs[d][i] # None => HasTomb(tombs[e][i], tombs[d][i])
      /\ tombs[e][i] # None => HasTomb(tombs[d][i], tombs[e][i])
  BY RestWithin
<1>4. tombs[d][i] = tombs[e][i]
  <2>1. CASE tombs[d][i] = None
    BY <1>3, <2>1 DEF HasTomb
  <2>2. CASE tombs[d][i] # None
    <3>1. tombs[e][i] # None
      BY <1>3, <2>2 DEF HasTomb
    <3>2. tombs[d][i] \in TombsOf(i) /\ tombs[e][i] \in TombsOf(i)
      BY <2>2, <3>1 DEF TombsOf
    <3>3. /\ {tombs[d][i].rank, tombs[e][i].rank, tombs[d][i].by, tombs[e][i].by} \subseteq Nat
      BY <3>2 DEF MInv, TombInv, IsTomb, MergeAssumption
    <3> QED BY <1>3, <2>2, <3>1, <3>3 DEF HasTomb, Beats
  <2> QED BY <2>1, <2>2
<1> QED
  BY <1>2, <1>4

\* A file that nothing is to be done about is what its document says.
LEMMA RestShows ==
    ASSUME MInv, FilesInv, StatInv, AtRest, slips = {}, NEW d \in Device, NEW i \in Item
    PROVE  file[d][i] = Materialize(d, i)
<1>0. /\ pc[d] = "idle" /\ cursor[d] = Len(log) /\ queue[d] = {}
      /\ i \notin Gone(d) /\ i \notin ToRead(d)
  BY DEF AtRest
<1>1. StatRow(d, i) /\ CoverInv(d, i)
  BY DEF StatInv, FilesInv, RowInv
<1>2. file[d][i] = Seen(d, i)
  <2>1. CASE file[d][i] = None
    BY <1>0, <2>1 DEF Gone, Seen, TextIn
  <2>2. CASE file[d][i] # None
    BY <1>0, <1>1, <2>2 DEF ToRead, StatRow, Fits, Seen, TextIn
  <2> QED BY <2>1, <2>2
<1>3. ~Queued(d, i) /\ ~Coming(d, i)
  <2>1. NextKeys(d) = {}
    BY <1>0 DEF NextKeys, MInv, Shape
  <2> QED BY <1>0, <2>1 DEF Queued, Coming, Candidates
<1> QED
  BY <1>0, <1>1, <1>2, <1>3 DEF CoverInv, Calm, LagsKept

\* When everything has been exchanged and no slip has happened, all devices have the same files.
FilesAgree == AtRest /\ slips = {} => \A d, e \in Device : file[d] = file[e]

LEMMA RestAgrees ==
    ASSUME MergeAssumption, NoneIsNoRecord, MInv, FilesInv, SaidInv, StatInv
    PROVE  FilesAgree
<1> SUFFICES ASSUME AtRest, slips = {}, NEW d \in Device, NEW e \in Device
             PROVE  file[d] = file[e]
  BY DEF FilesAgree
<1>1. ASSUME NEW i \in Item
      PROVE  file[d][i] = file[e][i]
  <2>1. docs[d][i] = docs[e][i] /\ tombs[d][i] = tombs[e][i]
    BY RestSame
  <2>2. Materialize(d, i) = Materialize(e, i)
    BY <2>1 DEF Materialize
  <2> QED BY <2>2, RestShows
<1>2. PICK S : file \in [Device -> [Item -> S]]
  BY DEF FilesInv, FShape, Cells
<1>3. file[d] \in [Item -> S] /\ file[e] \in [Item -> S]
  BY <1>2
<1> QED
  BY <1>1, <1>3

\* Devices that have exchanged everything agree on every file, tombstones and
\* deletions included, whatever was interleaved (docs/SYNC.md:66).
THEOREM FilesConverge ==
    ASSUME NoneIsNoRecord
    PROVE  Spec => []FilesAgree
<1>1. MInv /\ FilesInv /\ SaidInv /\ StatInv => FilesAgree
  BY RestAgrees, MergeAssumption
<1> QED
  BY <1>1, MergeInvariance, FilesInvariance, SaidInvariance, StatInvariance, PTL

-----------------------------------------------------------------------------
(* Where an operation is found, and how it gets there                       *)

\* It is in a device's document, it is deleted there, or a tombstone has seen it.
Made(i, o) == \E e \in Device : docs[e][i] # None /\ o \in docs[e][i].ops
Struck(i, o) == \E e \in Device : docs[e][i] # None /\ o \in docs[e][i].dels
Buried(i, o) == \E t \in TombsOf(i) : o \in t.sv

\* The log's payloads are the devices'.
LogInv == \A p \in Logged : p.dev \in Device

LEMMA CarriedParts ==
    ASSUME NEW p
    PROVE  p \in Carried <=> \/ p \in Logged
                             \/ \E e \in Device : p \in Out(e) \/ p = updates[e]
BY DEF Carried, Logged, Out, Elements

LEMMA StepLog ==
    ASSUME MInv, SaidInv, LogInv, [Next]_vars
    PROVE  LogInv'
<1>1. ASSUME NEW d \in Device, Deliver(d)
      PROVE  LogInv'
  <2>1. PICK p \in Out(d) : Logged' = Logged \union {p}
    BY <1>1, DeliverSends DEF MInv
  <2>2. p.dev = d
    BY DEF SaidInv, OwnInv
  <2> QED BY <2>1, <2>2 DEF LogInv
<1>2. ASSUME NEW d \in Device, User(d) \/ Fold(d) \/ QueuePush(d) \/ Receive(d)
      PROVE  log' = log
  BY <1>2 DEF User, Type, Erase, Delete, Undelete, UserWrites, Fold, FoldItem, FoldDeleted, QueuePush, Receive
<1>3. ASSUME NEW d \in Device, Scan(d) \/ SaveShadow(d) \/ QueueDirty(d) \/ MoveCursor(d)
                 \/ ApplyCheck(d) \/ ApplyWrite(d) \/ ApplyStat(d) \/ ApplyClear(d) \/ Crash(d)
      PROVE  log' = log
  BY <1>3 DEF Scan, SaveShadow, QueueDirty, MoveCursor, ApplyCheck, ApplyWrite, ApplyStat, ApplyClear, Crash, disk
<1>4. log' = log => LogInv'
  BY DEF LogInv, Logged, Elements
<1>5. CASE UNCHANGED vars
  BY <1>4, <1>5 DEF vars
<1> QED
  BY <1>1, <1>2, <1>3, <1>4, <1>5 DEF Next, Sync

\* What a payload of the log says of an item is in its sender's document.
LEMMA SaidBySender ==
    ASSUME SaidInv, LogInv, NEW p \in Logged, NEW i \in DOMAIN p.docs
    PROVE  /\ \A o \in p.docs[i].ops : Made(i, o)
           /\ \A o \in p.docs[i].dels : Struck(i, o)
<1>1. p.dev \in Device /\ p \in Own(p.dev)
  BY DEF LogInv, Own
<1>2. HasDoc(docs[p.dev][i], p.docs[i])
  BY <1>1 DEF SaidInv, OwnInv, HeldBy
<1> QED
  BY <1>1, <1>2 DEF HasDoc, Made, Struck

\* The steps that leave what the payloads carry, but for where it is.
LEMMA TombsMove ==
    ASSUME MInv, NEW d \in Device,
           Plain(d) \/ (\E k \in Item : FoldItem(d, k)) \/ QueuePush(d) \/ Deliver(d) \/ Receive(d)
    PROVE  \A p \in Carried' : DOMAIN p.tombs = {} \/ \E q \in Carried : q.tombs = p.tombs
<1> SUFFICES ASSUME NEW p \in Carried'
             PROVE  DOMAIN p.tombs = {} \/ \E q \in Carried : q.tombs = p.tombs
  OBVIOUS
<1>0. Shape /\ DOMAIN NoUpdates.tombs = {}
  BY NothingCarried DEF MInv
<1>1. /\ Logged \subseteq Carried
      /\ \A e \in Device : updates[e] \in Carried /\ Out(e) \subseteq Carried
  BY CarriedParts
<1>2. p \in Logged' \/ \E e \in Device : p \in Out(e)' \/ p = updates'[e]
  BY DEF Carried, Logged, Out, Elements
<1>3. CASE Plain(d)
  <2>1. /\ log' = log /\ outbox' = outbox
        /\ \A e \in Device : updates'[e] = updates[e] \/ updates'[e] = NoUpdates
    BY <1>0, <1>3, PlainSends
  <2>2. Logged' = Logged /\ \A e \in Device : Out(e)' = Out(e)
    BY <2>1 DEF Logged, Out, Elements
  <2> QED BY <1>0, <1>1, <1>2, <2>1, <2>2
<1>4. CASE \E k \in Item : FoldItem(d, k)
  <2>1. PICK k \in Item : FoldItem(d, k)
    BY <1>4
  <2>2. /\ log' = log /\ outbox' = outbox
        /\ \A e \in Device \ {d} : updates'[e] = updates[e]
        /\ updates'[d].tombs = updates[d].tombs
    BY <1>0, <2>1, FoldItemSends
  <2>3. Logged' = Logged /\ \A e \in Device : Out(e)' = Out(e)
    BY <2>2 DEF Logged, Out, Elements
  <2> QED BY <1>1, <1>2, <2>2, <2>3
<1>5. CASE QueuePush(d)
  <2> DEFINE q == Payload(d, updates[d].docs, updates[d].tombs)
  <2>1. /\ Logged' = Logged /\ Out(d)' = Out(d) \union {q}
        /\ \A e \in Device \ {d} : Out(e)' = Out(e)
        /\ \A e \in Device : updates'[e] = IF e = d THEN NoUpdates ELSE updates[e]
    BY <1>0, <1>5, QueuePushSends
  <2>2. q.tombs = updates[d].tombs
    BY DEF Payload
  <2> HIDE DEF q
  <2> QED BY <1>0, <1>1, <1>2, <2>1, <2>2
<1>6. CASE Deliver(d)
  <2>1. PICK q \in Out(d) : /\ Logged' = Logged \union {q} /\ Out(d) = Out(d)' \union {q}
                            /\ \A e \in Device \ {d} : Out(e)' = Out(e)
                            /\ updates' = updates
    BY <1>0, <1>6, DeliverSends
  <2> QED BY <1>1, <1>2, <2>1
<1>7. CASE Receive(d)
  <2>1. outbox' = outbox /\ log' = log /\ updates' = updates
    BY <1>7 DEF Receive
  <2>2. Logged' = Logged /\ \A e \in Device : Out(e)' = Out(e)
    BY <2>1 DEF Logged, Out, Elements
  <2> QED BY <1>1, <1>2, <2>1, <2>2
<1> QED
  BY <1>3, <1>4, <1>5, <1>6, <1>7

\* No step but the folding of a deletion makes a tombstone.
LEMMA NoNewTomb ==
    ASSUME MInv, NEW d \in Device,
           Plain(d) \/ (\E k \in Item : FoldItem(d, k)) \/ QueuePush(d) \/ Deliver(d) \/ Receive(d)
    PROVE  \A i \in Item : \A o : Buried(i, o)' => Buried(i, o)
<1>0. Shape
  BY DEF MInv
<1>1. ASSUME NEW e \in Device, NEW i \in Item, tombs'[e][i] # None
      PROVE  tombs'[e][i] \in TombsOf(i)
  <2>1. CASE tombs'[e][i] = tombs[e][i]
    BY <1>1, <2>1 DEF TombsOf
  <2>2. CASE Receive(d)
    <3> DEFINE p == log[cursor[d] + 1]
    <3>1. /\ p \in Logged
          /\ tombs'[d][i] = IF i \in DOMAIN p.tombs THEN MergeTomb(tombs[d][i], p.tombs[i]) ELSE tombs[d][i]
      BY <1>0, <2>2, ReceiveMerges
    <3>2. e # d => tombs'[e][i] = tombs[e][i]
      <4>1. PICK row : tombs' = [tombs EXCEPT ![d] = row]
        BY <2>2 DEF Receive
      <4>2. PICK S : tombs \in [Device -> [Item -> S]]
        BY <1>0 DEF Shape, Cells
      <4> QED BY <4>1, <4>2
    <3>3. p \in Carried
      BY <3>1, CarriedParts
    <3>4. i \in DOMAIN p.tombs => p.tombs[i] \in TombsOf(i)
      BY <3>3 DEF TombsOf
    <3> HIDE DEF p
    <3>5. CASE e = d /\ i \in DOMAIN p.tombs
      <4>1. tombs'[e][i] = tombs[d][i] \/ tombs'[e][i] = p.tombs[i]
        BY <3>1, <3>5 DEF MergeTomb
      <4> QED BY <1>1, <3>4, <3>5, <4>1 DEF TombsOf
    <3> QED BY <2>1, <3>1, <3>2, <3>5
  <2>3. CASE Plain(d)
    BY <1>0, <2>1, <2>3, PlainSends
  <2>4. CASE (\E k \in Item : FoldItem(d, k)) \/ QueuePush(d) \/ Deliver(d)
    <3>1. tombs' = tombs
      BY <2>4 DEF FoldItem, QueuePush, Deliver
    <3> QED BY <2>1, <3>1
  <2> QED BY <2>2, <2>3, <2>4
<1>2. \A p \in Carried' : DOMAIN p.tombs = {} \/ \E q \in Carried : q.tombs = p.tombs
  BY TombsMove
<1>3. \A i \in Item : TombsOf(i)' \subseteq TombsOf(i)
  <2> SUFFICES ASSUME NEW i \in Item
               PROVE  TombsOf(i)' \subseteq TombsOf(i)
    OBVIOUS
  <2> QED BY <1>1, <1>2, TombsShrink
<1> QED
  BY <1>3 DEF Buried

LEMMA FoldDeletedBuries ==
    ASSUME NoneIsNoRecord, MInv, FShape, NEW d \in Device, NEW k \in Item, FoldDeleted(d, k)
    PROVE  \A i \in Item : \A o :
               Buried(i, o)' => \/ Buried(i, o)
                                \/ i = k /\ docs[d][k] # None /\ o \in docs[d][k].ops
<1> DEFINE tomb == RecordDelete(d, tombs[d][k], docs[d][k])
<1>0. Shape
  BY DEF MInv
<1>1. /\ log' = log /\ outbox' = outbox
      /\ \A e \in Device \ {d} : updates'[e] = updates[e]
      /\ DOMAIN updates'[d].tombs = {k} \union DOMAIN updates[d].tombs
      /\ updates'[d].tombs[k] = tomb
      /\ \A j \in DOMAIN updates[d].tombs \ {k} : updates'[d].tombs[j] = updates[d].tombs[j]
  BY <1>0, FoldDeletedSends
<1>2. /\ tombs'[d][k] = tomb /\ \A j \in Item \ {k} : tombs'[d][j] = tombs[d][j]
      /\ \A e \in Device \ {d}, j \in Item : tombs'[e][j] = tombs[e][j]
  BY <1>0, FoldDeletedEffect DEF OthersSame
<1>3. Logged' = Logged /\ \A e \in Device : Out(e)' = Out(e)
  BY <1>1 DEF Logged, Out, Elements
<1>4. ASSUME NEW o, o \in tomb.sv
      PROVE  Buried(k, o) \/ (docs[d][k] # None /\ o \in docs[d][k].ops)
  <2>1. CASE tombs[d][k] = None
    BY <1>4, <2>1 DEF RecordDelete
  <2>2. CASE tombs[d][k] # None
    <3>1. tombs[d][k] \in TombsOf(k)
      BY <2>2 DEF TombsOf
    <3>2. o \in tombs[d][k].sv \/ (docs[d][k] # None /\ o \in docs[d][k].ops)
      BY <1>4, <2>2 DEF RecordDelete
    <3> QED BY <3>1, <3>2 DEF Buried
  <2> QED BY <2>1, <2>2
<1> HIDE DEF tomb
<1>5. ASSUME NEW i \in Item, NEW t \in TombsOf(i)'
      PROVE  t \in TombsOf(i) \/ (i = k /\ t = tomb)
  <2>1. CASE \E e \in Device : t = tombs'[e][i] /\ t # None
    BY <1>2, <2>1 DEF TombsOf
  <2>2. CASE \E p \in Carried' : i \in DOMAIN p.tombs /\ t = p.tombs[i]
    <3>1. PICK p \in Carried' : i \in DOMAIN p.tombs /\ t = p.tombs[i]
      BY <2>2
    <3>2. p \in Logged' \/ \E e \in Device : p \in Out(e)' \/ p = updates'[e]
      BY DEF Carried, Logged, Out, Elements
    <3>3. p \in Carried \/ p = updates'[d]
      BY <1>1, <1>3, <3>2, CarriedParts
    <3>4. CASE p \in Carried
      BY <3>1, <3>4 DEF TombsOf
    <3>5. CASE p = updates'[d]
      <4>1. (i = k /\ t = tomb) \/ (i \in DOMAIN updates[d].tombs /\ t = updates[d].tombs[i])
        BY <1>1, <3>1, <3>5
      <4>2. updates[d] \in Carried
        BY CarriedParts
      <4> QED BY <4>1, <4>2 DEF TombsOf
    <3> QED BY <3>3, <3>4, <3>5
  <2> QED BY <2>1, <2>2 DEF TombsOf
<1> QED
  BY <1>4, <1>5 DEF Buried

\* What one step makes, strikes out and buries: only a fold does, and only what its file says.
LEMMA StepMakes ==
    ASSUME NoneIsNoRecord, MInv, FShape, SaidInv, LogInv, NEW d \in Device,
           User(d) \/ Sync(d) \/ Crash(d), NEW i \in Item, NEW o
    PROVE  /\ Made(i, o)' => \/ Made(i, o)
                             \/ FoldItem(d, i) /\ o.atom \in todo[d][i]
           /\ Struck(i, o)' => \/ Struck(i, o)
                               \/ /\ FoldItem(d, i) /\ docs[d][i] # None
                                  /\ o \in docs[d][i].ops /\ o.atom \notin todo[d][i]
           /\ Buried(i, o)' => \/ Buried(i, o)
                               \/ FoldDeleted(d, i) /\ docs[d][i] # None /\ o \in docs[d][i].ops
<1> DEFINE Done ==
        /\ Made(i, o)' => \/ Made(i, o)
                          \/ FoldItem(d, i) /\ o.atom \in todo[d][i]
        /\ Struck(i, o)' => \/ Struck(i, o)
                            \/ /\ FoldItem(d, i) /\ docs[d][i] # None
                               /\ o \in docs[d][i].ops /\ o.atom \notin todo[d][i]
        /\ Buried(i, o)' => \/ Buried(i, o)
                            \/ FoldDeleted(d, i) /\ docs[d][i] # None /\ o \in docs[d][i].ops
<1>0. Shape
  BY DEF MInv
<1>1. ASSUME docs' = docs
      PROVE  (Made(i, o)' => Made(i, o)) /\ (Struck(i, o)' => Struck(i, o))
  BY <1>1 DEF Made, Struck
<1>2. ASSUME Plain(d) \/ QueuePush(d) \/ Deliver(d)
      PROVE  Done
  <2>1. docs' = docs
    BY <1>0, <1>2, PlainSends DEF QueuePush, Deliver
  <2> QED BY <1>1, <1>2, <2>1, NoNewTomb
<1>3. ASSUME NEW k \in Item, FoldItem(d, k)
      PROVE  Done
  <2> DEFINE after == ApplyLocalText(d, docs[d][k], todo[d][k])
  <2>1. \A e \in Device, j \in Item : docs'[e][j] = IF e = d /\ j = k THEN after ELSE docs[e][j]
    <3>1. PICK S : docs \in [Device -> [Item -> S]]
      BY <1>0 DEF Shape, Cells
    <3>2. docs' = [docs EXCEPT ![d][k] = after]
      BY <1>3 DEF FoldItem
    <3> QED BY <3>1, <3>2
  <2>2. Buried(i, o)' => Buried(i, o)
    BY <1>3, NoNewTomb
  <2>3. ASSUME o \in after.ops
        PROVE  (docs[d][k] # None /\ o \in docs[d][k].ops) \/ o.atom \in todo[d][k]
    BY <2>3 DEF ApplyLocalText, BootOps, NewOps
  <2>4. ASSUME o \in after.dels
        PROVE  /\ docs[d][k] # None
               /\ o \in docs[d][k].dels \/ (o \in docs[d][k].ops /\ o.atom \notin todo[d][k])
    BY <2>4 DEF ApplyLocalText
  <2> HIDE DEF after
  <2>5. Made(i, o)' => Made(i, o) \/ (FoldItem(d, i) /\ o.atom \in todo[d][i])
    BY <1>3, <2>1, <2>3 DEF Made
  <2>6. Struck(i, o)' => \/ Struck(i, o)
                         \/ /\ FoldItem(d, i) /\ docs[d][i] # None
                            /\ o \in docs[d][i].ops /\ o.atom \notin todo[d][i]
    BY <1>3, <2>1, <2>4 DEF Struck
  <2> QED BY <2>2, <2>5, <2>6
<1>4. ASSUME NEW k \in Item, FoldDeleted(d, k)
      PROVE  Done
  <2>1. docs' = docs
    BY <1>4 DEF FoldDeleted
  <2>2. Buried(i, o)' => Buried(i, o) \/ (i = k /\ docs[d][k] # None /\ o \in docs[d][k].ops)
    BY <1>4, FoldDeletedBuries
  <2> QED BY <1>1, <1>4, <2>1, <2>2
<1>5. ASSUME Receive(d)
      PROVE  Done
  <2> DEFINE p == log[cursor[d] + 1]
  <2>1. /\ p \in Logged
        /\ docs'[d][i] = IF i \in DOMAIN p.docs THEN MergeDoc(docs[d][i], p.docs[i]) ELSE docs[d][i]
    BY <1>0, <1>5, ReceiveMerges
  <2>2. \A e \in Device \ {d} : docs'[e][i] = docs[e][i]
    BY <1>0, <1>5, ReceiveEffect DEF OthersSame
  <2> HIDE DEF p
  <2>3. i \in DOMAIN p.docs => /\ \A q \in p.docs[i].ops : Made(i, q)
                               /\ \A q \in p.docs[i].dels : Struck(i, q)
    BY <2>1, SaidBySender
  <2>4. Made(i, o)' => Made(i, o)
    BY <2>1, <2>2, <2>3 DEF Made, MergeDoc
  <2>5. Struck(i, o)' => Struck(i, o)
    BY <2>1, <2>2, <2>3 DEF Struck, MergeDoc
  <2>6. Buried(i, o)' => Buried(i, o)
    BY <1>5, NoNewTomb
  <2> QED BY <2>4, <2>5, <2>6
<1>6. Plain(d) \/ QueuePush(d) \/ Deliver(d) \/ Receive(d)
        \/ \E k \in Item : FoldItem(d, k) \/ FoldDeleted(d, k)
  BY DEF Sync, Fold, Plain, Quiet
<1>7. Done
  <2> HIDE DEF Done
  <2> QED BY <1>2, <1>3, <1>4, <1>5, <1>6
<1> QED
  BY <1>7

-----------------------------------------------------------------------------
(* An atom is new when it is typed                                          *)

FreshText(text) == text # None => text \subseteq 1..edits
FreshOp(i, o) == Made(i, o) \/ Struck(i, o) \/ Buried(i, o) => o.atom \in 1..edits
FreshRow(d, i) ==
    FreshText(file[d][i]) /\ FreshText(trash[d][i]) /\ FreshText(Seen(d, i)) /\ FreshText(Kept(d, i))
FreshInv ==
    /\ LogInv /\ Cells(trash) /\ edits \in Nat
    /\ \A d \in Device, i \in Item : FreshRow(d, i)
    /\ \A i \in Item : \A o : FreshOp(i, o)

LEMMA MaterialFresh ==
    ASSUME FreshInv, NEW d \in Device, NEW i \in Item
    PROVE  FreshText(Materialize(d, i))
BY DEF FreshInv, FreshText, Materialize, TextOf, FreshOp, Made

\* Where the texts of a device come from, when the step is the sync thread's own.
LEMMA TextsMove ==
    ASSUME NoneIsNoRecord, MInv, FilesInv, StatInv, NEW d \in Device, Sync(d) \/ Crash(d),
           NEW e \in Device, NEW i \in Item
    PROVE  {file'[e][i], Seen(e, i)', Kept(e, i)'}
               \subseteq {file[e][i], Seen(e, i), Kept(e, i), Materialize(e, i), None}
<1> DEFINE Done == {file'[e][i], Seen(e, i)', Kept(e, i)'}
                       \subseteq {file[e][i], Seen(e, i), Kept(e, i), Materialize(e, i), None}
<1>0. Shape /\ FShape
  BY DEF MInv, FilesInv
<1>1. OthersSame(d) /\ e # d => Done
  BY DEF OthersSame
<1>2. TextsSame => Done
  BY DEF TextsSame
<1>3. ASSUME Scan(d)
      PROVE  Done
  <2>1. OthersSame(d) /\ file' = file
    BY <1>0, <1>3, ScanEffect
  <2>2. \A j \in Item : /\ Kept(d, j)' = Kept(d, j)
                        /\ j \in DOMAIN todo'[d] => Seen(d, j)' = file[d][j]
                        /\ j \notin DOMAIN todo'[d] => Seen(d, j)' = Seen(d, j)
    BY <1>0, <1>3, ScanEffect
  <2> QED BY <1>1, <2>1, <2>2
<1>4. ASSUME SaveShadow(d)
      PROVE  Done
  <2>1. OthersSame(d) /\ file' = file
    BY <1>0, <1>4, SaveShadowEffect
  <2>2. \A j \in Item : Seen(d, j)' = Seen(d, j) /\ Kept(d, j)' = Seen(d, j)
    BY <1>0, <1>4, SaveShadowEffect
  <2> QED BY <1>1, <2>1, <2>2
<1>5. ASSUME ApplyCheck(d)
      PROVE  Done
  <2>1. OthersSame(d) /\ file' = file
    BY <1>0, <1>5, ApplyCheckEffect
  <2>2. \A j \in Item : /\ Kept(d, j)' = Kept(d, j)
                        /\ Seen(d, j)' = IF j \in ToWrite(d) THEN Materialize(d, j) ELSE Seen(d, j)
    BY <1>0, <1>5, ApplyCheckEffect
  <2> QED BY <1>1, <2>1, <2>2
<1>6. ASSUME ApplyWrite(d)
      PROVE  Done
  <2>1. OthersSame(d) /\ pc[d] = "write"
    BY <1>0, <1>6, ApplyWriteEffect
  <2>2. \A j \in Item : /\ file'[d][j] = IF j \in DOMAIN todo[d] THEN todo[d][j] ELSE file[d][j]
                        /\ Seen(d, j)' = Seen(d, j) /\ Kept(d, j)' = Kept(d, j)
    BY <1>0, <1>6, ApplyWriteEffect
  <2>3. \A j \in DOMAIN todo[d] : j \in Item => todo[d][j] = Seen(d, j)
    BY <2>1 DEF StatInv, StatRow
  <2> QED BY <1>1, <2>1, <2>2, <2>3
<1>7. ASSUME ApplyStat(d)
      PROVE  Done
  <2>1. OthersSame(d) /\ file' = file
    BY <1>0, <1>7, ApplyStatEffect
  <2>2. \A j \in Item : Kept(d, j)' = Seen(d, j)' /\ (Seen(d, j)' = Seen(d, j) \/ Seen(d, j)' = None)
    BY <1>0, <1>7, ApplyStatEffect
  <2> QED BY <1>1, <2>1, <2>2
<1>8. ASSUME Crash(d)
      PROVE  Done
  <2>1. OthersSame(d) /\ file' = file
    BY <1>0, <1>8, CrashEffect
  <2>2. \A j \in Item : Seen(d, j)' = Kept(d, j) /\ Kept(d, j)' = Kept(d, j)
    BY <1>0, <1>8, CrashEffect
  <2> QED BY <1>1, <2>1, <2>2
<1>9. ASSUME Fold(d) \/ QueuePush(d) \/ Deliver(d) \/ Receive(d) \/ QueueDirty(d) \/ MoveCursor(d)
                 \/ ApplyClear(d)
      PROVE  TextsSame
  <2>1. UNCHANGED <<file, shadow, saved>>
    BY <1>9 DEF Fold, FoldItem, FoldDeleted, QueuePush, Deliver, Receive, QueueDirty, MoveCursor,
                ApplyClear, disk, memory
  <2> QED BY <2>1, SameTexts
<1>10. Done
  <2> HIDE DEF Done
  <2> QED BY <1>2, <1>3, <1>4, <1>5, <1>6, <1>7, <1>8, <1>9 DEF Sync
<1> QED
  BY <1>10

\* A user's write: the new text holds an atom more, or only what was there or in the trash.
LEMMA UserFresh ==
    ASSUME NoneIsNoRecord, Shape, FShape, FreshInv, NEW d \in Device, User(d)
    PROVE  /\ edits' = edits + 1 /\ Cells(trash)'
           /\ \A e \in Device, i \in Item : FreshRow(e, i)'
<1>1. PICK k \in Item : Type(d, k) \/ Erase(d, k) \/ Delete(d, k) \/ Undelete(d, k)
  BY DEF User
<1>2. PICK text :
        /\ UserWrites(d, k, text)
        /\ \A a : a \in text /\ text # None => a = edits + 1 \/ a \in 1..edits
        /\ \/ trash' = trash
           \/ trash' = [trash EXCEPT ![d][k] = file[d][k]]
           \/ trash' = [trash EXCEPT ![d][k] = None]
  <2>0. FreshText(file[d][k]) /\ FreshText(trash[d][k])
    BY DEF FreshInv, FreshRow
  <2>1. CASE Type(d, k)
    <3> DEFINE t == {edits + 1} \union IF file[d][k] = None THEN {} ELSE file[d][k]
    <3>1. UserWrites(d, k, t) /\ trash' = trash
      BY <2>1 DEF Type
    <3>2. \A a : a \in t => a = edits + 1 \/ a \in 1..edits
      BY <2>0 DEF FreshText
    <3> HIDE DEF t
    <3> QED BY <3>1, <3>2
  <2>2. CASE Erase(d, k)
    <3>1. PICK b \in file[d][k] : UserWrites(d, k, file[d][k] \ {b})
      BY <2>2 DEF Erase
    <3>2. file[d][k] # None /\ trash' = trash
      BY <2>2 DEF Erase
    <3> QED BY <2>0, <3>1, <3>2 DEF FreshText
  <2>3. CASE Delete(d, k)
    <3>1. UserWrites(d, k, None) /\ trash' = [trash EXCEPT ![d][k] = file[d][k]]
      BY <2>3 DEF Delete
    <3> QED BY <3>1
  <2>4. CASE Undelete(d, k)
    <3>1. UserWrites(d, k, trash[d][k]) /\ trash' = [trash EXCEPT ![d][k] = None]
      BY <2>4 DEF Undelete
    <3> QED BY <2>0, <3>1 DEF FreshText
  <2> QED BY <1>1, <2>1, <2>2, <2>3, <2>4
<1>3. edits' = edits + 1
  BY <1>2 DEF UserWrites
<1>3a. edits \in Nat
  BY DEF FreshInv
<1>4. \A e \in Device, i \in Item :
        /\ file'[e][i] = IF e = d /\ i = k THEN text ELSE file[e][i]
        /\ Seen(e, i)' = Seen(e, i) /\ Kept(e, i)' = Kept(e, i)
  BY <1>2, UserEffect
<1>5. PICK S : trash \in [Device -> [Item -> S]]
  BY DEF FreshInv, Cells
<1>6. trash' \in [Device -> [Item -> S \union {file[d][k], None}]]
  BY <1>2, <1>5
<1>7. \A e \in Device, i \in Item : trash'[e][i] \in {trash[e][i], file[e][i], None}
  BY <1>2, <1>5
<1>8. \A a : a \in 1..edits \/ a = edits + 1 => a \in 1..edits'
  BY <1>3, <1>3a
<1>9. ASSUME NEW e \in Device, NEW i \in Item
      PROVE  FreshRow(e, i)'
  <2>0. FreshRow(e, i)
    BY DEF FreshInv
  <2>1. file'[e][i] # None => file'[e][i] \subseteq 1..edits'
    BY <1>2, <1>4, <1>8, <2>0 DEF FreshRow, FreshText
  <2>2. trash'[e][i] # None => trash'[e][i] \subseteq 1..edits'
    BY <1>7, <1>8, <2>0 DEF FreshRow, FreshText
  <2>3. /\ Seen(e, i)' # None => Seen(e, i)' \subseteq 1..edits'
        /\ Kept(e, i)' # None => Kept(e, i)' \subseteq 1..edits'
    <3>1. Seen(e, i)' = Seen(e, i) /\ Kept(e, i)' = Kept(e, i)
      BY <1>4
    <3> HIDE DEF Seen, Kept
    <3> QED BY <1>8, <2>0, <3>1 DEF FreshRow, FreshText
  <2> QED BY <2>1, <2>2, <2>3 DEF FreshRow, FreshText
<1> QED
  BY <1>3, <1>6, <1>9 DEF Cells

LEMMA StepFresh ==
    ASSUME NoneIsNoRecord, MInv, FilesInv, SaidInv, StatInv, FreshInv, [Next]_vars
    PROVE  FreshInv'
<1>0. Shape /\ FShape /\ edits \in Nat /\ LogInv
  BY DEF MInv, FilesInv, FreshInv
<1>1. LogInv'
  BY <1>0, StepLog
<1>2. CASE UNCHANGED vars
  <2>1. UNCHANGED <<file, shadow, saved, docs, tombs, outbox, updates, log, trash, edits>>
    BY <1>2 DEF vars, disk, memory, users
  <2>2. \A e \in Device, i \in Item : FreshRow(e, i)'
    BY <2>1 DEF FreshInv, FreshRow, FreshText, Seen, Kept, TextIn
  <2>3. \A i \in Item : \A o : FreshOp(i, o)'
    <3>1. \A i \in Item : TombsOf(i)' = TombsOf(i)
      BY <2>1 DEF TombsOf, Carried
    <3> QED BY <2>1, <3>1 DEF FreshInv, FreshOp, Made, Struck, Buried
  <2> QED BY <1>0, <1>1, <2>1, <2>2, <2>3 DEF FreshInv, Cells
<1>3. ASSUME NEW d \in Device, User(d) \/ Sync(d) \/ Crash(d)
      PROVE  FreshInv'
  <2>1. ASSUME Sync(d) \/ Crash(d)
        PROVE  edits' = edits /\ trash' = trash
    <3>1. ASSUME Fold(d) \/ QueuePush(d) \/ Receive(d)
          PROVE  UNCHANGED users
      BY <3>1 DEF Fold, FoldItem, FoldDeleted, QueuePush, Receive
    <3>2. ASSUME Scan(d) \/ SaveShadow(d) \/ QueueDirty(d) \/ MoveCursor(d) \/ Deliver(d)
                     \/ ApplyCheck(d) \/ ApplyWrite(d) \/ ApplyStat(d) \/ ApplyClear(d)
          PROVE  UNCHANGED users
      BY <3>2 DEF Scan, SaveShadow, QueueDirty, MoveCursor, Deliver, ApplyCheck, ApplyWrite, ApplyStat,
                  ApplyClear
    <3> QED BY <2>1, <3>1, <3>2 DEF Sync, Crash, users
  <2>2. edits \in Nat /\ edits' \in Nat /\ edits <= edits'
    BY <1>0, <1>3, <2>1, UserFresh
  <2>3. \A a : a \in 1..edits => a \in 1..edits'
    BY <2>2
  <2>4. Cells(trash)' /\ \A e \in Device, i \in Item : FreshRow(e, i)'
    <3>1. CASE User(d)
      BY <1>0, <3>1, UserFresh
    <3>2. CASE Sync(d) \/ Crash(d)
      <4>1. edits' = edits /\ trash' = trash
        BY <2>1, <3>2
      <4>2. ASSUME NEW e \in Device, NEW i \in Item
            PROVE  FreshRow(e, i)'
        <5>1. FreshRow(e, i) /\ FreshText(Materialize(e, i)) /\ FreshText(None)
          BY MaterialFresh DEF FreshInv, FreshText
        <5>2. {file'[e][i], Seen(e, i)', Kept(e, i)'}
                  \subseteq {file[e][i], Seen(e, i), Kept(e, i), Materialize(e, i), None}
          BY <3>2, TextsMove
        <5>3. FreshText(file'[e][i]) /\ FreshText(Seen(e, i)') /\ FreshText(Kept(e, i)') /\ FreshText(trash'[e][i])
          BY <4>1, <5>1, <5>2 DEF FreshRow
        <5> QED BY <4>1, <5>3 DEF FreshRow, FreshText
      <4> QED BY <4>1, <4>2 DEF FreshInv, Cells
    <3> QED BY <1>3, <3>1, <3>2
  <2>5. ASSUME NEW i \in Item, NEW o
        PROVE  FreshOp(i, o)'
    <3>1. FreshOp(i, o) /\ RowInv(d, i) /\ FreshRow(d, i)
      BY DEF FreshInv, FilesInv
    <3>2. FoldItem(d, i) => todo[d][i] = Seen(d, i) /\ todo[d][i] # None
      BY <3>1 DEF FoldItem, RowInv, FoldsSeen
    <3>3. Made(i, o)' => o.atom \in 1..edits
      <4>1. Made(i, o)' => Made(i, o) \/ (FoldItem(d, i) /\ o.atom \in todo[d][i])
        BY <1>0, <1>3, StepMakes
      <4> QED BY <3>1, <3>2, <4>1 DEF FreshOp, FreshRow, FreshText
    <3>4. Struck(i, o)' => o.atom \in 1..edits
      <4>1. Struck(i, o)' => Struck(i, o) \/ (docs[d][i] # None /\ o \in docs[d][i].ops)
        BY <1>0, <1>3, StepMakes
      <4> QED BY <3>1, <4>1 DEF FreshOp, Made
    <3>5. Buried(i, o)' => o.atom \in 1..edits
      <4>1. Buried(i, o)' => Buried(i, o) \/ (docs[d][i] # None /\ o \in docs[d][i].ops)
        BY <1>0, <1>3, StepMakes
      <4> QED BY <3>1, <4>1 DEF FreshOp, Made
    <3> QED BY <2>3, <3>3, <3>4, <3>5 DEF FreshOp
  <2> QED BY <1>1, <2>2, <2>4, <2>5 DEF FreshInv
<1> QED
  BY <1>2, <1>3 DEF Next

\* No file, shadow, document or tombstone has an atom that has not been typed yet.
THEOREM FreshInvariance ==
    ASSUME NoneIsNoRecord
    PROVE  Spec => []FreshInv
<1>1. Init => FreshInv
  <2> SUFFICES ASSUME Init
               PROVE  FreshInv
    OBVIOUS
  <2>1. LogInv
    BY DEF Init, LogInv, Logged, Elements
  <2>2. Cells(trash)
    BY DEF Init, Cells
  <2>3. ASSUME NEW d \in Device, NEW i \in Item
        PROVE  FreshRow(d, i)
    BY DEF Init, FreshRow, FreshText, Seen, Kept, TextIn
  <2>4. ASSUME NEW i \in Item
        PROVE  TombsOf(i) = {}
    <3>1. \A e \in Device : tombs[e][i] = None /\ outbox[e] = <<>> /\ updates[e] = NoUpdates
      BY DEF Init
    <3>2. log = <<>>
      BY DEF Init
    <3>3. DOMAIN NoUpdates.tombs = {}
      BY NothingCarried
    <3>4. \A p \in Carried : DOMAIN p.tombs = {}
      BY <3>1, <3>2, <3>3, CarriedParts DEF Logged, Out, Elements
    <3> QED BY <3>1, <3>4 DEF TombsOf
  <2>5. ASSUME NEW i \in Item, NEW o
        PROVE  FreshOp(i, o)
    <3>1. \A e \in Device : docs[e][i] = None
      BY DEF Init
    <3> QED BY <2>4, <3>1 DEF FreshOp, Made, Struck, Buried
  <2>6. edits \in Nat
    BY DEF Init
  <2> QED BY <2>1, <2>2, <2>3, <2>5, <2>6 DEF FreshInv
<1>2. MInv /\ FilesInv /\ SaidInv /\ StatInv /\ FreshInv /\ [Next]_vars => FreshInv'
  BY StepFresh
<1> QED
  BY <1>1, <1>2, MergeInvariance, FilesInvariance, SaidInvariance, StatInvariance, PTL DEF Spec

-----------------------------------------------------------------------------
(* A clash is a slip                                                        *)

ClashInv == "raced" \notin slips => \A d \in Device, i \in Item : ~Clash(d, i)

LEMMA NotedClash ==
    ASSUME NEW slip, Note(slip)
    PROVE  ClashInv'
<1>1. (\E d \in Device, i \in Item : Clash(d, i)') => "raced" \in slips'
  BY DEF Note
<1> HIDE DEF Clash
<1> QED
  BY <1>1 DEF ClashInv

LEMMA StepClash ==
    ASSUME ClashInv, [Next]_vars
    PROVE  ClashInv'
<1>1. CASE UNCHANGED vars
  <2>1. UNCHANGED <<file, saved, docs, tombs, queue, cursor, log, slips>>
    BY <1>1 DEF vars, disk
  <2>2. ASSUME NEW d \in Device, NEW i \in Item
        PROVE  Clash(d, i)' <=> Clash(d, i)
    <3>1. Materialize(d, i)' = Materialize(d, i)
      BY <2>1, SameMaterial
    <3>2. Unapplied(d)' = Unapplied(d)
      <4>1. Holds(d, log[cursor[d] + 1])' <=> Holds(d, log[cursor[d] + 1])
        BY <2>1 DEF Holds, HasDoc, HasTomb, Beats
      <4> QED BY <2>1, <4>1 DEF Unapplied, Dirty, Empty
    <3>3. Candidates(d, Unapplied(d))' = Candidates(d, Unapplied(d))
      BY <2>1, <3>2 DEF Candidates
    <3> QED BY <2>1, <3>1, <3>3 DEF Clash, Materialize, Covers, TextOf, TextIn
  <2> QED BY <2>1, <2>2 DEF ClashInv
<1>2. ASSUME NEW d \in Device, User(d)
      PROVE  ClashInv'
  <2>1. PICK i \in Item : \E text : UserWrites(d, i, text)
    BY <1>2, UserWritesOne
  <2> QED BY <2>1, NotedClash DEF UserWrites
<1>3. ASSUME NEW d \in Device, Fold(d)
      PROVE  ClashInv'
  BY <1>3, NotedClash DEF Fold, FoldItem, FoldDeleted
<1>4. ASSUME NEW d \in Device, Scan(d) \/ SaveShadow(d) \/ QueuePush(d) \/ Deliver(d) \/ Receive(d)
                                  \/ QueueDirty(d) \/ MoveCursor(d)
      PROVE  ClashInv'
  BY <1>4, NotedClash DEF Scan, SaveShadow, QueuePush, Deliver, Receive, QueueDirty, MoveCursor
<1>5. ASSUME NEW d \in Device, ApplyCheck(d) \/ ApplyWrite(d) \/ ApplyStat(d) \/ ApplyClear(d) \/ Crash(d)
      PROVE  ClashInv'
  BY <1>5, NotedClash DEF ApplyCheck, ApplyWrite, ApplyStat, ApplyClear, Crash
<1> QED
  BY <1>1, <1>2, <1>3, <1>4, <1>5 DEF Next, Sync

\* While "raced" has not been noted, no edited file has merged changes that it does not show.
THEOREM ClashesNoted == Spec => []ClashInv
<1>1. Init => ClashInv
  BY DEF Init, ClashInv, Clash, Materialize
<1> QED
  BY <1>1, StepClash, PTL DEF Spec

-----------------------------------------------------------------------------
(* What was typed and not taken out is on its way to every file             *)

In(a, text) == text # None /\ a \in text

\* Nobody has taken it out, as far as any device or tombstone knows.
Clean(i, a) == \A o : o.atom = a => ~Struck(i, o) /\ ~Buried(i, o)

\* A device's queue has still to be looked at for the item.
Ahead(d, i) == pc[d] \notin {"stat", "clear"} /\ (pc[d] = "write" => i \in DOMAIN todo[d])

\* A file lacks it only until the device has received it and applied what it
\* received, and no scan sees that as a deletion in the meantime.
Way(d, i, a) ==
    /\ In(a, Kept(d, i)) => In(a, file[d][i])
    /\ In(a, Seen(d, i)) => In(a, file[d][i]) \/ (pc[d] = "write" /\ i \in DOMAIN todo[d])
    /\ a \in AtomsOf(d, i) =>
         In(a, file[d][i]) \/ Coming(d, i) \/ (Queued(d, i) /\ Ahead(d, i))
    /\ pc[d] = "fold" /\ i \in DOMAIN todo[d] /\ a \in AtomsOf(d, i) => In(a, todo[d][i])

Wanted(i, a) == \E w \in wanted : w[2] = i /\ w[3] = a
WantInv ==
    slips = {} =>
        \A i \in Item, a \in Nat :
            Wanted(i, a) => Clean(i, a) /\ \A d \in Device : Way(d, i, a)

\* What a document holds and nobody has taken out is in the text that it says.
LEMMA CleanShows ==
    ASSUME NoneHoldsNothing, NEW d \in Device, NEW i \in Item, NEW a \in Nat, Clean(i, a), a \in AtomsOf(d, i)
    PROVE  /\ docs[d][i] # None
           /\ In(a, TextOf(docs[d][i])) /\ In(a, Materialize(d, i))
<1>1. docs[d][i] # None
  BY DEF AtomsOf
<1>2. PICK o \in docs[d][i].ops : o.atom = a
  BY <1>1 DEF AtomsOf
<1>3. o \notin docs[d][i].dels
  BY <1>1, <1>2 DEF Clean, Struck
<1>4. a \in TextOf(docs[d][i]) /\ TextOf(docs[d][i]) # None
  BY <1>2, <1>3 DEF TextOf, NoneHoldsNothing
<1>5. ~Covers(tombs[d][i], docs[d][i])
  <2>1. tombs[d][i] # None => tombs[d][i] \in TombsOf(i)
    BY DEF TombsOf
  <2>2. tombs[d][i] # None => o \notin tombs[d][i].sv
    BY <1>2, <2>1 DEF Clean, Buried
  <2> QED BY <1>2, <2>2 DEF Covers
<1> QED
  BY <1>1, <1>4, <1>5 DEF Materialize, In

\* A file that a user has edited since it was saved is not behind its document.
LEMMA NotBehind ==
    ASSUME NoneHoldsNothing, ClashInv, slips = {}, NEW d \in Device, NEW i \in Item, NEW a \in Nat,
           Clean(i, a), a \in AtomsOf(d, i), Queued(d, i) \/ Coming(d, i),
           file[d][i] # Kept(d, i), In(a, Kept(d, i)) => In(a, file[d][i])
    PROVE  In(a, file[d][i])
<1>1. docs[d][i] # None /\ In(a, TextOf(docs[d][i])) /\ In(a, Materialize(d, i))
  BY CleanShows
<1>2. ~Clash(d, i)
  BY DEF ClashInv
<1>3. i \in Candidates(d, Unapplied(d))
  BY UnappliedSplit
<1>4. \/ file[d][i] = Materialize(d, i)
      \/ TextOf(docs[d][i]) = Kept(d, i)
  BY <1>1, <1>2, <1>3 DEF Clash, Materialize, Kept
<1> QED
  BY <1>1, <1>4

LEMMA SameAtoms ==
    ASSUME NEW d \in Device, NEW i \in Item, docs'[d][i] = docs[d][i]
    PROVE  AtomsOf(d, i)' = AtomsOf(d, i)
BY DEF AtomsOf

\* The sync thread goes on, with the files, their shadows and the documents as they are.
LEMMA WayGoesOn ==
    ASSUME NEW d \in Device, NEW i \in Item, NEW a,
           file'[d][i] = file[d][i], Seen(d, i)' = Seen(d, i), Kept(d, i)' = Kept(d, i),
           docs'[d][i] = docs[d][i],
           Queued(d, i) /\ Ahead(d, i) => Queued(d, i)' /\ Ahead(d, i)',
           Coming(d, i) => Coming(d, i)' \/ (Queued(d, i)' /\ Ahead(d, i)'),
           \/ pc[d] # "write" /\ pc'[d] # "fold"
           \/ pc'[d] = pc[d] /\ todo'[d] = todo[d],
           Way(d, i, a)
    PROVE  Way(d, i, a)'
<1>1. AtomsOf(d, i)' = AtomsOf(d, i)
  BY SameAtoms
<1>2. In(a, Kept(d, i)') => In(a, file'[d][i])
  BY DEF Way
<1>3. In(a, Seen(d, i)') => In(a, file'[d][i]) \/ (pc'[d] = "write" /\ i \in DOMAIN todo'[d])
  BY DEF Way
<1>4. a \in AtomsOf(d, i)' => In(a, file'[d][i]) \/ Coming(d, i)' \/ (Queued(d, i)' /\ Ahead(d, i)')
  BY <1>1 DEF Way
<1>5. pc'[d] = "fold" /\ i \in DOMAIN todo'[d] /\ a \in AtomsOf(d, i)' => In(a, todo'[d][i])
  BY <1>1 DEF Way
<1> QED
  BY <1>2, <1>3, <1>4, <1>5 DEF Way, In

\* A row that no step has touched.
LEMMA WayStays ==
    ASSUME MergeAssumption, MInv, MInv', Grows, NEW d \in Device, NEW i \in Item, NEW a,
           file'[d][i] = file[d][i], Seen(d, i)' = Seen(d, i), Kept(d, i)' = Kept(d, i),
           docs'[d][i] = docs[d][i], pc'[d] = pc[d], todo'[d] = todo[d],
           queue'[d] = queue[d], cursor'[d] = cursor[d], Way(d, i, a)
    PROVE  Way(d, i, a)'
<1>1. (Queued(d, i) => Queued(d, i)') /\ (Coming(d, i) => Coming(d, i)')
  BY WayKept
<1>2. Ahead(d, i) => Ahead(d, i)'
  BY DEF Ahead
<1> QED
  BY <1>1, <1>2, WayGoesOn

\* A step of one device leaves the others as they are.
LEMMA OthersWay ==
    ASSUME MergeAssumption, MInv, MInv', Grows, NEW d \in Device, OthersSame(d),
           NEW e \in Device \ {d}, NEW i \in Item, NEW a, Way(e, i, a)
    PROVE  Way(e, i, a)'
<1>1. /\ file'[e][i] = file[e][i] /\ Seen(e, i)' = Seen(e, i) /\ Kept(e, i)' = Kept(e, i)
      /\ docs'[e][i] = docs[e][i] /\ pc'[e] = pc[e] /\ todo'[e] = todo[e]
      /\ queue'[e] = queue[e] /\ cursor'[e] = cursor[e]
  BY DEF OthersSame
<1> QED
  BY <1>1, WayStays

LEMMA MovesWay ==
    ASSUME MergeAssumption, MInv, MInv', Grows, FShape, NEW d \in Device,
           QueuePush(d) \/ QueueDirty(d) \/ MoveCursor(d) \/ ApplyClear(d), QueueFirst(d),
           NEW i \in Item, NEW a, Way(d, i, a)
    PROVE  Way(d, i, a)'
<1>0. Shape
  BY DEF MInv
<1>1. /\ DocsSame /\ TextsSame /\ pc[d] \notin {"write", "fold"} /\ pc'[d] \in {"idle", "cursor"}
  <2>1. CASE QueuePush(d)
    <3>1. DocsSame /\ TextsSame /\ MovesTo(d, "idle") /\ pc[d] = "push"
      BY <1>0, <2>1, QueuePushEffect
    <3> QED BY <3>1 DEF MovesTo
  <2>2. CASE QueueDirty(d)
    <3>1. DocsSame /\ TextsSame /\ MovesTo(d, "cursor") /\ pc[d] = "queue"
      BY <1>0, <2>2, QueueDirtyEffect
    <3> QED BY <3>1 DEF MovesTo
  <2>3. CASE MoveCursor(d)
    <3>1. /\ DocsSame /\ TextsSame /\ MovesTo(d, "idle")
          /\ pc[d] = "cursor" \/ (pc[d] = "idle" /\ cursor[d] < Len(log) /\ log[cursor[d] + 1].dev = d)
      BY <1>0, <2>3, MoveCursorEffect
    <3> QED BY <3>1 DEF MovesTo
  <2>4. CASE ApplyClear(d)
    <3>1. DocsSame /\ TextsSame /\ MovesTo(d, "idle") /\ pc[d] = "clear"
      BY <1>0, <2>4, ApplyClearEffect
    <3> QED BY <3>1 DEF MovesTo
  <2> QED BY <2>1, <2>2, <2>3, <2>4
<1>2. Ahead(d, i)'
  BY <1>1 DEF Ahead
<1>3. Queued(d, i) /\ Ahead(d, i) => Queued(d, i)'
  <2>1. CASE ApplyClear(d)
    <3>1. pc[d] = "clear"
      BY <2>1 DEF ApplyClear
    <3> QED BY <3>1 DEF Ahead
  <2>2. CASE ~ApplyClear(d)
    <3>1. queue[d] \subseteq queue'[d]
      BY <1>0, <2>2, QueuePushEffect, QueueDirtyEffect, MoveCursorEffect
    <3>2. docs'[d][i] = docs[d][i]
      BY <1>1 DEF DocsSame
    <3> QED BY <3>1, <3>2 DEF Queued, Candidates
  <2> QED BY <2>1, <2>2
<1>4. Coming(d, i) => Coming(d, i)' \/ Queued(d, i)'
  <2>1. CASE MoveCursor(d)
    <3>1. /\ queue' = queue
          /\ pc[d] = "cursor" \/ (pc[d] = "idle" /\ cursor[d] < Len(log) /\ log[cursor[d] + 1].dev = d)
      BY <1>0, <2>1, MoveCursorEffect
    <3>2. NextKeys(d) \subseteq queue[d]
      BY <3>1 DEF NextKeys, QueueFirst
    <3>3. docs'[d][i] = docs[d][i]
      BY <1>1 DEF DocsSame
    <3> QED BY <3>1, <3>2, <3>3 DEF Coming, Queued, Candidates
  <2>2. CASE ~MoveCursor(d)
    <3>1. cursor' = cursor
      BY <1>0, <2>2, QueuePushEffect, QueueDirtyEffect, ApplyClearEffect
    <3> QED BY <3>1, ComingGrows
  <2> QED BY <2>1, <2>2
<1>5. /\ file'[d][i] = file[d][i] /\ Seen(d, i)' = Seen(d, i) /\ Kept(d, i)' = Kept(d, i)
      /\ docs'[d][i] = docs[d][i]
  BY <1>1 DEF DocsSame, TextsSame
<1> QED
  BY <1>1, <1>2, <1>3, <1>4, <1>5, WayGoesOn

LEMMA DeliverWay ==
    ASSUME MergeAssumption, MInv, MInv', Grows, FShape, NEW d \in Device, Deliver(d),
           NEW e \in Device, NEW i \in Item, NEW a, Way(e, i, a)
    PROVE  Way(e, i, a)'
<1>1. DocsSame /\ TextsSame /\ UNCHANGED <<pc, todo, queue, cursor>>
  BY DeliverEffect
<1>2. /\ file'[e][i] = file[e][i] /\ Seen(e, i)' = Seen(e, i) /\ Kept(e, i)' = Kept(e, i)
      /\ docs'[e][i] = docs[e][i]
  BY <1>1 DEF DocsSame, TextsSame
<1> QED
  BY <1>1, <1>2, WayStays

\* What is merged is queued next.
LEMMA ReceiveWay ==
    ASSUME MergeAssumption, MInv, MInv', Grows, FShape, NEW d \in Device, Receive(d),
           NEW i \in Item, NEW a, Way(d, i, a)
    PROVE  Way(d, i, a)'
<1> DEFINE p == log[cursor[d] + 1]
<1>1. /\ TextsSame /\ MovesTo(d, "queue") /\ UNCHANGED <<queue, cursor, log>>
      /\ pc[d] = "idle" /\ cursor[d] < Len(log) /\ p.dev # d
      /\ i \notin DOMAIN p.docs => docs'[d][i] = docs[d][i]
  BY ReceiveEffect DEF MInv
<1>2. (Queued(d, i) => Queued(d, i)') /\ (Coming(d, i) => Coming(d, i)')
  BY <1>1, WayKept
<1>3. pc'[d] = "queue"
  BY <1>1 DEF MovesTo
<1>4. Ahead(d, i)'
  BY <1>3 DEF Ahead
<1>5. /\ file'[d][i] = file[d][i] /\ Seen(d, i)' = Seen(d, i) /\ Kept(d, i)' = Kept(d, i)
  BY <1>1 DEF TextsSame
<1>6. CASE i \in DOMAIN p.docs
  <2>1. Holds(d, log[cursor[d] + 1])'
    BY <1>3 DEF MInv, ReceiptInv
  <2>2. NextKeys(d)' = Dirty(p)
    BY <1>1, <2>1 DEF NextKeys, Dirty, Empty
  <2>3. Coming(d, i)'
    BY <1>6, <2>2 DEF Coming, Candidates, Dirty
  <2>4. In(a, Kept(d, i)') => In(a, file'[d][i])
    BY <1>5 DEF Way
  <2>5. In(a, Seen(d, i)') => In(a, file'[d][i])
    BY <1>1, <1>5 DEF Way
  <2> QED BY <1>3, <2>3, <2>4, <2>5 DEF Way, In
<1>7. CASE i \notin DOMAIN p.docs
  BY <1>1, <1>2, <1>3, <1>4, <1>5, <1>7, WayGoesOn
<1> QED
  BY <1>6, <1>7

\* A scan takes for deleted, or edited, no file that lags behind its document.
LEMMA ScanWay ==
    ASSUME MergeAssumption, NoneIsNoRecord, NoneHoldsNothing, MInv, MInv', Grows, FilesInv, StatInv,
           ClashInv, slips = {}, NEW d \in Device, Scan(d),
           NEW i \in Item, NEW a \in Nat, Clean(i, a), Way(d, i, a)
    PROVE  Way(d, i, a)'
<1>0. Shape /\ FShape /\ CoverInv(d, i) /\ StatRow(d, i)
  BY DEF MInv, FilesInv, RowInv, StatInv
<1>1. /\ DocsSame /\ MovesTo(d, "fold") /\ pc[d] \in {"start", "idle"}
      /\ UNCHANGED <<file, docs, queue, cursor>>
      /\ \A j \in Item :
           /\ Kept(d, j)' = Kept(d, j)
           /\ j \in DOMAIN todo'[d] => todo'[d][j] = file[d][j] /\ Seen(d, j)' = file[d][j]
           /\ j \notin DOMAIN todo'[d] => Seen(d, j)' = Seen(d, j)
  BY <1>0, ScanEffect
<1>2. /\ Kept(d, i)' = Kept(d, i)
      /\ i \in DOMAIN todo'[d] => todo'[d][i] = file[d][i] /\ Seen(d, i)' = file[d][i]
      /\ i \notin DOMAIN todo'[d] => Seen(d, i)' = Seen(d, i)
  BY <1>1
<1>3. pc'[d] = "fold" /\ Ahead(d, i)' /\ file'[d][i] = file[d][i] /\ AtomsOf(d, i)' = AtomsOf(d, i)
  BY <1>1, SameAtoms DEF MovesTo, Ahead
<1>4. (Queued(d, i) => Queued(d, i)') /\ (Coming(d, i) => Coming(d, i)')
  BY <1>1, WayKept
<1>5. In(a, Kept(d, i)') => In(a, file'[d][i])
  BY <1>2, <1>3 DEF Way
<1>6. In(a, Seen(d, i)') => In(a, file'[d][i])
  <2>1. pc[d] # "write"
    BY <1>1
  <2> QED BY <1>2, <1>3, <2>1 DEF Way
<1>7. a \in AtomsOf(d, i)' => In(a, file'[d][i]) \/ Coming(d, i)' \/ (Queued(d, i)' /\ Ahead(d, i)')
  BY <1>3, <1>4 DEF Way
<1>8. ASSUME i \in DOMAIN todo'[d], a \in AtomsOf(d, i)
      PROVE  In(a, todo'[d][i])
  <2>1. file[d][i] # Kept(d, i)
    <3>1. Seen(d, i) = Kept(d, i)
      BY <1>0, <1>1 DEF CoverInv, Calm
    <3>2. i \in Gone(d) \union Changed(d)
      <4>1. PICK delta : delta = [j \in Gone(d) \union Changed(d) |-> file[d][j]]
        OBVIOUS
      <4>2. PutRow(todo, todo', d, delta)
        BY <4>1 DEF Scan, PutRow
      <4>3. todo'[d] = delta
        BY <1>0, <4>2, CellPut DEF FShape
      <4> QED BY <1>8, <4>1, <4>3
    <3>3. CASE i \in Gone(d)
      <4>1. shadow[d][i] # None /\ file[d][i] = None
        BY <3>3 DEF Gone
      <4>2. Seen(d, i) # None
        BY <1>0, <4>1 DEF StatRow, Solid, Seen, TextIn
      <4> QED BY <3>1, <4>1, <4>2
    <3>4. CASE i \in Changed(d)
      BY <3>1, <3>4 DEF Changed, Seen
    <3> QED BY <3>2, <3>3, <3>4
  <2>2. In(a, file[d][i]) \/ Queued(d, i) \/ Coming(d, i)
    BY <1>8 DEF Way
  <2>3. In(a, Kept(d, i)) => In(a, file[d][i])
    BY DEF Way
  <2>4. In(a, file[d][i])
    BY <1>8, <2>1, <2>2, <2>3, NotBehind
  <2> QED BY <1>2, <1>8, <2>4
<1> QED
  BY <1>3, <1>5, <1>6, <1>7, <1>8 DEF Way, In

\* What a fold adds to a document was in the file when the scan saw it.
LEMMA FoldItemWay ==
    ASSUME MergeAssumption, MInv, MInv', Grows, FilesInv, NEW d \in Device, NEW k \in Item, FoldItem(d, k),
           NEW i \in Item, NEW a, Way(d, i, a)
    PROVE  Way(d, i, a)'
<1>0. Shape /\ FShape /\ FoldsSeen(d, i)
  BY DEF MInv, FilesInv, RowInv
<1>1. /\ TextsSame /\ UNCHANGED <<queue, cursor, pc>> /\ pc[d] = "fold"
      /\ DOMAIN todo'[d] = DOMAIN todo[d] \ {k}
      /\ \A j \in DOMAIN todo'[d] : todo'[d][j] = todo[d][j]
  BY <1>0, FoldItemEffect
<1>2. (Queued(d, i) => Queued(d, i)') /\ (Coming(d, i) => Coming(d, i)') /\ Ahead(d, i)'
  BY <1>1, WayKept DEF Ahead
<1>3. /\ file'[d][i] = file[d][i] /\ Seen(d, i)' = Seen(d, i) /\ Kept(d, i)' = Kept(d, i)
  BY <1>1 DEF TextsSame
<1>4. k \in DOMAIN todo[d] /\ todo[d][k] # None
  BY DEF FoldItem
<1>5. ASSUME a \in AtomsOf(d, i)'
      PROVE  \/ i # k /\ a \in AtomsOf(d, i)
             \/ i = k /\ (a \in AtomsOf(d, i) \/ In(a, Seen(d, i)))
  <2> DEFINE after == ApplyLocalText(d, docs[d][k], todo[d][k])
  <2>1. docs'[d][i] = IF i = k THEN after ELSE docs[d][i]
    <3>1. PICK S : docs \in [Device -> [Item -> S]]
      BY <1>0 DEF Shape, Cells
    <3>2. docs' = [docs EXCEPT ![d][k] = after]
      BY DEF FoldItem
    <3> QED BY <3>1, <3>2
  <2>2. \A o \in after.ops : (docs[d][k] # None /\ o \in docs[d][k].ops) \/ o.atom \in todo[d][k]
    BY DEF ApplyLocalText, BootOps, NewOps
  <2> HIDE DEF after
  <2>3. PICK o \in docs'[d][i].ops : o.atom = a
    BY <1>5 DEF AtomsOf
  <2>4. CASE i = k
    <3>1. a \in AtomsOf(d, i) \/ a \in todo[d][i]
      BY <2>1, <2>2, <2>3, <2>4 DEF AtomsOf
    <3>2. todo[d][i] = Seen(d, i)
      BY <1>0, <1>1, <1>4, <2>4 DEF FoldsSeen
    <3> QED BY <1>4, <2>4, <3>1, <3>2 DEF In
  <2>5. CASE i # k
    BY <1>5, <2>1, <2>5, SameAtoms
  <2> QED BY <2>4, <2>5
<1>6. In(a, Kept(d, i)') => In(a, file'[d][i])
  BY <1>3 DEF Way
<1>7. In(a, Seen(d, i)') => In(a, file'[d][i])
  BY <1>1, <1>3 DEF Way
<1>8. a \in AtomsOf(d, i)' => In(a, file'[d][i]) \/ Coming(d, i)' \/ (Queued(d, i)' /\ Ahead(d, i)')
  BY <1>2, <1>3, <1>5, <1>7 DEF Way
<1>9. i \in DOMAIN todo'[d] /\ a \in AtomsOf(d, i)' => In(a, todo'[d][i])
  BY <1>1, <1>5 DEF Way
<1> QED
  BY <1>6, <1>7, <1>8, <1>9 DEF Way, In

LEMMA FoldDeletedWay ==
    ASSUME MergeAssumption, MInv, MInv', Grows, FilesInv, NEW d \in Device, NEW k \in Item, FoldDeleted(d, k),
           NEW i \in Item, NEW a, Way(d, i, a)
    PROVE  Way(d, i, a)'
<1>0. Shape /\ FShape
  BY DEF MInv, FilesInv
<1>1. /\ TextsSame /\ UNCHANGED <<docs, queue, cursor, pc>> /\ pc[d] = "fold"
      /\ DOMAIN todo'[d] = DOMAIN todo[d] \ {k}
      /\ \A j \in DOMAIN todo'[d] : todo'[d][j] = todo[d][j]
  BY <1>0, FoldDeletedEffect
<1>2. (Queued(d, i) => Queued(d, i)') /\ (Coming(d, i) => Coming(d, i)') /\ Ahead(d, i)'
  BY <1>1, WayKept DEF Ahead
<1>3. /\ file'[d][i] = file[d][i] /\ Seen(d, i)' = Seen(d, i) /\ Kept(d, i)' = Kept(d, i)
      /\ AtomsOf(d, i)' = AtomsOf(d, i)
  BY <1>1, SameAtoms DEF TextsSame
<1>4. In(a, Kept(d, i)') => In(a, file'[d][i])
  BY <1>3 DEF Way
<1>5. In(a, Seen(d, i)') => In(a, file'[d][i])
  BY <1>1, <1>3 DEF Way
<1>6. a \in AtomsOf(d, i)' => In(a, file'[d][i]) \/ Coming(d, i)' \/ (Queued(d, i)' /\ Ahead(d, i)')
  BY <1>2, <1>3 DEF Way
<1>7. i \in DOMAIN todo'[d] /\ a \in AtomsOf(d, i)' => In(a, todo'[d][i])
  BY <1>1, <1>3 DEF Way
<1> QED
  BY <1>4, <1>5, <1>6, <1>7 DEF Way, In

\* One shadow is copied to the other.
LEMMA CopyWay ==
    ASSUME MergeAssumption, MInv, MInv', Grows, FShape, NEW d \in Device, SaveShadow(d) \/ Crash(d),
           NEW i \in Item, NEW a, Way(d, i, a)
    PROVE  Way(d, i, a)'
<1>0. Shape
  BY DEF MInv
<1>1. /\ DocsSame /\ UNCHANGED <<file, docs, queue, cursor>>
      /\ pc'[d] \in {"start", "idle", "push"}
      /\ \/ pc[d] = "fold" /\ Seen(d, i)' = Seen(d, i) /\ Kept(d, i)' = Seen(d, i)
         \/ Seen(d, i)' = Kept(d, i) /\ Kept(d, i)' = Kept(d, i)
  <2>1. CASE SaveShadow(d)
    <3>1. /\ DocsSame /\ UNCHANGED <<file, docs, queue, cursor>> /\ pc[d] = "fold"
          /\ MovesTo(d, "idle") \/ MovesTo(d, "push")
          /\ \A j \in Item : Seen(d, j)' = Seen(d, j) /\ Kept(d, j)' = Seen(d, j)
      BY <1>0, <2>1, SaveShadowEffect
    <3>2. Seen(d, i)' = Seen(d, i) /\ Kept(d, i)' = Seen(d, i)
      BY <3>1
    <3> QED BY <3>1, <3>2 DEF MovesTo
  <2>2. CASE Crash(d)
    <3>1. /\ DocsSame /\ UNCHANGED <<file, docs, queue, cursor>> /\ MovesTo(d, "start")
          /\ \A j \in Item : Seen(d, j)' = Kept(d, j) /\ Kept(d, j)' = Kept(d, j)
      BY <1>0, <2>2, CrashEffect
    <3>2. Seen(d, i)' = Kept(d, i) /\ Kept(d, i)' = Kept(d, i)
      BY <3>1
    <3> QED BY <3>1, <3>2 DEF MovesTo
  <2> QED BY <2>1, <2>2
<1>2. (Queued(d, i) => Queued(d, i)') /\ (Coming(d, i) => Coming(d, i)') /\ Ahead(d, i)'
  BY <1>1, WayKept DEF Ahead
<1>3. file'[d][i] = file[d][i] /\ AtomsOf(d, i)' = AtomsOf(d, i)
  BY <1>1, SameAtoms
<1>4. pc[d] = "fold" /\ In(a, Seen(d, i)) => In(a, file[d][i])
  BY DEF Way
<1>5. In(a, Kept(d, i)') => In(a, file'[d][i])
  BY <1>1, <1>3, <1>4 DEF Way
<1>6. In(a, Seen(d, i)') => In(a, file'[d][i])
  BY <1>1, <1>3, <1>4 DEF Way
<1>7. a \in AtomsOf(d, i)' => In(a, file'[d][i]) \/ Coming(d, i)' \/ (Queued(d, i)' /\ Ahead(d, i)')
  BY <1>2, <1>3 DEF Way
<1> QED
  BY <1>1, <1>5, <1>6, <1>7 DEF Way, In

\* An apply passes over no file that lags behind its document.
LEMMA ApplyCheckWay ==
    ASSUME MergeAssumption, NoneIsNoRecord, NoneHoldsNothing, MInv, MInv', Grows, FilesInv,
           ClashInv, slips = {}, NEW d \in Device, ApplyCheck(d),
           NEW i \in Item, NEW a \in Nat, Clean(i, a), Way(d, i, a)
    PROVE  Way(d, i, a)'
<1>0. Shape /\ FShape /\ CoverInv(d, i)
  BY DEF MInv, FilesInv, RowInv
<1>1. /\ DocsSame /\ MovesTo(d, "write") /\ UNCHANGED <<file, docs, queue, cursor>> /\ pc[d] = "idle"
      /\ DOMAIN todo'[d] = ToWrite(d)
      /\ \A j \in Item : /\ Kept(d, j)' = Kept(d, j)
                         /\ Seen(d, j)' = IF j \in ToWrite(d) THEN Materialize(d, j) ELSE Seen(d, j)
  BY <1>0, ApplyCheckEffect
<1>2. (Queued(d, i) => Queued(d, i)') /\ (Coming(d, i) => Coming(d, i)')
  BY <1>1, WayKept
<1>3. /\ file'[d][i] = file[d][i] /\ AtomsOf(d, i)' = AtomsOf(d, i) /\ pc'[d] = "write"
      /\ Kept(d, i)' = Kept(d, i)
      /\ i \notin ToWrite(d) => Seen(d, i)' = Seen(d, i)
  BY <1>1, SameAtoms DEF MovesTo
<1>4. In(a, Kept(d, i)') => In(a, file'[d][i])
  BY <1>3 DEF Way
<1>5. In(a, Seen(d, i)') => In(a, file'[d][i]) \/ i \in DOMAIN todo'[d]
  BY <1>1, <1>3 DEF Way
<1>6. ASSUME a \in AtomsOf(d, i), ~In(a, file[d][i]), Queued(d, i)
      PROVE  i \in ToWrite(d)
  <2>1. In(a, Materialize(d, i))
    BY <1>6, CleanShows
  <2>2. In(a, Kept(d, i)) => In(a, file[d][i])
    BY DEF Way
  <2>3. file[d][i] = Kept(d, i)
    BY <1>6, <2>2, NotBehind
  <2>4. file[d][i] = Seen(d, i)
    BY <1>0, <1>1, <2>3 DEF CoverInv, Calm
  <2> QED BY <1>6, <2>1, <2>4 DEF ToWrite, Queued, Seen
<1>7. a \in AtomsOf(d, i)' => \/ In(a, file'[d][i]) \/ Coming(d, i)'
                              \/ Queued(d, i)' /\ i \in DOMAIN todo'[d]
  BY <1>1, <1>2, <1>3, <1>6 DEF Way
<1> QED
  BY <1>3, <1>4, <1>5, <1>7 DEF Way, In, Ahead

\* What an apply writes has all that nobody has taken out.
LEMMA ApplyWriteWay ==
    ASSUME MergeAssumption, NoneIsNoRecord, NoneHoldsNothing, MInv, MInv', Grows, FilesInv, EditsInv,
           slips = {}, NEW d \in Device, ApplyWrite(d),
           NEW i \in Item, NEW a \in Nat, Clean(i, a), Way(d, i, a)
    PROVE  Way(d, i, a)'
<1>0. Shape /\ FShape /\ CoverInv(d, i) /\ ReadInv(d, i)
  BY DEF MInv, FilesInv, RowInv, EditsInv
<1>1. /\ DocsSame /\ MovesTo(d, "stat") /\ UNCHANGED <<docs, queue, cursor>> /\ pc[d] = "write"
      /\ \A j \in Item :
           /\ file'[d][j] = IF j \in DOMAIN todo[d] THEN todo[d][j] ELSE file[d][j]
           /\ Seen(d, j)' = Seen(d, j) /\ Kept(d, j)' = Kept(d, j)
  BY <1>0, ApplyWriteEffect
<1>2. /\ pc'[d] = "stat" /\ AtomsOf(d, i)' = AtomsOf(d, i)
      /\ file'[d][i] = IF i \in DOMAIN todo[d] THEN todo[d][i] ELSE file[d][i]
      /\ Seen(d, i)' = Seen(d, i) /\ Kept(d, i)' = Kept(d, i)
  BY <1>1, SameAtoms DEF MovesTo
<1>3. Coming(d, i) => Coming(d, i)'
  BY <1>1, WayKept
<1>4. CASE i \in DOMAIN todo[d]
  <2>1. todo[d][i] = Materialize(d, i)
    BY <1>0, <1>1, <1>4 DEF CoverInv, Writing
  <2>2. a \in AtomsOf(d, i) => In(a, file'[d][i])
    BY <1>2, <1>4, <2>1, CleanShows
  <2>3. In(a, Kept(d, i)) \/ In(a, Seen(d, i)) => a \in AtomsOf(d, i)
    BY <1>0, <1>1 DEF ReadInv, Within, In
  <2>4. In(a, Kept(d, i)') => In(a, file'[d][i])
    BY <1>2, <2>2, <2>3
  <2>5. In(a, Seen(d, i)') => In(a, file'[d][i])
    BY <1>2, <2>2, <2>3
  <2> QED BY <1>2, <2>2, <2>4, <2>5 DEF Way, In
<1>5. CASE i \notin DOMAIN todo[d]
  <2>1. In(a, Kept(d, i)') => In(a, file'[d][i])
    BY <1>2, <1>5 DEF Way
  <2>2. In(a, Seen(d, i)') => In(a, file'[d][i])
    BY <1>2, <1>5 DEF Way
  <2>3. a \in AtomsOf(d, i)' => In(a, file'[d][i]) \/ Coming(d, i)'
    BY <1>1, <1>2, <1>3, <1>5 DEF Way, Ahead
  <2> QED BY <1>2, <2>1, <2>2, <2>3 DEF Way, In
<1> QED
  BY <1>4, <1>5

LEMMA ApplyStatWay ==
    ASSUME MergeAssumption, NoneIsNoRecord, MInv, MInv', Grows, FShape, NEW d \in Device, ApplyStat(d),
           NEW i \in Item, NEW a, Way(d, i, a)
    PROVE  Way(d, i, a)'
<1>0. Shape
  BY DEF MInv
<1>1. /\ DocsSame /\ MovesTo(d, "clear") /\ UNCHANGED <<file, docs, queue, cursor>> /\ pc[d] = "stat"
      /\ \A j \in Item : /\ Kept(d, j)' = Seen(d, j)'
                         /\ Seen(d, j)' = Seen(d, j) \/ Seen(d, j)' = None
  BY <1>0, ApplyStatEffect
<1>2. /\ pc'[d] = "clear" /\ AtomsOf(d, i)' = AtomsOf(d, i) /\ file'[d][i] = file[d][i]
      /\ Kept(d, i)' = Seen(d, i)' /\ (Seen(d, i)' = Seen(d, i) \/ Seen(d, i)' = None)
  BY <1>1, SameAtoms DEF MovesTo
<1>3. Coming(d, i) => Coming(d, i)'
  BY <1>1, WayKept
<1>4. ~In(a, None)
  BY DEF In
<1>5. In(a, Seen(d, i)') => In(a, file'[d][i])
  BY <1>1, <1>2, <1>4 DEF Way
<1>6. In(a, Kept(d, i)') => In(a, file'[d][i])
  BY <1>2, <1>5
<1>7. a \in AtomsOf(d, i)' => In(a, file'[d][i]) \/ Coming(d, i)'
  BY <1>1, <1>2, <1>3 DEF Way, Ahead
<1> QED
  BY <1>2, <1>5, <1>6, <1>7 DEF Way, In

\* A user's write leaves in the file what it does not take out.
LEMMA UserWay ==
    ASSUME MergeAssumption, NoneIsNoRecord, MInv, MInv', Grows, FShape,
           NEW d \in Device, NEW k \in Item, NEW text, UserWrites(d, k, text),
           NEW e \in Device, NEW i \in Item, NEW a, Way(e, i, a),
           e = d /\ i = k /\ In(a, file[d][k]) => In(a, text)
    PROVE  Way(e, i, a)'
<1>1. /\ \A c \in Device, j \in Item :
           /\ file'[c][j] = IF c = d /\ j = k THEN text ELSE file[c][j]
           /\ Seen(c, j)' = Seen(c, j) /\ Kept(c, j)' = Kept(c, j)
      /\ UNCHANGED <<docs, queue, cursor, pc, todo>>
  BY UserEffect
<1>2. /\ file'[e][i] = IF e = d /\ i = k THEN text ELSE file[e][i]
      /\ Seen(e, i)' = Seen(e, i) /\ Kept(e, i)' = Kept(e, i) /\ AtomsOf(e, i)' = AtomsOf(e, i)
  BY <1>1, SameAtoms
<1>3. In(a, file[e][i]) => In(a, file'[e][i])
  BY <1>2
<1>4. (Queued(e, i) => Queued(e, i)') /\ (Coming(e, i) => Coming(e, i)')
  BY <1>1, WayKept
<1>5. Ahead(e, i)' <=> Ahead(e, i)
  BY <1>1 DEF Ahead
<1>6. In(a, Kept(e, i)') => In(a, file'[e][i])
  BY <1>2, <1>3 DEF Way
<1>7. In(a, Seen(e, i)') => In(a, file'[e][i]) \/ (pc'[e] = "write" /\ i \in DOMAIN todo'[e])
  BY <1>1, <1>2, <1>3 DEF Way
<1>8. a \in AtomsOf(e, i)' => In(a, file'[e][i]) \/ Coming(e, i)' \/ (Queued(e, i)' /\ Ahead(e, i)')
  BY <1>2, <1>3, <1>4, <1>5 DEF Way
<1>9. pc'[e] = "fold" /\ i \in DOMAIN todo'[e] /\ a \in AtomsOf(e, i)' => In(a, todo'[e][i])
  BY <1>1, <1>2 DEF Way
<1> QED
  BY <1>6, <1>7, <1>8, <1>9 DEF Way, In

\* No device but the one where it is typed has anything of a new atom yet.
LEMMA NewAtom ==
    ASSUME MergeAssumption, NoneIsNoRecord, MInv, FShape, FreshInv,
           NEW d \in Device, NEW k \in Item, NEW text, UserWrites(d, k, text),
           NEW e \in Device, NEW i \in Item, NEW a, a = edits + 1
    PROVE  Way(e, i, a)'
<1>1. /\ \A c \in Device, j \in Item : Seen(c, j)' = Seen(c, j) /\ Kept(c, j)' = Kept(c, j)
      /\ docs' = docs
  BY UserEffect
<1>2. Seen(e, i)' = Seen(e, i) /\ Kept(e, i)' = Kept(e, i) /\ AtomsOf(e, i)' = AtomsOf(e, i)
  BY <1>1, SameAtoms
<1>3. a \notin 1..edits
  BY DEF FreshInv
<1>4. ~In(a, Seen(e, i)) /\ ~In(a, Kept(e, i))
  BY <1>3 DEF FreshInv, FreshRow, FreshText, In
<1>5. a \notin AtomsOf(e, i)
  BY <1>3 DEF AtomsOf, FreshInv, FreshOp, Made
<1>6. ~In(a, Seen(e, i)') /\ ~In(a, Kept(e, i)') /\ a \notin AtomsOf(e, i)'
  BY <1>2, <1>4, <1>5
<1> QED
  BY <1>6 DEF Way, In

\* A fold strikes out, or buries, nothing that is wanted.
LEMMA StepClean ==
    ASSUME NoneIsNoRecord, MInv, FShape, SaidInv, LogInv, NEW d \in Device,
           User(d) \/ Sync(d) \/ Crash(d), NEW i \in Item, NEW a, Clean(i, a), Way(d, i, a)
    PROVE  Clean(i, a)'
<1>1. ASSUME NEW o, o.atom = a
      PROVE  ~Struck(i, o)' /\ ~Buried(i, o)'
  <2>1. ~Struck(i, o) /\ ~Buried(i, o)
    BY <1>1 DEF Clean
  <2>2. docs[d][i] # None /\ o \in docs[d][i].ops => a \in AtomsOf(d, i)
    BY <1>1 DEF AtomsOf
  <2>3. ~Struck(i, o)'
    <3>1. Struck(i, o)' => /\ FoldItem(d, i) /\ docs[d][i] # None
                           /\ o \in docs[d][i].ops /\ a \notin todo[d][i]
      BY <1>1, <2>1, StepMakes
    <3>2. FoldItem(d, i) => pc[d] = "fold" /\ i \in DOMAIN todo[d]
      BY DEF FoldItem
    <3> QED BY <2>2, <3>1, <3>2 DEF Way, In
  <2>4. ~Buried(i, o)'
    <3>1. Buried(i, o)' => FoldDeleted(d, i) /\ docs[d][i] # None /\ o \in docs[d][i].ops
      BY <2>1, StepMakes
    <3>2. FoldDeleted(d, i) => pc[d] = "fold" /\ i \in DOMAIN todo[d] /\ todo[d][i] = None
      BY DEF FoldDeleted
    <3> QED BY <2>2, <3>1, <3>2 DEF Way, In
  <2> QED BY <2>3, <2>4
<1> QED
  BY <1>1 DEF Clean

\* Nobody has taken out what is only being typed.
LEMMA NewClean ==
    ASSUME NoneIsNoRecord, MInv, FShape, SaidInv, FreshInv, NEW d \in Device, User(d),
           NEW i \in Item, NEW a, a = edits + 1
    PROVE  Clean(i, a)'
<1>1. a \notin 1..edits /\ LogInv
  BY DEF FreshInv
<1>2. ASSUME NEW o, o.atom = a
      PROVE  ~Struck(i, o)' /\ ~Buried(i, o)'
  <2>1. ~Made(i, o) /\ ~Struck(i, o) /\ ~Buried(i, o)
    BY <1>1, <1>2 DEF FreshInv, FreshOp
  <2>2. ~(docs[d][i] # None /\ o \in docs[d][i].ops)
    BY <2>1 DEF Made
  <2>3. ~Struck(i, o)'
    BY <1>1, <2>1, <2>2, StepMakes
  <2>4. ~Buried(i, o)'
    BY <1>1, <2>1, <2>2, StepMakes
  <2> QED BY <2>3, <2>4
<1> QED
  BY <1>2 DEF Clean

\* What a user's step takes out of the file is not wanted any more.
LEMMA UserTakes ==
    ASSUME NoneHoldsNothing, EditsInv, NEW d \in Device, User(d)
    PROVE  \E k \in Item : \E text :
              /\ UserWrites(d, k, text)
              /\ \A i \in Item, a \in Nat :
                    Wanted(i, a)' => \/ a = edits + 1
                                     \/ Wanted(i, a) /\ (i = k /\ In(a, file[d][k]) => In(a, text))
<1>1. PICK k \in Item : Type(d, k) \/ Erase(d, k) \/ Delete(d, k) \/ Undelete(d, k)
  BY DEF User
<1>2. CASE Type(d, k)
  <2> DEFINE t == {edits + 1} \union IF file[d][k] = None THEN {} ELSE file[d][k]
  <2>1. UserWrites(d, k, t) /\ wanted' = wanted \union {<<d, k, edits + 1>>}
    BY <1>2 DEF Type
  <2>2. edits + 1 \in t /\ edits + 1 \in Nat
    BY DEF EditsInv, WantedInv
  <2>3. t # None
    BY <2>2 DEF NoneHoldsNothing
  <2>4. \A a : In(a, file[d][k]) => In(a, t)
    BY <2>3 DEF In
  <2>5. \A i \in Item, a \in Nat : Wanted(i, a)' => a = edits + 1 \/ Wanted(i, a)
    BY <2>1 DEF Wanted
  <2> HIDE DEF t
  <2> QED BY <2>1, <2>4, <2>5
<1>3. CASE Erase(d, k)
  <2>1. PICK b \in file[d][k] : UserWrites(d, k, file[d][k] \ {b}) /\ wanted' = Without(k, {b})
    BY <1>3 DEF Erase
  <2>2. \A i \in Item, a \in Nat : Wanted(i, a)' => Wanted(i, a) /\ (i = k => a # b)
    BY <2>1 DEF Wanted, Without
  <2>3. \A a \in Nat : a # b /\ In(a, file[d][k]) => In(a, file[d][k] \ {b})
    BY DEF In, NoneHoldsNothing
  <2> QED BY <2>1, <2>2, <2>3
<1>4. CASE Delete(d, k)
  <2>1. UserWrites(d, k, None) /\ wanted' = Without(k, file[d][k])
    BY <1>4 DEF Delete
  <2>2. \A i \in Item, a \in Nat : Wanted(i, a)' => Wanted(i, a) /\ (i = k => a \notin file[d][k])
    BY <2>1 DEF Wanted, Without
  <2> QED BY <2>1, <2>2 DEF In
<1>5. CASE Undelete(d, k)
  <2>1. UserWrites(d, k, trash[d][k]) /\ wanted' = wanted /\ file[d][k] = None
    BY <1>5 DEF Undelete
  <2>2. \A i \in Item, a \in Nat : Wanted(i, a)' => Wanted(i, a)
    BY <2>1 DEF Wanted
  <2> QED BY <2>1, <2>2 DEF In
<1> QED
  BY <1>1, <1>2, <1>3, <1>4, <1>5

\* A step of the sync thread: its own row and the others'.
LEMMA SyncWay ==
    ASSUME MergeAssumption, NoneIsNoRecord, NoneHoldsNothing, MInv, MInv', Grows, FilesInv, EditsInv,
           StatInv, ClashInv, slips = {}, NEW d \in Device, Sync(d) \/ Crash(d),
           NEW i \in Item, NEW a \in Nat, Clean(i, a), \A e \in Device : Way(e, i, a),
           NEW e \in Device
    PROVE  Way(e, i, a)'
<1>0. Shape /\ FShape /\ QueueFirst(d) /\ Way(d, i, a) /\ Way(e, i, a)
  BY DEF MInv, FilesInv, RowInv
<1>1. CASE Deliver(d)
  BY <1>0, <1>1, DeliverWay
<1>2. ASSUME OthersSame(d), Way(d, i, a)'
      PROVE  Way(e, i, a)'
  BY <1>0, <1>2, OthersWay
<1>3. CASE Scan(d)
  BY <1>0, <1>2, <1>3, ScanWay, ScanEffect
<1>4. ASSUME NEW k \in Item, FoldItem(d, k)
      PROVE  Way(e, i, a)'
  BY <1>0, <1>2, <1>4, FoldItemWay, FoldItemEffect
<1>5. ASSUME NEW k \in Item, FoldDeleted(d, k)
      PROVE  Way(e, i, a)'
  BY <1>0, <1>2, <1>5, FoldDeletedWay, FoldDeletedEffect
<1>6. CASE SaveShadow(d)
  BY <1>0, <1>2, <1>6, CopyWay, SaveShadowEffect
<1>7. CASE QueuePush(d)
  BY <1>0, <1>2, <1>7, MovesWay, QueuePushEffect
<1>8. CASE Receive(d)
  BY <1>0, <1>2, <1>8, ReceiveWay, ReceiveEffect
<1>9. CASE QueueDirty(d)
  BY <1>0, <1>2, <1>9, MovesWay, QueueDirtyEffect
<1>10. CASE MoveCursor(d)
  BY <1>0, <1>2, <1>10, MovesWay, MoveCursorEffect
<1>11. CASE ApplyCheck(d)
  BY <1>0, <1>2, <1>11, ApplyCheckWay, ApplyCheckEffect
<1>12. CASE ApplyWrite(d)
  BY <1>0, <1>2, <1>12, ApplyWriteWay, ApplyWriteEffect
<1>13. CASE ApplyStat(d)
  BY <1>0, <1>2, <1>13, ApplyStatWay, ApplyStatEffect
<1>14. CASE ApplyClear(d)
  BY <1>0, <1>2, <1>14, MovesWay, ApplyClearEffect
<1>15. CASE Crash(d)
  BY <1>0, <1>2, <1>15, CopyWay, CrashEffect
<1> QED
  BY <1>1, <1>3, <1>4, <1>5, <1>6, <1>7, <1>8, <1>9, <1>10, <1>11, <1>12, <1>13, <1>14, <1>15 DEF Sync, Fold

\* The users' wishes are the users' business.
LEMMA SyncWants ==
    ASSUME NEW d \in Device, Sync(d) \/ Crash(d)
    PROVE  wanted' = wanted
<1>1. ASSUME Fold(d) \/ QueuePush(d) \/ Receive(d)
      PROVE  UNCHANGED users
  BY <1>1 DEF Fold, FoldItem, FoldDeleted, QueuePush, Receive
<1>2. ASSUME Scan(d) \/ SaveShadow(d) \/ QueueDirty(d) \/ MoveCursor(d) \/ Deliver(d)
                 \/ ApplyCheck(d) \/ ApplyWrite(d) \/ ApplyStat(d) \/ ApplyClear(d)
      PROVE  UNCHANGED users
  BY <1>2 DEF Scan, SaveShadow, QueueDirty, MoveCursor, Deliver, ApplyCheck, ApplyWrite, ApplyStat,
              ApplyClear
<1> QED
  BY <1>1, <1>2 DEF Sync, Crash, users

LEMMA StepWant ==
    ASSUME MergeAssumption, NoneIsNoRecord, NoneHoldsNothing, MInv, FilesInv, EditsInv, SaidInv,
           StatInv, FreshInv, ClashInv, WantInv, [Next]_vars
    PROVE  WantInv'
<1>0. MInv' /\ Grows /\ slips \subseteq slips' /\ FShape /\ LogInv
  BY StepMInv, SlipsGrow DEF FilesInv, FreshInv
<1> SUFFICES ASSUME slips' = {}, NEW i \in Item, NEW a \in Nat, Wanted(i, a)'
             PROVE  Clean(i, a)' /\ \A e \in Device : Way(e, i, a)'
  BY DEF WantInv
<1>1. slips = {}
  BY <1>0
<1>2. Wanted(i, a) => Clean(i, a) /\ \A e \in Device : Way(e, i, a)
  BY <1>1 DEF WantInv
<1>3. CASE UNCHANGED vars
  <2>1. UNCHANGED <<file, shadow, saved, docs, tombs, outbox, queue, cursor, pc, todo, updates, log, wanted>>
    BY <1>3 DEF vars, disk, memory, users
  <2>2. Wanted(i, a)
    BY <2>1 DEF Wanted
  <2>3. Clean(i, a)'
    <3>1. TombsOf(i)' = TombsOf(i)
      BY <2>1 DEF TombsOf, Carried
    <3> QED BY <1>2, <2>1, <2>2, <3>1 DEF Clean, Struck, Buried
  <2>4. ASSUME NEW e \in Device
        PROVE  Way(e, i, a)'
    <3>1. Seen(e, i)' = Seen(e, i) /\ Kept(e, i)' = Kept(e, i) /\ Way(e, i, a)
      BY <1>2, <2>1, <2>2 DEF Seen, Kept, TextIn
    <3> QED BY <1>0, <2>1, <3>1, WayStays
  <2> QED BY <2>3, <2>4
<1>4. ASSUME NEW d \in Device, Sync(d) \/ Crash(d)
      PROVE  Clean(i, a)' /\ \A e \in Device : Way(e, i, a)'
  <2>1. Wanted(i, a)
    <3>1. wanted' = wanted
      BY <1>4, SyncWants
    <3> QED BY <3>1 DEF Wanted
  <2>2. Clean(i, a) /\ \A e \in Device : Way(e, i, a)
    BY <1>2, <2>1
  <2>3. Clean(i, a)'
    BY <1>0, <1>4, <2>2, StepClean
  <2> QED BY <1>0, <1>1, <1>4, <2>2, <2>3, SyncWay
<1>5. ASSUME NEW d \in Device, User(d)
      PROVE  Clean(i, a)' /\ \A e \in Device : Way(e, i, a)'
  <2> DEFINE Takes(k, text) ==
        /\ UserWrites(d, k, text)
        /\ Wanted(i, a)' => \/ a = edits + 1
                            \/ Wanted(i, a) /\ (i = k /\ In(a, file[d][k]) => In(a, text))
  <2>0. PICK k \in Item : \E text : Takes(k, text)
    BY <1>5, UserTakes
  <2>1. PICK text : Takes(k, text)
    BY <2>0
  <2>2. CASE a = edits + 1
    BY <1>0, <1>5, <2>1, <2>2, NewClean, NewAtom DEF MInv
  <2>3. CASE Wanted(i, a) /\ (i = k /\ In(a, file[d][k]) => In(a, text))
    <3>1. Clean(i, a) /\ \A e \in Device : Way(e, i, a)
      BY <1>2, <2>3
    <3>2. Clean(i, a)'
      BY <1>0, <1>5, <3>1, StepClean
    <3> QED BY <1>0, <2>1, <2>3, <3>1, <3>2, UserWay
  <2> QED BY <2>1, <2>2, <2>3
<1> QED
  BY <1>3, <1>4, <1>5 DEF Next

\* While no slip has happened, what a user typed and nobody took out is deleted on
\* no device and by no tombstone, and each file has it or is waiting for it.
THEOREM WantInvariance ==
    ASSUME NoneIsNoRecord, NoneHoldsNothing
    PROVE  Spec => []WantInv
<1>1. Init => WantInv
  BY DEF Init, WantInv, Wanted
<1>2. MInv /\ FilesInv /\ EditsInv /\ SaidInv /\ StatInv /\ FreshInv /\ ClashInv /\ WantInv /\ [Next]_vars
        => WantInv'
  BY StepWant, MergeAssumption
<1> QED
  BY <1>1, <1>2, MergeInvariance, FilesInvariance, EditsInvariance, SaidInvariance, StatInvariance,
     FreshInvariance, ClashesNoted, PTL DEF Spec

\* No fold takes another device's text for deleted: what is deleted in a document,
\* a user has taken out (scan.rs folds a file only when it is not behind).
THEOREM OnlyUsersDelete ==
    ASSUME NoneIsNoRecord, NoneHoldsNothing
    PROVE  Spec => []FoldKeepsRemote
<1>1. EditsInv /\ WantInv => FoldKeepsRemote
  <2> SUFFICES ASSUME EditsInv, WantInv, slips = {}, NEW w \in wanted, NEW d \in Device
               PROVE  w[3] \notin Deleted(d, w[2])
    BY DEF FoldKeepsRemote
  <2>1. w[2] \in Item /\ w[3] \in Nat
    BY DEF EditsInv, WantedInv
  <2>2. Wanted(w[2], w[3])
    BY DEF Wanted
  <2>3. Clean(w[2], w[3])
    BY <2>1, <2>2 DEF WantInv
  <2> QED BY <2>3 DEF Clean, Struck, Deleted
<1> QED
  BY <1>1, EditsInvariance, WantInvariance, PTL

\* When everything has been exchanged, all devices have the same files, and what was typed
\* and not taken out is in them (docs/SYNC.md:69: an edit survives a concurrent deletion).
THEOREM ExchangeKeepsAll ==
    ASSUME NoneIsNoRecord, NoneHoldsNothing
    PROVE  Spec => []NothingLostAtRest
<1>1. MInv /\ EditsInv /\ WantInv /\ FilesAgree => NothingLostAtRest
  <2> SUFFICES ASSUME MInv, EditsInv, WantInv, FilesAgree, AtRest, slips = {},
                      NEW w \in wanted, NEW d \in Device
               PROVE  In(w[3], file[d][w[2]])
    BY DEF NothingLostAtRest, FilesAgree, In
  <2> DEFINE e == w[1]
             i == w[2]
             a == w[3]
  <2>1. e \in Device /\ i \in Item /\ a \in Nat /\ Met(w)
    BY DEF EditsInv, WantedInv
  <2>2. Way(e, i, a)
    <3>1. Wanted(i, a)
      BY DEF Wanted
    <3> QED BY <2>1, <3>1 DEF WantInv
  <2>3. ~Queued(e, i) /\ ~Coming(e, i)
    <3>1. queue[e] = {} /\ cursor[e] = Len(log)
      BY <2>1 DEF AtRest
    <3>2. NextKeys(e) = {}
      BY <2>1, <3>1 DEF NextKeys, MInv, Shape
    <3> QED BY <3>1, <3>2 DEF Queued, Coming, Candidates
  <2>4. In(a, file[e][i])
    BY <2>1, <2>2, <2>3 DEF Met, Way, In
  <2>5. file[d] = file[e]
    BY <2>1 DEF FilesAgree
  <2> QED BY <2>4, <2>5
<1> QED
  BY <1>1, MergeInvariance, EditsInvariance, WantInvariance, FilesConverge, PTL
-----------------------------------------------------------------------------
(* What a device has still to fold, and its clock                           *)

\* The document shows all of a text.
InDoc(d, i, text) == docs[d][i] # None /\ text \subseteq TextOf(docs[d][i])

\* Where the sync thread is neither in a scan nor between an apply's check and its stat.
Resting == {"start", "idle", "push", "queue", "cursor", "clear"}

\* Both shadows are the same but in a scan or an apply.  A text that only the one
\* in memory has is yet to be folded, or the document shows it; and the saved
\* entry's stat does not fit, so that a scan after a crash reads the file.
SeenRow(d, i) ==
    /\ pc[d] \in Resting => shadow[d][i] = saved[d][i]
    /\ pc[d] = "fold" /\ Seen(d, i) # Kept(d, i) /\ Seen(d, i) # None =>
         Loose(saved[d][i]) /\ (i \in DOMAIN todo[d] \/ InDoc(d, i, Seen(d, i)))
    /\ pc[d] \in {"write", "stat"} =>
         IF i \in DOMAIN todo[d] THEN Seen(d, i) # None => InDoc(d, i, Seen(d, i))
         ELSE Seen(d, i) = Kept(d, i)

\* A scan's text that the document does not show; a file that some scan will read
\* and find changed.  Each costs the clock at most one tick.
ToFold(d, i) ==
    pc[d] = "fold" /\ i \in DOMAIN todo[d] /\ todo[d][i] # None /\ ~InDoc(d, i, todo[d][i])
Unread(d, i) ==
    /\ file[d][i] # None
    /\ pc[d] = "start" => file[d][i] # Kept(d, i) /\ ~(InDoc(d, i, file[d][i]) /\ Loose(saved[d][i]))
    /\ pc[d] = "write" => file[d][i] # Kept(d, i)
    /\ pc[d] \notin {"start", "write"} => file[d][i] # Seen(d, i)
Owed(d, i) == (IF ToFold(d, i) THEN 1 ELSE 0) + (IF Unread(d, i) THEN 1 ELSE 0)

\* The stamps of a device's own operations, and its clock.
Stamps(d, i) == IF docs[d][i] = None THEN {} ELSE {o.at : o \in {p \in docs[d][i].ops : p.dev = d}}
Clock(d, i) == Cardinality(Stamps(d, i))

\* Each tick of the clock, and each that is owed, is for another edit.
ClockRow(d, i) ==
    /\ IsFiniteSet(Stamps(d, i))
    /\ Stamps(d, i) = {{c} : c \in 1..Clock(d, i)}
    /\ Clock(d, i) + Owed(d, i) <= edits

\* The form of an operation.
Ops(n) == [atom : 1..n, dev : Device \union {None}, at : SUBSET (1..n)]

\* An operation is of this form, and its author's document has it.
Known(i, o) == Made(i, o) \/ Struck(i, o) \/ Buried(i, o)
OpRow(i, o) ==
    Known(i, o) =>
      /\ o \in Ops(edits)
      /\ o.dev # None => docs[o.dev][i] # None /\ o \in docs[o.dev][i].ops

LagInv ==
    /\ \A d \in Device, i \in Item : SeenRow(d, i) /\ ClockRow(d, i)
    /\ \A i \in Item : \A o : OpRow(i, o)

\* A step that leaves owed no more than was.
Less(d, i) ==
    \/ (ToFold(d, i)' => ToFold(d, i)) /\ (Unread(d, i)' => Unread(d, i))
    \/ ~ToFold(d, i)' /\ (Unread(d, i)' => ToFold(d, i) \/ Unread(d, i))
    \/ ~Unread(d, i)' /\ (ToFold(d, i)' => ToFold(d, i) \/ Unread(d, i))

LEMMA LessOwed ==
    ASSUME NEW d \in Device, NEW i \in Item, Less(d, i)
    PROVE  Owed(d, i)' <= Owed(d, i) /\ Owed(d, i) \in 0..2 /\ Owed(d, i)' \in 0..2
<1> DEFINE x == ToFold(d, i) y == Unread(d, i)
<1>1. Owed(d, i) = (IF x THEN 1 ELSE 0) + (IF y THEN 1 ELSE 0)
  BY DEF Owed
<1>2. Owed(d, i)' = (IF x' THEN 1 ELSE 0) + (IF y' THEN 1 ELSE 0)
  BY DEF Owed
<1>3. \/ (x' => x) /\ (y' => y)
      \/ ~x' /\ (y' => x \/ y)
      \/ ~y' /\ (x' => x \/ y)
  BY DEF Less
<1> HIDE DEF x, y
<1> QED
  BY <1>1, <1>2, <1>3

\* The clock and the stamps of a document.
LEMMA SameStamps ==
    ASSUME NEW d \in Device, NEW i \in Item, Stamps(d, i)' = Stamps(d, i), Less(d, i),
           ClockRow(d, i), edits \in Nat, edits' \in Nat, edits <= edits'
    PROVE  ClockRow(d, i)'
<1>1. Clock(d, i)' = Clock(d, i)
  BY DEF Clock
<1>2. Clock(d, i) \in Nat
  BY FS_CardinalityType DEF ClockRow, Clock
<1>3. Owed(d, i)' <= Owed(d, i) /\ Owed(d, i) \in 0..2 /\ Owed(d, i)' \in 0..2
  BY LessOwed
<1>4. Clock(d, i) + Owed(d, i) <= edits
  BY DEF ClockRow
<1>5. Clock(d, i)' + Owed(d, i)' <= edits'
  BY <1>1, <1>2, <1>3, <1>4
<1>6. IsFiniteSet(Stamps(d, i)') /\ Stamps(d, i)' = {{c} : c \in 1..Clock(d, i)'}
  BY <1>1 DEF ClockRow
<1> QED
  BY <1>5, <1>6 DEF ClockRow

\* The other devices' entries stay.
OthersEntries(d) ==
    \A e \in Device \ {d}, i \in Item : shadow'[e][i] = shadow[e][i] /\ saved'[e][i] = saved[e][i]

LEMMA EntriesMove ==
    ASSUME FShape, NEW d \in Device, Sync(d) \/ Crash(d)
    PROVE  OthersEntries(d)
<1>1. PICK S : shadow \in [Device -> [Item -> S]]
  BY DEF FShape, Entries, Cells
<1>2. PICK R : saved \in [Device -> [Item -> R]]
  BY DEF FShape, Entries, Cells
<1>3. CASE Scan(d)
  BY <1>1, <1>2, <1>3 DEF Scan, disk, OthersEntries
<1>4. CASE SaveShadow(d)
  BY <1>1, <1>2, <1>4 DEF SaveShadow, OthersEntries
<1>5. CASE ApplyCheck(d)
  BY <1>1, <1>2, <1>5 DEF ApplyCheck, disk, OthersEntries
<1>6. CASE ApplyWrite(d)
  BY <1>1, <1>2, <1>6 DEF ApplyWrite, OthersEntries
<1>7. CASE ApplyStat(d)
  BY <1>1, <1>2, <1>7 DEF ApplyStat, OthersEntries
<1>8. CASE Crash(d)
  BY <1>1, <1>2, <1>8 DEF Crash, disk, OthersEntries
<1>9. CASE Fold(d) \/ QueuePush(d) \/ Deliver(d) \/ Receive(d) \/ QueueDirty(d) \/ MoveCursor(d)
             \/ ApplyClear(d)
  BY <1>9 DEF Fold, FoldItem, FoldDeleted, QueuePush, Deliver, Receive, QueueDirty, MoveCursor,
              ApplyClear, disk, memory, OthersEntries
<1> QED
  BY <1>3, <1>4, <1>5, <1>6, <1>7, <1>8, <1>9 DEF Sync

\* A row of which nothing changes.
LEMMA RowStays ==
    ASSUME NEW d \in Device, NEW i \in Item, SeenRow(d, i),
           file'[d][i] = file[d][i], shadow'[d][i] = shadow[d][i], saved'[d][i] = saved[d][i],
           docs'[d][i] = docs[d][i], pc'[d] = pc[d],
           i \in DOMAIN todo'[d] <=> i \in DOMAIN todo[d],
           i \in DOMAIN todo[d] => todo'[d][i] = todo[d][i]
    PROVE  SeenRow(d, i)' /\ Less(d, i) /\ Stamps(d, i)' = Stamps(d, i)
<1>1. Seen(d, i)' = Seen(d, i) /\ Kept(d, i)' = Kept(d, i)
  BY DEF Seen, Kept, TextIn
<1>2. \A t : InDoc(d, i, t)' <=> InDoc(d, i, t)
  BY DEF InDoc
<1>3. Loose(saved[d][i])' <=> Loose(saved[d][i])
  BY DEF Loose
<1>4. Stamps(d, i)' = Stamps(d, i)
  BY DEF Stamps
<1>5. InDoc(d, i, Seen(d, i))' <=> InDoc(d, i, Seen(d, i))
  BY <1>1 DEF InDoc
<1>6. InDoc(d, i, file[d][i])' <=> InDoc(d, i, file[d][i])
  BY DEF InDoc
<1>7. i \in DOMAIN todo[d] => (InDoc(d, i, todo[d][i])' <=> InDoc(d, i, todo[d][i]))
  BY DEF InDoc
<1>8. SeenRow(d, i)'
  BY <1>1, <1>3, <1>5 DEF SeenRow
<1>9. ToFold(d, i)' => ToFold(d, i)
  BY <1>7 DEF ToFold
<1>10. Unread(d, i)' => Unread(d, i)
  BY <1>1, <1>3, <1>6 DEF Unread
<1> QED
  BY <1>4, <1>8, <1>9, <1>10 DEF Less
\* What is left alone of a document is left alone of its stamps, and shows what it showed.
LEMMA DocStays ==
    ASSUME NEW d \in Device, NEW i \in Item, docs'[d][i] = docs[d][i]
    PROVE  Stamps(d, i)' = Stamps(d, i)
BY DEF Stamps

\* A scan takes up what no entry accounts for, and nothing else is owed for it.
LEMMA ScanLag ==
    ASSUME NoneIsNoRecord, Shape, FShape, NEW d \in Device, NEW i \in Item, Scan(d), SeenRow(d, i)
    PROVE  SeenRow(d, i)' /\ Less(d, i)
<1>1. /\ pc'[d] = "fold" /\ pc[d] \in {"start", "idle"} /\ file' = file /\ docs' = docs
      /\ Kept(d, i)' = Kept(d, i)
      /\ i \in DOMAIN todo'[d] => todo'[d][i] = file[d][i] /\ Seen(d, i)' = file[d][i]
      /\ i \notin DOMAIN todo'[d] => Seen(d, i)' = Seen(d, i)
  BY ScanEffect DEF MovesTo
<1>2. DOMAIN todo'[d] = Gone(d) \union Changed(d)
  <2>1. PICK S : todo \in [Device -> S]
    BY DEF FShape, Cell
  <2> QED BY <2>1 DEF Scan
<1>3. saved'[d][i] = saved[d][i]
  BY DEF Scan, disk
<1>4. shadow[d][i] = saved[d][i] /\ Seen(d, i) = Kept(d, i)
  BY <1>1 DEF SeenRow, Resting, Seen, Kept
<1>5. i \in DOMAIN todo'[d] /\ file[d][i] # None =>
        file[d][i] # Seen(d, i) /\ Loose(saved[d][i])
  BY <1>2, <1>4 DEF Gone, Changed, ToRead, Seen, Loose
<1>6. i \notin DOMAIN todo'[d] /\ file[d][i] # None /\ file[d][i] # Seen(d, i) => ~Loose(saved[d][i])
  BY <1>2, <1>4 DEF Gone, Changed, ToRead, Seen, Loose
<1>7. SeenRow(d, i)'
  <2>1. Loose(saved[d][i])' <=> Loose(saved[d][i])
    BY <1>3 DEF Loose
  <2> QED BY <1>1, <1>4, <1>5, <2>1 DEF SeenRow, Resting
<1>8. ToFold(d, i)' => i \in DOMAIN todo'[d] /\ file[d][i] # None /\ ~InDoc(d, i, file[d][i])
  BY <1>1 DEF ToFold, InDoc
<1>9. Unread(d, i)' => file[d][i] # None /\ i \notin DOMAIN todo'[d] /\ file[d][i] # Seen(d, i)
  BY <1>1 DEF Unread
<1>10. file[d][i] # None /\ file[d][i] # Seen(d, i)
          /\ (~InDoc(d, i, file[d][i]) \/ ~Loose(saved[d][i])) => Unread(d, i)
  BY <1>1, <1>4 DEF Unread
<1> QED
  BY <1>5, <1>6, <1>7, <1>8, <1>9, <1>10 DEF Less

\* The steps after which both shadows are the same, or stay so.
LEMMA RestLag ==
    ASSUME NEW d \in Device, NEW i \in Item, SeenRow(d, i),
           pc[d] \in Phases \ {"start", "write"}, pc'[d] \in Resting \ {"start"},
           file'[d][i] = file[d][i], shadow'[d][i] = saved'[d][i],
           Seen(d, i)' = Seen(d, i) \/ file[d][i] = None
    PROVE  SeenRow(d, i)' /\ Less(d, i)
<1>1. SeenRow(d, i)'
  BY DEF SeenRow, Resting
<1>2. ~ToFold(d, i)'
  BY DEF ToFold, Resting
<1>3. Unread(d, i)' => Unread(d, i)
  BY DEF Unread, Resting, Phases
<1> QED
  BY <1>1, <1>2, <1>3 DEF Less

LEMMA SaveShadowLag ==
    ASSUME Shape, FShape, NEW d \in Device, NEW i \in Item, SaveShadow(d), SeenRow(d, i)
    PROVE  SeenRow(d, i)' /\ Less(d, i)
<1>1. /\ pc[d] = "fold" /\ pc'[d] \in {"idle", "push"} /\ file' = file /\ Seen(d, i)' = Seen(d, i)
  BY SaveShadowEffect DEF MovesTo
<1>2. shadow'[d][i] = saved'[d][i]
  <2>1. PICK R : saved \in [Device -> [Item -> R]]
    BY DEF FShape, Entries, Cells
  <2> QED BY <2>1 DEF SaveShadow
<1> QED
  BY <1>1, <1>2, RestLag DEF Resting, Phases

\* The steps that leave the files and the shadows alone.
LEMMA MoveLag ==
    ASSUME Shape, FShape, NEW d \in Device, NEW i \in Item, SeenRow(d, i),
           QueuePush(d) \/ QueueDirty(d) \/ MoveCursor(d) \/ ApplyClear(d) \/ Receive(d)
    PROVE  SeenRow(d, i)' /\ Less(d, i)
<1>1. UNCHANGED <<file, saved, shadow>>
  BY DEF QueuePush, QueueDirty, MoveCursor, ApplyClear, Receive
<1>2. Seen(d, i)' = Seen(d, i)
  BY <1>1 DEF Seen, TextIn
<1>3. pc[d] \in Resting \ {"start"} /\ pc'[d] \in Resting \ {"start"}
  <2>1. CASE QueuePush(d)
    BY <2>1, QueuePushEffect DEF MovesTo, Resting
  <2>2. CASE QueueDirty(d)
    BY <2>2, QueueDirtyEffect DEF MovesTo, Resting
  <2>3. CASE MoveCursor(d)
    BY <2>3, MoveCursorEffect DEF MovesTo, Resting
  <2>4. CASE ApplyClear(d)
    BY <2>4, ApplyClearEffect DEF MovesTo, Resting
  <2>5. CASE Receive(d)
    BY <2>5, ReceiveEffect DEF MovesTo, Resting
  <2> QED BY <2>1, <2>2, <2>3, <2>4, <2>5
<1>4. shadow'[d][i] = saved'[d][i]
  BY <1>1, <1>3 DEF SeenRow
<1> QED
  BY <1>1, <1>2, <1>3, <1>4, RestLag DEF Resting, Phases

\* An apply's plan is to make a file as its document: nothing of it has to be folded.
LEMMA ApplyCheckLag ==
    ASSUME NoneIsNoRecord, Shape, FShape, NEW d \in Device, NEW i \in Item, ApplyCheck(d), SeenRow(d, i)
    PROVE  SeenRow(d, i)' /\ Less(d, i)
<1>1. /\ pc'[d] = "write" /\ pc[d] = "idle" /\ file' = file /\ docs' = docs
      /\ DOMAIN todo'[d] = ToWrite(d)
      /\ Kept(d, i)' = Kept(d, i)
      /\ Seen(d, i)' = IF i \in ToWrite(d) THEN Materialize(d, i) ELSE Seen(d, i)
  BY ApplyCheckEffect DEF MovesTo
<1>2. Seen(d, i) = Kept(d, i)
  BY <1>1 DEF SeenRow, Resting, Seen, Kept
<1>3. Materialize(d, i) # None => InDoc(d, i, Materialize(d, i))
  BY DEF Materialize, InDoc
<1>4. SeenRow(d, i)'
  BY <1>1, <1>2, <1>3 DEF SeenRow, Resting, InDoc
<1>5. ~ToFold(d, i)'
  BY <1>1 DEF ToFold
<1>6. Unread(d, i)' => Unread(d, i)
  BY <1>1, <1>2 DEF Unread
<1> QED
  BY <1>4, <1>5, <1>6 DEF Less

LEMMA ApplyWriteLag ==
    ASSUME NoneIsNoRecord, Shape, FShape, NEW d \in Device, NEW i \in Item, ApplyWrite(d), SeenRow(d, i),
           StatRow(d, i)
    PROVE  SeenRow(d, i)' /\ Less(d, i)
<1>1. /\ pc'[d] = "stat" /\ pc[d] = "write" /\ docs' = docs /\ todo' = todo
      /\ file'[d][i] = IF i \in DOMAIN todo[d] THEN todo[d][i] ELSE file[d][i]
      /\ Seen(d, i)' = Seen(d, i) /\ Kept(d, i)' = Kept(d, i)
  BY ApplyWriteEffect DEF MovesTo
<1>2. i \in DOMAIN todo[d] => todo[d][i] = Seen(d, i)
  BY <1>1 DEF StatRow
<1>3. SeenRow(d, i)'
  BY <1>1 DEF SeenRow, Resting, InDoc
<1>4. ~ToFold(d, i)'
  BY <1>1 DEF ToFold
<1>5. Unread(d, i)' => Unread(d, i)
  BY <1>1, <1>2 DEF Unread, SeenRow
<1> QED
  BY <1>3, <1>4, <1>5 DEF Less

LEMMA ApplyStatLag ==
    ASSUME NoneIsNoRecord, Shape, FShape, NEW d \in Device, NEW i \in Item, ApplyStat(d), SeenRow(d, i)
    PROVE  SeenRow(d, i)' /\ Less(d, i)
<1>1. /\ pc'[d] = "clear" /\ pc[d] = "stat" /\ file' = file
      /\ Seen(d, i)' = Seen(d, i) \/ (i \in DOMAIN todo[d] /\ Seen(d, i)' = None)
  BY ApplyStatEffect DEF MovesTo
<1>2. PICK S, R : shadow \in [Device -> [Item -> S]] /\ saved \in [Device -> [Item -> R]]
  BY DEF FShape, Entries, Cells
<1>3. shadow'[d][i] = saved'[d][i]
  BY <1>2 DEF ApplyStat
<1>4. ASSUME i \in DOMAIN todo[d], file[d][i] # None, shadow[d][i] # None
      PROVE  Seen(d, i)' = Seen(d, i)
  <2>1. IsEntry(shadow[d][i])
    BY DEF FShape, Entries
  <2>2. shadow'[d][i] = [shadow[d][i] EXCEPT !.same = TRUE]
    BY <1>2, <1>4 DEF ApplyStat
  <2>3. shadow'[d][i] = [text |-> shadow[d][i].text, same |-> TRUE]
    BY <1>4, <2>1, <2>2 DEF IsEntry
  <2>4. shadow'[d][i] # None
    BY <2>3 DEF NoneIsNoRecord
  <2> QED BY <1>4, <2>3, <2>4 DEF Seen, TextIn
<1>5. shadow[d][i] = None => Seen(d, i) = None
  BY DEF Seen, TextIn
<1>6. Seen(d, i)' = Seen(d, i) \/ file[d][i] = None
  BY <1>1, <1>4, <1>5
<1> QED
  BY <1>1, <1>3, <1>6, RestLag DEF Resting, Phases

\* A crash loses what was read, and a later scan will read it again.
LEMMA CrashLag ==
    ASSUME NoneIsNoRecord, Shape, FShape, NEW d \in Device, NEW i \in Item, Crash(d), SeenRow(d, i),
           StatRow(d, i), FoldsSeen(d, i)
    PROVE  SeenRow(d, i)' /\ Less(d, i)
<1>1. /\ pc'[d] = "start" /\ pc[d] # "start" /\ pc[d] \in Phases /\ file' = file /\ docs' = docs
      /\ Seen(d, i)' = Kept(d, i) /\ Kept(d, i)' = Kept(d, i)
  BY CrashEffect DEF MovesTo, FShape
<1>2. shadow'[d][i] = saved'[d][i] /\ saved'[d][i] = saved[d][i]
  <2>1. PICK S : shadow \in [Device -> [Item -> S]]
    BY DEF FShape, Entries, Cells
  <2> QED BY <2>1 DEF Crash, disk
<1>3. SeenRow(d, i)'
  BY <1>1, <1>2 DEF SeenRow, Resting
<1>4. ~ToFold(d, i)'
  BY <1>1 DEF ToFold
<1>5. ASSUME Unread(d, i)'
      PROVE  ToFold(d, i) \/ Unread(d, i)
  <2>1. Loose(saved[d][i])' <=> Loose(saved[d][i])
    BY <1>2 DEF Loose
  <2>2. /\ file[d][i] # None /\ file[d][i] # Kept(d, i)
        /\ ~InDoc(d, i, file[d][i]) \/ ~Loose(saved[d][i])
    BY <1>1, <1>5, <2>1 DEF Unread, InDoc
  <2>3. CASE pc[d] \in Resting
    BY <1>1, <2>2, <2>3 DEF Unread, SeenRow, Resting, Seen, Kept
  <2>4. CASE pc[d] = "fold"
    <3>1. i \in DOMAIN todo[d] => todo[d][i] = Seen(d, i)
      BY <2>4 DEF FoldsSeen
    <3>2. file[d][i] = Seen(d, i) => i \in DOMAIN todo[d] /\ ~InDoc(d, i, file[d][i])
      BY <2>2, <2>4 DEF SeenRow
    <3> QED BY <2>2, <2>4, <3>1, <3>2 DEF Unread, ToFold
  <2>5. CASE pc[d] = "write"
    BY <2>2, <2>5 DEF Unread
  <2>6. CASE pc[d] = "stat"
    <3>1. file[d][i] # Seen(d, i)
      BY <2>2, <2>6 DEF SeenRow, StatRow
    <3> QED BY <2>2, <2>6, <3>1 DEF Unread
  <2> QED BY <1>1, <2>3, <2>4, <2>5, <2>6 DEF Phases, Resting
<1> QED
  BY <1>3, <1>4, <1>5 DEF Less

\* A deletion is folded: the document stays.
LEMMA FoldDeletedLag ==
    ASSUME Shape, FShape, NEW d \in Device, NEW i \in Item, FoldDeleted(d, i), SeenRow(d, i),
           FoldsSeen(d, i)
    PROVE  SeenRow(d, i)' /\ Less(d, i)
<1>1. /\ pc[d] = "fold" /\ pc' = pc /\ i \in DOMAIN todo[d] /\ todo[d][i] = None
      /\ DOMAIN todo'[d] = DOMAIN todo[d] \ {i}
  BY FoldDeletedEffect
<1>2. UNCHANGED <<file, saved, shadow>>
  BY DEF FoldDeleted
<1>3. Seen(d, i)' = Seen(d, i) /\ Seen(d, i) = None
  BY <1>1, <1>2 DEF Seen, TextIn, FoldsSeen
<1>4. SeenRow(d, i)'
  BY <1>1, <1>3 DEF SeenRow, Resting
<1>5. ~ToFold(d, i)'
  BY <1>1 DEF ToFold
<1>6. Unread(d, i)' => Unread(d, i)
  BY <1>1, <1>2, <1>3 DEF Unread
<1> QED
  BY <1>4, <1>5, <1>6 DEF Less
\* The operations that a fold may make: boot operations, or new ones at the clock's next tick.
LEMMA FoldedDoc ==
    ASSUME NEW d, NEW doc, NEW T, NEW c, c = Cardinality({o.at : o \in {p \in doc.ops : p.dev = d}}),
           NEW new, new = ApplyLocalText(d, doc, T)
    PROVE  /\ doc = None => new.ops = BootOps(T) /\ new.dels = {}
           /\ doc # None =>
                /\ new.ops = doc.ops \union {[atom |-> a, dev |-> d, at |-> {c + 1}] : a \in T \ TextOf(doc)}
                /\ new.dels = doc.dels \union {o \in doc.ops : o.atom \notin T}
<1>1. \A A : NewOps(d, doc, A) = {[atom |-> a, dev |-> d, at |-> {c + 1}] : a \in A}
  BY DEF NewOps
<1>2. CASE doc = None
  BY <1>2 DEF ApplyLocalText
<1>3. CASE doc # None
  <2>1. new = [ops  |-> doc.ops \union NewOps(d, doc, T \ TextOf(doc)),
               dels |-> doc.dels \union {o \in doc.ops : o.atom \notin T}]
    BY <1>3 DEF ApplyLocalText
  <2>2. /\ new.ops = doc.ops \union NewOps(d, doc, T \ TextOf(doc))
        /\ new.dels = doc.dels \union {o \in doc.ops : o.atom \notin T}
    BY <2>1
  <2> QED BY <1>1, <1>3, <2>2
<1> QED
  BY <1>2, <1>3

LEMMA FoldMakes ==
    ASSUME Shape, FShape, NEW d \in Device, NEW i \in Item, FoldItem(d, i),
           NEW doc, doc = docs[d][i], NEW T, T = todo[d][i], NEW c, c = Clock(d, i),
           NEW new, new = docs'[d][i]
    PROVE  /\ new = ApplyLocalText(d, doc, T) /\ T # None
           /\ doc = None => new.ops = BootOps(T) /\ new.dels = {}
           /\ doc # None =>
                /\ new.ops = doc.ops \union {[atom |-> a, dev |-> d, at |-> {c + 1}] : a \in T \ TextOf(doc)}
                /\ new.dels = doc.dels \union {o \in doc.ops : o.atom \notin T}
<1>1. new = ApplyLocalText(d, doc, T) /\ T # None
  <2>1. new = ApplyLocalText(d, doc, T)
    BY FoldItemEffect
  <2>2. T # None
    BY DEF FoldItem
  <2> QED BY <2>1, <2>2
<1>2. CASE doc = None
  <2>1. PICK k : k = Cardinality({o.at : o \in {p \in doc.ops : p.dev = d}})
    OBVIOUS
  <2> QED BY <1>1, <1>2, <2>1, FoldedDoc
<1>3. CASE doc # None
  <2>1. c = Cardinality({o.at : o \in {p \in doc.ops : p.dev = d}})
    BY <1>3 DEF Clock, Stamps
  <2> QED BY <1>1, <1>3, <2>1, FoldedDoc
<1> QED
  BY <1>2, <1>3

\* The document shows the text that has been folded into it: an operation that is
\* new has not been deleted before it was made.
LEMMA FoldShows ==
    ASSUME Shape, FShape, NEW d \in Device, NEW i \in Item, FoldItem(d, i), ClockRow(d, i),
           \A o : OpRow(i, o)
    PROVE  /\ todo[d][i] \subseteq TextOf(docs'[d][i])
           /\ docs[d][i] # None => {Clock(d, i) + 1} \notin Stamps(d, i)
<1>1. PICK T : T = todo[d][i]
  OBVIOUS
<1>2. PICK doc : doc = docs[d][i]
  OBVIOUS
<1>3. PICK c : c = Clock(d, i)
  OBVIOUS
<1>4. PICK new : new = docs'[d][i]
  OBVIOUS
<1>5. c \in Nat /\ Stamps(d, i) = {{x} : x \in 1..c}
  BY <1>3, FS_CardinalityType DEF ClockRow, Clock
<1>6. {c + 1} \notin Stamps(d, i)
  BY <1>5
<1>7. CASE doc = None
  <2>1. /\ new = ApplyLocalText(d, doc, T) /\ T # None
        /\ doc = None => new.ops = BootOps(T) /\ new.dels = {}
        /\ doc # None =>
             /\ new.ops = doc.ops \union {[atom |-> a, dev |-> d, at |-> {c + 1}] : a \in T \ TextOf(doc)}
             /\ new.dels = doc.dels \union {o \in doc.ops : o.atom \notin T}
    BY <1>1, <1>2, <1>3, <1>4, FoldMakes
  <2>2. new.ops = BootOps(T) /\ new.dels = {}
    BY <1>7, <2>1
  <2>3. ASSUME NEW a \in T
        PROVE  a \in TextOf(new)
    <3>1. [atom |-> a, dev |-> None, at |-> T] \in new.ops \ new.dels
      BY <2>2 DEF BootOps
    <3> QED BY <3>1 DEF TextOf
  <2> QED BY <1>1, <1>2, <1>4, <1>7, <2>3
<1>8. CASE doc # None
  <2>1. /\ new.ops = doc.ops \union {[atom |-> a, dev |-> d, at |-> {c + 1}] : a \in T \ TextOf(doc)}
        /\ new.dels = doc.dels \union {o \in doc.ops : o.atom \notin T}
    BY <1>1, <1>2, <1>3, <1>4, <1>8, FoldMakes
  <2>2. ASSUME NEW a \in T
        PROVE  a \in TextOf(new)
    <3>1. CASE a \in TextOf(doc)
      <4>1. PICK o \in doc.ops \ doc.dels : o.atom = a
        BY <3>1 DEF TextOf
      <4>2. o \in new.ops \ new.dels
        BY <2>1, <4>1
      <4> QED BY <4>1, <4>2 DEF TextOf
    <3>2. CASE a \notin TextOf(doc)
      <4>1. PICK o : o = [atom |-> a, dev |-> d, at |-> {c + 1}]
        OBVIOUS
      <4>2. o \in new.ops /\ o.atom = a /\ o.dev = d /\ o.at = {c + 1}
        BY <2>1, <3>2, <4>1
      <4>3. o \notin doc.dels
        <5> SUFFICES ASSUME o \in doc.dels PROVE FALSE
          OBVIOUS
        <5>1. Known(i, o)
          BY <1>2, <1>8 DEF Known, Struck
        <5>2. d # None => o \in doc.ops
          BY <1>2, <4>2, <5>1 DEF OpRow
        <5>3. d # None
          BY MergeAssumption
        <5>4. {c + 1} \in Stamps(d, i)
          BY <1>2, <1>8, <4>2, <5>2, <5>3 DEF Stamps
        <5> QED BY <1>6, <5>4
      <4>4. o \notin new.dels
        BY <2>1, <4>2, <4>3
      <4> QED BY <4>2, <4>4 DEF TextOf
    <3> QED BY <3>1, <3>2
  <2> QED BY <1>1, <1>2, <1>3, <1>4, <1>6, <2>2
<1> QED
  BY <1>7, <1>8

\* An item is folded: what was to be folded is in the document, at a tick of the
\* clock if the document did not have it.
LEMMA FoldItemLag ==
    ASSUME NoneIsNoRecord, Shape, FShape, NEW d \in Device, NEW i \in Item, FoldItem(d, i),
           SeenRow(d, i), ClockRow(d, i), FoldsSeen(d, i), edits \in Nat, \A o : OpRow(i, o)
    PROVE  /\ SeenRow(d, i)' /\ ~ToFold(d, i)' /\ (Unread(d, i)' => Unread(d, i))
           /\ \/ Stamps(d, i)' = Stamps(d, i)
              \/ /\ Stamps(d, i)' = Stamps(d, i) \union {{Clock(d, i) + 1}}
                 /\ docs[d][i] # None /\ ToFold(d, i)
<1>1. /\ pc[d] = "fold" /\ pc' = pc /\ i \in DOMAIN todo[d]
      /\ DOMAIN todo'[d] = DOMAIN todo[d] \ {i}
  BY FoldItemEffect
<1>2. UNCHANGED <<file, saved, shadow, edits>>
  BY DEF FoldItem, users
<1>3. Seen(d, i)' = Seen(d, i) /\ Kept(d, i)' = Kept(d, i) /\ Seen(d, i) = todo[d][i]
  BY <1>1, <1>2 DEF Seen, Kept, TextIn, FoldsSeen
<1>4. docs'[d][i] # None
  <2>1. docs[d][i] = None \/ IsDocument(docs[d][i])
    BY DEF Shape
  <2>2. docs'[d][i] = ApplyLocalText(d, docs[d][i], todo[d][i])
    BY FoldItemEffect
  <2>3. IsDocument(docs'[d][i])
    BY <2>1, <2>2, FoldGrows
  <2> QED BY <2>3 DEF IsDocument, NoneIsNoRecord
<1>5. InDoc(d, i, Seen(d, i))'
  BY <1>3, <1>4, FoldShows DEF InDoc
<1>6. SeenRow(d, i)'
  <2>1. Loose(saved[d][i])' <=> Loose(saved[d][i])
    BY <1>2 DEF Loose
  <2> QED BY <1>1, <1>3, <1>5, <2>1 DEF SeenRow, Resting
<1>7. ~ToFold(d, i)'
  BY <1>1 DEF ToFold
<1>8. Unread(d, i)' => Unread(d, i)
  BY <1>1, <1>2, <1>3 DEF Unread
<1>9. CASE docs[d][i] = None
  <2>1. docs'[d][i].ops = BootOps(todo[d][i])
    <3>1. PICK doc, T, c, new : doc = docs[d][i] /\ T = todo[d][i] /\ c = Clock(d, i) /\ new = docs'[d][i]
      OBVIOUS
    <3> QED BY <1>9, <3>1, FoldMakes
  <2>2. \A o \in docs'[d][i].ops : o.dev # d
    BY <2>1, MergeAssumption DEF BootOps
  <2>3. Stamps(d, i)' = {} /\ Stamps(d, i) = {}
    BY <1>4, <1>9, <2>2 DEF Stamps
  <2> QED BY <1>6, <1>7, <1>8, <2>3
<1>10. CASE docs[d][i] # None /\ InDoc(d, i, todo[d][i])
  <2>1. docs'[d][i].ops = docs[d][i].ops
    <3>1. PICK doc, T, c, new : doc = docs[d][i] /\ T = todo[d][i] /\ c = Clock(d, i) /\ new = docs'[d][i]
      OBVIOUS
    <3>2. T \ TextOf(doc) = {}
      BY <1>10, <3>1 DEF InDoc
    <3>3. new.ops = doc.ops \union {[atom |-> a, dev |-> d, at |-> {c + 1}] : a \in T \ TextOf(doc)}
      BY <1>10, <3>1, FoldMakes
    <3>4. new.ops = doc.ops
      BY <3>2, <3>3
    <3> QED BY <3>1, <3>4
  <2>2. Stamps(d, i)' = Stamps(d, i)
    BY <1>4, <1>10, <2>1 DEF Stamps
  <2> QED BY <1>6, <1>7, <1>8, <2>2
<1>11. CASE docs[d][i] # None /\ ~InDoc(d, i, todo[d][i])
  <2>1. PICK doc, T, c : doc = docs[d][i] /\ T = todo[d][i] /\ c = Clock(d, i)
    OBVIOUS
  <2>2. docs'[d][i].ops = doc.ops \union {[atom |-> a, dev |-> d, at |-> {c + 1}] : a \in T \ TextOf(doc)}
    <3>1. PICK new : new = docs'[d][i]
      OBVIOUS
    <3>2. new.ops = doc.ops \union {[atom |-> a, dev |-> d, at |-> {c + 1}] : a \in T \ TextOf(doc)}
      BY <1>11, <2>1, <3>1, FoldMakes
    <3> QED BY <3>1, <3>2
  <2>3. PICK a0 \in T : a0 \notin TextOf(doc)
    BY <1>11, <2>1 DEF InDoc
  <2>4. Stamps(d, i) = {o.at : o \in {p \in doc.ops : p.dev = d}}
    BY <1>11, <2>1 DEF Stamps
  <2>5. Stamps(d, i)' = {o.at : o \in {p \in docs'[d][i].ops : p.dev = d}}
    BY <1>4 DEF Stamps
  <2>6. PICK S : S = Stamps(d, i)'
    OBVIOUS
  <2>7. PICK R : R = docs'[d][i].ops
    OBVIOUS
  <2>8. S = {o.at : o \in {p \in R : p.dev = d}}
    BY <2>5, <2>6, <2>7
  <2>9. R = doc.ops \union {[atom |-> a, dev |-> d, at |-> {c + 1}] : a \in T \ TextOf(doc)}
    BY <2>2, <2>7
  <2>10. {c + 1} \in S
    <3>1. [atom |-> a0, dev |-> d, at |-> {c + 1}] \in R
      BY <2>3, <2>9
    <3> QED BY <2>8, <3>1
  <2>11. ASSUME NEW x \in S
         PROVE  x \in Stamps(d, i) \union {{c + 1}}
    <3>1. PICK o \in R : o.dev = d /\ o.at = x
      BY <2>8
    <3> QED BY <2>4, <2>9, <3>1
  <2>12. Stamps(d, i) \subseteq S
    BY <2>4, <2>8, <2>9
  <2>13. Stamps(d, i)' = Stamps(d, i) \union {{Clock(d, i) + 1}}
    BY <2>1, <2>6, <2>10, <2>11, <2>12
  <2>14. ToFold(d, i)
    BY <1>1, <1>11 DEF ToFold, FoldItem
  <2> QED BY <1>6, <1>7, <1>8, <1>11, <2>13, <2>14
<1> QED
  BY <1>9, <1>10, <1>11

\* A tick that was owed.
LEMMA ClockTicks ==
    ASSUME NEW d \in Device, NEW i \in Item, ClockRow(d, i), edits \in Nat, edits' = edits,
           Stamps(d, i)' = Stamps(d, i) \union {{Clock(d, i) + 1}},
           ToFold(d, i), ~ToFold(d, i)', Unread(d, i)' => Unread(d, i)
    PROVE  ClockRow(d, i)' /\ Clock(d, i) + 1 \in 1..edits
<1>1. PICK S, c : S = Stamps(d, i) /\ c = Clock(d, i)
  OBVIOUS
<1>2. c \in Nat /\ IsFiniteSet(S) /\ S = {{x} : x \in 1..c} /\ c = Cardinality(S)
  BY <1>1, FS_CardinalityType DEF ClockRow, Clock
<1>3. {c + 1} \notin S
  <2>1. c \in Nat /\ S = {{x} : x \in 1..c}
    BY <1>2
  <2>2. \A x \in 1..c : {x} # {c + 1}
    BY <2>1
  <2> QED BY <2>1, <2>2
<1>4. IsFiniteSet(S \union {{c + 1}}) /\ Cardinality(S \union {{c + 1}}) = c + 1
  BY <1>2, <1>3, FS_AddElement
<1>5. S \union {{c + 1}} = {{x} : x \in 1..(c + 1)}
  <2>1. c \in Nat /\ S = {{x} : x \in 1..c}
    BY <1>2
  <2>2. \A x : x \in 1..(c + 1) <=> x \in 1..c \/ x = c + 1
    BY <2>1
  <2> QED BY <2>1, <2>2
<1>6. Clock(d, i)' = c + 1
  BY <1>1, <1>4 DEF Clock
<1>7. Owed(d, i) = 1 + (IF Unread(d, i) THEN 1 ELSE 0) /\ Owed(d, i)' = (IF Unread(d, i)' THEN 1 ELSE 0)
  BY DEF Owed
<1>8. c + Owed(d, i) <= edits
  BY <1>1 DEF ClockRow
<1>9. c + 1 + Owed(d, i)' <= edits'
  BY <1>2, <1>7, <1>8
<1>10. c + 1 <= edits
  BY <1>2, <1>7, <1>8
<1>11. ClockRow(d, i)'
  BY <1>1, <1>4, <1>5, <1>6, <1>9 DEF ClockRow
<1> QED
  BY <1>1, <1>2, <1>10, <1>11
\* A row that a step leaves alone.
RowSame(e, i) ==
    /\ file'[e][i] = file[e][i] /\ shadow'[e][i] = shadow[e][i] /\ saved'[e][i] = saved[e][i]
    /\ docs'[e][i] = docs[e][i] /\ pc'[e] = pc[e]
    /\ i \in DOMAIN todo'[e] <=> i \in DOMAIN todo[e]
    /\ i \in DOMAIN todo[e] => todo'[e][i] = todo[e][i]

LEMMA OthersStay ==
    ASSUME NoneIsNoRecord, Shape, FShape, NEW d \in Device, Sync(d) \/ Crash(d),
           NEW e \in Device \ {d}, NEW i \in Item
    PROVE  RowSame(e, i)
<1>1. OthersEntries(d)
  BY EntriesMove
<1>2. OthersSame(d) => RowSame(e, i)
  BY <1>1 DEF OthersSame, OthersEntries, RowSame
<1>3. CASE Scan(d)
  BY <1>2, <1>3, ScanEffect
<1>4. CASE \E k \in Item : FoldItem(d, k)
  BY <1>2, <1>4, FoldItemEffect
<1>5. CASE \E k \in Item : FoldDeleted(d, k)
  BY <1>2, <1>5, FoldDeletedEffect
<1>6. CASE SaveShadow(d)
  BY <1>2, <1>6, SaveShadowEffect
<1>7. CASE QueuePush(d)
  BY <1>2, <1>7, QueuePushEffect
<1>8. CASE Deliver(d)
  BY <1>8 DEF Deliver, memory, RowSame
<1>9. CASE Receive(d)
  BY <1>2, <1>9, ReceiveEffect
<1>10. CASE QueueDirty(d)
  BY <1>2, <1>10, QueueDirtyEffect
<1>11. CASE MoveCursor(d)
  BY <1>2, <1>11, MoveCursorEffect
<1>12. CASE ApplyCheck(d)
  BY <1>2, <1>12, ApplyCheckEffect
<1>13. CASE ApplyWrite(d)
  BY <1>2, <1>13, ApplyWriteEffect
<1>14. CASE ApplyStat(d)
  BY <1>2, <1>14, ApplyStatEffect
<1>15. CASE ApplyClear(d)
  BY <1>2, <1>15, ApplyClearEffect
<1>16. CASE Crash(d)
  BY <1>2, <1>16, CrashEffect
<1> QED
  BY <1>3, <1>4, <1>5, <1>6, <1>7, <1>8, <1>9, <1>10, <1>11, <1>12, <1>13, <1>14, <1>15, <1>16
     DEF Sync, Fold

\* The items that a fold is not about.
LEMMA OtherItems ==
    ASSUME Shape, FShape, NEW d \in Device, NEW k \in Item, FoldItem(d, k) \/ FoldDeleted(d, k),
           NEW i \in Item \ {k}
    PROVE  RowSame(d, i)
<1>1. UNCHANGED <<file, shadow, saved, pc>>
  BY DEF FoldItem, FoldDeleted
<1>2. /\ DOMAIN todo'[d] = DOMAIN todo[d] \ {k}
      /\ \A j \in DOMAIN todo'[d] : todo'[d][j] = todo[d][j]
      /\ docs'[d][i] = docs[d][i]
  <2>1. CASE FoldItem(d, k)
    BY <2>1, FoldItemEffect
  <2>2. CASE FoldDeleted(d, k)
    BY <2>2, FoldDeletedEffect
  <2> QED BY <2>1, <2>2
<1> QED
  BY <1>1, <1>2 DEF RowSame

\* A device hears nothing of itself that its document does not have.
LEMMA ReceiveStamps ==
    ASSUME MergeAssumption, NoneIsNoRecord, Shape, FShape, SaidInv, LogInv,
           NEW d \in Device, NEW i \in Item, Receive(d),
           \A o : OpRow(i, o)
    PROVE  Stamps(d, i)' = Stamps(d, i)
<1>1. PICK p : p = log[cursor[d] + 1]
  OBVIOUS
<1>2. /\ p \in Logged
      /\ docs'[d][i] = IF i \in DOMAIN p.docs THEN MergeDoc(docs[d][i], p.docs[i]) ELSE docs[d][i]
  BY <1>1, ReceiveMerges
<1>3. CASE i \notin DOMAIN p.docs
  BY <1>2, <1>3, DocStays
<1>4. CASE i \in DOMAIN p.docs
  <2>1. PICK u, doc, new : u = p.docs[i] /\ doc = docs[d][i] /\ new = docs'[d][i]
    OBVIOUS
  <2>2. new = MergeDoc(doc, u)
    BY <1>2, <1>4, <2>1
  <2>3. ASSUME NEW o \in u.ops, o.dev = d
        PROVE  doc # None /\ o \in doc.ops
    <3>1. Known(i, o)
      BY <1>2, <1>4, <2>1, SaidBySender DEF Known
    <3>2. d # None
      BY MergeAssumption
    <3> QED BY <2>1, <2>3, <3>1, <3>2 DEF OpRow
  <2>4. CASE doc = None
    <3>1. new = u
      BY <2>2, <2>4 DEF MergeDoc
    <3>2. \A o \in new.ops : o.dev # d
      BY <2>3, <2>4, <3>1
    <3>3. {o.at : o \in {q \in new.ops : q.dev = d}} = {}
      BY <3>2
    <3> QED BY <2>1, <2>4, <3>3 DEF Stamps
  <2>5. CASE doc # None
    <3>1. new = [ops |-> doc.ops \union u.ops, dels |-> doc.dels \union u.dels]
      BY <2>2, <2>5 DEF MergeDoc
    <3>2. new.ops = doc.ops \union u.ops
      BY <3>1
    <3>3. {q \in new.ops : q.dev = d} = {q \in doc.ops : q.dev = d}
      BY <2>3, <3>2
    <3>4. new # None
      BY <3>1 DEF NoneIsNoRecord
    <3> QED BY <2>1, <2>5, <3>3, <3>4 DEF Stamps
  <2> QED BY <2>4, <2>5
<1> QED
  BY <1>3, <1>4
\* What a user's write does to the rows: the file has to be read, which is paid for.
LEMMA UserLag ==
    ASSUME NoneIsNoRecord, Shape, FShape, NEW d \in Device, NEW k \in Item, NEW text, UserWrites(d, k, text),
           NEW e \in Device, NEW i \in Item, SeenRow(e, i), ClockRow(e, i), edits \in Nat
    PROVE  SeenRow(e, i)' /\ ClockRow(e, i)'
<1>1. PICK S, R : shadow \in [Device -> [Item -> S]] /\ saved \in [Device -> [Item -> R]]
  BY DEF FShape, Entries, Cells
<1>2. /\ shadow'[e][i] = IF e = d /\ i = k THEN Stale(shadow[e][i]) ELSE shadow[e][i]
      /\ saved'[e][i] = IF e = d /\ i = k THEN Stale(saved[e][i]) ELSE saved[e][i]
  BY <1>1 DEF UserWrites
<1>3. Seen(e, i)' = Seen(e, i) /\ Kept(e, i)' = Kept(e, i)
  BY UserEffect
<1>4. UNCHANGED <<docs, pc, todo>>
  BY UserEffect
<1>5. Loose(saved[e][i]) => Loose(saved'[e][i])
  <2>1. IsEntry(saved[e][i])
    BY DEF FShape, Entries
  <2> QED BY <1>2, <2>1, LooseFits
<1>6. Stamps(e, i)' = Stamps(e, i)
  BY <1>4, DocStays
<1>7. InDoc(e, i, Seen(e, i))' <=> InDoc(e, i, Seen(e, i))
  BY <1>3, <1>4 DEF InDoc
<1>8. SeenRow(e, i)'
  <2>1. Loose(saved[e][i])' <=> Loose(saved'[e][i])
    BY DEF Loose
  <2> QED BY <1>2, <1>3, <1>4, <1>5, <1>7, <2>1 DEF SeenRow
<1>9. ToFold(e, i)' <=> ToFold(e, i)
  BY <1>4 DEF ToFold, InDoc
<1>10. Clock(e, i)' = Clock(e, i) /\ Clock(e, i) \in Nat
  BY <1>6, FS_CardinalityType DEF ClockRow, Clock
<1>11. edits' = edits + 1
  BY DEF UserWrites
<1>12. Clock(e, i)' + Owed(e, i)' <= edits'
  <2>1. Clock(e, i) + Owed(e, i) <= edits
    BY DEF ClockRow
  <2>2. PICK n \in 0..1 : n = IF ToFold(e, i) THEN 1 ELSE 0
    OBVIOUS
  <2>3. n = IF ToFold(e, i)' THEN 1 ELSE 0
    BY <1>9, <2>2
  <2>4. PICK m \in 0..1 : m = IF Unread(e, i) THEN 1 ELSE 0
    OBVIOUS
  <2>5. PICK l \in 0..1 : l = IF Unread(e, i)' THEN 1 ELSE 0
    OBVIOUS
  <2>6. Owed(e, i) = n + m /\ Owed(e, i)' = n + l
    BY <2>2, <2>3, <2>4, <2>5 DEF Owed
  <2> QED BY <1>10, <1>11, <2>1, <2>6
<1>13. IsFiniteSet(Stamps(e, i)') /\ Stamps(e, i)' = {{c} : c \in 1..Clock(e, i)'}
  BY <1>6, <1>10 DEF ClockRow
<1> QED
  BY <1>8, <1>12, <1>13 DEF ClockRow

\* The number of edits only grows.
LEMMA EditsCount ==
    ASSUME NEW d \in Device, edits \in Nat
    PROVE  /\ User(d) => edits' = edits + 1
           /\ Sync(d) \/ Crash(d) => edits' = edits
<1>1. ASSUME User(d)
      PROVE  edits' = edits + 1
  BY <1>1 DEF User, Type, Erase, Delete, Undelete, UserWrites
<1>2. ASSUME Fold(d) \/ QueuePush(d) \/ Receive(d)
      PROVE  UNCHANGED users
  BY <1>2 DEF Fold, FoldItem, FoldDeleted, QueuePush, Receive
<1>3. ASSUME Scan(d) \/ SaveShadow(d) \/ QueueDirty(d) \/ MoveCursor(d) \/ Deliver(d)
                 \/ ApplyCheck(d) \/ ApplyWrite(d) \/ ApplyStat(d) \/ ApplyClear(d)
      PROVE  UNCHANGED users
  BY <1>3 DEF Scan, SaveShadow, QueueDirty, MoveCursor, Deliver, ApplyCheck, ApplyWrite, ApplyStat,
              ApplyClear
<1> QED
  BY <1>1, <1>2, <1>3 DEF Sync, Crash, users

\* The rows after a step of the sync thread.
LEMMA SyncLag ==
    ASSUME MergeAssumption, NoneIsNoRecord, MInv, FilesInv, SaidInv, StatInv, FreshInv, LagInv,
           NEW d \in Device, Sync(d) \/ Crash(d), NEW e \in Device, NEW i \in Item
    PROVE  SeenRow(e, i)' /\ ClockRow(e, i)'
<1>0. /\ Shape /\ FShape /\ LogInv /\ edits \in Nat /\ \A o : OpRow(i, o)
      /\ SeenRow(e, i) /\ ClockRow(e, i) /\ StatRow(e, i) /\ FoldsSeen(e, i)
  BY DEF MInv, FilesInv, RowInv, FreshInv, StatInv, LagInv
<1>1. edits' = edits
  BY <1>0, EditsCount
<1>2. ASSUME SeenRow(e, i)' /\ Less(e, i), Stamps(e, i)' = Stamps(e, i)
      PROVE  SeenRow(e, i)' /\ ClockRow(e, i)'
  BY <1>0, <1>1, <1>2, SameStamps
<1>3. ASSUME RowSame(e, i)
      PROVE  SeenRow(e, i)' /\ ClockRow(e, i)'
  <2>1. SeenRow(e, i)' /\ Less(e, i) /\ Stamps(e, i)' = Stamps(e, i)
    BY <1>0, <1>3, RowStays DEF RowSame
  <2> QED BY <1>2, <2>1
<1>4. CASE e # d
  BY <1>0, <1>3, <1>4, OthersStay
<1>5. CASE e = d
  <2>1. ASSUME SeenRow(e, i)' /\ Less(e, i), docs' = docs
        PROVE  SeenRow(e, i)' /\ ClockRow(e, i)'
    BY <1>2, <2>1, DocStays
  <2>2. CASE Scan(d)
    BY <1>0, <1>5, <2>1, <2>2, ScanLag DEF Scan, disk
  <2>3. CASE SaveShadow(d)
    BY <1>0, <1>5, <2>1, <2>3, SaveShadowLag DEF SaveShadow
  <2>4. CASE QueuePush(d) \/ QueueDirty(d) \/ MoveCursor(d) \/ ApplyClear(d)
    <3>1. docs' = docs
      BY <2>4 DEF QueuePush, QueueDirty, MoveCursor, ApplyClear
    <3> QED BY <1>0, <1>5, <2>1, <2>4, <3>1, MoveLag
  <2>5. CASE Receive(d)
    <3>1. SeenRow(e, i)' /\ Less(e, i)
      BY <1>0, <1>5, <2>5, MoveLag
    <3>2. Stamps(e, i)' = Stamps(e, i)
      BY <1>0, <1>5, <2>5, ReceiveStamps
    <3> QED BY <1>2, <3>1, <3>2
  <2>6. CASE ApplyCheck(d)
    BY <1>0, <1>5, <2>1, <2>6, ApplyCheckLag DEF ApplyCheck, disk
  <2>7. CASE ApplyWrite(d)
    BY <1>0, <1>5, <2>1, <2>7, ApplyWriteLag DEF ApplyWrite
  <2>8. CASE ApplyStat(d)
    BY <1>0, <1>5, <2>1, <2>8, ApplyStatLag DEF ApplyStat
  <2>9. CASE Crash(d)
    BY <1>0, <1>5, <2>1, <2>9, CrashLag DEF Crash, disk
  <2>10. CASE Deliver(d)
    BY <1>3, <1>5, <2>10 DEF Deliver, memory, RowSame
  <2>11. CASE \E k \in Item \ {i} : FoldItem(d, k) \/ FoldDeleted(d, k)
    BY <1>0, <1>3, <1>5, <2>11, OtherItems
  <2>12. CASE FoldDeleted(d, i)
    BY <1>0, <1>5, <2>1, <2>12, FoldDeletedLag DEF FoldDeleted
  <2>13. CASE FoldItem(d, i)
    <3>1. /\ SeenRow(d, i)' /\ ~ToFold(d, i)' /\ (Unread(d, i)' => Unread(d, i))
          /\ \/ Stamps(d, i)' = Stamps(d, i)
             \/ /\ Stamps(d, i)' = Stamps(d, i) \union {{Clock(d, i) + 1}}
                /\ docs[d][i] # None /\ ToFold(d, i)
      BY <1>0, <1>5, <2>13, FoldItemLag
    <3>2. Less(d, i)
      BY <3>1 DEF Less
    <3>3. CASE Stamps(d, i)' = Stamps(d, i)
      BY <1>2, <1>5, <3>1, <3>2, <3>3
    <3>4. CASE Stamps(d, i)' # Stamps(d, i)
      BY <1>0, <1>1, <1>5, <3>1, <3>4, ClockTicks
    <3> QED BY <3>3, <3>4
  <2> QED BY <2>2, <2>3, <2>4, <2>5, <2>6, <2>7, <2>8, <2>9, <2>10, <2>11, <2>12, <2>13 DEF Sync, Fold
<1> QED
  BY <1>4, <1>5
\* The form of an operation that a fold makes.
LEMMA NewOpForm ==
    ASSUME MergeAssumption, NoneIsNoRecord, MInv, FilesInv, FreshInv, LagInv,
           NEW d \in Device, NEW i \in Item, FoldItem(d, i), NEW o, docs'[d][i] # None, o \in docs'[d][i].ops
    PROVE  \/ docs[d][i] # None /\ o \in docs[d][i].ops
           \/ o \in Ops(edits) /\ o.dev \in {None, d}
<1>0. /\ Shape /\ FShape /\ edits \in Nat /\ \A q : OpRow(i, q)
      /\ SeenRow(d, i) /\ ClockRow(d, i) /\ FoldsSeen(d, i) /\ FreshText(Seen(d, i))
  BY DEF MInv, FilesInv, RowInv, FreshInv, FreshRow, LagInv
<1>1. PICK doc, T, c, new : doc = docs[d][i] /\ T = todo[d][i] /\ c = Clock(d, i) /\ new = docs'[d][i]
  OBVIOUS
<1>2. T \in SUBSET (1..edits)
  BY <1>0, <1>1 DEF FoldItem, FoldsSeen, FreshText
<1>3. /\ doc = None => new.ops = BootOps(T)
      /\ doc # None =>
           new.ops = doc.ops \union {[atom |-> a, dev |-> d, at |-> {c + 1}] : a \in T \ TextOf(doc)}
  BY <1>0, <1>1, FoldMakes
<1>4. CASE doc = None
  <2>1. PICK a \in T : o = [atom |-> a, dev |-> None, at |-> T]
    BY <1>1, <1>3, <1>4 DEF BootOps
  <2>2. a \in 1..edits
    BY <1>2
  <2> QED BY <1>2, <2>1, <2>2 DEF Ops
<1>5. CASE doc # None /\ o \notin doc.ops
  <2>1. PICK a \in T \ TextOf(doc) : o = [atom |-> a, dev |-> d, at |-> {c + 1}]
    BY <1>1, <1>3, <1>5
  <2>2. ~InDoc(d, i, T)
    BY <1>1, <1>5, <2>1 DEF InDoc
  <2>3. ToFold(d, i)
    BY <1>1, <2>2 DEF ToFold, FoldItem
  <2>4. c \in Nat /\ c + 1 <= edits
    <3>1. c \in Nat
      BY <1>0, <1>1, FS_CardinalityType DEF ClockRow, Clock
    <3>2. c + Owed(d, i) <= edits
      BY <1>0, <1>1 DEF ClockRow
    <3>3. Owed(d, i) \in 1..2
      BY <2>3 DEF Owed
    <3> QED BY <1>0, <3>1, <3>2, <3>3
  <2>5. {c + 1} \in SUBSET (1..edits) /\ a \in 1..edits
    BY <1>0, <1>2, <2>4
  <2> QED BY <2>1, <2>5 DEF Ops
<1> QED
  BY <1>1, <1>4, <1>5

\* An operation is known as it was, or its author has just made it.
LEMMA StepOps ==
    ASSUME MergeAssumption, NoneIsNoRecord, MInv, FilesInv, SaidInv, StatInv, FreshInv, LagInv, Grows,
           NEW d \in Device, User(d) \/ Sync(d) \/ Crash(d), NEW i \in Item, NEW o
    PROVE  OpRow(i, o)'
<1>0. Shape /\ FShape /\ LogInv /\ edits \in Nat /\ OpRow(i, o)
  BY DEF MInv, FilesInv, FreshInv, LagInv
<1>1. /\ Made(i, o)' => Made(i, o) \/ FoldItem(d, i)
      /\ Struck(i, o)' => Struck(i, o) \/ Made(i, o)
      /\ Buried(i, o)' => Buried(i, o) \/ Made(i, o)
  <2>1. /\ Made(i, o)' => \/ Made(i, o)
                          \/ FoldItem(d, i) /\ o.atom \in todo[d][i]
        /\ Struck(i, o)' => \/ Struck(i, o)
                            \/ /\ FoldItem(d, i) /\ docs[d][i] # None
                               /\ o \in docs[d][i].ops /\ o.atom \notin todo[d][i]
        /\ Buried(i, o)' => \/ Buried(i, o)
                            \/ FoldDeleted(d, i) /\ docs[d][i] # None /\ o \in docs[d][i].ops
    BY <1>0, StepMakes
  <2>2. docs[d][i] # None /\ o \in docs[d][i].ops => Made(i, o)
    BY DEF Made
  <2> QED BY <2>1, <2>2
<1>2. edits' \in Nat /\ edits <= edits'
  BY <1>0, EditsCount
<1>3. Ops(edits) \subseteq Ops(edits')
  <2>1. 1..edits \subseteq 1..edits'
    BY <1>0, <1>2
  <2>2. SUBSET (1..edits) \subseteq SUBSET (1..edits')
    BY <2>1
  <2> QED BY <2>1, <2>2 DEF Ops
<1>4. ASSUME Known(i, o), Known(i, o)'
      PROVE  OpRow(i, o)'
  <2>1. o \in Ops(edits) /\ (o.dev # None => docs[o.dev][i] # None /\ o \in docs[o.dev][i].ops)
    BY <1>0, <1>4 DEF OpRow
  <2>2. o.dev \in Device \union {None}
    BY <2>1 DEF Ops
  <2>3. o.dev # None => docs'[o.dev][i] # None /\ o \in docs'[o.dev][i].ops
    BY <2>1, <2>2 DEF Grows, DocGrows
  <2> QED BY <1>3, <2>1, <2>3 DEF OpRow
<1>5. ASSUME ~Known(i, o), Known(i, o)'
      PROVE  OpRow(i, o)'
  <2>1. ~Made(i, o) /\ Made(i, o)' /\ FoldItem(d, i)
    BY <1>1, <1>5 DEF Known
  <2>2. docs'[d][i] # None /\ o \in docs'[d][i].ops
    <3>1. \A e \in Device \ {d} : docs'[e][i] = docs[e][i]
      BY <1>0, <2>1, FoldItemEffect DEF OthersSame
    <3> QED BY <2>1, <3>1 DEF Made
  <2>3. ~(docs[d][i] # None /\ o \in docs[d][i].ops)
    BY <2>1 DEF Made
  <2>4. o \in Ops(edits) /\ o.dev \in {None, d}
    BY <2>1, <2>2, <2>3, NewOpForm
  <2> QED BY <1>3, <2>2, <2>4 DEF OpRow
<1> QED
  BY <1>4, <1>5 DEF OpRow

LEMMA StepLag ==
    ASSUME MergeAssumption, NoneIsNoRecord, MInv, FilesInv, SaidInv, StatInv, FreshInv, LagInv, [Next]_vars
    PROVE  LagInv'
<1>0. Shape /\ FShape /\ edits \in Nat
  BY DEF MInv, FilesInv, FreshInv
<1>1. Grows
  BY StepMInv
<1>2. CASE UNCHANGED vars
  <2>1. UNCHANGED <<file, shadow, saved, docs, tombs, outbox, updates, log, pc, todo, edits>>
    BY <1>2 DEF vars, disk, memory, users
  <2>2. \A d \in Device, i \in Item : SeenRow(d, i)' /\ ClockRow(d, i)'
    <3> SUFFICES ASSUME NEW d \in Device, NEW i \in Item PROVE SeenRow(d, i)' /\ ClockRow(d, i)'
      OBVIOUS
    <3>1. SeenRow(d, i) /\ ClockRow(d, i)
      BY DEF LagInv
    <3>2. SeenRow(d, i)' /\ Less(d, i) /\ Stamps(d, i)' = Stamps(d, i)
      BY <2>1, <3>1, RowStays
    <3> QED BY <1>0, <2>1, <3>1, <3>2, SameStamps
  <2>3. \A i \in Item : \A o : OpRow(i, o)'
    <3>1. \A i \in Item : TombsOf(i)' = TombsOf(i)
      BY <2>1 DEF TombsOf, Carried
    <3> QED BY <2>1, <3>1 DEF LagInv, OpRow, Known, Made, Struck, Buried
  <2> QED BY <2>2, <2>3 DEF LagInv
<1>3. ASSUME NEW d \in Device, User(d) \/ Sync(d) \/ Crash(d)
      PROVE  LagInv'
  <2>1. \A i \in Item : \A o : OpRow(i, o)'
    BY <1>1, <1>3, StepOps
  <2>2. ASSUME NEW e \in Device, NEW i \in Item
        PROVE  SeenRow(e, i)' /\ ClockRow(e, i)'
    <3>1. CASE User(d)
      <4>1. PICK k \in Item : Type(d, k) \/ Erase(d, k) \/ Delete(d, k) \/ Undelete(d, k)
        BY <3>1 DEF User
      <4>2. PICK text : UserWrites(d, k, text)
        BY <4>1 DEF Type, Erase, Delete, Undelete
      <4> QED BY <1>0, <4>2, UserLag DEF LagInv
    <3>2. CASE Sync(d) \/ Crash(d)
      BY <3>2, SyncLag
    <3> QED BY <1>3, <3>1, <3>2
  <2> QED BY <2>1, <2>2 DEF LagInv
<1> QED
  BY <1>2, <1>3 DEF Next

\* A device's clock counts no more than the edits; an operation is in its author's document.
THEOREM LagInvariance ==
    ASSUME NoneIsNoRecord
    PROVE  Spec => []LagInv
<1>1. Init => LagInv
  <2> SUFFICES ASSUME Init
               PROVE  LagInv
    OBVIOUS
  <2>1. /\ edits = 0 /\ shadow = saved /\ log = <<>>
        /\ \A d \in Device : /\ pc[d] = "start" /\ todo[d] = Empty /\ outbox[d] = <<>> /\ updates[d] = NoUpdates
                             /\ \A i \in Item : docs[d][i] = None /\ file[d][i] = None /\ tombs[d][i] = None
    BY DEF Init
  <2>2. ASSUME NEW d \in Device, NEW i \in Item
        PROVE  SeenRow(d, i) /\ ClockRow(d, i)
    <3>1. SeenRow(d, i)
      BY <2>1 DEF SeenRow
    <3>2. Stamps(d, i) = {} /\ Owed(d, i) = 0
      BY <2>1 DEF Stamps, Owed, ToFold, Unread
    <3>3. IsFiniteSet({}) /\ Cardinality({}) = 0
      BY FS_EmptySet
    <3>4. {{c} : c \in 1..0} = {}
      OBVIOUS
    <3>5. Clock(d, i) = 0
      BY <3>2, <3>3 DEF Clock
    <3> QED BY <2>1, <3>1, <3>2, <3>3, <3>4, <3>5 DEF ClockRow
  <2>3. ASSUME NEW i \in Item
        PROVE  TombsOf(i) = {}
    <3>1. DOMAIN NoUpdates.tombs = {}
      BY NothingCarried
    <3>2. \A p \in Carried : DOMAIN p.tombs = {}
      BY <2>1, <3>1, CarriedParts DEF Logged, Out, Elements
    <3> QED BY <2>1, <3>2 DEF TombsOf
  <2>4. ASSUME NEW i \in Item, NEW o
        PROVE  OpRow(i, o)
    BY <2>1, <2>3 DEF OpRow, Known, Made, Struck, Buried
  <2> QED BY <2>2, <2>4 DEF LagInv
<1>2. MInv /\ FilesInv /\ SaidInv /\ StatInv /\ FreshInv /\ LagInv /\ [Next]_vars => LagInv'
  BY StepLag, MergeAssumption
<1> QED
  BY <1>1, <1>2, MergeInvariance, FilesInvariance, SaidInvariance, StatInvariance, FreshInvariance,
     PTL DEF Spec
-----------------------------------------------------------------------------
(* A deletion never comes before what it deletes                            *)

SaysOp(p, i, o) == i \in DOMAIN p.docs /\ o \in p.docs[i].ops
SaysDel(p, i, o) == i \in DOMAIN p.docs /\ o \in p.docs[i].dels

\* What a payload deletes, it makes itself or an earlier one of the log or the outbox does.
LogOrder ==
    \A k \in DOMAIN log : \A i, o :
        SaysDel(log[k], i, o) => \E j \in 1..k : SaysOp(log[j], i, o)
OutOrder(d) ==
    \A k \in DOMAIN outbox[d] : \A i, o :
        SaysDel(outbox[d][k], i, o) =>
            \/ \E p \in Logged : SaysOp(p, i, o)
            \/ \E j \in 1..k : SaysOp(outbox[d][j], i, o)
DelsIn(d, i) == docs[d][i] # None => docs[d][i].dels \subseteq docs[d][i].ops

\* As long as no crash has orphaned an operation.
OrderInv ==
    "orphaned" \notin slips =>
        /\ LogOrder
        /\ \A d \in Device : OutOrder(d)
        /\ \A d \in Device, i \in Item : DelsIn(d, i)

\* A fold deletes what the document holds.
LEMMA FoldDelsIn ==
    ASSUME Shape, FShape, NEW d \in Device, NEW i \in Item, FoldItem(d, i), DelsIn(d, i)
    PROVE  DelsIn(d, i)'
<1>1. PICK doc, T, c, new : doc = docs[d][i] /\ T = todo[d][i] /\ c = Clock(d, i) /\ new = docs'[d][i]
  OBVIOUS
<1>2. /\ doc = None => new.dels = {}
      /\ doc # None =>
           /\ new.ops = doc.ops \union {[atom |-> a, dev |-> d, at |-> {c + 1}] : a \in T \ TextOf(doc)}
           /\ new.dels = doc.dels \union {o \in doc.ops : o.atom \notin T}
  BY <1>1, FoldMakes
<1>3. doc # None => doc.dels \subseteq doc.ops
  BY <1>1 DEF DelsIn
<1>4. new.dels \subseteq new.ops
  BY <1>2, <1>3
<1> QED
  BY <1>1, <1>4 DEF DelsIn

\* What the log's payload deletes is in it, or came before and has been received.
LEMMA ReceiveDelsIn ==
    ASSUME NoneIsNoRecord, MInv, FShape, SaidInv, LogInv, NEW d \in Device, NEW i \in Item, Receive(d),
           DelsIn(d, i), LogOrder
    PROVE  DelsIn(d, i)'
<1>0. Shape /\ ReceivedKept
  BY DEF MInv
<1>1. PICK n : n = cursor[d] + 1
  OBVIOUS
<1>2. PICK p : p = log[n]
  OBVIOUS
<1>3. docs'[d][i] = IF i \in DOMAIN p.docs THEN MergeDoc(docs[d][i], p.docs[i]) ELSE docs[d][i]
  BY <1>0, <1>1, <1>2, ReceiveMerges
<1>4. n \in 1..Len(log) /\ DOMAIN log = 1..Len(log) /\ Len(log) \in Nat /\ cursor[d] \in Nat /\ cursor[d] < Len(log)
  BY <1>0, <1>1, SeqFacts DEF Shape, Receive
<1>5. CASE i \notin DOMAIN p.docs
  BY <1>3, <1>5 DEF DelsIn
<1>6. CASE i \in DOMAIN p.docs
  <2>1. PICK u, doc, new : u = p.docs[i] /\ doc = docs[d][i] /\ new = docs'[d][i]
    OBVIOUS
  <2>2. new = MergeDoc(doc, u)
    BY <1>3, <1>6, <2>1
  <2>3. ASSUME NEW o \in u.dels
        PROVE  o \in u.ops \/ (doc # None /\ o \in doc.ops)
    <3>1. SaysDel(log[n], i, o)
      BY <1>2, <1>6, <2>1 DEF SaysDel
    <3>2. PICK j \in 1..n : SaysOp(log[j], i, o)
      BY <1>4, <3>1 DEF LogOrder
    <3>3. CASE j = n
      BY <1>2, <2>1, <3>2, <3>3 DEF SaysOp
    <3>4. CASE j # n
      <4>1. j \in 1..cursor[d] /\ j \in DOMAIN log
        BY <1>1, <1>4, <3>2, <3>4
      <4>2. PICK q : q = log[j]
        OBVIOUS
      <4>3. HasDoc(docs[d][i], q.docs[i])
        <5>1. CASE q.dev # d
          BY <1>0, <3>2, <4>1, <4>2, <5>1 DEF ReceivedKept, Holds, SaysOp
        <5>2. CASE q.dev = d
          <6>1. q \in Own(d)
            BY <4>1, <4>2, <5>2 DEF Own, Logged, Elements
          <6> QED BY <3>2, <4>2, <6>1 DEF SaidInv, OwnInv, HeldBy, SaysOp
        <5> QED BY <5>1, <5>2
      <4> QED BY <2>1, <3>2, <4>2, <4>3 DEF HasDoc, SaysOp
    <3> QED BY <3>3, <3>4
  <2>4. CASE doc = None
    BY <2>1, <2>2, <2>3, <2>4 DEF MergeDoc, DelsIn
  <2>5. CASE doc # None
    <3>1. new = [ops |-> doc.ops \union u.ops, dels |-> doc.dels \union u.dels]
      BY <2>2, <2>5 DEF MergeDoc
    <3>2. new.ops = doc.ops \union u.ops /\ new.dels = doc.dels \union u.dels
      BY <3>1
    <3>3. doc.dels \subseteq doc.ops
      BY <2>1, <2>5 DEF DelsIn
    <3>4. new.dels \subseteq new.ops
      BY <2>3, <3>2, <3>3
    <3> QED BY <2>1, <3>4 DEF DelsIn
  <2> QED BY <2>4, <2>5
<1> QED
  BY <1>5, <1>6

\* What a device is about to send deletes what it has sent, or sends with it.
LEMMA QueuePushOrder ==
    ASSUME Shape, SaidInv, "orphaned" \notin slips, NEW d \in Device, QueuePush(d), OutOrder(d),
           CarriedInv, \A i \in Item : DelsIn(d, i)
    PROVE  OutOrder(d)'
<1>1. PICK p : p = Payload(d, updates[d].docs, updates[d].tombs)
  OBVIOUS
<1>2. PICK q : q = outbox[d]
  OBVIOUS
<1>3. IsSeq(q) /\ log' = log
  BY <1>2 DEF Shape, QueuePush
<1>4. outbox'[d] = Append(q, p)
  <2>1. PutRow(outbox, outbox', d, Append(q, p))
    BY <1>1, <1>2 DEF QueuePush, PutRow
  <2>2. \A e \in Device : outbox'[e] = IF e = d THEN Append(q, p) ELSE outbox[e]
    BY <2>1, CellPut DEF Shape
  <2> QED BY <2>2
<1>5. /\ DOMAIN q = 1..Len(q) /\ Len(q) \in Nat /\ DOMAIN Append(q, p) = 1..(Len(q) + 1)
      /\ \A k \in 1..Len(q) : Append(q, p)[k] = q[k]
      /\ Append(q, p)[Len(q) + 1] = p
  <2>1. PICK S : q \in Seq(S)
    BY <1>3 DEF IsSeq
  <2>2. q \in Seq(S \union {p})
    BY <2>1
  <2> QED BY <2>1, <2>2
<1>6. p.docs = updates[d].docs
  BY <1>1 DEF Payload
<1>7. ASSUME NEW k \in 1..(Len(q) + 1), NEW i, NEW o, SaysDel(Append(q, p)[k], i, o)
      PROVE  \/ \E x \in Logged : SaysOp(x, i, o)
             \/ \E j \in 1..k : SaysOp(Append(q, p)[j], i, o)
  <2>1. CASE k \in 1..Len(q)
    <3>1. SaysDel(q[k], i, o)
      BY <1>5, <1>7, <2>1
    <3>2. \/ \E x \in Logged : SaysOp(x, i, o)
          \/ \E j \in 1..k : SaysOp(q[j], i, o)
      BY <1>2, <1>5, <2>1, <3>1 DEF OutOrder
    <3>3. \A j \in 1..k : Append(q, p)[j] = q[j]
      BY <1>5, <2>1
    <3> QED BY <3>2, <3>3
  <2>2. CASE k = Len(q) + 1
    <3>1. i \in DOMAIN updates[d].docs /\ o \in updates[d].docs[i].dels
      BY <1>5, <1>6, <1>7, <2>2 DEF SaysDel
    <3>2. i \in Item
      BY <3>1, NearCarried DEF CarriedInv, WellFormed, Near
    <3>3. HasDoc(docs[d][i], updates[d].docs[i])
      BY <3>1 DEF SaidInv, OwnInv, Own, HeldBy
    <3>4. docs[d][i] # None /\ o \in docs[d][i].ops
      BY <3>1, <3>2, <3>3 DEF HasDoc, DelsIn
    <3>5. SaidOp(d, i, o)
      BY <3>2, <3>4 DEF SaidInv, SaidAll
    <3>6. PICK x \in Near(d) : SaysOp(x, i, o)
      BY <3>5 DEF SaidOp, SaysOp
    <3>7. CASE x \in Out(d)
      <4>1. PICK j \in 1..Len(q) : x = q[j]
        BY <1>2, <1>5, <3>7 DEF Out, Elements
      <4>2. Append(q, p)[j] = x /\ j \in 1..k
        BY <1>5, <2>2, <4>1
      <4> QED BY <3>6, <4>2
    <3>8. CASE x = updates[d]
      <4>1. SaysOp(p, i, o)
        BY <1>6, <3>6, <3>8 DEF SaysOp
      <4> QED BY <1>5, <2>2, <4>1
    <3> QED BY <3>6, <3>7, <3>8 DEF Near
  <2> QED BY <1>5, <2>1, <2>2
<1>8. Logged' = Logged
  BY <1>3 DEF Logged, Elements
<1> QED
  BY <1>4, <1>5, <1>7, <1>8 DEF OutOrder
\* The oldest payload moves from the outbox to the end of the log.
LEMMA DeliverOrder ==
    ASSUME Shape, NEW d \in Device, Deliver(d), LogOrder, \A e \in Device : OutOrder(e)
    PROVE  LogOrder' /\ \A e \in Device : OutOrder(e)'
<1>1. PICK q, s : q = outbox[d] /\ s = log
  OBVIOUS
<1>2. IsSeq(q) /\ IsSeq(s) /\ q # <<>>
  BY <1>1 DEF Shape, Deliver
<1>3. PICK p, tail : p = Head(q) /\ tail = Tail(q)
  OBVIOUS
<1>4. log' = Append(s, p) /\ \A e \in Device : outbox'[e] = IF e = d THEN tail ELSE outbox[e]
  <2>1. log' = Append(s, p) /\ PutRow(outbox, outbox', d, tail)
    BY <1>1, <1>3 DEF Deliver, PutRow
  <2> QED BY <2>1, CellPut DEF Shape
<1>5. /\ DOMAIN q = 1..Len(q) /\ Len(q) \in Nat \ {0} /\ p = q[1]
      /\ DOMAIN tail = 1..(Len(q) - 1)
      /\ \A k \in 1..(Len(q) - 1) : tail[k] = q[k + 1]
  <2>1. PICK S : q \in Seq(S)
    BY <1>2 DEF IsSeq
  <2>2. Len(q) \in Nat \ {0}
    BY <1>2, <2>1
  <2> QED BY <1>2, <1>3, <2>1, <2>2
<1>6. /\ DOMAIN s = 1..Len(s) /\ Len(s) \in Nat /\ DOMAIN Append(s, p) = 1..(Len(s) + 1)
      /\ \A k \in 1..Len(s) : Append(s, p)[k] = s[k]
      /\ Append(s, p)[Len(s) + 1] = p
  <2>1. PICK S : s \in Seq(S)
    BY <1>2 DEF IsSeq
  <2>2. s \in Seq(S \union {p})
    BY <2>1
  <2> QED BY <2>1, <2>2
<1>7. Logged' = Logged \union {p} /\ Logged = {s[k] : k \in 1..Len(s)}
  <2>1. Elements(Append(s, p)) = Elements(s) \union {p}
    BY <1>2, ImageFacts
  <2> QED BY <1>1, <1>4, <1>6, <2>1 DEF Logged, Elements
<1>8. ASSUME NEW k \in 1..(Len(s) + 1), NEW i, NEW o, SaysDel(Append(s, p)[k], i, o)
      PROVE  \E j \in 1..k : SaysOp(Append(s, p)[j], i, o)
  <2>1. CASE k \in 1..Len(s)
    <3>1. SaysDel(s[k], i, o)
      BY <1>6, <1>8, <2>1
    <3>2. PICK j \in 1..k : SaysOp(s[j], i, o)
      BY <1>1, <1>6, <2>1, <3>1 DEF LogOrder
    <3>3. Append(s, p)[j] = s[j]
      BY <1>6, <2>1, <3>2
    <3> QED BY <3>2, <3>3
  <2>2. CASE k = Len(s) + 1
    <3>1. SaysDel(q[1], i, o) /\ 1 \in DOMAIN q
      BY <1>5, <1>6, <1>8, <2>2
    <3>2. \/ \E x \in Logged : SaysOp(x, i, o)
          \/ \E j \in 1..1 : SaysOp(q[j], i, o)
      BY <1>1, <3>1 DEF OutOrder
    <3>3. CASE SaysOp(q[1], i, o)
      BY <1>5, <1>6, <2>2, <3>3
    <3>4. CASE \E x \in Logged : SaysOp(x, i, o)
      <4>1. PICK j \in 1..Len(s) : SaysOp(s[j], i, o)
        BY <1>7, <3>4
      <4>2. Append(s, p)[j] = s[j] /\ j \in 1..k
        BY <1>6, <2>2, <4>1
      <4> QED BY <4>1, <4>2
    <3>5. 1..1 = {1}
      OBVIOUS
    <3> QED BY <3>2, <3>3, <3>4, <3>5
  <2> QED BY <1>6, <2>1, <2>2
<1>9. LogOrder'
  BY <1>4, <1>6, <1>8 DEF LogOrder
<1>10. ASSUME NEW k \in 1..(Len(q) - 1), NEW i, NEW o, SaysDel(tail[k], i, o)
       PROVE  \/ \E x \in Logged' : SaysOp(x, i, o)
              \/ \E j \in 1..k : SaysOp(tail[j], i, o)
  <2>1. SaysDel(q[k + 1], i, o) /\ k + 1 \in DOMAIN q
    BY <1>5, <1>10
  <2>2. \/ \E x \in Logged : SaysOp(x, i, o)
        \/ \E j \in 1..(k + 1) : SaysOp(q[j], i, o)
    BY <1>1, <2>1 DEF OutOrder
  <2>3. CASE \E j \in 1..(k + 1) : SaysOp(q[j], i, o)
    <3>1. PICK j \in 1..(k + 1) : SaysOp(q[j], i, o)
      BY <2>3
    <3>2. CASE j = 1
      BY <1>5, <1>7, <3>1, <3>2
    <3>3. CASE j # 1
      <4>1. j - 1 \in 1..k /\ tail[j - 1] = q[j]
        BY <1>5, <1>10, <3>1, <3>3
      <4> QED BY <3>1, <4>1
    <3> QED BY <3>2, <3>3
  <2> QED BY <1>7, <2>2, <2>3
<1>11. OutOrder(d)'
  BY <1>4, <1>5, <1>10 DEF OutOrder
<1>12. ASSUME NEW e \in Device \ {d}
       PROVE  OutOrder(e)'
  <2>1. outbox'[e] = outbox[e] /\ OutOrder(e)
    BY <1>4
  <2> QED BY <1>7, <2>1 DEF OutOrder
<1> QED
  BY <1>9, <1>11, <1>12

LEMMA StepOrder ==
    ASSUME MergeAssumption, NoneIsNoRecord, MInv, FShape, SaidInv, LogInv, slips \subseteq slips',
           OrderInv, [Next]_vars
    PROVE  OrderInv'
<1>0. Shape /\ CarriedInv
  BY DEF MInv
<1> SUFFICES ASSUME "orphaned" \notin slips'
             PROVE  /\ LogOrder'
                    /\ \A d \in Device : OutOrder(d)'
                    /\ \A d \in Device, i \in Item : DelsIn(d, i)'
  BY DEF OrderInv
<1>1. /\ "orphaned" \notin slips
      /\ LogOrder /\ \A d \in Device : OutOrder(d)
      /\ \A d \in Device, i \in Item : DelsIn(d, i)
  BY DEF OrderInv
<1>2. log' = log => LogOrder'
  BY <1>1 DEF LogOrder
<1>3. ASSUME NEW d \in Device, log' = log, outbox'[d] = outbox[d]
      PROVE  OutOrder(d)'
  <2>1. Logged' = Logged
    BY <1>3 DEF Logged, Elements
  <2> QED BY <1>1, <1>3, <2>1 DEF OutOrder
<1>4. ASSUME NEW d \in Device, NEW i \in Item, docs'[d][i] = docs[d][i]
      PROVE  DelsIn(d, i)'
  BY <1>1, <1>4 DEF DelsIn
<1>5. CASE UNCHANGED vars
  BY <1>2, <1>3, <1>4, <1>5 DEF vars, disk
<1>6. ASSUME NEW d \in Device, Plain(d)
      PROVE  docs' = docs /\ log' = log /\ outbox' = outbox
  BY <1>0, <1>6, PlainSends
<1>7. ASSUME NEW d \in Device, NEW k \in Item, FoldDeleted(d, k)
      PROVE  docs' = docs /\ log' = log /\ outbox' = outbox
  BY <1>7 DEF FoldDeleted
<1>8. ASSUME NEW d \in Device, NEW k \in Item, FoldItem(d, k)
      PROVE  /\ log' = log /\ outbox' = outbox
             /\ \A e \in Device, i \in Item : DelsIn(e, i)'
  <2>1. log' = log /\ outbox' = outbox
    BY <1>8 DEF FoldItem
  <2>2. DelsIn(d, k)'
    BY <1>0, <1>1, <1>8, FoldDelsIn
  <2>3. /\ \A e \in Device \ {d}, i \in Item : docs'[e][i] = docs[e][i]
        /\ \A i \in Item \ {k} : docs'[d][i] = docs[d][i]
    BY <1>0, <1>8, FoldItemEffect DEF OthersSame
  <2> QED BY <1>4, <2>1, <2>2, <2>3
<1>9. ASSUME NEW d \in Device, QueuePush(d)
      PROVE  /\ log' = log /\ docs' = docs /\ \A e \in Device : OutOrder(e)'
  <2>1. log' = log /\ docs' = docs
    BY <1>9 DEF QueuePush
  <2>2. OutOrder(d)'
    BY <1>0, <1>1, <1>9, QueuePushOrder
  <2>3. \A e \in Device \ {d} : outbox'[e] = outbox[e]
    BY <1>0, <1>9 DEF QueuePush, Shape, Cell
  <2> QED BY <1>3, <2>1, <2>2, <2>3
<1>10. ASSUME NEW d \in Device, Receive(d)
       PROVE  /\ log' = log /\ outbox' = outbox
              /\ \A e \in Device, i \in Item : DelsIn(e, i)'
  <2>1. log' = log /\ outbox' = outbox
    BY <1>10 DEF Receive
  <2>2. \A i \in Item : DelsIn(d, i)'
    BY <1>1, <1>10, ReceiveDelsIn
  <2>3. \A e \in Device \ {d}, i \in Item : docs'[e][i] = docs[e][i]
    BY <1>0, <1>10, ReceiveEffect DEF OthersSame
  <2> QED BY <1>4, <2>1, <2>2, <2>3
<1>11. ASSUME NEW d \in Device, Deliver(d)
       PROVE  docs' = docs /\ LogOrder' /\ \A e \in Device : OutOrder(e)'
  <2>1. docs' = docs
    BY <1>11 DEF Deliver
  <2> QED BY <1>0, <1>1, <1>11, <2>1, DeliverOrder
<1>12. ASSUME NEW d \in Device, User(d) \/ Sync(d) \/ Crash(d)
       PROVE  \/ Plain(d) \/ QueuePush(d) \/ Deliver(d) \/ Receive(d)
              \/ \E k \in Item : FoldItem(d, k) \/ FoldDeleted(d, k)
  BY <1>12 DEF Sync, Fold, Plain, Quiet
<1> QED
  BY <1>2, <1>3, <1>4, <1>5, <1>6, <1>7, <1>8, <1>9, <1>10, <1>11, <1>12 DEF Next

\* A document deletes only what it holds, and so does every payload with those before it.
THEOREM OrderInvariance ==
    ASSUME NoneIsNoRecord
    PROVE  Spec => []OrderInv
<1>1. Init => OrderInv
  BY DEF Init, OrderInv, LogOrder, OutOrder, DelsIn
<1>2. MInv /\ FilesInv /\ SaidInv /\ FreshInv /\ OrderInv /\ [Next]_vars => OrderInv'
  BY StepOrder, SlipsGrow, MergeAssumption DEF FilesInv, FreshInv
<1> QED
  BY <1>1, <1>2, MergeInvariance, FilesInvariance, SaidInvariance, FreshInvariance, PTL DEF Spec
-----------------------------------------------------------------------------
(* Type correctness                                                         *)

\* A fitting stat is a yes or a no.
YesNo(e) == e # None => e.same \in BOOLEAN
Keys(d) == queue[d] \subseteq Item \union {Manifest} /\ DOMAIN todo[d] \subseteq Item
Slips == {"raced", "buried", "orphaned", "overwritten", "restored", "unseen"}
Counts ==
    /\ edits \in 0..MaxEdits /\ crashes \in 0..MaxCrashes
    /\ wanted \subseteq Device \X Item \X (1..MaxEdits)
    /\ slips \subseteq Slips
PlainInv ==
    /\ \A d \in Device : Keys(d)
    /\ \A d \in Device, i \in Item : YesNo(shadow[d][i]) /\ YesNo(saved[d][i])
    /\ Counts

LEMMA EntrySwitch ==
    ASSUME NEW e, IsEntry(e), YesNo(e)
    PROVE  /\ YesNo(Stale(e)) /\ YesNo(None) /\ \A t : YesNo(Entry(t, TRUE)) /\ YesNo(Entry(t, FALSE))
           /\ e # None => YesNo([e EXCEPT !.same = TRUE])
<1>1. YesNo(None) /\ \A t : YesNo(Entry(t, TRUE)) /\ YesNo(Entry(t, FALSE))
  BY DEF YesNo, Entry
<1>2. CASE e = None
  BY <1>1, <1>2 DEF Stale
<1>3. CASE e # None
  <2>1. e = [text |-> e.text, same |-> e.same]
    BY <1>3 DEF IsEntry
  <2>2. PICK x : x = [e EXCEPT !.same = TRUE]
    OBVIOUS
  <2>3. PICK y : y = [e EXCEPT !.same = FALSE]
    OBVIOUS
  <2>4. x.same = TRUE /\ y.same = FALSE
    BY <2>1, <2>2, <2>3
  <2> QED BY <1>1, <1>3, <2>2, <2>3, <2>4 DEF YesNo, Stale
<1> QED
  BY <1>2, <1>3

\* The counts after a step.
LEMMA StepCounts ==
    ASSUME MergeAssumption, Counts, NEW d \in Device, User(d) \/ Sync(d) \/ Crash(d)
    PROVE  Counts'
<1>1. slips' \subseteq Slips
  <2>1. CASE User(d)
    BY <2>1 DEF Counts, Slips, User, Type, Erase, Delete, Undelete, UserWrites, Note, TooLate, Restored
  <2>2. CASE Fold(d) \/ Scan(d) \/ SaveShadow(d) \/ QueuePush(d) \/ Deliver(d) \/ Receive(d)
    BY <2>2 DEF Counts, Slips, Fold, FoldItem, FoldDeleted, Scan, SaveShadow, QueuePush, Deliver, Receive, Note
  <2>3. CASE QueueDirty(d) \/ MoveCursor(d) \/ ApplyCheck(d) \/ ApplyWrite(d) \/ ApplyStat(d)
              \/ ApplyClear(d) \/ Crash(d)
    BY <2>3 DEF Counts, Slips, QueueDirty, MoveCursor, ApplyCheck, ApplyWrite, ApplyStat, ApplyClear, Crash, Note
  <2> QED BY <2>1, <2>2, <2>3 DEF Sync
<1>2. edits \in Nat /\ crashes \in Nat /\ MaxEdits \in Nat /\ MaxCrashes \in Nat
  BY MergeAssumption DEF Counts
<1>3. CASE User(d)
  <2>1. PICK k \in Item : Type(d, k) \/ Erase(d, k) \/ Delete(d, k) \/ Undelete(d, k)
    BY <1>3 DEF User
  <2>2. edits < MaxEdits /\ edits' = edits + 1 /\ crashes' = crashes
    BY <2>1 DEF Type, Erase, Delete, Undelete, UserWrites
  <2>3. wanted' \subseteq wanted \union {<<d, k, edits + 1>>}
    BY <2>1 DEF Type, Erase, Delete, Undelete, Without
  <2>4. edits + 1 \in 1..MaxEdits
    BY <1>2, <2>2
  <2>5. wanted' \subseteq Device \X Item \X (1..MaxEdits)
    BY <2>3, <2>4 DEF Counts
  <2>6. edits' \in 0..MaxEdits /\ crashes' \in 0..MaxCrashes
    BY <1>2, <2>2 DEF Counts
  <2> QED BY <1>1, <2>5, <2>6 DEF Counts
<1>4. CASE Sync(d)
  <2>1. ASSUME Fold(d) \/ QueuePush(d) \/ Receive(d)
        PROVE  UNCHANGED users
    BY <2>1 DEF Fold, FoldItem, FoldDeleted, QueuePush, Receive
  <2>2. ASSUME Scan(d) \/ SaveShadow(d) \/ QueueDirty(d) \/ MoveCursor(d) \/ Deliver(d)
                   \/ ApplyCheck(d) \/ ApplyWrite(d) \/ ApplyStat(d) \/ ApplyClear(d)
        PROVE  UNCHANGED users
    BY <2>2 DEF Scan, SaveShadow, QueueDirty, MoveCursor, Deliver, ApplyCheck, ApplyWrite, ApplyStat,
                ApplyClear
  <2>3. UNCHANGED <<edits, crashes, wanted>>
    BY <1>4, <2>1, <2>2 DEF Sync, users
  <2> QED BY <1>1, <2>3 DEF Counts
<1>5. CASE Crash(d)
  <2>1. crashes < MaxCrashes /\ crashes' = crashes + 1 /\ UNCHANGED <<edits, wanted>>
    BY <1>5 DEF Crash
  <2>2. crashes' \in 0..MaxCrashes
    BY <1>2, <2>1
  <2> QED BY <1>1, <2>1, <2>2 DEF Counts
<1> QED
  BY <1>3, <1>4, <1>5

\* The queue and the delta after a step: the keys of the log are items and the manifest.
LEMMA StepKeys ==
    ASSUME NoneIsNoRecord, MInv, FShape, \A e \in Device : Keys(e),
           NEW d \in Device, User(d) \/ Sync(d) \/ Crash(d)
    PROVE  \A e \in Device : Keys(e)'
<1>0. Shape /\ CarriedInv
  BY DEF MInv
<1>1. ASSUME NEW e \in Device, queue'[e] = queue[e], DOMAIN todo'[e] \subseteq Item
      PROVE  Keys(e)'
  BY <1>1 DEF Keys
<1>2. ASSUME NEW e \in Device, queue'[e] = queue[e], todo'[e] = todo[e]
      PROVE  Keys(e)'
  BY <1>2 DEF Keys
<1>3. OthersSame(d) => \A e \in Device \ {d} : Keys(e)'
  BY <1>2 DEF OthersSame
<1>4. DOMAIN Empty = {}
  BY DEF Empty
<1>5. CASE User(d)
  <2>1. UNCHANGED <<queue, todo>>
    BY <1>5 DEF User, Type, Erase, Delete, Undelete, UserWrites
  <2> QED BY <1>2, <2>1
<1>6. CASE Scan(d)
  <2>1. OthersSame(d) /\ queue' = queue
    BY <1>0, <1>6, ScanEffect
  <2>2. DOMAIN todo'[d] \subseteq Item
    <3>1. PICK S : todo \in [Device -> S]
      BY DEF FShape, Cell
    <3>2. DOMAIN todo'[d] = Gone(d) \union Changed(d)
      BY <1>6, <3>1 DEF Scan
    <3> QED BY <3>2 DEF Gone, Changed, ToRead
  <2> QED BY <1>1, <1>3, <2>1, <2>2
<1>7. CASE \E k \in Item : FoldItem(d, k) \/ FoldDeleted(d, k)
  <2>1. PICK k \in Item : FoldItem(d, k) \/ FoldDeleted(d, k)
    BY <1>7
  <2>2. OthersSame(d) /\ queue' = queue /\ DOMAIN todo'[d] = DOMAIN todo[d] \ {k}
    BY <1>0, <2>1, FoldItemEffect, FoldDeletedEffect
  <2>3. DOMAIN todo'[d] \subseteq Item
    BY <2>2 DEF Keys
  <2> QED BY <1>1, <1>3, <2>2, <2>3
<1>8. CASE SaveShadow(d) \/ QueuePush(d) \/ Deliver(d) \/ Receive(d) \/ MoveCursor(d) \/ ApplyWrite(d)
  <2>1. UNCHANGED <<queue, todo>>
    BY <1>8 DEF SaveShadow, QueuePush, Deliver, Receive, MoveCursor, ApplyWrite, memory
  <2> QED BY <1>2, <2>1
<1>9. CASE QueueDirty(d)
  <2>1. /\ OthersSame(d) /\ todo' = todo /\ pc[d] = "queue"
        /\ queue'[d] = queue[d] \union Dirty(log[cursor[d] + 1])
    BY <1>0, <1>9, QueueDirtyEffect
  <2>2. PICK p : p = log[cursor[d] + 1]
    OBVIOUS
  <2>3. p \in Carried
    <3>1. cursor[d] < Len(log)
      BY <2>1 DEF MInv, ReceiptInv
    <3>2. DOMAIN log = 1..Len(log) /\ Len(log) \in Nat /\ cursor[d] \in Nat
      BY <1>0, SeqFacts DEF Shape
    <3>3. cursor[d] + 1 \in DOMAIN log
      BY <3>1, <3>2
    <3> QED BY <2>2, <3>3 DEF Carried
  <2>4. Dirty(p) \subseteq Item \union {Manifest}
    BY <1>0, <2>3 DEF CarriedInv, WellFormed, Dirty
  <2>5. Keys(d)'
    BY <2>1, <2>2, <2>4 DEF Keys
  <2> QED BY <1>3, <2>1, <2>5
<1>10. CASE ApplyCheck(d)
  <2>1. OthersSame(d) /\ queue' = queue /\ DOMAIN todo'[d] = ToWrite(d)
    BY <1>0, <1>10, ApplyCheckEffect
  <2>2. ToWrite(d) \subseteq Item
    BY DEF ToWrite, Candidates
  <2> QED BY <1>1, <1>3, <2>1, <2>2
<1>11. CASE ApplyStat(d)
  <2>1. OthersSame(d) /\ queue' = queue
    BY <1>0, <1>11, ApplyStatEffect
  <2>2. todo'[d] = Empty
    BY <1>11 DEF ApplyStat, FShape, Cell
  <2> QED BY <1>1, <1>3, <1>4, <2>1, <2>2
<1>12. CASE ApplyClear(d)
  <2>1. OthersSame(d) /\ todo' = todo
    BY <1>0, <1>12, ApplyClearEffect
  <2>2. queue'[d] = {}
    BY <1>12 DEF ApplyClear, FShape, Cell
  <2>3. Keys(d)'
    BY <2>1, <2>2 DEF Keys
  <2> QED BY <1>3, <2>1, <2>3
<1>13. CASE Crash(d)
  <2>1. OthersSame(d) /\ queue' = queue
    BY <1>0, <1>13, CrashEffect
  <2>2. todo'[d] = Empty
    BY <1>13 DEF Crash, FShape, Cell
  <2> QED BY <1>1, <1>3, <1>4, <2>1, <2>2
<1> QED
  BY <1>5, <1>6, <1>7, <1>8, <1>9, <1>10, <1>11, <1>12, <1>13 DEF Sync, Fold

\* The entries after a step.
LEMMA StepEntries ==
    ASSUME NoneIsNoRecord, FShape, \A e \in Device, i \in Item : YesNo(shadow[e][i]) /\ YesNo(saved[e][i]),
           NEW d \in Device, User(d) \/ Sync(d) \/ Crash(d), NEW e \in Device, NEW i \in Item
    PROVE  YesNo(shadow'[e][i]) /\ YesNo(saved'[e][i])
<1>1. PICK S, R : shadow \in [Device -> [Item -> S]] /\ saved \in [Device -> [Item -> R]]
  BY DEF FShape, Entries, Cells
<1>2. PICK s, r : s = shadow[e][i] /\ r = saved[e][i]
  OBVIOUS
<1>3. IsEntry(s) /\ IsEntry(r) /\ YesNo(s) /\ YesNo(r)
  BY <1>2 DEF FShape, Entries
<1>4. /\ YesNo(Stale(s)) /\ YesNo(Stale(r)) /\ YesNo(None)
      /\ \A t : YesNo(Entry(t, TRUE)) /\ YesNo(Entry(t, FALSE))
      /\ s # None => YesNo([s EXCEPT !.same = TRUE])
  BY <1>3, EntrySwitch
<1>5. CASE User(d)
  <2>1. PICK k \in Item : Type(d, k) \/ Erase(d, k) \/ Delete(d, k) \/ Undelete(d, k)
    BY <1>5 DEF User
  <2>2. PICK text : UserWrites(d, k, text)
    BY <2>1 DEF Type, Erase, Delete, Undelete
  <2>3. shadow'[e][i] \in {s, Stale(s)} /\ saved'[e][i] \in {r, Stale(r)}
    BY <1>1, <1>2, <2>2 DEF UserWrites
  <2> QED BY <1>3, <1>4, <2>3
<1>6. CASE Fold(d) \/ QueuePush(d) \/ Deliver(d) \/ Receive(d) \/ QueueDirty(d) \/ MoveCursor(d)
           \/ ApplyClear(d)
  <2>1. UNCHANGED <<shadow, saved>>
    BY <1>6 DEF Fold, FoldItem, FoldDeleted, QueuePush, Deliver, Receive, QueueDirty, MoveCursor,
                ApplyClear, disk, memory
  <2> QED BY <1>2, <1>3, <2>1
<1>7. CASE e # d /\ (Sync(d) \/ Crash(d))
  <2>1. shadow'[e][i] = s /\ saved'[e][i] = r
    BY <1>2, <1>7, EntriesMove DEF OthersEntries
  <2> QED BY <1>3, <2>1
<1>8. CASE e = d /\ Scan(d)
  <2>1. saved' = saved
    BY <1>8 DEF Scan, disk
  <2>2. \/ shadow'[e][i] \in {None, s}
        \/ shadow'[e][i] = Entry(file[d][i], TRUE)
    BY <1>1, <1>2, <1>8 DEF Scan
  <2> QED BY <1>2, <1>3, <1>4, <2>1, <2>2
<1>9. CASE e = d /\ SaveShadow(d)
  <2>1. shadow'[e][i] = s /\ saved'[e][i] = s
    BY <1>1, <1>2, <1>9 DEF SaveShadow
  <2> QED BY <1>3, <2>1
<1>10. CASE e = d /\ ApplyCheck(d)
  <2>1. saved' = saved
    BY <1>10 DEF ApplyCheck, disk
  <2>2. \/ shadow'[e][i] \in {None, s}
        \/ shadow'[e][i] = Entry(Materialize(d, i), FALSE)
    BY <1>1, <1>2, <1>10 DEF ApplyCheck
  <2> QED BY <1>2, <1>3, <1>4, <2>1, <2>2
<1>11. CASE e = d /\ ApplyWrite(d)
  <2>1. shadow' = shadow /\ saved'[e][i] \in {r, Stale(r)}
    BY <1>1, <1>2, <1>11 DEF ApplyWrite
  <2> QED BY <1>2, <1>3, <1>4, <2>1
<1>12. CASE e = d /\ ApplyStat(d)
  <2>1. saved'[e][i] = shadow'[e][i]
    BY <1>1, <1>12 DEF ApplyStat
  <2>2. \/ shadow'[e][i] \in {None, s}
        \/ s # None /\ shadow'[e][i] = [s EXCEPT !.same = TRUE]
    BY <1>1, <1>2, <1>12 DEF ApplyStat
  <2> QED BY <1>3, <1>4, <2>1, <2>2
<1>13. CASE e = d /\ Crash(d)
  <2>1. saved' = saved /\ shadow'[e][i] = r
    BY <1>1, <1>2, <1>13 DEF Crash, disk
  <2> QED BY <1>2, <1>3, <2>1
<1> QED
  BY <1>5, <1>6, <1>7, <1>8, <1>9, <1>10, <1>11, <1>12, <1>13 DEF Sync
LEMMA StepPlain ==
    ASSUME MergeAssumption, NoneIsNoRecord, MInv, FShape, PlainInv, [Next]_vars
    PROVE  PlainInv'
<1>1. CASE UNCHANGED vars
  BY <1>1 DEF PlainInv, Keys, Counts, YesNo, vars, disk, memory, users
<1>2. ASSUME NEW d \in Device, User(d) \/ Sync(d) \/ Crash(d)
      PROVE  PlainInv'
  <2>1. \A e \in Device : Keys(e)'
    BY <1>2, StepKeys DEF PlainInv
  <2>2. \A e \in Device, i \in Item : YesNo(shadow'[e][i]) /\ YesNo(saved'[e][i])
    BY <1>2, StepEntries DEF PlainInv
  <2>3. Counts'
    BY <1>2, StepCounts DEF PlainInv
  <2> QED BY <2>1, <2>2, <2>3 DEF PlainInv, YesNo
<1> QED
  BY <1>1, <1>2 DEF Next

THEOREM PlainInvariance ==
    ASSUME NoneIsNoRecord
    PROVE  Spec => []PlainInv
<1>1. Init => PlainInv
  <2> SUFFICES ASSUME Init
               PROVE  PlainInv
    OBVIOUS
  <2>1. \A d \in Device : queue[d] = {} /\ todo[d] = Empty
    BY DEF Init
  <2>2. \A d \in Device : Keys(d)
    BY <2>1 DEF Keys, Empty
  <2>3. \A d \in Device, i \in Item : shadow[d][i] = None /\ saved[d][i] = None
    BY DEF Init
  <2>4. Counts
    BY MergeAssumption DEF Init, Counts, Slips
  <2> QED BY <2>2, <2>3, <2>4 DEF PlainInv, YesNo
<1>2. MInv /\ FilesInv /\ PlainInv /\ [Next]_vars => PlainInv'
  BY StepPlain, MergeAssumption DEF FilesInv
<1> QED
  BY <1>1, <1>2, MergeInvariance, FilesInvariance, PTL DEF Spec

\* A text whose atoms have been typed, and the entry of one.
LEMMA TextTyped ==
    ASSUME MergeAssumption, Counts, NEW t, FreshText(t)
    PROVE  t \in Text
<1>1. 1..edits \subseteq 1..MaxEdits
  BY MergeAssumption DEF Counts
<1> QED
  BY <1>1 DEF FreshText, Text, Atom

LEMMA EntryTyped ==
    ASSUME MergeAssumption, Counts, NEW e, IsEntry(e), Solid(e), YesNo(e), FreshText(TextIn(e))
    PROVE  e = None \/ e \in [text : SUBSET Atom, same : BOOLEAN]
<1> SUFFICES ASSUME e # None
             PROVE  e \in [text : SUBSET Atom, same : BOOLEAN]
  OBVIOUS
<1>1. e = [text |-> e.text, same |-> e.same] /\ e.same \in BOOLEAN
  BY DEF IsEntry, YesNo
<1>2. e.text # None /\ FreshText(e.text)
  BY DEF Solid, TextIn
<1>3. e.text \in SUBSET Atom
  <2>1. 1..edits \subseteq 1..MaxEdits
    BY MergeAssumption DEF Counts
  <2> QED BY <1>2, <2>1 DEF FreshText, Atom
<1> QED
  BY <1>1, <1>3

LEMMA OpsTyped ==
    ASSUME MergeAssumption, Counts, LagInv, NEW i \in Item, NEW o, Known(i, o)
    PROVE  o \in Op
<1>1. o \in Ops(edits)
  BY DEF LagInv, OpRow
<1>2. 1..edits \subseteq Atom
  BY MergeAssumption DEF Counts, Atom
<1>3. SUBSET (1..edits) \subseteq SUBSET (Atom \union {MaxEdits + 1})
  BY <1>2
<1> QED
  BY <1>1, <1>2, <1>3 DEF Ops, Op

\* Each variable has its type.  No operation's stamp is above the number of edits:
\* a fold that writes under the device's own client id (apply_local_text, docs.rs) is
\* for an edit that no fold has written yet, also when a crash makes the scan read a
\* file again.  And a document deletes only what it holds: the log has each update
\* behind what its sender knew of (outbox.rs, engine.rs), until a crash orphans one.
THEOREM TypeCorrect ==
    ASSUME NoneIsNoRecord
    PROVE  Spec => []TypeOK
<1>1. MInv /\ FilesInv /\ StatInv /\ FreshInv /\ LagInv /\ OrderInv /\ PlainInv => TypeOK
  <2> SUFFICES ASSUME MInv, FilesInv, StatInv, FreshInv, LagInv, OrderInv, PlainInv
               PROVE  TypeOK
    OBVIOUS
  <2>1. Shape /\ FShape /\ Counts
    BY DEF MInv, FilesInv, PlainInv
  <2>2. ASSUME NEW d \in Device, NEW i \in Item
        PROVE  /\ file[d][i] \in Text /\ trash[d][i] \in Text
               /\ \A e \in {saved[d][i], shadow[d][i]} :
                    e = None \/ e \in [text : SUBSET Atom, same : BOOLEAN]
               /\ docs[d][i] = None \/ IsDoc(docs[d][i])
               /\ tombs[d][i] = None \/ (tombs[d][i].sv \subseteq Op /\ tombs[d][i].by \in Device)
    <3>1. /\ FreshText(file[d][i]) /\ FreshText(trash[d][i])
          /\ FreshText(TextIn(shadow[d][i])) /\ FreshText(TextIn(saved[d][i]))
      BY DEF FreshInv, FreshRow, Seen, Kept
    <3>2. file[d][i] \in Text /\ trash[d][i] \in Text
      BY <2>1, <3>1, TextTyped, MergeAssumption
    <3>3. /\ IsEntry(saved[d][i]) /\ Solid(saved[d][i]) /\ YesNo(saved[d][i])
          /\ IsEntry(shadow[d][i]) /\ Solid(shadow[d][i]) /\ YesNo(shadow[d][i])
      BY <2>1 DEF FShape, Entries, StatInv, StatRow, PlainInv
    <3>4. \A e \in {saved[d][i], shadow[d][i]} :
            e = None \/ e \in [text : SUBSET Atom, same : BOOLEAN]
      BY <2>1, <3>1, <3>3, EntryTyped, MergeAssumption
    <3>5. ASSUME docs[d][i] # None
          PROVE  IsDoc(docs[d][i])
      <4>1. \A o \in docs[d][i].ops : Known(i, o)
        BY <3>5 DEF Known, Made
      <4>2. \A o \in docs[d][i].dels : Known(i, o)
        BY <3>5 DEF Known, Struck
      <4>3. docs[d][i].ops \subseteq Op /\ docs[d][i].dels \subseteq Op
        BY <2>1, <4>1, <4>2, OpsTyped, MergeAssumption
      <4>4. slips = {} => docs[d][i].dels \subseteq docs[d][i].ops
        BY <3>5 DEF OrderInv, DelsIn
      <4> QED BY <4>3, <4>4 DEF IsDoc
    <3>6. ASSUME tombs[d][i] # None
          PROVE  tombs[d][i].sv \subseteq Op /\ tombs[d][i].by \in Device
      <4>1. tombs[d][i] \in TombsOf(i)
        BY <3>6 DEF TombsOf
      <4>2. \A o \in tombs[d][i].sv : Known(i, o)
        BY <4>1 DEF Known, Buried
      <4>3. tombs[d][i].sv \subseteq Op
        BY <2>1, <4>2, OpsTyped, MergeAssumption
      <4>4. tombs[d][i].by \in Device
        BY <4>1 DEF MInv, TombInv, IsTomb
      <4> QED BY <4>3, <4>4
    <3> QED BY <3>2, <3>4, <3>5, <3>6
  <2>3. ASSUME NEW d \in Device
        PROVE  /\ queue[d] \subseteq Item \union {Manifest}
               /\ cursor[d] \in 0..Len(log)
               /\ pc[d] \in {"start", "idle", "fold", "push", "queue", "cursor", "write", "stat", "clear"}
               /\ DOMAIN todo[d] \subseteq Item
    <3>1. cursor[d] \in Nat /\ cursor[d] <= Len(log) /\ Len(log) \in Nat
      BY <2>1, SeqFacts DEF Shape
    <3> QED BY <2>1, <3>1 DEF FShape, Phases, PlainInv, Keys
  <2> QED BY <2>1, <2>2, <2>3 DEF TypeOK, Counts, Slips, Atom
<1> QED
  BY <1>1, MergeInvariance, FilesInvariance, StatInvariance, FreshInvariance, LagInvariance,
     OrderInvariance, PlainInvariance, PTL
=============================================================================
