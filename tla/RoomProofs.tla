----------------------------- MODULE RoomProofs -----------------------------
(***************************************************************************)
(* What is typed in a room is durable, or some open room will make it so;  *)
(* and a room's mirror is what the log covers: for any devices and casts.  *)
(***************************************************************************)
EXTENDS Room, FiniteSetTheorems, SequenceTheorems, TLAPS

-----------------------------------------------------------------------------
(* Types                                                                   *)

Op == [n : Nat, by : Device, inserts : BOOLEAN, seen : SUBSET Nat]
Entry == [by : Device, ops : SUBSET Op]
Peer == [state : Nat, ts : Nat]

DurableTypes ==
    /\ made \in Nat
    /\ doc \in [Device -> SUBSET Op]
    /\ outbox \in [Device -> Seq(SUBSET Op)]
    /\ log \in Seq(Entry)
    /\ cursor \in [Device -> Nat]
    /\ slips \in SUBSET (AnySlip \X Op)
RoomTypes ==
    /\ open \in [Device -> BOOLEAN]
    /\ mirror \in [Device -> SUBSET Op]
    /\ dirty \in [Device -> BOOLEAN]

-----------------------------------------------------------------------------
(* The inductive invariant                                                 *)

Adopted == Slipped({"adopted"})
Gone == Slipped({"undone", "died", "adopted"})
Waived == Slipped({"unmarked", "early", "undone"})
AllSlipped == Slipped(AnySlip)

\* Operations are numbered as they are made.
Counted ==
    /\ IsFiniteSet(Ops) /\ Cardinality(Ops) = made
    /\ \A o \in Ops : o.n <= made

\* What a device has folded, flushed, pushed or received.
Met(d) ==
    (UNION {log[i].ops : i \in {i \in DOMAIN log : i <= cursor[d] \/ log[i].by = d}})
        \union (UNION Range(outbox[d]))

RoomAt(d) ==
    /\ mirror[d] \subseteq doc[d]
    /\ dirty[d] => open[d]
    /\ ~open[d] => mirror[d] = {}
    /\ cursor[d] <= Len(log)

\* It is in the document, and its insertions in the mirror of an open room.
MetAt(d) ==
    /\ Met(d) \subseteq doc[d]
    /\ open[d] => Inserts(Met(d)) \subseteq mirror[d]

\* A mirror holds nothing else but what it adopted.
MirrorAt(d) == mirror[d] \subseteq Durable \union Adopted

\* What an open room has and its mirror lacks is marked, or a gap's, or durable.
MarkedAt(d) ==
    open[d] /\ ~dirty[d] =>
        doc[d] \ mirror[d] \subseteq Durable \union Waived

\* What is not durable is in a room whose document also has all it follows.
Flushable(d) == IF open[d] THEN Integrated(doc[d]) \ mirror[d] ELSE {}
CoverInv ==
    Ops \subseteq Durable \union Gone \union UNION {Flushable(d) : d \in Device}

SlipInv == AllSlipped \subseteq Ops

Log ==
    /\ DurableTypes /\ RoomTypes /\ Counted /\ SlipInv /\ CoverInv
    /\ \A d \in Device : RoomAt(d)
    /\ \A d \in Device : MetAt(d)
    /\ \A d \in Device : MirrorAt(d)
    /\ \A d \in Device : MarkedAt(d)

\* Frames carry operations that were made; nobody hears of themselves.
Presences(from) == [kind : {"presence"}, from : from, ts : Nat, gone : BOOLEAN, state : Nat]
Keystrokes == [kind : {"coedit"}, op : Ops]
Frames == Keystrokes \union Presences(Device)
FramesTo(d) == Keystrokes \union Presences(Device \ {d})

UpInv == up \in [Device -> Seq(Frames)]
AirInv ==
    /\ air \in [Device -> Seq(Frames)]
    /\ \A d \in Device : air[d] \in Seq(FramesTo(d))
StrayInv == stray \subseteq Frames
LinkInv ==
    /\ link \in [Device -> {"off", "down", "up"}]
    /\ \A d \in Device : link[d] # "up" => up[d] = <<>> /\ air[d] = <<>>
OwnInv == said \in [Device -> Nat] /\ state \in [Device -> Nat] /\ ts \in [Device -> Nat]
PeersInv ==
    /\ peers \in [Device -> [Device -> Peer \union {None}]]
    /\ \A d \in Device : peers[d][d] = None

Wire == UpInv /\ AirInv /\ StrayInv /\ LinkInv /\ OwnInv /\ PeersInv

RInv == cast \in Casts /\ Log /\ Wire

-----------------------------------------------------------------------------
(* Documents, queues and slips                                             *)

\* Whoever learns more keeps what is integrated.
LEMMA IntegratedGrows ==
    ASSUME NEW s, NEW t, s \subseteq t
    PROVE  Integrated(s) \subseteq Integrated(t)
BY DEF Integrated

\* A diff that is not empty has all that the mirror lacks; an empty one leaves
\* out deletions, and insertions that are not integrated.
LEMMA DiffFacts ==
    ASSUME NEW s, NEW m, m \subseteq s
    PROVE  LET diff == DiffSince(s, StateVector(m))
           IN  /\ diff \subseteq s
               /\ diff # {} => s \ m \subseteq diff
               /\ diff = {} =>
                     /\ Integrated(s) \ m \subseteq Deletes(s) \ m
                     /\ s \ m \subseteq (Deletes(s) \ m) \union Inserts(s \ Integrated(s))
<1> DEFINE diff == DiffSince(s, StateVector(m))
<1>1. StateVector(m) \subseteq m /\ StateVector(m) \subseteq StateVector(s)
  BY IntegratedGrows DEF StateVector, Inserts, Integrated
<1>2. StateVector(s) = Inserts(Integrated(s)) /\ Integrated(s) \subseteq s
  BY DEF StateVector, Integrated
<1>3. CASE StateVector(s) = StateVector(m)
  <2>1. diff = {}
    BY <1>3 DEF DiffSince
  <2>2. Inserts(Integrated(s)) \subseteq m
    BY <1>1, <1>2, <1>3
  <2>3. Integrated(s) \ m \subseteq Deletes(s) \ m
    BY <1>2, <2>2 DEF Inserts, Deletes
  <2>4. s \ m \subseteq (Deletes(s) \ m) \union Inserts(s \ Integrated(s))
    BY <2>2 DEF Inserts, Deletes
  <2> QED BY <2>1, <2>3, <2>4
<1>4. CASE StateVector(s) # StateVector(m)
  <2>1. diff = (Inserts(s) \ StateVector(m)) \union Deletes(s)
    BY <1>4 DEF DiffSince, UpdateSince
  <2>2. PICK o \in StateVector(s) : o \notin StateVector(m)
    BY <1>1, <1>4
  <2>3. o \in diff
    BY <1>2, <2>1, <2>2 DEF Inserts
  <2>4. s \ m \subseteq diff /\ diff \subseteq s
    BY <1>1, <2>1 DEF Inserts, Deletes
  <2> QED BY <2>3, <2>4
<1> QED BY <1>3, <1>4

\* Queueing an update adds its operations to what is queued.
LEMMA QueueGrows ==
    ASSUME NEW q \in Seq(SUBSET Op), NEW u \in SUBSET Op
    PROVE  /\ q \o Sent(u) \in Seq(SUBSET Op)
           /\ UNION Range(q \o Sent(u)) = (UNION Range(q)) \union u
<1>1. CASE u = {}
  <2>1. Sent(u) = <<>> /\ q \o <<>> = q
    BY <1>1 DEF Sent
  <2> QED BY <1>1, <2>1
<1>2. CASE u # {}
  <2>1. Sent(u) = <<u>>
    BY <1>2 DEF Sent
  <2>2. q \o <<u>> = Append(q, u)
    BY AppendIsConcat
  <2>3. /\ Append(q, u) \in Seq(SUBSET Op) /\ DOMAIN Append(q, u) = 1..(Len(q) + 1)
        /\ \A i \in 1..Len(q) : Append(q, u)[i] = q[i]
        /\ Append(q, u)[Len(q) + 1] = u
        /\ DOMAIN q = 1..Len(q) /\ Len(q) \in Nat
    OBVIOUS
  <2>4. Range(Append(q, u)) = Range(q) \union {u}
    <3>1. ASSUME NEW x \in Range(Append(q, u))
          PROVE  x \in Range(q) \union {u}
      <4>1. PICK i \in 1..(Len(q) + 1) : x = Append(q, u)[i]
        BY <2>3 DEF Range
      <4>2. CASE i \in 1..Len(q)
        BY <2>3, <4>1, <4>2 DEF Range
      <4>3. CASE i = Len(q) + 1
        BY <2>3, <4>1, <4>3
      <4> QED BY <2>3, <4>2, <4>3
    <3>2. ASSUME NEW x \in Range(q)
          PROVE  x \in Range(Append(q, u))
      <4>1. PICK i \in 1..Len(q) : x = q[i]
        BY <2>3 DEF Range
      <4>2. i \in 1..(Len(q) + 1) /\ x = Append(q, u)[i]
        BY <2>3, <4>1
      <4> QED BY <2>3, <4>2 DEF Range
    <3>3. u \in Range(Append(q, u))
      <4>1. Len(q) + 1 \in 1..(Len(q) + 1)
        BY <2>3
      <4> QED BY <2>3, <4>1 DEF Range
    <3> QED BY <3>1, <3>2, <3>3
  <2> QED BY <2>1, <2>2, <2>3, <2>4
<1> QED BY <1>1, <1>2

LEMMA SlipsGrow ==
    ASSUME slips \subseteq slips'
    PROVE  /\ Adopted \subseteq Adopted' /\ Gone \subseteq Gone'
           /\ Waived \subseteq Waived' /\ AllSlipped \subseteq AllSlipped'
BY DEF Adopted, Gone, Waived, AllSlipped, Slipped

\* What the slips of a step say.
LEMMA SlippedBy ==
    ASSUME NEW A, NEW k, NEW K, k \in K, {k} \X A \subseteq slips'
    PROVE  A \subseteq Slipped(K)'
<1>1. \A o \in A : <<k, o>> \in slips' /\ <<k, o>>[1] = k /\ <<k, o>>[2] = o
  OBVIOUS
<1> QED BY <1>1 DEF Slipped

LEMMA SlippedOnly ==
    ASSUME NEW A, \A x \in slips' : x \in slips \/ x[2] \in A
    PROVE  AllSlipped' \subseteq AllSlipped \union A
<1>1. ASSUME NEW o \in AllSlipped'
      PROVE  o \in AllSlipped \union A
  <2>1. PICK x \in slips' : x[1] \in AnySlip /\ o = x[2]
    BY DEF AllSlipped, Slipped, AnySlip
  <2> QED BY <2>1 DEF AllSlipped, Slipped
<1> QED BY <1>1

-----------------------------------------------------------------------------
(* A step of one device, on its document, its outbox and its room          *)

\* The new operation of a device is one nobody has, and its author has all it
\* follows.
LEMMA NewOpFacts ==
    ASSUME Log, NEW d \in Device, NEW inserts \in BOOLEAN, made' = made + 1
    PROVE  LET o == NewOp(d, inserts)
           IN  /\ o \in Op /\ o \notin Ops
               /\ \A N \in SUBSET Op : doc[d] \subseteq N /\ o \in N => o \in Integrated(N)
               /\ Ops' = Ops \union {o} => Counted'
<1> DEFINE o == NewOp(d, inserts)
<1>0. /\ made \in Nat /\ doc[d] \in SUBSET Op /\ doc[d] \subseteq Ops
      /\ IsFiniteSet(Ops) /\ Cardinality(Ops) = made
      /\ \A p \in Ops : p.n \in Nat /\ p.n <= made
  BY DEF Log, DurableTypes, Counted, Ops, Op
<1>1. StateVector(doc[d]) \subseteq doc[d]
  BY DEF StateVector, Inserts, Integrated
<1>2. /\ o = [n |-> made + 1, by |-> d, inserts |-> inserts, seen |-> o.seen]
      /\ o.n = made + 1 /\ o.seen = {p.n : p \in StateVector(doc[d])}
  BY DEF NewOp
<1>3. o.seen \in SUBSET Nat
  BY <1>0, <1>1, <1>2 DEF Op
<1>4. o \in Op
  BY <1>0, <1>2, <1>3 DEF Op
<1>5. o \notin Ops
  BY <1>0, <1>2
<1>6. ASSUME NEW N \in SUBSET Op, doc[d] \subseteq N, o \in N
      PROVE  o \in Integrated(N)
  BY <1>1, <1>2, <1>6 DEF Integrated
<1>7. ASSUME Ops' = Ops \union {o}
      PROVE  Counted'
  <2>1. IsFiniteSet(Ops \union {o}) /\ Cardinality(Ops \union {o}) = made + 1
    BY <1>0, <1>5, FS_AddElement
  <2>2. \A p \in Ops \union {o} : p.n <= made + 1
    BY <1>0, <1>2
  <2> QED BY <1>7, <2>1, <2>2 DEF Counted
<1> QED BY <1>4, <1>5, <1>6, <1>7

\* A step of d that queues Q, and leaves the log and the other devices alone.
StepOf(d, Q) ==
    /\ DurableTypes' /\ RoomTypes' /\ Counted'
    /\ log' = log /\ cursor' = cursor
    /\ \A e \in Device \ {d} :
          /\ doc'[e] = doc[e] /\ mirror'[e] = mirror[e]
          /\ open'[e] = open[e] /\ dirty'[e] = dirty[e] /\ outbox'[e] = outbox[e]
    /\ UNION Range(outbox'[d]) = (UNION Range(outbox[d])) \union Q

\* Its document grows, an open room keeps its mirror or takes the document for
\* it, and what is new or was to be flushed is queued, a gap's or still to be
\* flushed.
Keeps(d, Q) ==
    /\ doc[d] \union Q \union mirror'[d] \subseteq doc'[d]
    /\ dirty'[d] => open'[d]
    /\ ~open'[d] => mirror'[d] = {}
    /\ open'[d] =>
          \/ open[d] /\ mirror[d] \union Inserts(Q) \subseteq mirror'[d]
          \/ mirror'[d] = doc'[d]
    /\ mirror'[d] \subseteq Durable \union Q \union Adopted'
    /\ open'[d] /\ ~dirty'[d] => doc'[d] \ mirror'[d] \subseteq Durable \union Q \union Waived'
    /\ slips \subseteq slips' /\ AllSlipped' \subseteq AllSlipped \union doc'[d]
    /\ (doc'[d] \ Ops) \union Flushable(d) \subseteq
           Durable \union Q \union Gone' \union Flushable(d)'
               \union (UNION {Flushable(e) : e \in Device \ {d}})

LEMMA LocalStep ==
    ASSUME Log, NEW d \in Device, NEW Q \in SUBSET Op, StepOf(d, Q), Keeps(d, Q)
    PROVE  Log'
<1>0. DurableTypes /\ RoomTypes /\ Counted /\ SlipInv /\ CoverInv
  BY DEF Log
<1>1. \A e \in Device :
        e # d => /\ doc'[e] = doc[e] /\ mirror'[e] = mirror[e]
                 /\ open'[e] = open[e] /\ dirty'[e] = dirty[e] /\ outbox'[e] = outbox[e]
  BY DEF StepOf
<1>2. /\ log' = log /\ cursor' = cursor
      /\ UNION Range(outbox'[d]) = (UNION Range(outbox[d])) \union Q
      /\ DurableTypes' /\ RoomTypes' /\ Counted'
  BY DEF StepOf
<1>3. Ops' = Ops \union doc'[d]
  <2>1. \A e \in Device : doc'[e] \subseteq Ops \union doc'[d] /\ doc[e] \subseteq doc'[e]
    BY <1>1 DEF Ops, Keeps
  <2> QED BY <2>1 DEF Ops
<1>4. Durable' = Durable \union Q
  <2>1. \A e \in Device : e # d => UNION Range(outbox'[e]) = UNION Range(outbox[e])
    BY <1>1
  <2>2. Logged' = Logged
    BY <1>2 DEF Logged
  <2>3. Queued' = Queued \union Q
    <3>1. \A x : x \in Queued' <=> \E e \in Device : x \in UNION Range(outbox'[e])
      BY DEF Queued
    <3>2. \A x : x \in Queued <=> \E e \in Device : x \in UNION Range(outbox[e])
      BY DEF Queued
    <3> QED BY <1>2, <2>1, <3>1, <3>2
  <2> QED BY <2>2, <2>3 DEF Durable
<1>5. Met(d)' = Met(d) \union Q /\ \A e \in Device : e # d => Met(e)' = Met(e)
  <2> DEFINE Reached(e) == UNION {log[i].ops : i \in {i \in DOMAIN log : i <= cursor[e] \/ log[i].by = e}}
  <2>1. \A e \in Device : Met(e)' = Reached(e) \union (UNION Range(outbox'[e]))
    BY <1>2 DEF Met
  <2>2. \A e \in Device : Met(e) = Reached(e) \union (UNION Range(outbox[e]))
    BY DEF Met
  <2> HIDE DEF Reached
  <2> QED BY <1>1, <1>2, <2>1, <2>2
<1>6. Adopted \subseteq Adopted' /\ Gone \subseteq Gone' /\ Waived \subseteq Waived' /\ AllSlipped \subseteq AllSlipped'
  BY SlipsGrow DEF Keeps
<1>7. SlipInv'
  BY <1>0, <1>3 DEF SlipInv, Keeps
<1>8. CoverInv'
  <2>1. ASSUME NEW e \in Device, e # d
        PROVE  Flushable(e)' = Flushable(e)
    <3>1. doc'[e] = doc[e] /\ mirror'[e] = mirror[e] /\ open'[e] = open[e]
      BY <1>1, <2>1
    <3> QED BY ONLY <3>1 DEF Flushable, Integrated
  <2>2. \A e \in Device : Flushable(e)' \subseteq UNION {Flushable(f) : f \in Device}'
    OBVIOUS
  <2>3. UNION {Flushable(e) : e \in Device \ {d}} \subseteq UNION {Flushable(e) : e \in Device}'
    BY <2>1, <2>2
  <2>4. Ops \subseteq Durable \union Gone \union Flushable(d) \union (UNION {Flushable(e) : e \in Device \ {d}})
    BY <1>0 DEF CoverInv
  <2>5. (doc'[d] \ Ops) \union Flushable(d) \subseteq
           Durable \union Q \union Gone' \union Flushable(d)'
               \union (UNION {Flushable(e) : e \in Device \ {d}})
    BY DEF Keeps
  <2> QED BY <1>3, <1>4, <1>6, <2>2, <2>3, <2>4, <2>5 DEF CoverInv
<1>9. (\A e \in Device : RoomAt(e))'
  <2>1. \A e \in Device : RoomAt(e)
    BY DEF Log
  <2>2. ASSUME NEW e \in Device, e # d
        PROVE  RoomAt(e)'
    BY <1>1, <1>2, <2>1, <2>2 DEF RoomAt
  <2>3. RoomAt(d)'
    BY <1>2, <2>1 DEF RoomAt, Keeps
  <2> QED BY <2>2, <2>3
<1>10. (\A e \in Device : MetAt(e))'
  <2>1. \A e \in Device : MetAt(e)
    BY DEF Log
  <2>2. ASSUME NEW e \in Device, e # d
        PROVE  MetAt(e)'
    BY <1>1, <1>5, <2>1, <2>2 DEF MetAt, Inserts
  <2>3. MetAt(d)'
    <3>1. Met(d)' \subseteq doc'[d]
      BY <1>5, <2>1 DEF MetAt, Keeps
    <3>2. CASE mirror'[d] = doc'[d]
      BY <3>1, <3>2 DEF MetAt, Inserts
    <3>3. CASE open'[d] /\ open[d] /\ mirror[d] \union Inserts(Q) \subseteq mirror'[d]
      BY <1>5, <2>1, <3>1, <3>3 DEF MetAt, Inserts
    <3>4. CASE ~open'[d]
      BY <3>1, <3>4 DEF MetAt
    <3> QED BY <3>2, <3>3, <3>4 DEF Keeps
  <2> QED BY <2>2, <2>3
<1>11. (\A e \in Device : MirrorAt(e))'
  <2>1. \A e \in Device : MirrorAt(e)
    BY DEF Log
  <2>2. mirror'[d] \subseteq Durable \union Q \union Adopted'
    BY DEF Keeps
  <2> QED BY <1>1, <1>4, <1>6, <2>1, <2>2 DEF MirrorAt
<1>12. (\A e \in Device : MarkedAt(e))'
  <2>1. \A e \in Device : MarkedAt(e)
    BY DEF Log
  <2>2. open'[d] /\ ~dirty'[d] => doc'[d] \ mirror'[d] \subseteq Durable \union Q \union Waived'
    BY DEF Keeps
  <2> QED BY <1>1, <1>4, <1>6, <2>1, <2>2 DEF MarkedAt
<1> QED BY <1>2, <1>7, <1>8, <1>9, <1>10, <1>11, <1>12 DEF Log

LEMMA Pushed ==
    ASSUME DurableTypes, NEW d \in Device, NEW u \in SUBSET Op, PushTo(d, u)
    PROVE  /\ outbox' \in [Device -> Seq(SUBSET Op)]
           /\ \A e \in Device \ {d} : outbox'[e] = outbox[e]
           /\ UNION Range(outbox'[d]) = (UNION Range(outbox[d])) \union u
<1>1. outbox \in [Device -> Seq(SUBSET Op)]
  BY DEF DurableTypes
<1>2. outbox' = [outbox EXCEPT ![d] = outbox[d] \o Sent(u)]
  BY DEF PushTo
<1>3. /\ outbox[d] \o Sent(u) \in Seq(SUBSET Op)
      /\ UNION Range(outbox[d] \o Sent(u)) = (UNION Range(outbox[d])) \union u
  BY <1>1, QueueGrows
<1> QED BY <1>1, <1>2, <1>3

LEMMA NothingPushed ==
    ASSUME DurableTypes, NEW d \in Device, outbox' = outbox
    PROVE  /\ outbox' \in [Device -> Seq(SUBSET Op)]
           /\ \A e \in Device \ {d} : outbox'[e] = outbox[e]
           /\ UNION Range(outbox'[d]) = (UNION Range(outbox[d])) \union {}
BY DEF DurableTypes

\* What the invariant says of one device.
LEMMA AtDevice ==
    ASSUME Log, NEW d \in Device
    PROVE  /\ DurableTypes /\ RoomTypes /\ Counted /\ made \in Nat /\ doc \in [Device -> SUBSET Op]
           /\ doc[d] \in SUBSET Op /\ mirror[d] \in SUBSET Op
           /\ open[d] \in BOOLEAN /\ dirty[d] \in BOOLEAN
           /\ doc[d] \subseteq Ops /\ slips \in SUBSET (AnySlip \X Op)
           /\ open = [open EXCEPT ![d] = open[d]] /\ dirty = [dirty EXCEPT ![d] = dirty[d]]
           /\ mirror = [mirror EXCEPT ![d] = mirror[d]] /\ doc = [doc EXCEPT ![d] = doc[d]]
           /\ RoomAt(d) /\ MetAt(d) /\ MirrorAt(d) /\ MarkedAt(d)
<1>1. DurableTypes /\ RoomTypes /\ Counted
  BY DEF Log
<1>2. RoomAt(d) /\ MetAt(d) /\ MirrorAt(d) /\ MarkedAt(d)
  BY DEF Log
<1> QED BY <1>1, <1>2 DEF DurableTypes, RoomTypes, Ops

\* After a flush the mirror lacks only what a gap may lose, and what was to be
\* flushed is queued.
LEMMA FlushFacts ==
    ASSUME Log, NEW d \in Device, NEW now \in SUBSET Op, doc[d] \subseteq now,
           NothingToSend(d, now, DiffSince(now, StateVector(mirror[d])))
    PROVE  LET diff == DiffSince(now, StateVector(mirror[d]))
           IN  /\ diff \subseteq now
               /\ slips \subseteq slips' /\ slips' \in SUBSET (AnySlip \X Op)
               /\ AllSlipped' \subseteq AllSlipped \union now
               /\ now \ (mirror[d] \union diff) \subseteq Waived'
               /\ Integrated(now) \ mirror[d] \subseteq diff \union Gone'
<1> DEFINE diff == DiffSince(now, StateVector(mirror[d]))
           A == Deletes(now) \ mirror[d]
           B == Inserts(now \ Integrated(now))
<1>1. mirror[d] \subseteq now /\ slips \in SUBSET (AnySlip \X Op)
  BY AtDevice DEF RoomAt
<1>2. /\ diff \subseteq now
      /\ diff # {} => now \ mirror[d] \subseteq diff
      /\ diff = {} => /\ Integrated(now) \ mirror[d] \subseteq A
                      /\ now \ mirror[d] \subseteq A \union B
  BY <1>1, DiffFacts
<1>3. A \subseteq now /\ B \subseteq now /\ Integrated(now) \subseteq now
  BY DEF Deletes, Inserts, Integrated
<1>4. diff # {} => slips' = slips
  BY DEF NothingToSend
<1>5. diff = {} => slips' = slips \union ({"undone"} \X A) \union ({"early"} \X B)
  BY DEF NothingToSend
<1>6. "undone" \in AnySlip /\ "early" \in AnySlip
  BY DEF AnySlip
<1> HIDE DEF diff, A, B
<1>7. CASE diff = {}
  <2>0. slips' = slips \union ({"undone"} \X A) \union ({"early"} \X B)
    BY <1>5, <1>7
  <2>3. \A x \in slips' : x \in slips \/ x[2] \in A \union B
    BY <2>0
  <2>4. {"undone"} \X A \subseteq slips' /\ {"early"} \X B \subseteq slips'
    BY <2>0
  <2>5. A \subseteq Gone' /\ A \subseteq Waived'
    BY <2>4, SlippedBy DEF Gone, Waived
  <2>6. B \subseteq Waived'
    BY <2>4, SlippedBy DEF Waived
  <2>1. /\ slips \subseteq slips' /\ AllSlipped' \subseteq AllSlipped \union (A \union B)
        /\ A \subseteq Gone' /\ A \subseteq Waived' /\ B \subseteq Waived'
    BY <2>0, <2>3, <2>5, <2>6, SlippedOnly
  <2>2. slips' \in SUBSET (AnySlip \X Op)
    BY <1>1, <1>3, <1>5, <1>6, <1>7
  <2> QED BY <1>2, <1>3, <1>7, <2>1, <2>2 DEF diff
<1>8. CASE diff # {}
  <2>1. slips' = slips /\ AllSlipped' = AllSlipped
    BY <1>4, <1>8 DEF AllSlipped, Slipped
  <2> QED BY <1>1, <1>2, <1>3, <1>8, <2>1 DEF diff
<1> QED BY <1>7, <1>8

LEMMA FlushStep ==
    ASSUME Log, NEW d \in Device, NEW now \in SUBSET Op, doc[d] \subseteq now, open[d],
           now \ Ops \subseteq Integrated(now),
           doc' = [doc EXCEPT ![d] = now], FlushRoom(d, now),
           UNCHANGED <<log, cursor, open>>, made' \in Nat, Counted'
    PROVE  Log'
<1> DEFINE diff == DiffSince(now, StateVector(mirror[d]))
<1>1. /\ PushTo(d, diff) /\ mirror' = [mirror EXCEPT ![d] = mirror[d] \union diff]
      /\ dirty' = [dirty EXCEPT ![d] = FALSE] /\ NothingToSend(d, now, diff)
  BY DEF FlushRoom, Advance
<1>2. /\ diff \subseteq now
      /\ slips \subseteq slips' /\ slips' \in SUBSET (AnySlip \X Op)
      /\ AllSlipped' \subseteq AllSlipped \union now
      /\ now \ (mirror[d] \union diff) \subseteq Waived'
      /\ Integrated(now) \ mirror[d] \subseteq diff \union Gone'
  BY <1>1, FlushFacts
<1> HIDE DEF diff
<1>3. /\ DurableTypes /\ RoomTypes /\ mirror[d] \in SUBSET Op /\ mirror[d] \subseteq doc[d]
      /\ doc[d] \subseteq Ops /\ MirrorAt(d)
  BY AtDevice DEF RoomAt
<1>4. diff \in SUBSET Op
  BY <1>2
<1>5. /\ outbox' \in [Device -> Seq(SUBSET Op)]
      /\ \A e \in Device \ {d} : outbox'[e] = outbox[e]
      /\ UNION Range(outbox'[d]) = (UNION Range(outbox[d])) \union diff
  BY <1>1, <1>3, <1>4, Pushed
<1>6. /\ doc' \in [Device -> SUBSET Op] /\ mirror' \in [Device -> SUBSET Op] /\ dirty' \in [Device -> BOOLEAN]
      /\ doc'[d] = now /\ mirror'[d] = mirror[d] \union diff /\ dirty'[d] = FALSE /\ open'[d]
      /\ \A e \in Device \ {d} : doc'[e] = doc[e] /\ mirror'[e] = mirror[e]
                                 /\ open'[e] = open[e] /\ dirty'[e] = dirty[e]
  BY <1>1, <1>3, <1>4 DEF DurableTypes, RoomTypes
<1>7. StepOf(d, diff)
  BY <1>2, <1>3, <1>5, <1>6 DEF StepOf, DurableTypes, RoomTypes
<1>8. Keeps(d, diff)
  <2>1. Flushable(d) \subseteq Integrated(now) \ mirror[d]
    BY IntegratedGrows DEF Flushable
  <2>2. (now \ Ops) \union Flushable(d) \subseteq diff \union Gone'
    BY <1>2, <1>3, <2>1
  <2>3. mirror[d] \union diff \subseteq Durable \union diff \union Adopted'
    BY <1>2, <1>3, SlipsGrow DEF MirrorAt
  <2>4. Inserts(diff) \subseteq diff
    BY DEF Inserts
  <2> QED BY <1>2, <1>3, <1>6, <2>2, <2>3, <2>4 DEF Keeps
<1> QED BY <1>4, <1>7, <1>8, LocalStep

-----------------------------------------------------------------------------
(* The steps of the program                                                *)

\* A document grows by s, in an open room or by what somebody has.
LEMMA GrowStep ==
    ASSUME Log, NEW d \in Device, NEW s \in SUBSET Op, NEW r \in BOOLEAN,
           doc' = [doc EXCEPT ![d] = doc[d] \union s], dirty' = [dirty EXCEPT ![d] = r],
           UNCHANGED <<outbox, log, cursor, open, mirror>>, Counted', made' \in Nat,
           dirty[d] => r, r => open[d], open[d] /\ ~r => s \subseteq Waived',
           s \ Ops \subseteq Flushable(d)',
           slips \subseteq slips', slips' \in SUBSET (AnySlip \X Op),
           AllSlipped' \subseteq AllSlipped \union s
    PROVE  Log'
<1>1. /\ DurableTypes /\ RoomTypes /\ mirror[d] \subseteq doc[d] /\ doc[d] \subseteq Ops
      /\ doc[d] \in SUBSET Op /\ RoomAt(d) /\ MirrorAt(d) /\ MarkedAt(d)
  BY AtDevice DEF RoomAt
<1>2. /\ doc' \in [Device -> SUBSET Op] /\ dirty' \in [Device -> BOOLEAN]
      /\ doc'[d] = doc[d] \union s /\ dirty'[d] = r
      /\ \A e \in Device \ {d} : doc'[e] = doc[e] /\ dirty'[e] = dirty[e]
  BY <1>1 DEF DurableTypes, RoomTypes
<1>3. /\ outbox' \in [Device -> Seq(SUBSET Op)]
      /\ \A e \in Device \ {d} : outbox'[e] = outbox[e]
      /\ UNION Range(outbox'[d]) = (UNION Range(outbox[d])) \union {}
  BY <1>1, NothingPushed
<1>4. StepOf(d, {})
  BY <1>1, <1>2, <1>3 DEF StepOf, DurableTypes, RoomTypes
<1>5. Keeps(d, {})
  <2>1. Flushable(d) \subseteq Flushable(d)'
    BY <1>2, IntegratedGrows DEF Flushable
  <2>2. (doc'[d] \ Ops) \union Flushable(d) \subseteq Flushable(d)'
    BY <1>1, <1>2, <2>1
  <2>3. mirror'[d] \subseteq Durable \union Adopted'
    BY <1>1, SlipsGrow DEF MirrorAt
  <2>4. open'[d] /\ ~dirty'[d] => doc'[d] \ mirror'[d] \subseteq Durable \union Waived'
    BY <1>1, <1>2, SlipsGrow DEF MarkedAt
  <2>5. Inserts({}) = {}
    BY DEF Inserts
  <2>6. ~open'[d] => mirror'[d] = {}
    BY <1>1 DEF RoomAt
  <2> QED BY <1>1, <1>2, <2>2, <2>3, <2>4, <2>5, <2>6 DEF Keeps
<1> QED BY <1>4, <1>5, LocalStep

\* A new operation of d.
LEMMA Made ==
    ASSUME Log, NEW d \in Device, NEW inserts \in BOOLEAN, Make,
           doc'[d] \in SUBSET Op, doc[d] \union {NewOp(d, inserts)} \subseteq doc'[d],
           doc'[d] \subseteq Ops \union {NewOp(d, inserts)},
           \A e \in Device \ {d} : doc'[e] = doc[e]
    PROVE  /\ Counted' /\ made' \in Nat /\ NewOp(d, inserts) \in Op /\ NewOp(d, inserts) \notin Ops
           /\ NewOp(d, inserts) \in Integrated(doc'[d])
<1> DEFINE o == NewOp(d, inserts)
<1>1. made' = made + 1 /\ made \in Nat
  BY AtDevice DEF Make
<1>2. /\ o \in Op /\ o \notin Ops
      /\ \A N \in SUBSET Op : doc[d] \subseteq N /\ o \in N => o \in Integrated(N)
      /\ Ops' = Ops \union {o} => Counted'
  BY <1>1, NewOpFacts
<1> HIDE DEF o
<1>3. Ops' = Ops \union {o}
  <2>1. \A e \in Device : doc'[e] \subseteq Ops \union {o} /\ doc[e] \subseteq doc'[e]
    BY DEF Ops, o
  <2>2. o \in doc'[d]
    BY DEF o
  <2> QED BY <2>1, <2>2 DEF Ops
<1>4. o \in Integrated(doc'[d])
  BY <1>2 DEF o
<1> QED BY <1>1, <1>2, <1>3, <1>4 DEF o

LEMMA SameOps ==
    ASSUME Log, made' = made, Ops' = Ops
    PROVE  Counted'
BY DEF Log, Counted

LEMMA TypeStep ==
    ASSUME Log, NEW d \in Device, NEW inserts \in BOOLEAN, Type(d, inserts)
    PROVE  Log'
<1> DEFINE o == NewOp(d, inserts)
<1>0. /\ open[d] /\ Make /\ doc' = [doc EXCEPT ![d] = doc[d] \union {o}]
      /\ dirty' = [dirty EXCEPT ![d] = TRUE]
      /\ UNCHANGED <<outbox, log, cursor, open, mirror, slips>>
  BY DEF Type, durable
<1>1. /\ doc \in [Device -> SUBSET Op] /\ doc[d] \subseteq Ops /\ mirror[d] \subseteq doc[d]
      /\ slips \in SUBSET (AnySlip \X Op)
  BY AtDevice DEF RoomAt
<1>2. o \in Op
  <2>1. made' = made + 1
    BY <1>0 DEF Make
  <2> QED BY <2>1, NewOpFacts
<1> HIDE DEF o
<1>3. /\ doc'[d] = doc[d] \union {o} /\ doc'[d] \in SUBSET Op
      /\ \A e \in Device \ {d} : doc'[e] = doc[e]
  BY <1>0, <1>1, <1>2
<1>4. Counted' /\ made' \in Nat /\ o \notin Ops /\ o \in Integrated(doc'[d])
  BY <1>0, <1>1, <1>3, Made DEF o
<1>5. {o} \ Ops \subseteq Flushable(d)'
  <2>1. open'[d] /\ o \notin mirror'[d]
    BY <1>0, <1>1, <1>4
  <2> QED BY <1>4, <2>1 DEF Flushable, Integrated
<1>6. AllSlipped' = AllSlipped
  BY <1>0 DEF AllSlipped, Slipped
<1>7. {o} \in SUBSET Op /\ TRUE \in BOOLEAN
  BY <1>2
<1> QED BY <1>0, <1>1, <1>4, <1>5, <1>6, <1>7, GrowStep

LEMMA TypeAndFailStep ==
    ASSUME Log, NEW d \in Device, NEW inserts \in BOOLEAN, TypeAndFail(d, inserts)
    PROVE  Log'
<1> DEFINE o == NewOp(d, inserts)
<1>0. /\ open[d] /\ Make /\ doc' = [doc EXCEPT ![d] = doc[d] \union {o}]
      /\ slips' = slips \union ({"unmarked"} \X {o})
      /\ UNCHANGED <<outbox, log, cursor, open, mirror, dirty>>
  BY DEF TypeAndFail, durable, room, Slip
<1>1. /\ doc \in [Device -> SUBSET Op] /\ doc[d] \subseteq Ops /\ mirror[d] \subseteq doc[d]
      /\ slips \in SUBSET (AnySlip \X Op) /\ dirty[d] \in BOOLEAN
      /\ dirty = [dirty EXCEPT ![d] = dirty[d]]
      /\ dirty[d] => open[d]
  BY AtDevice DEF RoomAt
<1>2. o \in Op
  <2>1. made' = made + 1
    BY <1>0 DEF Make
  <2> QED BY <2>1, NewOpFacts
<1> HIDE DEF o
<1>3. /\ doc'[d] = doc[d] \union {o} /\ doc'[d] \in SUBSET Op
      /\ \A e \in Device \ {d} : doc'[e] = doc[e]
  BY <1>0, <1>1, <1>2
<1>4. Counted' /\ made' \in Nat /\ o \notin Ops /\ o \in Integrated(doc'[d])
  BY <1>0, <1>1, <1>3, Made DEF o
<1>5. {o} \ Ops \subseteq Flushable(d)'
  <2>1. open'[d] /\ o \notin mirror'[d]
    BY <1>0, <1>1, <1>4
  <2> QED BY <1>4, <2>1 DEF Flushable, Integrated
<1>6. "unmarked" \in AnySlip
  BY DEF AnySlip
<1>7. /\ slips \subseteq slips' /\ slips' \in SUBSET (AnySlip \X Op)
      /\ {"unmarked"} \X {o} \subseteq slips'
      /\ \A x \in slips' : x \in slips \/ x[2] \in {o}
  BY <1>0, <1>1, <1>2, <1>6
<1>8. {o} \subseteq Waived'
  <2>1. <<"unmarked", o>> \in slips'
    BY <1>7
  <2> QED BY <2>1 DEF Waived, Slipped
<1>9. AllSlipped' \subseteq AllSlipped \union {o}
  BY <1>7, SlippedOnly
<1>10. dirty' = [dirty EXCEPT ![d] = dirty[d]]
  <2>1. dirty' = dirty
    BY <1>0
  <2> QED BY <1>1, <2>1, Zenon
<1>11. {o} \in SUBSET Op
  BY <1>2
<1> QED BY <1>0, <1>1, <1>4, <1>5, <1>7, <1>8, <1>9, <1>10, <1>11, GrowStep

LEMMA HearStep ==
    ASSUME Log, NEW d \in Device, NEW o \in Ops,
           doc' = [doc EXCEPT ![d] = doc[d] \union {o}],
           dirty' = [dirty EXCEPT ![d] = WitnessDuty(d)],
           UNCHANGED <<made, outbox, log, cursor, open, mirror, slips>>
    PROVE  Log'
<1>1. /\ doc \in [Device -> SUBSET Op] /\ doc[d] \subseteq Ops /\ made \in Nat
      /\ slips \in SUBSET (AnySlip \X Op) /\ dirty[d] \in BOOLEAN /\ open[d] \in BOOLEAN
      /\ dirty[d] => open[d]
  BY AtDevice DEF RoomAt
<1>2. {o} \in SUBSET Op
  BY <1>1 DEF Ops
<1>3. Ops' = Ops
  <2>1. \A e \in Device : doc'[e] \subseteq Ops /\ doc[e] \subseteq doc'[e]
    BY <1>1 DEF Ops
  <2> QED BY <2>1 DEF Ops
<1>4. Counted' /\ made' \in Nat
  BY <1>1, <1>3, SameOps
<1>5. AllSlipped' = AllSlipped /\ slips \subseteq slips' /\ slips' \in SUBSET (AnySlip \X Op)
  BY <1>1 DEF AllSlipped, Slipped
<1>6. dirty' = [dirty EXCEPT ![d] = open[d]]
  BY <1>1 DEF WitnessDuty
<1>7. {o} \ Ops \subseteq Flushable(d)'
  OBVIOUS
<1> QED BY <1>1, <1>2, <1>4, <1>5, <1>6, <1>7, GrowStep

LEMMA FlushDurableStep ==
    ASSUME Log, NEW d \in Device, FlushDurable(d)
    PROVE  Log'
<1>0. /\ open[d] /\ FlushRoom(d, doc[d])
      /\ UNCHANGED <<made, doc, log, cursor, open>>
  BY DEF FlushDurable
<1>1. /\ doc = [doc EXCEPT ![d] = doc[d]] /\ doc[d] \in SUBSET Op /\ doc[d] \subseteq Ops /\ made \in Nat
  BY AtDevice
<1>2. Counted' /\ made' \in Nat /\ doc' = [doc EXCEPT ![d] = doc[d]]
  BY <1>0, <1>1, SameOps DEF Ops
<1>3. doc[d] \ Ops \subseteq Integrated(doc[d])
  BY <1>1
<1> QED BY <1>0, <1>1, <1>2, <1>3, FlushStep

LEMMA TypeOfflineStep ==
    ASSUME Log, NEW d \in Device, NEW inserts \in BOOLEAN, TypeOffline(d, inserts)
    PROVE  Log'
<1> DEFINE o == NewOp(d, inserts)
           now == doc[d] \union {o}
<1>0. /\ open[d] /\ Make /\ doc' = [doc EXCEPT ![d] = now] /\ FlushRoom(d, now)
      /\ UNCHANGED <<log, cursor, open>>
  BY DEF TypeOffline
<1>1. doc \in [Device -> SUBSET Op] /\ doc[d] \subseteq Ops
  BY AtDevice
<1>2. o \in Op
  <2>1. made' = made + 1
    BY <1>0 DEF Make
  <2> QED BY <2>1, NewOpFacts
<1> HIDE DEF o
<1>3. /\ doc'[d] = now /\ now \in SUBSET Op
      /\ \A e \in Device \ {d} : doc'[e] = doc[e]
  BY <1>0, <1>1, <1>2
<1>4. Counted' /\ made' \in Nat /\ o \notin Ops /\ o \in Integrated(now)
  BY <1>0, <1>1, <1>3, Made DEF o
<1>5. doc[d] \subseteq now /\ now \ Ops \subseteq Integrated(now)
  BY <1>1, <1>4
<1> HIDE DEF now
<1> QED BY <1>0, <1>3, <1>4, <1>5, FlushStep

LEMMA FoldStep ==
    ASSUME Log, NEW d \in Device, Fold(d)
    PROVE  Log'
<1> DEFINE o == NewOp(d, TRUE)
           u == {o} \union Deletes(doc[d])
<1>0. /\ Make /\ doc' = [doc EXCEPT ![d] = doc[d] \union u] /\ PushTo(d, u)
      /\ mirror' = [mirror EXCEPT ![d] = Echoed(d, u)]
      /\ UNCHANGED <<log, cursor, open, dirty, slips>>
  BY DEF Fold
<1>1. /\ doc \in [Device -> SUBSET Op] /\ doc[d] \subseteq Ops /\ DurableTypes /\ RoomTypes
      /\ mirror[d] \subseteq doc[d] /\ RoomAt(d) /\ MirrorAt(d) /\ MarkedAt(d)
  BY AtDevice DEF RoomAt
<1>2. o \in Op
  <2>1. made' = made + 1
    BY <1>0 DEF Make
  <2> QED BY <2>1, NewOpFacts
<1> HIDE DEF o
<1>3. u \in SUBSET Op /\ o \in u /\ u \subseteq Ops \union {o}
  BY <1>1, <1>2 DEF Deletes
<1> HIDE DEF u
<1>4. /\ doc'[d] = doc[d] \union u /\ doc'[d] \in SUBSET Op /\ doc' \in [Device -> SUBSET Op]
      /\ \A e \in Device \ {d} : doc'[e] = doc[e]
  BY <1>0, <1>1, <1>3
<1>5. Counted' /\ made' \in Nat
  <2>1. doc[d] \union {NewOp(d, TRUE)} \subseteq doc'[d] /\ doc'[d] \subseteq Ops \union {NewOp(d, TRUE)}
    BY <1>1, <1>3, <1>4 DEF o
  <2> QED BY <1>0, <1>4, <2>1, Made
<1>6. /\ mirror' \in [Device -> SUBSET Op]
      /\ mirror'[d] = IF open[d] THEN mirror[d] \union u ELSE mirror[d]
      /\ \A e \in Device \ {d} : mirror'[e] = mirror[e]
  BY <1>0, <1>1, <1>3 DEF Echoed, RoomTypes
<1>7. /\ outbox' \in [Device -> Seq(SUBSET Op)]
      /\ \A e \in Device \ {d} : outbox'[e] = outbox[e]
      /\ UNION Range(outbox'[d]) = (UNION Range(outbox[d])) \union u
  BY <1>0, <1>1, <1>3, Pushed
<1>8. StepOf(d, u)
  BY <1>0, <1>1, <1>4, <1>5, <1>6, <1>7 DEF StepOf, DurableTypes, RoomTypes
<1>9. Keeps(d, u)
  <2>1. Flushable(d) \subseteq u \union Flushable(d)'
    <3>1. CASE open[d]
      <4>1. Flushable(d) = Integrated(doc[d]) \ mirror[d]
        BY <3>1 DEF Flushable
      <4>2. Flushable(d)' = Integrated(doc[d] \union u) \ (mirror[d] \union u)
        BY <1>0, <1>4, <1>6, <3>1 DEF Flushable, Integrated
      <4> QED BY <4>1, <4>2, IntegratedGrows
    <3>2. CASE ~open[d]
      BY <3>2 DEF Flushable
    <3> QED BY <3>1, <3>2
  <2>2. (doc'[d] \ Ops) \union Flushable(d) \subseteq u \union Flushable(d)'
    BY <1>1, <1>4, <2>1
  <2>3. AllSlipped' = AllSlipped /\ slips \subseteq slips'
    BY <1>0 DEF AllSlipped, Slipped
  <2>4. mirror'[d] \subseteq Durable \union u \union Adopted'
    BY <1>1, <1>6, <2>3, SlipsGrow DEF MirrorAt
  <2>5. open'[d] /\ ~dirty'[d] => doc'[d] \ mirror'[d] \subseteq Durable \union Waived'
    BY <1>0, <1>1, <1>4, <1>6, <2>3, SlipsGrow DEF MarkedAt
  <2>6. doc[d] \union u \union mirror'[d] \subseteq doc'[d]
    BY <1>1, <1>4, <1>6
  <2>7. (dirty'[d] => open'[d]) /\ (~open'[d] => mirror'[d] = {})
    BY <1>0, <1>1, <1>6 DEF RoomAt
  <2>8. open'[d] => open[d] /\ mirror[d] \union Inserts(u) \subseteq mirror'[d]
    BY <1>0, <1>6 DEF Inserts
  <2> QED BY <2>2, <2>3, <2>4, <2>5, <2>6, <2>7, <2>8 DEF Keeps
<1> QED BY <1>3, <1>8, <1>9, LocalStep

\* LiveCmd::RoomEnter: the mirror takes the whole document.
LEMMA EnterStep ==
    ASSUME Log, NEW d \in Device, NEW edited \in BOOLEAN, Enter(d, edited)
    PROVE  Log'
<1> DEFINE o == NewOp(d, TRUE)
           flushed == IF link[d] = "up" /\ open[d] THEN DiffSince(doc[d], StateVector(mirror[d])) ELSE {}
           folded == IF edited THEN {o} \union Deletes(doc[d]) ELSE {}
           now == doc[d] \union folded
           Q == flushed \union folded
           A == now \ (Durable \union flushed \union folded)
<1>0. /\ doc' = [doc EXCEPT ![d] = now]
      /\ outbox' = [outbox EXCEPT ![d] = outbox[d] \o Sent(flushed) \o Sent(folded)]
      /\ mirror' = [mirror EXCEPT ![d] = now]
      /\ slips' = slips \union ({"adopted"} \X A)
      /\ open' = [open EXCEPT ![d] = TRUE] /\ dirty' = [dirty EXCEPT ![d] = FALSE]
      /\ log' = log /\ cursor' = cursor
      /\ edited => Make
      /\ ~edited => made' = made
  BY DEF Enter, Slip
<1>1. /\ doc \in [Device -> SUBSET Op] /\ doc[d] \subseteq Ops /\ DurableTypes /\ RoomTypes
      /\ mirror[d] \subseteq doc[d] /\ made \in Nat /\ slips \in SUBSET (AnySlip \X Op)
  BY AtDevice DEF RoomAt
<1>2. edited => o \in Op
  <2>1. edited => made' = made + 1
    BY <1>0 DEF Make
  <2> QED BY <2>1, NewOpFacts
<1>3. flushed \subseteq doc[d]
  <2>1. DiffSince(doc[d], StateVector(mirror[d])) \subseteq doc[d]
    BY <1>1, DiffFacts
  <2> QED BY <2>1
<1> HIDE DEF flushed, o
<1>4. folded \in SUBSET Op /\ folded \subseteq doc[d] \union {o} /\ (edited => o \in folded)
  BY <1>1, <1>2 DEF Deletes
<1>5. ~edited => folded = {}
  OBVIOUS
<1> HIDE DEF folded
<1>6. flushed \in SUBSET Op /\ now \in SUBSET Op /\ Q \in SUBSET Op /\ Q \subseteq now
      /\ doc[d] \subseteq now /\ A \subseteq now /\ now \subseteq Durable \union Q \union A
      /\ now \ Ops \subseteq Q
  BY <1>1, <1>3, <1>4
<1> HIDE DEF now
<1>7. /\ doc'[d] = now /\ doc' \in [Device -> SUBSET Op]
      /\ mirror'[d] = now /\ mirror' \in [Device -> SUBSET Op]
      /\ open'[d] = TRUE /\ open' \in [Device -> BOOLEAN]
      /\ dirty'[d] = FALSE /\ dirty' \in [Device -> BOOLEAN]
      /\ \A e \in Device \ {d} : /\ doc'[e] = doc[e] /\ mirror'[e] = mirror[e]
                                 /\ open'[e] = open[e] /\ dirty'[e] = dirty[e]
  BY <1>0, <1>1, <1>6 DEF RoomTypes
<1>8. Counted' /\ made' \in Nat
  <2>1. CASE edited
    <3>1. doc[d] \union {NewOp(d, TRUE)} \subseteq doc'[d] /\ doc'[d] \subseteq Ops \union {NewOp(d, TRUE)}
      BY <1>1, <1>4, <1>7, <2>1 DEF o, now
    <3> QED BY <1>0, <1>6, <1>7, <2>1, <3>1, Made
  <2>2. CASE ~edited
    <3>1. doc'[d] = doc[d]
      BY <1>5, <1>7, <2>2 DEF now
    <3>2. \A e \in Device : doc'[e] = doc[e]
      BY <1>7, <3>1
    <3>3. Ops' = Ops
      BY <3>2 DEF Ops
    <3> QED BY <1>0, <1>1, <2>2, <3>3, SameOps
  <2> QED BY <2>1, <2>2
<1>9. /\ outbox' \in [Device -> Seq(SUBSET Op)]
      /\ \A e \in Device \ {d} : outbox'[e] = outbox[e]
      /\ UNION Range(outbox'[d]) = (UNION Range(outbox[d])) \union Q
  <2>1. outbox \in [Device -> Seq(SUBSET Op)]
    BY <1>1 DEF DurableTypes
  <2>2. /\ outbox[d] \o Sent(flushed) \in Seq(SUBSET Op)
        /\ UNION Range(outbox[d] \o Sent(flushed)) = (UNION Range(outbox[d])) \union flushed
    <3>1. outbox[d] \in Seq(SUBSET Op) /\ flushed \in SUBSET Op
      BY <1>6, <2>1
    <3> QED BY <3>1, QueueGrows
  <2> DEFINE q == outbox[d] \o Sent(flushed)
  <2> HIDE DEF q
  <2>3. q \in Seq(SUBSET Op) /\ UNION Range(q) = (UNION Range(outbox[d])) \union flushed
    BY <2>2 DEF q
  <2>4. /\ q \o Sent(folded) \in Seq(SUBSET Op)
        /\ UNION Range(q \o Sent(folded)) = (UNION Range(q)) \union folded
    <3>1. q \in Seq(SUBSET Op) /\ folded \in SUBSET Op
      BY <1>4, <2>3
    <3> QED BY <3>1, QueueGrows
  <2>5. outbox' = [outbox EXCEPT ![d] = q \o Sent(folded)]
    BY <1>0 DEF q
  <2>6. UNION Range(outbox'[d]) = (UNION Range(outbox[d])) \union Q
    BY <2>1, <2>3, <2>4, <2>5
  <2> QED BY <2>1, <2>4, <2>5, <2>6
<1>10. /\ slips \subseteq slips' /\ slips' \in SUBSET (AnySlip \X Op)
       /\ AllSlipped' \subseteq AllSlipped \union now /\ A \subseteq Adopted' /\ A \subseteq Gone'
  <2>1. "adopted" \in AnySlip
    BY DEF AnySlip
  <2> HIDE DEF A
  <2>2. /\ slips \subseteq slips' /\ slips' \in SUBSET (AnySlip \X Op)
        /\ {"adopted"} \X A \subseteq slips'
        /\ \A x \in slips' : x \in slips \/ x[2] \in A
    BY <1>0, <1>1, <1>6, <2>1
  <2>3. AllSlipped' \subseteq AllSlipped \union A
    BY <2>2, SlippedOnly
  <2>4. A \subseteq Adopted' /\ A \subseteq Gone'
    BY <2>2, SlippedBy DEF Adopted, Gone
  <2> QED BY <1>6, <2>2, <2>3, <2>4
<1> HIDE DEF A, Q
<1>11. StepOf(d, Q)
  BY <1>0, <1>7, <1>8, <1>9, <1>10, <1>1 DEF StepOf, DurableTypes, RoomTypes
<1>12. Keeps(d, Q)
  <2>1. Flushable(d) \subseteq now
    BY <1>6 DEF Flushable, Integrated
  <2>2. (doc'[d] \ Ops) \union Flushable(d) \subseteq Durable \union Q \union Gone'
    BY <1>6, <1>7, <1>10, <2>1
  <2>3. mirror'[d] \subseteq Durable \union Q \union Adopted'
    BY <1>6, <1>7, <1>10
  <2> QED BY <1>6, <1>7, <1>10, <2>2, <2>3 DEF Keeps
<1> QED BY <1>6, <1>11, <1>12, LocalStep

\* A room is closed, by the user or with the process.
LEMMA CloseStep ==
    ASSUME Log, NEW d \in Device, CloseRoom(d), UNCHANGED <<made, doc, log, cursor>>
    PROVE  Log'
<1> DEFINE diff == IF open[d] THEN DiffSince(doc[d], StateVector(mirror[d])) ELSE {}
<1>0. /\ open' = [open EXCEPT ![d] = FALSE] /\ mirror' = [mirror EXCEPT ![d] = {}]
      /\ dirty' = [dirty EXCEPT ![d] = FALSE]
      /\ open[d] => PushTo(d, diff) /\ NothingToSend(d, doc[d], diff)
      /\ ~open[d] => UNCHANGED <<outbox, slips>>
  BY DEF CloseRoom, NeedsFlush
<1>1. /\ DurableTypes /\ RoomTypes /\ doc[d] \in SUBSET Op /\ doc[d] \subseteq Ops
      /\ made \in Nat /\ slips \in SUBSET (AnySlip \X Op)
  BY AtDevice
<1>2. Counted'
  BY SameOps DEF Ops
<1>3. /\ diff \subseteq doc[d] /\ slips \subseteq slips' /\ slips' \in SUBSET (AnySlip \X Op)
      /\ AllSlipped' \subseteq AllSlipped \union doc[d]
      /\ Flushable(d) \subseteq diff \union Gone'
  <2>1. CASE open[d]
    <3>1. diff = DiffSince(doc[d], StateVector(mirror[d])) /\ NothingToSend(d, doc[d], diff)
      BY <1>0, <2>1
    <3>2. Flushable(d) = Integrated(doc[d]) \ mirror[d]
      BY <2>1 DEF Flushable
    <3> HIDE DEF diff
    <3> QED BY <1>1, <3>1, <3>2, FlushFacts
  <2>2. CASE ~open[d]
    <3>1. slips' = slips /\ AllSlipped' = AllSlipped
      BY <1>0, <2>2 DEF AllSlipped, Slipped
    <3> QED BY <1>1, <2>2, <3>1 DEF Flushable
  <2> QED BY <2>1, <2>2
<1>4. /\ outbox' \in [Device -> Seq(SUBSET Op)]
      /\ \A e \in Device \ {d} : outbox'[e] = outbox[e]
      /\ UNION Range(outbox'[d]) = (UNION Range(outbox[d])) \union diff
  <2>1. CASE open[d]
    <3>1. PushTo(d, diff) /\ diff \in SUBSET Op
      BY <1>0, <1>1, <1>3, <2>1
    <3> HIDE DEF diff
    <3> QED BY <1>1, <3>1, Pushed
  <2>2. CASE ~open[d]
    <3>1. outbox' = outbox /\ diff = {}
      BY <1>0, <2>2
    <3> HIDE DEF diff
    <3> QED BY <1>1, <3>1, NothingPushed
  <2> QED BY <2>1, <2>2
<1> HIDE DEF diff
<1>5. /\ mirror'[d] = {} /\ mirror' \in [Device -> SUBSET Op]
      /\ open'[d] = FALSE /\ open' \in [Device -> BOOLEAN]
      /\ dirty'[d] = FALSE /\ dirty' \in [Device -> BOOLEAN]
      /\ \A e \in Device \ {d} : mirror'[e] = mirror[e] /\ open'[e] = open[e] /\ dirty'[e] = dirty[e]
  BY <1>0, <1>1 DEF RoomTypes
<1>6. StepOf(d, diff)
  BY <1>1, <1>2, <1>3, <1>4, <1>5 DEF StepOf, DurableTypes, RoomTypes
<1>7. Keeps(d, diff)
  <2>1. (doc'[d] \ Ops) \union Flushable(d) \subseteq diff \union Gone'
    BY <1>1, <1>3
  <2> QED BY <1>3, <1>5, <2>1 DEF Keeps
<1>8. diff \in SUBSET Op
  BY <1>1, <1>3
<1> QED BY <1>6, <1>7, <1>8, LocalStep

LEMMA CrashStep ==
    ASSUME Log, NEW d \in Device, Crash(d)
    PROVE  Log'
<1> DEFINE Others == UNION {Integrated(doc[e]) \ mirror[e] : e \in {e \in Device \ {d} : open[e]}}
           A == (IF open[d] THEN doc[d] \ mirror[d] ELSE {}) \ Others
<1>0. /\ open' = [open EXCEPT ![d] = FALSE] /\ mirror' = [mirror EXCEPT ![d] = {}]
      /\ dirty' = [dirty EXCEPT ![d] = FALSE]
      /\ slips' = slips \union ({"died"} \X A)
      /\ UNCHANGED <<made, doc, outbox, log, cursor>>
  BY DEF Crash, Slip, durable
<1>1. /\ DurableTypes /\ RoomTypes /\ doc[d] \in SUBSET Op /\ doc[d] \subseteq Ops
      /\ made \in Nat /\ slips \in SUBSET (AnySlip \X Op)
  BY AtDevice
<1>2. Counted'
  BY <1>0, SameOps DEF Ops
<1>3. Others \subseteq UNION {Flushable(e) : e \in Device \ {d}}
  <2>1. \A e \in {e \in Device \ {d} : open[e]} : Integrated(doc[e]) \ mirror[e] = Flushable(e)
    BY DEF Flushable
  <2> QED BY <2>1
<1>4. A \subseteq doc[d] /\ Flushable(d) \subseteq A \union Others
  <2> HIDE DEF Others
  <2> QED BY DEF Flushable, Integrated
<1> HIDE DEF A, Others
<1>5. /\ slips \subseteq slips' /\ slips' \in SUBSET (AnySlip \X Op)
      /\ AllSlipped' \subseteq AllSlipped \union doc[d] /\ A \subseteq Gone'
  <2>1. "died" \in AnySlip
    BY DEF AnySlip
  <2>2. /\ slips \subseteq slips' /\ slips' \in SUBSET (AnySlip \X Op)
        /\ {"died"} \X A \subseteq slips'
        /\ \A x \in slips' : x \in slips \/ x[2] \in A
    BY <1>0, <1>1, <1>4, <2>1
  <2>3. AllSlipped' \subseteq AllSlipped \union A
    BY <2>2, SlippedOnly
  <2>4. A \subseteq Gone'
    BY <2>2, SlippedBy DEF Gone
  <2> QED BY <1>4, <2>2, <2>3, <2>4
<1>6. /\ outbox' \in [Device -> Seq(SUBSET Op)]
      /\ \A e \in Device \ {d} : outbox'[e] = outbox[e]
      /\ UNION Range(outbox'[d]) = (UNION Range(outbox[d])) \union {}
  BY <1>0, <1>1, NothingPushed
<1>7. /\ mirror'[d] = {} /\ mirror' \in [Device -> SUBSET Op]
      /\ open'[d] = FALSE /\ open' \in [Device -> BOOLEAN]
      /\ dirty'[d] = FALSE /\ dirty' \in [Device -> BOOLEAN]
      /\ \A e \in Device \ {d} : mirror'[e] = mirror[e] /\ open'[e] = open[e] /\ dirty'[e] = dirty[e]
  BY <1>0, <1>1 DEF RoomTypes
<1>8. StepOf(d, {})
  BY <1>0, <1>1, <1>2, <1>5, <1>6, <1>7 DEF StepOf, DurableTypes, RoomTypes
<1>9. Keeps(d, {})
  <2>1. (doc'[d] \ Ops) \union Flushable(d) \subseteq Gone' \union (UNION {Flushable(e) : e \in Device \ {d}})
    BY <1>0, <1>1, <1>3, <1>4, <1>5
  <2> QED BY <1>0, <1>5, <1>7, <2>1 DEF Keeps
<1> QED BY <1>8, <1>9, LocalStep

\* A step that changes no document and no room, and loses nothing durable.
LEMMA DurableStep ==
    ASSUME Log, UNCHANGED <<made, doc, open, mirror, dirty, slips, cursor>>,
           outbox' \in [Device -> Seq(SUBSET Op)], log' \in Seq(Entry), Len(log) <= Len(log'),
           Durable' = Durable, \A e \in Device : Met(e)' = Met(e)
    PROVE  Log'
<1>1. DurableTypes' /\ RoomTypes'
  BY DEF Log, DurableTypes, RoomTypes
<1>2. Counted' /\ SlipInv'
  BY DEF Log, Counted, SlipInv, Ops, AllSlipped, Slipped
<1>3. Adopted' = Adopted /\ Gone' = Gone /\ Waived' = Waived
  BY DEF Adopted, Gone, Waived, Slipped
<1>4. CoverInv'
  <2>1. Ops' = Ops /\ \A e \in Device : Flushable(e)' = Flushable(e)
    BY DEF Ops, Flushable, Integrated
  <2>2. UNION {Flushable(e) : e \in Device}' = UNION {Flushable(e) : e \in Device}
    BY <2>1
  <2> QED BY <1>3, <2>1, <2>2 DEF Log, CoverInv
<1>5. (\A e \in Device : RoomAt(e))'
  <2>1. \A e \in Device : RoomAt(e) /\ cursor[e] \in Nat
    BY DEF Log, DurableTypes
  <2>2. Len(log) \in Nat /\ Len(log') \in Nat
    BY DEF Log, DurableTypes
  <2> QED BY <2>1, <2>2 DEF RoomAt
<1>6. (\A e \in Device : MetAt(e))'
  BY DEF Log, MetAt, Inserts
<1>7. (\A e \in Device : MirrorAt(e))' /\ (\A e \in Device : MarkedAt(e))'
  BY <1>3 DEF Log, MirrorAt, MarkedAt
<1> QED BY <1>1, <1>2, <1>4, <1>5, <1>6, <1>7 DEF Log

\* The outbox empties into the log: what was queued is logged.
LEMMA PushStep ==
    ASSUME Log, NEW d \in Device, Push(d)
    PROVE  Log'
<1> DEFINE h == Head(outbox[d])
           entry == [by |-> d, ops |-> h]
<1>0. /\ outbox[d] # <<>> /\ log' = Append(log, entry) /\ outbox' = [outbox EXCEPT ![d] = Tail(outbox[d])]
      /\ UNCHANGED <<made, doc, open, mirror, dirty, slips, cursor>>
  BY DEF Push, room
<1>1. /\ outbox \in [Device -> Seq(SUBSET Op)] /\ log \in Seq(Entry) /\ cursor \in [Device -> Nat]
      /\ \A e \in Device : cursor[e] <= Len(log)
  BY DEF Log, DurableTypes, RoomAt
<1>2. /\ h \in SUBSET Op /\ Tail(outbox[d]) \in Seq(SUBSET Op)
      /\ Range(outbox[d]) = Range(Tail(outbox[d])) \union {h}
  <2>1. outbox[d] \in Seq(SUBSET Op) /\ outbox[d] # <<>>
    BY <1>0, <1>1
  <2> DEFINE q == outbox[d]
  <2> HIDE DEF q
  <2>2. q \in Seq(SUBSET Op) /\ q # <<>>
    BY <2>1 DEF q
  <2>3. /\ Head(q) \in SUBSET Op /\ Tail(q) \in Seq(SUBSET Op) /\ Head(q) = q[1]
        /\ DOMAIN q = 1..Len(q) /\ Len(q) \in Nat \ {0}
        /\ DOMAIN Tail(q) = 1..(Len(q) - 1)
        /\ \A i \in 1..(Len(q) - 1) : Tail(q)[i] = q[i + 1]
    BY <2>2
  <2>4. Range(q) = Range(Tail(q)) \union {Head(q)}
    <3>1. ASSUME NEW i \in 1..Len(q)
          PROVE  q[i] \in Range(Tail(q)) \union {Head(q)}
      <4>1. CASE i = 1
        BY <2>3, <4>1
      <4>2. CASE i # 1
        <5>1. i - 1 \in 1..(Len(q) - 1) /\ Tail(q)[i - 1] = q[i]
          BY <2>3, <4>2
        <5> QED BY <2>3, <5>1 DEF Range
      <4> QED BY <4>1, <4>2
    <3>2. ASSUME NEW i \in 1..(Len(q) - 1)
          PROVE  Tail(q)[i] \in Range(q)
      <4>1. i + 1 \in 1..Len(q)
        BY <2>3
      <4> QED BY <2>3, <4>1 DEF Range
    <3>3. Head(q) \in Range(q)
      <4>1. 1 \in 1..Len(q)
        BY <2>3
      <4> QED BY <2>3, <4>1 DEF Range
    <3>4. \A x : x \in Range(q) <=> \E i \in 1..Len(q) : x = q[i]
      BY <2>3 DEF Range
    <3>5. \A x : x \in Range(Tail(q)) <=> \E i \in 1..(Len(q) - 1) : x = Tail(q)[i]
      BY <2>3 DEF Range
    <3> QED BY <3>1, <3>2, <3>3, <3>4, <3>5
  <2> QED BY <2>3, <2>4 DEF q
<1> HIDE DEF h
<1>3. entry \in Entry /\ entry.by = d /\ entry.ops = h
  BY <1>2 DEF Entry
<1> HIDE DEF entry
<1>4. /\ log' \in Seq(Entry) /\ Len(log') = Len(log) + 1 /\ Len(log) \in Nat
      /\ DOMAIN log = 1..Len(log) /\ DOMAIN log' = 1..(Len(log) + 1)
      /\ \A i \in 1..Len(log) : log'[i] = log[i]
      /\ log'[Len(log) + 1] = entry
  BY <1>0, <1>1, <1>3
<1>5. outbox' \in [Device -> Seq(SUBSET Op)]
  BY <1>0, <1>1, <1>2
<1>6. /\ \A e \in Device : e # d => outbox'[e] = outbox[e]
      /\ UNION Range(outbox[d]) = (UNION Range(outbox'[d])) \union h
  <2>1. Range(outbox[d]) = Range(outbox'[d]) \union {h}
    BY <1>0, <1>1, <1>2
  <2> QED BY <1>0, <1>1, <2>1
<1>7. Durable' = Durable
  <2>1. Logged' = Logged \union h
    <3>1. \A x : x \in Logged' <=> \E i \in 1..(Len(log) + 1) : x \in log'[i].ops
      BY <1>4 DEF Logged
    <3>2. \A x : x \in Logged <=> \E i \in 1..Len(log) : x \in log[i].ops
      BY <1>4 DEF Logged
    <3>3. \A i \in 1..(Len(log) + 1) : i \in 1..Len(log) \/ i = Len(log) + 1
      BY <1>4
    <3>4. 1..Len(log) \subseteq 1..(Len(log) + 1) /\ Len(log) + 1 \in 1..(Len(log) + 1)
      BY <1>4
    <3> QED BY <1>3, <1>4, <3>1, <3>2, <3>3, <3>4
  <2>2. Queued = Queued' \union h
    <3>1. \A x : x \in Queued' <=> \E e \in Device : x \in UNION Range(outbox'[e])
      BY DEF Queued
    <3>2. \A x : x \in Queued <=> \E e \in Device : x \in UNION Range(outbox[e])
      BY DEF Queued
    <3> QED BY <1>6, <3>1, <3>2
  <2> QED BY <2>1, <2>2 DEF Durable
<1>8. \A e \in Device : Met(e)' = Met(e)
  <2> DEFINE Old(e) == UNION {log[i].ops : i \in {i \in DOMAIN log : i <= cursor[e] \/ log[i].by = e}}
             New(e) == UNION {log'[i].ops : i \in {i \in DOMAIN log' : i <= cursor[e] \/ log'[i].by = e}}
  <2>1. \A e \in Device : /\ Met(e) = Old(e) \union (UNION Range(outbox[e]))
                          /\ Met(e)' = New(e) \union (UNION Range(outbox'[e]))
    BY <1>0 DEF Met
  <2>2. ASSUME NEW e \in Device
        PROVE  New(e) = IF e = d THEN Old(e) \union h ELSE Old(e)
    <3>1. \A x : x \in New(e) <=> \E i \in 1..(Len(log) + 1) :
                                      (i <= cursor[e] \/ log'[i].by = e) /\ x \in log'[i].ops
      BY <1>4
    <3>2. \A x : x \in Old(e) <=> \E i \in 1..Len(log) :
                                      (i <= cursor[e] \/ log[i].by = e) /\ x \in log[i].ops
      BY <1>4
    <3>3. \A i \in 1..(Len(log) + 1) : i \in 1..Len(log) \/ i = Len(log) + 1
      BY <1>4
    <3>4. 1..Len(log) \subseteq 1..(Len(log) + 1) /\ Len(log) + 1 \in 1..(Len(log) + 1)
      BY <1>4
    <3>5. ~(Len(log) + 1 <= cursor[e])
      BY <1>1, <1>4
    <3> HIDE DEF Old, New
    <3> QED BY <1>3, <1>4, <3>1, <3>2, <3>3, <3>4, <3>5
  <2> HIDE DEF Old, New
  <2> QED BY <1>6, <2>1, <2>2
<1>9. Len(log) <= Len(log')
  BY <1>4
<1> QED BY <1>0, <1>4, <1>5, <1>7, <1>8, <1>9, DurableStep

LEMMA QuietStep ==
    ASSUME Log, UNCHANGED <<made, doc, outbox, log, cursor, open, mirror, dirty, slips>>
    PROVE  Log'
<1>1. Durable' = Durable /\ \A e \in Device : Met(e)' = Met(e)
  BY DEF Durable, Logged, Queued, Met
<1>2. outbox' \in [Device -> Seq(SUBSET Op)] /\ log' \in Seq(Entry) /\ Len(log) <= Len(log')
  BY DEF Log, DurableTypes
<1> QED BY <1>1, <1>2, DurableStep

\* An Update: what is logged is somebody's, and becomes part of the mirror.
LEMMA ReceiveStep ==
    ASSUME Log, NEW d \in Device, Receive(d)
    PROVE  Log'
<1> DEFINE entry == log[cursor[d] + 1]
           u == IF entry.by = d THEN {} ELSE entry.ops
<1>0. /\ cursor[d] < Len(log) /\ cursor' = [cursor EXCEPT ![d] = cursor[d] + 1]
      /\ doc' = [doc EXCEPT ![d] = doc[d] \union u]
      /\ mirror' = [mirror EXCEPT ![d] = Echoed(d, u)]
      /\ UNCHANGED <<made, outbox, log, open, dirty, slips>>
  BY DEF Receive
<1>1. /\ DurableTypes /\ RoomTypes /\ Counted /\ SlipInv /\ CoverInv
      /\ \A e \in Device : RoomAt(e)
      /\ \A e \in Device : MetAt(e)
      /\ \A e \in Device : MirrorAt(e)
      /\ \A e \in Device : MarkedAt(e)
  BY DEF Log
<1>2. /\ log \in Seq(Entry) /\ cursor \in [Device -> Nat] /\ Len(log) \in Nat
      /\ DOMAIN log = 1..Len(log) /\ doc \in [Device -> SUBSET Op] /\ mirror \in [Device -> SUBSET Op]
  BY <1>1 DEF DurableTypes, RoomTypes
<1>3. cursor[d] + 1 \in DOMAIN log /\ entry \in Entry
  BY <1>0, <1>2
<1>4. entry.by \in Device /\ entry.ops \in SUBSET Op
  BY <1>3 DEF Entry
<1>5. entry.ops \subseteq Met(entry.by) /\ entry.ops \subseteq Logged
  BY <1>3 DEF Met, Logged
<1>6. u \in SUBSET Op /\ u \subseteq Ops /\ u \subseteq Durable
  BY <1>1, <1>4, <1>5 DEF MetAt, Ops, Durable
<1>7. Met(d)' = Met(d) \union u /\ \A e \in Device : e # d => Met(e)' = Met(e)
  <2> DEFINE Old(e) == UNION {log[i].ops : i \in {i \in DOMAIN log : i <= cursor[e] \/ log[i].by = e}}
             New(e) == UNION {log[i].ops : i \in {i \in DOMAIN log : i <= cursor'[e] \/ log[i].by = e}}
  <2>1. \A e \in Device : /\ Met(e) = Old(e) \union (UNION Range(outbox[e]))
                          /\ Met(e)' = New(e) \union (UNION Range(outbox[e]))
    BY <1>0 DEF Met
  <2>2. New(d) = Old(d) \union u
    <3>1. \A x : x \in New(d) <=> \E i \in DOMAIN log : (i <= cursor[d] + 1 \/ log[i].by = d) /\ x \in log[i].ops
      BY <1>0, <1>2
    <3>2. \A x : x \in Old(d) <=> \E i \in DOMAIN log : (i <= cursor[d] \/ log[i].by = d) /\ x \in log[i].ops
      OBVIOUS
    <3>3. \A i \in DOMAIN log : i <= cursor[d] + 1 <=> (i <= cursor[d] \/ i = cursor[d] + 1)
      BY <1>2
    <3> HIDE DEF Old, New
    <3>4. \A x : x \in New(d) <=> (x \in Old(d) \/ x \in u)
      BY <1>3, <3>1, <3>2, <3>3
    <3> QED BY <3>4
  <2>3. \A e \in Device : e # d => New(e) = Old(e)
    BY <1>0, <1>2
  <2> HIDE DEF Old, New
  <2> QED BY <2>1, <2>2, <2>3
<1> HIDE DEF u, entry
<1>8. /\ \A e \in Device : doc'[e] = IF e = d THEN doc[d] \union u ELSE doc[e]
      /\ \A e \in Device : mirror'[e] = IF e = d /\ open[d] THEN mirror[d] \union u ELSE mirror[e]
      /\ \A e \in Device : cursor'[e] = IF e = d THEN cursor[d] + 1 ELSE cursor[e]
  BY <1>0, <1>2 DEF Echoed
<1>9. DurableTypes' /\ RoomTypes'
  <2>1. doc' \in [Device -> SUBSET Op] /\ cursor' \in [Device -> Nat]
    BY <1>0, <1>2, <1>6
  <2>2. Echoed(d, u) \in SUBSET Op
    BY <1>2, <1>6 DEF Echoed
  <2>3. mirror' \in [Device -> SUBSET Op]
    BY <1>0, <1>2, <2>2
  <2> QED BY <1>0, <1>1, <2>1, <2>3 DEF DurableTypes, RoomTypes
<1>10. Ops' = Ops /\ Counted'
  <2>1. \A e \in Device : doc'[e] \subseteq Ops /\ doc[e] \subseteq doc'[e]
    BY <1>6, <1>8 DEF Ops
  <2>2. Ops' = Ops
    BY <2>1 DEF Ops
  <2> QED BY <1>0, <2>2, SameOps
<1>11. Durable' = Durable
  BY <1>0 DEF Durable, Logged, Queued
<1>12. Adopted' = Adopted /\ Gone' = Gone /\ Waived' = Waived /\ AllSlipped' = AllSlipped
  BY <1>0 DEF Adopted, Gone, Waived, AllSlipped, Slipped
<1>13. CoverInv'
  <2>1. ASSUME NEW e \in Device
        PROVE  Flushable(e) \subseteq Flushable(e)' \union Durable
    <3>1. CASE e = d /\ open[d]
      <4>1. Flushable(d) = Integrated(doc[d]) \ mirror[d]
        BY <3>1 DEF Flushable
      <4>2. Flushable(d)' = Integrated(doc[d] \union u) \ (mirror[d] \union u)
        BY <1>0, <1>8, <3>1 DEF Flushable, Integrated
      <4> QED BY <1>6, <3>1, <4>1, <4>2, IntegratedGrows
    <3>2. CASE e # d
      BY <1>0, <1>8, <3>2 DEF Flushable, Integrated
    <3>3. CASE e = d /\ ~open[d]
      BY <3>3 DEF Flushable
    <3> QED BY <3>1, <3>2, <3>3
  <2>2. \A e \in Device : Flushable(e)' \subseteq UNION {Flushable(f) : f \in Device}'
    OBVIOUS
  <2>3. UNION {Flushable(e) : e \in Device} \subseteq Durable \union (UNION {Flushable(e) : e \in Device}')
    BY <2>1, <2>2
  <2> QED BY <1>1, <1>10, <1>11, <1>12, <2>3 DEF CoverInv
<1>14. (\A e \in Device : RoomAt(e))'
  <2>1. cursor[d] + 1 <= Len(log)
    BY <1>0, <1>2
  <2> QED BY <1>0, <1>1, <1>8, <2>1 DEF RoomAt
<1>15. (\A e \in Device : MetAt(e))'
  <2>1. ASSUME NEW e \in Device, e # d
        PROVE  MetAt(e)'
    BY <1>0, <1>1, <1>7, <1>8, <2>1 DEF MetAt, Inserts
  <2>2. MetAt(d)'
    BY <1>0, <1>1, <1>7, <1>8 DEF MetAt, Inserts
  <2> QED BY <2>1, <2>2
<1>16. (\A e \in Device : MirrorAt(e))'
  BY <1>1, <1>6, <1>8, <1>11, <1>12 DEF MirrorAt
<1>17. (\A e \in Device : MarkedAt(e))'
  BY <1>0, <1>1, <1>8, <1>11, <1>12 DEF MarkedAt
<1> QED BY <1>9, <1>10, <1>12, <1>13, <1>14, <1>15, <1>16, <1>17, <1>1 DEF Log, SlipInv

-----------------------------------------------------------------------------
(* The ephemeral channel                                                   *)

LEMMA FramesGrow ==
    ASSUME Ops \subseteq Ops'
    PROVE  /\ Frames \subseteq Frames' /\ \A d \in Device : FramesTo(d) \subseteq FramesTo(d)'
           /\ \A q \in Seq(Frames) : q \in Seq(Frames')
           /\ \A d \in Device : \A q \in Seq(FramesTo(d)) : q \in Seq(FramesTo(d)')
<1>1. Keystrokes \subseteq Keystrokes'
  BY DEF Keystrokes
<1>2. Frames \subseteq Frames' /\ \A d \in Device : FramesTo(d) \subseteq FramesTo(d)'
  BY <1>1 DEF Frames, FramesTo, Presences
<1>3. \A q \in Seq(Frames) : q \in Seq(Frames')
  BY <1>2, SeqMonotonic
<1>4. ASSUME NEW d \in Device, NEW q \in Seq(FramesTo(d))
      PROVE  q \in Seq(FramesTo(d)')
  BY <1>2, SeqMonotonic
<1> QED BY <1>2, <1>3, <1>4

LEMMA UpKept ==
    ASSUME UpInv, Ops \subseteq Ops', up' = up
    PROVE  UpInv'
BY FramesGrow DEF UpInv

LEMMA UpSent ==
    ASSUME UpInv, Ops \subseteq Ops', NEW d \in Device, NEW f \in Frames',
           up' = [up EXCEPT ![d] = Append(up[d], f)]
    PROVE  UpInv'
<1>1. up \in [Device -> Seq(Frames')]
  BY FramesGrow DEF UpInv
<1>2. Append(up[d], f) \in Seq(Frames')
  BY <1>1
<1> QED BY <1>1, <1>2 DEF UpInv

LEMMA UpRead ==
    ASSUME UpInv, Ops' = Ops, NEW d \in Device, up[d] # <<>>, up' = [up EXCEPT ![d] = Tail(up[d])]
    PROVE  UpInv' /\ Head(up[d]) \in Frames
<1>1. up \in [Device -> Seq(Frames)]
  BY DEF UpInv
<1>2. Tail(up[d]) \in Seq(Frames) /\ Head(up[d]) \in Frames
  BY <1>1
<1>3. Frames' = Frames
  BY DEF Frames, Keystrokes, Presences
<1> QED BY <1>1, <1>2, <1>3 DEF UpInv

LEMMA UpCleared ==
    ASSUME UpInv, Ops \subseteq Ops', NEW d \in Device, up' = [up EXCEPT ![d] = <<>>]
    PROVE  UpInv'
<1>1. up \in [Device -> Seq(Frames')]
  BY FramesGrow DEF UpInv
<1>2. <<>> \in Seq(Frames')
  OBVIOUS
<1> QED BY <1>1, <1>2 DEF UpInv

LEMMA AirKept ==
    ASSUME AirInv, Ops \subseteq Ops', air' = air
    PROVE  AirInv'
BY FramesGrow DEF AirInv

\* What is left of a device's stream after a frame, or a session.
LEMMA AirRead ==
    ASSUME AirInv, Ops \subseteq Ops', NEW d \in Device,
           air[d] # <<>>, air' = [air EXCEPT ![d] = Tail(air[d])]
    PROVE  AirInv' /\ Head(air[d]) \in FramesTo(d)
<1>1. air \in [Device -> Seq(Frames)] /\ \A e \in Device : air[e] \in Seq(FramesTo(e))
  BY DEF AirInv
<1>2. /\ Tail(air[d]) \in Seq(Frames) /\ Tail(air[d]) \in Seq(FramesTo(d))
      /\ Head(air[d]) \in FramesTo(d)
  BY <1>1
<1>3. \A e \in Device : air'[e] \in Seq(Frames) /\ air'[e] \in Seq(FramesTo(e))
  BY <1>1, <1>2
<1>4. air' \in [Device -> Seq(Frames')] /\ \A e \in Device : air'[e] \in Seq(FramesTo(e)')
  BY <1>1, <1>3, FramesGrow
<1> QED BY <1>2, <1>4 DEF AirInv

LEMMA AirCleared ==
    ASSUME AirInv, Ops \subseteq Ops', NEW d \in Device, air' = [air EXCEPT ![d] = <<>>]
    PROVE  AirInv'
<1>1. air \in [Device -> Seq(Frames)] /\ \A e \in Device : air[e] \in Seq(FramesTo(e))
  BY DEF AirInv
<1>2. <<>> \in Seq(Frames) /\ <<>> \in Seq(FramesTo(d))
  OBVIOUS
<1>3. \A e \in Device : air'[e] \in Seq(Frames) /\ air'[e] \in Seq(FramesTo(e))
  BY <1>1, <1>2
<1>4. air' \in [Device -> Seq(Frames')] /\ \A e \in Device : air'[e] \in Seq(FramesTo(e)')
  BY <1>1, <1>3, FramesGrow
<1> QED BY <1>4 DEF AirInv

\* The relay does not hand a presence to its own device.
LEMMA AirFanned ==
    ASSUME AirInv, LinkInv, UNCHANGED <<doc, link>>, NEW f \in Frames, FanOut(f)
    PROVE  AirInv' /\ \A e \in Device : link[e] # "up" => air'[e] = air[e]
<1> DEFINE live == {d \in Device \ {Sender(f)} : link[d] = "up"}
<1>1. air \in [Device -> Seq(Frames)] /\ \A e \in Device : air[e] \in Seq(FramesTo(e))
  BY DEF AirInv
<1>2. PICK missed \in SUBSET live :
         air' = [d \in Device |-> IF d \in live \ missed THEN Append(air[d], f) ELSE air[d]]
  BY DEF FanOut
<1>3. ASSUME NEW e \in live
      PROVE  f \in FramesTo(e)
  BY <1>3 DEF Frames, FramesTo, Keystrokes, Presences, Sender
<1>4. \A e \in Device : e \in live => Append(air[e], f) \in Seq(Frames) /\ Append(air[e], f) \in Seq(FramesTo(e))
  BY <1>1, <1>3
<1> HIDE DEF live
<1>5. /\ air' \in [Device -> Seq(Frames)]
      /\ \A e \in Device : air'[e] \in Seq(FramesTo(e))
  BY <1>1, <1>2, <1>4
<1>6. Frames' = Frames /\ \A e \in Device : FramesTo(e)' = FramesTo(e)
  BY DEF Frames, FramesTo, Keystrokes, Presences, Ops
<1>7. \A e \in Device : link[e] # "up" => air'[e] = air[e]
  BY <1>2 DEF live
<1> QED BY <1>5, <1>6, <1>7 DEF AirInv

LEMMA LeftBehindFrames ==
    ASSUME StrayInv, Ops \subseteq Ops', NEW q \in Seq(Frames'), LeftBehind(q)
    PROVE  StrayInv'
<1>1. PICK s \in SUBSET Range(q) : stray' = stray \union s
  BY DEF LeftBehind
<1>2. Range(q) \subseteq Frames'
  <2>1. DOMAIN q = 1..Len(q) /\ \A i \in 1..Len(q) : q[i] \in Frames'
    OBVIOUS
  <2> QED BY <2>1 DEF Range
<1>3. stray \subseteq Frames'
  BY FramesGrow DEF StrayInv
<1> QED BY <1>1, <1>2, <1>3 DEF StrayInv

\* A step that leaves the ephemeral tier alone.
LEMMA WireKept ==
    ASSUME Wire, Ops \subseteq Ops', UNCHANGED <<link, channel, presence>>
    PROVE  Wire'
<1>1. UpInv' /\ AirInv'
  BY UpKept, AirKept DEF Wire, channel
<1>2. StrayInv'
  BY FramesGrow DEF Wire, StrayInv, channel
<1>3. LinkInv' /\ OwnInv' /\ PeersInv'
  BY DEF Wire, LinkInv, OwnInv, PeersInv, channel, presence, Peer
<1> QED BY <1>1, <1>2, <1>3 DEF Wire

\* A session of d ends: nothing is left on its connection.
LEMMA EndStep ==
    ASSUME Wire, Ops \subseteq Ops', NEW d \in Device, NEW to \in {"off", "down"}, End(d, to)
    PROVE  UpInv' /\ AirInv' /\ LinkInv'
<1>1. /\ link' = [link EXCEPT ![d] = to]
      /\ air' = [air EXCEPT ![d] = <<>>] /\ up' = [up EXCEPT ![d] = <<>>]
  BY DEF End
<1>2. UpInv' /\ AirInv'
  BY <1>1, UpCleared, AirCleared DEF Wire
<1>3. LinkInv'
  <2>1. /\ link \in [Device -> {"off", "down", "up"}]
        /\ \A e \in Device : link[e] # "up" => up[e] = <<>> /\ air[e] = <<>>
    BY DEF Wire, LinkInv
  <2>2. \A e \in Device : /\ link'[e] = IF e = d THEN to ELSE link[e]
                          /\ up'[e] = IF e = d THEN <<>> ELSE up[e]
                          /\ air'[e] = IF e = d THEN <<>> ELSE air[e]
    BY <1>1, <2>1 DEF Wire, UpInv, AirInv
  <2>3. link' \in [Device -> {"off", "down", "up"}]
    BY <1>1, <2>1
  <2> QED BY <2>1, <2>2, <2>3 DEF LinkInv
<1> QED BY <1>2, <1>3

\* Nobody is known to a device whose process has ended.
LEMMA PeersForgotten ==
    ASSUME PeersInv, NEW d \in Device, peers' = [peers EXCEPT ![d] = [p \in Device |-> None]]
    PROVE  PeersInv'
BY DEF PeersInv

\* The wall clock.
LEMMA ClockStep ==
    ASSUME OwnInv, NEW d \in Device, Clock(d), UNCHANGED <<said, state>>
    PROVE  OwnInv'
<1>1. PICK tick \in {0, 1} : ts' = [ts EXCEPT ![d] = ts[d] + tick]
  BY DEF Clock
<1> QED BY <1>1 DEF OwnInv

LEMMA PresenceFrame ==
    ASSUME OwnInv', NEW d \in Device, NEW gone \in BOOLEAN
    PROVE  Presence(d, gone) \in Frames'
BY DEF OwnInv, Presence, Frames, Presences

\* A frame is put on the wire by a device that is connected.
LEMMA SendStep ==
    ASSUME UpInv, AirInv, LinkInv, Ops \subseteq Ops', NEW d \in Device, link'[d] = "up",
           link' = link \/ link' = [link EXCEPT ![d] = "up"], air' = air,
           up' = up \/ \E f \in Frames' : up' = [up EXCEPT ![d] = Append(up[d], f)]
    PROVE  UpInv' /\ AirInv' /\ LinkInv'
<1>1. UpInv'
  BY UpKept, UpSent
<1>2. AirInv'
  BY AirKept
<1>3. LinkInv'
  <2>1. \A e \in Device : e # d => up'[e] = up[e] /\ link'[e] = link[e]
    BY DEF UpInv, LinkInv
  <2>2. link' \in [Device -> {"off", "down", "up"}]
    BY DEF LinkInv
  <2> QED BY <2>1, <2>2 DEF LinkInv
<1> QED BY <1>1, <1>2, <1>3

\* A device reads a frame.
LEMMA ReadStep ==
    ASSUME UpInv, AirInv, LinkInv, Ops \subseteq Ops', NEW d \in Device, link[d] = "up",
           air[d] # <<>>, Consume(d), UNCHANGED <<link, up>>
    PROVE  UpInv' /\ AirInv' /\ LinkInv' /\ Head(air[d]) \in FramesTo(d)
<1>1. UpInv'
  BY UpKept
<1>2. air' = [air EXCEPT ![d] = Tail(air[d])]
  BY DEF Consume
<1>3. AirInv' /\ Head(air[d]) \in FramesTo(d)
  BY <1>2, AirRead
<1>4. LinkInv'
  <2>1. \A e \in Device : e # d => air'[e] = air[e]
    BY <1>2 DEF AirInv
  <2> QED BY <2>1 DEF LinkInv
<1> QED BY <1>1, <1>3, <1>4

LEMMA Unchanged ==
    ASSUME StrayInv, OwnInv, PeersInv, Ops \subseteq Ops'
    PROVE  /\ stray' = stray => StrayInv'
           /\ UNCHANGED <<said, state, ts>> => OwnInv'
           /\ peers' = peers => PeersInv'
<1>1. stray' = stray => StrayInv'
  BY FramesGrow DEF StrayInv
<1>2. UNCHANGED <<said, state, ts>> => OwnInv'
  BY DEF OwnInv
<1>3. peers' = peers => PeersInv'
  BY DEF PeersInv, Peer
<1> QED BY <1>1, <1>2, <1>3

LEMMA OpsGrow ==
    ASSUME DurableTypes, NEW d \in Device, NEW N, doc[d] \subseteq N, doc' = [doc EXCEPT ![d] = N]
    PROVE  Ops \subseteq Ops' /\ N \subseteq Ops'
<1>1. \A e \in Device : doc[e] \subseteq doc'[e]
  BY DEF DurableTypes
<1>2. doc'[d] = N
  BY DEF DurableTypes
<1> QED BY <1>1, <1>2 DEF Ops

\* The steps of users, timers and deliveries that only send keystrokes.
LEMMA TypeWire ==
    ASSUME Log, Wire, NEW d \in Device, NEW inserts \in BOOLEAN, Type(d, inserts)
    PROVE  Wire'
<1> DEFINE o == NewOp(d, inserts)
<1>1. /\ link[d] = "up" /\ doc' = [doc EXCEPT ![d] = doc[d] \union {o}]
      /\ up' = up \/ up' = [up EXCEPT ![d] = Append(up[d], Keystroke(o))]
      /\ UNCHANGED <<link, air, stray, said, state, ts, peers>>
  BY DEF Type, presence
<1> HIDE DEF o
<1>2. Ops \subseteq Ops' /\ o \in Ops'
  <2>1. doc[d] \subseteq doc[d] \union {o}
    OBVIOUS
  <2>2. DurableTypes
    BY DEF Log
  <2> QED BY <1>1, <2>1, <2>2, OpsGrow
<1>3. Keystroke(o) \in Frames'
  BY <1>2 DEF Keystroke, Frames, Keystrokes
<1>4. UpInv' /\ AirInv' /\ LinkInv'
  BY <1>1, <1>2, <1>3, SendStep DEF Wire
<1> QED BY <1>1, <1>2, <1>4, Unchanged DEF Wire

LEMMA DocWire ==
    ASSUME Log, Wire, NEW d \in Device,
           \/ \E inserts \in BOOLEAN : TypeOffline(d, inserts)
           \/ \E edited \in BOOLEAN : Enter(d, edited)
           \/ Leave(d) \/ Fold(d) \/ FlushDurable(d) \/ Push(d) \/ Receive(d)
    PROVE  Wire'
<1>1. DurableTypes
  BY DEF Log
<1>2. UNCHANGED <<link, channel, presence>>
  BY DEF TypeOffline, Enter, Leave, Fold, FlushDurable, Push, Receive
<1>3. doc' = doc \/ \E s : doc' = [doc EXCEPT ![d] = doc[d] \union s]
  <2>1. ASSUME NEW inserts \in BOOLEAN, TypeOffline(d, inserts)
        PROVE  \E s : doc' = [doc EXCEPT ![d] = doc[d] \union s]
    BY <2>1 DEF TypeOffline
  <2>2. ASSUME NEW edited \in BOOLEAN, Enter(d, edited)
        PROVE  \E s : doc' = [doc EXCEPT ![d] = doc[d] \union s]
    BY <2>2 DEF Enter
  <2>3. CASE Fold(d)
    BY <2>3 DEF Fold
  <2>4. CASE Receive(d)
    BY <2>4 DEF Receive
  <2>5. CASE Leave(d) \/ FlushDurable(d) \/ Push(d)
    BY <2>5 DEF Leave, FlushDurable, Push
  <2> QED BY <2>1, <2>2, <2>3, <2>4, <2>5
<1>4. Ops \subseteq Ops'
  <2>1. CASE doc' = doc
    BY <2>1 DEF Ops
  <2>2. ASSUME NEW s, doc' = [doc EXCEPT ![d] = doc[d] \union s]
        PROVE  Ops \subseteq Ops'
    BY <1>1, <2>2, OpsGrow
  <2> QED BY <1>3, <2>1, <2>2
<1> QED BY <1>2, <1>4, WireKept

LEMMA TypeAndFailWire ==
    ASSUME Log, Wire, NEW d \in Device, NEW inserts \in BOOLEAN, TypeAndFail(d, inserts)
    PROVE  Wire'
<1> DEFINE o == NewOp(d, inserts)
<1>1. /\ doc' = [doc EXCEPT ![d] = doc[d] \union {o}]
      /\ End(d, "down") /\ LeftBehind(up[d])
      /\ UNCHANGED <<said, state, ts, peers>>
  BY DEF TypeAndFail, presence
<1> HIDE DEF o
<1>2. Ops \subseteq Ops'
  <2>1. doc[d] \subseteq doc[d] \union {o}
    OBVIOUS
  <2>2. DurableTypes
    BY DEF Log
  <2> QED BY <1>1, <2>1, <2>2, OpsGrow
<1>3. UpInv' /\ AirInv' /\ LinkInv'
  BY <1>1, <1>2, EndStep
<1>4. up[d] \in Seq(Frames')
  BY <1>2, FramesGrow DEF Wire, UpInv
<1>5. StrayInv'
  BY <1>1, <1>2, <1>4, LeftBehindFrames DEF Wire
<1> QED BY <1>1, <1>2, <1>3, <1>5, Unchanged DEF Wire

LEMMA HearKeystrokeStep ==
    ASSUME Log, Wire, NEW d \in Device, HearKeystroke(d)
    PROVE  Log' /\ Wire'
<1> DEFINE o == Head(air[d]).op
<1>1. /\ link[d] = "up" /\ air[d] # <<>> /\ Head(air[d]).kind = "coedit" /\ Consume(d)
      /\ doc' = [doc EXCEPT ![d] = doc[d] \union {o}] /\ dirty' = [dirty EXCEPT ![d] = WitnessDuty(d)]
      /\ UNCHANGED <<made, outbox, log, cursor, open, mirror, slips>>
      /\ UNCHANGED <<link, up, stray, said, state, ts, peers>>
  BY DEF HearKeystroke, Frame, durable, presence
<1> HIDE DEF o
<1>2. Ops \subseteq Ops'
  <2>1. doc[d] \subseteq doc[d] \union {o}
    OBVIOUS
  <2>2. DurableTypes
    BY DEF Log
  <2> QED BY <1>1, <2>1, <2>2, OpsGrow
<1>3. UpInv' /\ AirInv' /\ LinkInv' /\ Head(air[d]) \in FramesTo(d)
  BY <1>1, <1>2, ReadStep DEF Wire
<1>4. o \in Ops
  BY <1>1, <1>3 DEF FramesTo, Keystrokes, Presences, o
<1>5. Log'
  BY <1>1, <1>4, HearStep
<1> QED BY <1>1, <1>2, <1>3, <1>5, Unchanged DEF Wire

\* The relay reads a frame.
LEMMA RelayStep ==
    ASSUME Log, Wire, NEW d \in Device, Relay(d)
    PROVE  Log' /\ Wire'
<1>1. /\ up[d] # <<>> /\ FanOut(Head(up[d])) /\ up' = [up EXCEPT ![d] = Tail(up[d])]
      /\ UNCHANGED <<made, doc, outbox, log, cursor, open, mirror, dirty, slips>>
      /\ UNCHANGED <<link, stray, said, state, ts, peers>>
  BY DEF Relay, durable, room, presence
<1>2. Ops' = Ops
  BY <1>1 DEF Ops
<1>3. UpInv' /\ Head(up[d]) \in Frames
  BY <1>1, <1>2, UpRead DEF Wire
<1>4. AirInv' /\ \A e \in Device : link[e] # "up" => air'[e] = air[e]
  BY <1>1, <1>3, AirFanned DEF Wire
<1>5. LinkInv'
  <2>1. \A e \in Device : e # d => up'[e] = up[e]
    BY <1>1 DEF Wire, UpInv
  <2>2. link[d] = "up"
    BY <1>1 DEF Wire, LinkInv
  <2> QED BY <1>1, <1>4, <2>1, <2>2 DEF Wire, LinkInv
<1>6. Log'
  BY <1>1, QuietStep
<1> QED BY <1>1, <1>2, <1>3, <1>4, <1>5, <1>6, Unchanged DEF Wire

LEMMA RelayStrayStep ==
    ASSUME Log, Wire, RelayStray
    PROVE  Log' /\ Wire'
<1>1. /\ UNCHANGED <<made, doc, outbox, log, cursor, open, mirror, dirty, slips>>
      /\ UNCHANGED <<link, up, said, state, ts, peers>>
  BY DEF RelayStray, durable, room, presence
<1>2. PICK f \in stray : FanOut(f) /\ stray' = stray \ {f}
  BY DEF RelayStray
<1>3. Ops' = Ops /\ f \in Frames
  BY <1>1, <1>2 DEF Ops, Wire, StrayInv
<1>4. AirInv' /\ \A e \in Device : link[e] # "up" => air'[e] = air[e]
  BY <1>1, <1>2, <1>3, AirFanned DEF Wire
<1>5. UpInv' /\ LinkInv'
  BY <1>1, <1>3, <1>4, UpKept DEF Wire, LinkInv
<1>6. StrayInv'
  BY <1>2, <1>3, FramesGrow DEF Wire, StrayInv
<1>7. Log'
  BY <1>1, QuietStep
<1> QED BY <1>1, <1>3, <1>4, <1>5, <1>6, <1>7, Unchanged DEF Wire

LEMMA SetStateStep ==
    ASSUME Log, Wire, NEW d \in Device, SetState(d)
    PROVE  Log' /\ Wire'
<1>1. /\ said' = [said EXCEPT ![d] = said[d] + 1] /\ state' = [state EXCEPT ![d] = said'[d]] /\ Clock(d)
      /\ UNCHANGED <<made, doc, outbox, log, cursor, open, mirror, dirty, slips>>
      /\ UNCHANGED <<link, up, air, stray, peers>>
  BY DEF SetState, Say, durable, room, channel
<1>2. Ops' = Ops
  BY <1>1 DEF Ops
<1>3. OwnInv'
  <2>1. PICK tick \in {0, 1} : ts' = [ts EXCEPT ![d] = ts[d] + tick]
    BY <1>1 DEF Clock
  <2>2. said' \in [Device -> Nat]
    BY <1>1 DEF Wire, OwnInv
  <2> QED BY <1>1, <2>1, <2>2 DEF Wire, OwnInv
<1>4. UpInv' /\ AirInv' /\ LinkInv'
  BY <1>1, <1>2, UpKept, AirKept DEF Wire, LinkInv
<1>5. Log'
  BY <1>1, QuietStep
<1> QED BY <1>1, <1>2, <1>3, <1>4, <1>5, Unchanged DEF Wire

LEMMA SendPresenceStep ==
    ASSUME Log, Wire, NEW d \in Device, SendPresence(d)
    PROVE  Log' /\ Wire'
<1>1. /\ link[d] = "up" /\ up' = [up EXCEPT ![d] = Append(up[d], Presence(d, FALSE))]
      /\ UNCHANGED <<made, doc, outbox, log, cursor, open, mirror, dirty, slips>>
      /\ UNCHANGED <<link, air, stray, said, state, ts, peers>>
  BY DEF SendPresence, Announce, durable, room
<1>2. Ops' = Ops
  BY <1>1 DEF Ops
<1>3. OwnInv' /\ StrayInv' /\ PeersInv'
  BY <1>1, <1>2, Unchanged DEF Wire
<1>4. Presence(d, FALSE) \in Frames'
  BY <1>3, PresenceFrame
<1>5. UpInv' /\ AirInv' /\ LinkInv'
  BY <1>1, <1>2, <1>4, SendStep DEF Wire
<1>6. Log'
  BY <1>1, QuietStep
<1> QED BY <1>3, <1>5, <1>6 DEF Wire

\* PeerTracker::observe: of another device.
LEMMA HearPresenceStep ==
    ASSUME Log, Wire, NEW d \in Device, HearPresence(d)
    PROVE  Log' /\ Wire'
<1> DEFINE f == Head(air[d])
<1>1. /\ link[d] = "up" /\ air[d] # <<>> /\ f.kind = "presence" /\ Consume(d)
      /\ \/ peers' = peers
         \/ peers' = [peers EXCEPT ![d][f.from] = None]
         \/ peers' = [peers EXCEPT ![d][f.from] = [state |-> f.state, ts |-> f.ts]]
      /\ UNCHANGED <<made, doc, outbox, log, cursor, open, mirror, dirty, slips>>
      /\ UNCHANGED <<link, up, stray, said, state, ts>>
  BY DEF HearPresence, Frame, durable, room
<1>2. Ops' = Ops
  BY <1>1 DEF Ops
<1>3. UpInv' /\ AirInv' /\ LinkInv' /\ f \in FramesTo(d)
  BY <1>1, <1>2, ReadStep DEF Wire
<1>4. f.from \in Device \ {d} /\ [state |-> f.state, ts |-> f.ts] \in Peer
  BY <1>1, <1>3 DEF FramesTo, Keystrokes, Presences, Peer
<1> HIDE DEF f
<1>5. PeersInv'
  <2>1. peers \in [Device -> [Device -> Peer \union {None}]] /\ \A e \in Device : peers[e][e] = None
    BY DEF Wire, PeersInv
  <2>2. ASSUME NEW x \in Peer \union {None}, peers' = [peers EXCEPT ![d][f.from] = x]
        PROVE  PeersInv'
    <3>1. peers' \in [Device -> [Device -> Peer \union {None}]]
      BY <1>4, <2>1, <2>2
    <3>2. \A e \in Device : peers'[e][e] = peers[e][e]
      BY <1>4, <2>1, <2>2
    <3> QED BY <2>1, <3>1, <3>2 DEF PeersInv, Peer
  <2>3. CASE peers' = peers
    BY <2>1, <2>3 DEF PeersInv, Peer
  <2> QED BY <1>1, <1>4, <2>2, <2>3
<1>6. Log'
  BY <1>1, QuietStep
<1> QED BY <1>1, <1>2, <1>3, <1>5, <1>6, Unchanged DEF Wire

LEMMA SweepStep ==
    ASSUME Log, Wire, NEW d \in Device, Sweep(d)
    PROVE  Log' /\ Wire'
<1>1. /\ peers' = [peers EXCEPT ![d] = [p \in Device |-> IF Silent(d, p) THEN None ELSE peers[d][p]]]
      /\ UNCHANGED <<made, doc, outbox, log, cursor, open, mirror, dirty, slips>>
      /\ UNCHANGED <<link, up, air, stray, said, state, ts>>
  BY DEF Sweep, durable, room, channel
<1>2. Ops' = Ops
  BY <1>1 DEF Ops
<1>3. PeersInv'
  <2>1. peers \in [Device -> [Device -> Peer \union {None}]] /\ \A e \in Device : peers[e][e] = None
    BY DEF Wire, PeersInv
  <2> DEFINE g == [p \in Device |-> IF Silent(d, p) THEN None ELSE peers[d][p]]
  <2>2. g \in [Device -> Peer \union {None}] /\ g[d] = None
    BY <2>1
  <2> HIDE DEF g
  <2>3. peers' = [peers EXCEPT ![d] = g]
    BY <1>1 DEF g
  <2> QED BY <2>1, <2>2, <2>3 DEF PeersInv, Peer
<1>4. UpInv' /\ AirInv' /\ LinkInv'
  BY <1>1, <1>2, UpKept, AirKept DEF Wire, LinkInv
<1>5. Log'
  BY <1>1, QuietStep
<1> QED BY <1>1, <1>2, <1>3, <1>4, <1>5, Unchanged DEF Wire

\* The Welcome announces the device.
LEMMA ConnectStep ==
    ASSUME Log, Wire, NEW d \in Device, Connect(d)
    PROVE  Log' /\ Wire'
<1>1. /\ link' = [link EXCEPT ![d] = "up"] /\ Clock(d) /\ UNCHANGED <<said, state>>
      /\ up' = up \/ up' = [up EXCEPT ![d] = Append(up[d], Presence(d, FALSE))]
      /\ UNCHANGED <<made, doc, outbox, log, cursor, open, mirror, dirty, slips>>
      /\ UNCHANGED <<air, stray, peers>>
  BY DEF Connect, Announce, durable, room
<1>2. Ops' = Ops
  BY <1>1 DEF Ops
<1>3. OwnInv' /\ StrayInv' /\ PeersInv'
  BY <1>1, <1>2, ClockStep, Unchanged DEF Wire
<1>4. Presence(d, FALSE) \in Frames'
  BY <1>3, PresenceFrame
<1>5. link'[d] = "up"
  BY <1>1 DEF Wire, LinkInv
<1>6. UpInv' /\ AirInv' /\ LinkInv'
  BY <1>1, <1>2, <1>4, <1>5, SendStep DEF Wire
<1>7. Log'
  BY <1>1, QuietStep
<1> QED BY <1>3, <1>6, <1>7 DEF Wire

LEMMA StartStep ==
    ASSUME Log, Wire, NEW d \in Device, Start(d)
    PROVE  Log' /\ Wire'
<1>1. /\ link[d] = "off" /\ link' = [link EXCEPT ![d] = "down"]
      /\ UNCHANGED <<made, doc, outbox, log, cursor, open, mirror, dirty, slips>>
      /\ said' = [said EXCEPT ![d] = 0] /\ state' = [state EXCEPT ![d] = 0]
      /\ UNCHANGED <<up, air, stray, ts, peers>>
  BY DEF Start, durable, room, channel
<1>2. Ops' = Ops
  BY <1>1 DEF Ops
<1>3. UpInv' /\ AirInv'
  BY <1>1, <1>2, UpKept, AirKept DEF Wire
<1>4. LinkInv'
  BY <1>1 DEF Wire, LinkInv
<1>5. Log'
  BY <1>1, QuietStep
<1>6. OwnInv'
  BY <1>1 DEF Wire, OwnInv
<1> QED BY <1>1, <1>2, <1>3, <1>4, <1>5, <1>6, Unchanged DEF Wire

LEMMA DisconnectStep ==
    ASSUME Log, Wire, NEW d \in Device, Disconnect(d)
    PROVE  Log' /\ Wire'
<1>1. /\ End(d, "down") /\ LeftBehind(up[d])
      /\ UNCHANGED <<made, doc, outbox, log, cursor, open, mirror, dirty, slips>>
      /\ UNCHANGED <<said, state, ts, peers>>
  BY DEF Disconnect, durable, room, presence
<1>2. Ops \subseteq Ops'
  BY <1>1 DEF Ops
<1>3. UpInv' /\ AirInv' /\ LinkInv'
  BY <1>1, <1>2, EndStep
<1>4. up[d] \in Seq(Frames')
  BY <1>2, FramesGrow DEF Wire, UpInv
<1>5. StrayInv'
  BY <1>1, <1>2, <1>4, LeftBehindFrames DEF Wire
<1>6. Log'
  BY <1>1, QuietStep
<1> QED BY <1>1, <1>2, <1>3, <1>5, <1>6, Unchanged DEF Wire

LEMMA BurstFailsStep ==
    ASSUME Log, Wire, NEW d \in Device, BurstFails(d)
    PROVE  Log' /\ Wire'
<1>1. /\ End(d, "down") /\ LeftBehind(up[d])
      /\ said' = [said EXCEPT ![d] = said[d] + 1]
      /\ UNCHANGED <<made, doc, outbox, log, cursor, open, mirror, dirty, slips>>
      /\ UNCHANGED <<state, ts, peers>>
  BY DEF BurstFails, Say, durable, room
<1>2. Ops \subseteq Ops'
  BY <1>1 DEF Ops
<1>3. UpInv' /\ AirInv' /\ LinkInv'
  BY <1>1, <1>2, EndStep
<1>4. up[d] \in Seq(Frames')
  BY <1>2, FramesGrow DEF Wire, UpInv
<1>5. StrayInv'
  BY <1>1, <1>2, <1>4, LeftBehindFrames DEF Wire
<1>6. OwnInv'
  BY <1>1 DEF Wire, OwnInv
<1>7. Log'
  BY <1>1, QuietStep
<1> QED BY <1>1, <1>2, <1>3, <1>5, <1>6, <1>7, Unchanged DEF Wire

LEMMA CrashWire ==
    ASSUME Log, Wire, NEW d \in Device, Crash(d)
    PROVE  Wire'
<1>1. /\ End(d, "off") /\ LeftBehind(up[d])
      /\ peers' = [peers EXCEPT ![d] = [p \in Device |-> None]]
      /\ UNCHANGED <<doc, said, state, ts>>
  BY DEF Crash
<1>2. Ops \subseteq Ops'
  BY <1>1 DEF Ops
<1>3. UpInv' /\ AirInv' /\ LinkInv'
  BY <1>1, <1>2, EndStep
<1>4. up[d] \in Seq(Frames')
  BY <1>2, FramesGrow DEF Wire, UpInv
<1>5. StrayInv' /\ PeersInv'
  BY <1>1, <1>2, <1>4, LeftBehindFrames, PeersForgotten DEF Wire
<1> QED BY <1>1, <1>2, <1>3, <1>5, Unchanged DEF Wire

\* A clean shutdown: what is left behind may end with the goodbye.
LEMMA QuitWire ==
    ASSUME Log, Wire, NEW d \in Device, Quit(d)
    PROVE  Wire'
<1>1. /\ End(d, "off") /\ Clock(d) /\ UNCHANGED <<said, state>>
      /\ LeftBehind(IF link[d] = "up" /\ Travels("presence")
                    THEN Append(up[d], Presence(d, TRUE)) ELSE up[d])
      /\ peers' = [peers EXCEPT ![d] = [p \in Device |-> None]]
      /\ doc' = doc
  BY DEF Quit
<1>2. Ops \subseteq Ops'
  BY <1>1 DEF Ops
<1>3. UpInv' /\ AirInv' /\ LinkInv'
  BY <1>1, <1>2, EndStep
<1>4. OwnInv' /\ PeersInv'
  BY <1>1, ClockStep, PeersForgotten DEF Wire
<1>5. Presence(d, TRUE) \in Frames'
  BY <1>4, PresenceFrame
<1>6. up[d] \in Seq(Frames')
  BY <1>2, FramesGrow DEF Wire, UpInv
<1>7. Append(up[d], Presence(d, TRUE)) \in Seq(Frames')
  <2>1. \A f \in Frames' : Append(up[d], f) \in Seq(Frames')
    BY <1>6
  <2> QED BY <1>5, <2>1
<1>8. StrayInv'
  <2>1. CASE link[d] = "up" /\ Travels("presence")
    <3>1. LeftBehind(Append(up[d], Presence(d, TRUE)))
      BY <1>1, <2>1
    <3> QED BY <1>2, <1>7, <3>1, LeftBehindFrames DEF Wire
  <2>2. CASE ~(link[d] = "up" /\ Travels("presence"))
    <3>1. LeftBehind(up[d])
      BY <1>1, <2>2
    <3> QED BY <1>2, <1>6, <3>1, LeftBehindFrames DEF Wire
  <2> QED BY <2>1, <2>2
<1> QED BY <1>3, <1>4, <1>8 DEF Wire

-----------------------------------------------------------------------------
(* Every step                                                              *)

LEMMA StepInv ==
    ASSUME RInv, [Next]_vars
    PROVE  RInv'
<1> USE DEF RInv
<1>1. ASSUME NEW d \in Device, User(d)
      PROVE  Log' /\ Wire'
  <2>1. ASSUME NEW inserts \in BOOLEAN, Type(d, inserts)
        PROVE  Log' /\ Wire'
    BY <2>1, TypeStep, TypeWire
  <2>2. ASSUME NEW inserts \in BOOLEAN, TypeOffline(d, inserts)
        PROVE  Log' /\ Wire'
    BY <2>2, TypeOfflineStep, DocWire
  <2>3. ASSUME NEW inserts \in BOOLEAN, TypeAndFail(d, inserts)
        PROVE  Log' /\ Wire'
    BY <2>3, TypeAndFailStep, TypeAndFailWire
  <2>4. ASSUME NEW edited \in BOOLEAN, Enter(d, edited)
        PROVE  Log' /\ Wire'
    BY <2>4, EnterStep, DocWire
  <2>5. CASE Leave(d)
    <3>1. CloseRoom(d) /\ UNCHANGED <<made, doc, log, cursor>>
      BY <2>5 DEF Leave
    <3> QED BY <2>5, <3>1, CloseStep, DocWire
  <2>6. CASE Fold(d)
    BY <2>6, FoldStep, DocWire
  <2>7. CASE SetState(d)
    BY <2>7, SetStateStep
  <2>8. CASE BurstFails(d)
    BY <2>8, BurstFailsStep
  <2> QED BY <1>1, <2>1, <2>2, <2>3, <2>4, <2>5, <2>6, <2>7, <2>8 DEF User
<1>2. ASSUME NEW d \in Device, Client(d)
      PROVE  Log' /\ Wire'
  <2>1. CASE FlushDurable(d)
    BY <2>1, FlushDurableStep, DocWire
  <2>2. CASE Push(d)
    BY <2>2, PushStep, DocWire
  <2>3. CASE HearKeystroke(d)
    BY <2>3, HearKeystrokeStep
  <2>4. CASE HearPresence(d)
    BY <2>4, HearPresenceStep
  <2> QED BY <1>2, <2>1, <2>2, <2>3, <2>4 DEF Client
<1>3. ASSUME NEW d \in Device, Receive(d)
      PROVE  Log' /\ Wire'
  BY <1>3, ReceiveStep, DocWire
<1>4. ASSUME NEW d \in Device, Relay(d) \/ SendPresence(d) \/ Sweep(d)
      PROVE  Log' /\ Wire'
  BY <1>4, RelayStep, SendPresenceStep, SweepStep
<1>5. ASSUME NEW d \in Device, Start(d) \/ Connect(d) \/ Disconnect(d)
      PROVE  Log' /\ Wire'
  BY <1>5, StartStep, ConnectStep, DisconnectStep
<1>6. ASSUME NEW d \in Device, Crash(d)
      PROVE  Log' /\ Wire'
  BY <1>6, CrashStep, CrashWire
<1>7. ASSUME NEW d \in Device, Quit(d)
      PROVE  Log' /\ Wire'
  <2>1. CloseRoom(d) /\ UNCHANGED <<made, doc, log, cursor>>
    BY <1>7 DEF Quit
  <2> QED BY <1>7, <2>1, CloseStep, QuitWire
<1>8. ASSUME RelayStray
      PROVE  Log' /\ Wire'
  BY <1>8, RelayStrayStep
<1>9. ASSUME UNCHANGED vars
      PROVE  Log' /\ Wire'
  <2>1. /\ UNCHANGED <<made, doc, outbox, log, cursor, open, mirror, dirty, slips>>
        /\ UNCHANGED <<link, channel, presence>>
    BY <1>9 DEF vars, durable, room
  <2>2. Ops' = Ops
    BY <2>1 DEF Ops
  <2> QED BY <2>1, <2>2, QuietStep, WireKept
<1>10. cast' = cast
  <2>1. CASE UNCHANGED vars
    BY <2>1 DEF vars
  <2>2. ASSUME NEW d \in Device, User(d)
        PROVE  cast' = cast
    BY <2>2 DEF User, Type, TypeOffline, TypeAndFail, Enter, Leave, Fold, SetState, BurstFails
  <2>3. ASSUME NEW d \in Device, Client(d) \/ Receive(d)
        PROVE  cast' = cast
    BY <2>3 DEF Client, FlushDurable, Push, HearKeystroke, HearPresence, Receive
  <2>4. ASSUME NEW d \in Device, Relay(d) \/ SendPresence(d) \/ Sweep(d)
        PROVE  cast' = cast
    BY <2>4 DEF Relay, SendPresence, Sweep
  <2>5. ASSUME NEW d \in Device, Start(d) \/ Connect(d) \/ Disconnect(d) \/ Crash(d) \/ Quit(d)
        PROVE  cast' = cast
    BY <2>5 DEF Start, Connect, Disconnect, Crash, Quit
  <2>6. CASE RelayStray
    BY <2>6 DEF RelayStray
  <2> QED BY <2>1, <2>2, <2>3, <2>4, <2>5, <2>6 DEF Next
<1>11. Log' /\ Wire'
  BY <1>1, <1>2, <1>3, <1>4, <1>5, <1>6, <1>7, <1>8, <1>9 DEF Next
<1> QED BY <1>10, <1>11

LEMMA InitInv ==
    ASSUME RoomAssumption, Init
    PROVE  RInv
<1>1. Ops = {} /\ Durable = {} /\ AllSlipped = {}
  <2>1. Logged = {}
    BY DEF Init, Logged
  <2>2. Queued = {}
    BY DEF Init, Queued, Range
  <2> QED BY <2>1, <2>2 DEF Init, Ops, Durable, AllSlipped, Slipped
<1>2. DurableTypes /\ RoomTypes
  <2>1. log \in Seq(Entry) /\ outbox \in [Device -> Seq(SUBSET Op)]
    BY DEF Init
  <2> QED BY <2>1 DEF Init, DurableTypes, RoomTypes
<1>3. Counted
  BY <1>1, FS_EmptySet DEF Init, Counted
<1>4. SlipInv /\ CoverInv
  BY <1>1 DEF SlipInv, CoverInv
<1>5. \A d \in Device : RoomAt(d) /\ MetAt(d) /\ MirrorAt(d) /\ MarkedAt(d)
  <2>1. \A d \in Device : Met(d) = {}
    BY DEF Init, Met, Range
  <2>2. Len(log) = 0
    BY DEF Init
  <2> QED BY <2>1, <2>2 DEF Init, RoomAt, MetAt, MirrorAt, MarkedAt
<1>6. UpInv /\ AirInv
  <2>1. <<>> \in Seq(Frames) /\ \A d \in Device : <<>> \in Seq(FramesTo(d))
    OBVIOUS
  <2> QED BY <2>1 DEF Init, UpInv, AirInv
<1>7. StrayInv /\ LinkInv /\ OwnInv /\ PeersInv
  BY DEF Init, StrayInv, LinkInv, OwnInv, PeersInv
<1> QED BY <1>2, <1>3, <1>4, <1>5, <1>6, <1>7 DEF Init, RInv, Log, Wire

-----------------------------------------------------------------------------
(* The theorems                                                            *)

\* The invariant holds in every behaviour of Room.
THEOREM Invariance == Spec => []RInv
<1>1. Init => RInv
  BY InitInv, RoomAssumption
<1>2. RInv /\ [Next]_vars => RInv'
  BY StepInv
<1> QED BY <1>1, <1>2, PTL DEF Spec

\* Types; as many operations as were made, whoever has them, and none is lost
\* from the count by a merge, a frame or a crash.
THEOREM TypeCorrect == Spec => []TypeOK
<1>1. RInv => TypeOK
  <2> SUFFICES ASSUME RInv
               PROVE  TypeOK
    OBVIOUS
  <2>1. Counted /\ SlipInv /\ LinkInv /\ PeersInv /\ \A d \in Device : RoomAt(d)
    BY DEF RInv, Log, Wire
  <2> QED BY <2>1 DEF TypeOK, Counted, SlipInv, AllSlipped, LinkInv, PeersInv, RoomAt
<1> QED BY <1>1, Invariance, PTL

\* What any device has seen typed is in the log, in an outbox, or will be
\* flushed by an open room, but for the named gaps (flush_room_durable, the
\* timers and the witness's duty in live.rs and coedit.rs).
THEOREM KeystrokesCovered == Spec => []Covered
<1>1. RInv => Covered
  <2> SUFFICES ASSUME RInv
               PROVE  Covered
    OBVIOUS
  <2>1. CoverInv /\ \A d \in Device : MarkedAt(d)
    BY DEF RInv, Log
  <2>2. Waived \subseteq Slipped({"unmarked", "early"}) \union Gone
    BY DEF Waived, Gone, Slipped
  <2>3. ASSUME NEW d \in Device
        PROVE  Flushable(d) \subseteq Unflushed(d) \union Durable \union Gone
    BY <2>1, <2>2 DEF Flushable, Unflushed, MarkedAt, Integrated
  <2>4. UNION {Flushable(d) : d \in Device} \subseteq
            Durable \union Gone \union (UNION {Unflushed(d) : d \in Device})
    <3>1. \A d \in Device : Unflushed(d) \subseteq UNION {Unflushed(e) : e \in Device}
      OBVIOUS
    <3> HIDE DEF Flushable, Unflushed
    <3> QED BY <2>3, <3>1
  <2> QED BY <2>1, <2>4 DEF Covered, CoverInv, Gone
<1> QED BY <1>1, Invariance, PTL

\* A room's mirror holds what is durable or was adopted, and all insertions
\* that the device has received or queued: a flush neither skips what the log
\* lacks nor logs again what it has (MirrorDoc, apply_durable_update).
THEOREM MirrorsExact == Spec => []MirrorExact
<1>1. RInv => MirrorExact
  <2> SUFFICES ASSUME RInv, NEW d \in Device, open[d]
               PROVE  LET reached == (UNION {log[i].ops : i \in 1..cursor[d]}) \union (UNION Range(outbox[d]))
                      IN  /\ mirror[d] \subseteq Durable \union Slipped({"adopted"})
                          /\ Inserts(reached) \subseteq mirror[d]
    BY DEF MirrorExact
  <2>1. MirrorAt(d) /\ MetAt(d) /\ RoomAt(d) /\ DurableTypes
    BY DEF RInv, Log
  <2> DEFINE reached == (UNION {log[i].ops : i \in 1..cursor[d]}) \union (UNION Range(outbox[d]))
  <2>2. \A i \in 1..cursor[d] : i \in DOMAIN log /\ i <= cursor[d]
    BY <2>1 DEF RoomAt, DurableTypes
  <2>3. reached \subseteq Met(d)
    BY <2>2 DEF Met
  <2>4. Inserts(reached) \subseteq mirror[d]
    BY <2>1, <2>3 DEF MetAt, Inserts
  <2>5. mirror[d] \subseteq Durable \union Slipped({"adopted"})
    BY <2>1 DEF MirrorAt, Adopted
  <2> QED BY <2>4, <2>5
<1> QED BY <1>1, Invariance, PTL
=============================================================================
