---------------------------- MODULE FanoutProofs ----------------------------
(***************************************************************************)
(* What Fanout guarantees for any devices, casts, capacity of the broadcast *)
(* channel and number of parts, proved with TLAPS: its types and the order   *)
(* of each client's stream.  FanoutCoverage builds on the invariant here.   *)
(***************************************************************************)
EXTENDS Fanout, TLAPS, FiniteSetTheorems

States == {"none", "hello", "snapshot", "live", "ack", "fanout", "closed"}

Snapshots == [seq : Nat, next : 0..Parts, backlog : Seq(Entry)]

ToClient ==
    [kind : {"welcome"}, latest : Nat]
    \union [kind : {"update"}, seq : Nat, blob : Blobs]
    \union [kind : {"ack"}, seq : Nat]
    \union [kind : {"part"}, upto : Nat, idx : 1..Parts, blobs : SUBSET Blobs]

ToRelay ==
    [kind : {"push"}, blob : Blobs]
    \union [kind : {"compact"}, upto : Nat, blobs : SUBSET Blobs]

Progress == [upto : Nat, seen : SUBSET (1..Parts)]

\* The frames that move a cursor, and to where.
Moves(f) == f.kind \in {"update", "part"}
Pos(f) == IF f.kind = "update" THEN f.seq ELSE f.upto

-----------------------------------------------------------------------------
(* The invariant, in layers: each rests on those before it                  *)

\* What Fanout's TypeOK says and the wires, exactly.
Types ==
    /\ cast \in Casts /\ drops \in Nat /\ overtaken \in BOOLEAN
    /\ base \in Nat /\ top \in Nat /\ base <= top
    /\ hist \subseteq Entry /\ snapBlobs \subseteq Blobs /\ late \subseteq hist
    /\ pc \in [Device -> States]
    /\ lastSent \in [Device -> Nat] /\ cursor \in [Device -> Nat]
    /\ rx \in [Device -> Seq(Entry)] /\ owed \in [Device -> SUBSET Entry]
    /\ serving \in [Device -> Snapshots]
    /\ c2s \in [Device -> Seq(ToRelay)] /\ s2c \in [Device -> Seq(ToClient)]
    /\ has \in [Device -> SUBSET Blobs] /\ tracker \in [Device -> SUBSET Progress]
    /\ made \in [Device -> Nat] /\ goal \in [Device -> SUBSET Nat]
    /\ lagged \in [Device -> BOOLEAN] /\ session \in [Device -> BOOLEAN]
    /\ unacked \in [Device -> BOOLEAN] /\ inFlight \in [Device -> BOOLEAN]
    /\ caughtUp \in [Device -> BOOLEAN]

\* One entry per seq; the stored log is what compaction left of them.
LogShape ==
    /\ \A e \in hist : 1 <= e.seq /\ e.seq <= top
    /\ \A e, f \in hist : e.seq = f.seq => e = f
    /\ \A n \in 1..top : \E e \in hist : e.seq = n
    /\ entries = {e \in hist : e.seq > base}

\* The tasks and the devices never name a seq that is not logged.
CountsAt(d) ==
    /\ made[d] <= MaxBlobs /\ (unacked[d] => made[d] >= 1)
    /\ lastSent[d] <= top /\ cursor[d] <= top
    /\ \A t, u \in tracker[d] : t = u
    /\ \A g, h \in goal[d] : g = h
WiresAt(d) ==
    /\ Len(rx[d]) <= Cap
    /\ \A i \in DOMAIN rx[d] : rx[d][i] \in hist
    /\ owed[d] \subseteq hist
    /\ \A i \in DOMAIN c2s[d] : c2s[d][i].kind = "compact" => c2s[d][i].upto <= top
    /\ \A i \in DOMAIN s2c[d] : Moves(s2c[d][i]) => Pos(s2c[d][i]) <= top
PhaseAt(d) ==
    /\ pc[d] = "hello" => s2c[d] = <<>> /\ lastSent[d] = cursor[d]
    /\ pc[d] \in {"none", "closed"} => rx[d] = <<>>
    /\ ~session[d] => pc[d] = "none"
    /\ pc[d] = "none" => ~session[d] /\ s2c[d] = <<>> /\ c2s[d] = <<>>
BoundsAt(d) == CountsAt(d) /\ WiresAt(d) /\ PhaseAt(d)
Bounds == \A d \in Device : BoundsAt(d)

\* The snapshot a task serves: the backlog is the log behind it, entry by entry.
ServedAt(d) ==
    pc[d] = "snapshot" =>
        /\ serving[d].next \in 1..Parts
        /\ lastSent[d] < serving[d].seq /\ serving[d].seq <= base
        /\ serving[d].seq + Len(serving[d].backlog) <= top
        /\ \A i \in DOMAIN serving[d].backlog :
               /\ serving[d].backlog[i] \in hist
               /\ serving[d].backlog[i].seq = serving[d].seq + i
Served == \A d \in Device : ServedAt(d)

\* A device's one unacked edit is in one place: in its outbox only, pushed, at
\* the relay's task, or acked by a frame it has not read.
Acks(q) == {i \in DOMAIN q : q[i].kind = "ack"}
Pushes(q) == {i \in DOMAIN q : q[i].kind = "push"}
Current(d, b) == unacked[d] /\ inFlight[d] /\ b = [dev |-> d, n |-> made[d]]

FlightAt(d) ==
    /\ IF pc[d] \in {"ack", "fanout"} THEN \E e \in hist : owed[d] = {e} ELSE owed[d] = {}
    /\ \A i \in Pushes(c2s[d]) :
           /\ Current(d, c2s[d][i].blob)
           /\ Acks(s2c[d]) = {} /\ pc[d] # "ack"
           /\ \A j \in Pushes(c2s[d]) : j = i
    /\ pc[d] = "ack" =>
           Acks(s2c[d]) = {} /\ \A e \in owed[d] : Current(d, e.blob)
    /\ \A i, j \in Acks(s2c[d]) : unacked[d] /\ inFlight[d] /\ i = j
OwedApart ==
    \A d \in Device : \A e \in owed[d] :
        e \notin late /\ \A c \in Device \ {d} : e \notin owed[c]
Flight == OwedApart /\ \A d \in Device : FlightAt(d)

\* How far the frames sent to a client go.
Reach(d) == IF pc[d] = "snapshot" THEN serving[d].seq ELSE lastSent[d]

\* A stream that goes up, the parts of one snapshot side by side.
Before(f, g) ==
    Moves(f) /\ Moves(g) =>
        /\ Pos(f) <= Pos(g)
        /\ f.kind = "update" \/ g.kind = "update" => Pos(f) < Pos(g)
Ordered(q) == \A k \in DOMAIN q : \A j \in 1..(k - 1) : Before(q[j], q[k])

\* One client's stream, from its cursor to what its task has sent.
StreamAt(d) ==
    /\ \A k \in DOMAIN s2c[d] : s2c[d][k].kind = "update" =>
           cursor[d] < s2c[d][k].seq /\ s2c[d][k].seq <= lastSent[d]
    /\ Ordered(s2c[d])
    /\ pc[d] \notin {"none", "closed"} =>
           /\ cursor[d] <= Reach(d)
           /\ \A k \in DOMAIN s2c[d] : s2c[d][k].kind = "part" =>
                  s2c[d][k].upto <= Reach(d)
Stream == \A d \in Device : StreamAt(d)

\* The parts of the set up to u that a tracker has seen.
Seen(T, u) == UNION {t.seen : t \in {t \in T : t.upto = u}}

-----------------------------------------------------------------------------
(* The log                                                                  *)

\* What read_since returns from a seq that compaction has not passed: every
\* entry above it, in order.
LEMMA TailOfLog ==
    ASSUME Types, LogShape, NEW n \in Nat, base <= n, n <= top
    PROVE  /\ ReadSince(n) \in Seq(Entry)
           /\ Len(ReadSince(n)) = top - n
           /\ \A i \in 1..(top - n) :
                  ReadSince(n)[i] \in hist /\ ReadSince(n)[i].seq = n + i
<1> DEFINE tail == {e \in entries : e.seq > n}
           upto(m) == {f \in tail : f.seq <= m}
<1>1. /\ top \in Nat /\ hist \subseteq Entry /\ tail = {e \in hist : e.seq > n}
      /\ \A e \in hist : e.seq \in Nat
  BY DEF Types, LogShape, Entry
<1> HIDE DEF tail
<1>2. ASSUME NEW m \in n..top
      PROVE  IsFiniteSet(upto(m)) /\ Cardinality(upto(m)) = m - n
  <2> DEFINE at == [i \in (n + 1)..m |-> CHOOSE e \in hist : e.seq = i]
  <2>1. \A i \in (n + 1)..m : at[i] \in hist /\ at[i].seq = i
    BY <1>1 DEF LogShape
  <2>2. \A i \in (n + 1)..m : at[i] \in upto(m)
    BY <1>1, <2>1
  <2>3. \A e \in upto(m) : e.seq \in (n + 1)..m /\ at[e.seq] = e
    BY <1>1, <2>1 DEF LogShape
  <2>4. at \in Bijection((n + 1)..m, upto(m))
    <3> HIDE DEF at, upto
    <3>1. at \in [(n + 1)..m -> upto(m)]
      <4>1. at = [i \in (n + 1)..m |-> at[i]]
        BY DEF at
      <4> QED BY <2>2, <4>1
    <3>2. \A i, j \in (n + 1)..m : at[i] = at[j] => i = j
      BY <2>1
    <3>3. \A e \in upto(m) : \E i \in (n + 1)..m : at[i] = e
      BY <2>3
    <3> QED BY <3>1, <3>2, <3>3 DEF Bijection, Injection, Surjection, IsInjective
  <2>5. ExistsBijection((n + 1)..m, upto(m))
    BY <2>4 DEF ExistsBijection
  <2>6. IsFiniteSet((n + 1)..m) /\ Cardinality((n + 1)..m) = m - n
    <3>1. n + 1 \in Int /\ m \in Int /\ n <= m
      BY <1>1
    <3>2. /\ IsFiniteSet((n + 1)..m)
          /\ Cardinality((n + 1)..m) = IF n + 1 > m THEN 0 ELSE m - (n + 1) + 1
      BY <3>1, FS_Interval
    <3> QED BY <3>1, <3>2
  <2> QED BY <2>5, <2>6, FS_Bijection
<1>3. Cardinality(tail) = top - n
  <2>1. upto(top) = tail
    BY <1>1 DEF LogShape
  <2>2. top \in n..top
    BY <1>1
  <2>3. Cardinality(upto(top)) = top - n
    BY <1>2, <2>2
  <2> QED BY <2>1, <2>3
<1>4. \A e \in tail : Cardinality({f \in tail : f.seq <= e.seq}) = e.seq - n
  <2> TAKE e \in tail
  <2>1. e.seq \in n..top
    BY <1>1 DEF LogShape
  <2> QED BY <1>2, <2>1
<1> DEFINE nth(i) == CHOOSE e \in tail : Cardinality({f \in tail : f.seq <= e.seq}) = i
<1>5. ASSUME NEW i \in 1..(top - n)
      PROVE  nth(i) \in hist /\ nth(i).seq = n + i /\ nth(i) \in Entry
  <2>1. \E e \in tail : e.seq = n + i
    BY <1>1 DEF LogShape
  <2>2. \E e \in tail : Cardinality({f \in tail : f.seq <= e.seq}) = i
    BY <1>1, <1>4, <2>1
  <2>3. nth(i) \in tail /\ Cardinality({f \in tail : f.seq <= nth(i).seq}) = i
    BY <2>2
  <2> HIDE DEF nth
  <2> QED BY <1>1, <1>4, <2>3
<1>6. ReadSince(n) = [i \in 1..(top - n) |-> nth(i)]
  BY <1>3 DEF ReadSince, tail
<1> HIDE DEF nth
<1> QED
  BY <1>1, <1>5, <1>6

-----------------------------------------------------------------------------
(* Types and the log                                                        *)

\* What the frames carry.
LEMMA FrameTypes ==
    /\ \A n \in Nat : Welcome(n) \in ToClient /\ Ack(n) \in ToClient
    /\ \A e \in Entry : Update(e) \in ToClient
    /\ \A u \in Nat, i \in 1..Parts, b \in SUBSET Blobs : Part(u, i, b) \in ToClient
    /\ \A b \in Blobs : PushFrame(b) \in ToRelay
    /\ \A u \in Nat, b \in SUBSET Blobs : CompactFrame(u, b) \in ToRelay
    /\ \A f \in ToClient :
          /\ f.kind = "welcome" => f.latest \in Nat
          /\ f.kind = "update" => f.seq \in Nat /\ f.blob \in Blobs
          /\ f.kind = "ack" => f.seq \in Nat
          /\ f.kind = "part" => f.upto \in Nat /\ f.idx \in 1..Parts /\ f.blobs \subseteq Blobs
    /\ \A f \in ToRelay :
          /\ f.kind = "push" => f.blob \in Blobs
          /\ f.kind = "compact" => f.upto \in Nat /\ f.blobs \subseteq Blobs
<1>1. \A e \in Entry : Update(e) \in ToClient
  BY DEF Update, ToClient, Entry
<1>2. \A u \in Nat, i \in 1..Parts, b \in SUBSET Blobs : Part(u, i, b) \in ToClient
  BY DEF Part, ToClient
<1>3. \A f \in ToClient :
          /\ f.kind = "welcome" => f.latest \in Nat
          /\ f.kind = "update" => f.seq \in Nat /\ f.blob \in Blobs
          /\ f.kind = "ack" => f.seq \in Nat
          /\ f.kind = "part" => f.upto \in Nat /\ f.idx \in 1..Parts /\ f.blobs \subseteq Blobs
  BY DEF ToClient
<1>4. \A f \in ToRelay :
          /\ f.kind = "push" => f.blob \in Blobs
          /\ f.kind = "compact" => f.upto \in Nat /\ f.blobs \subseteq Blobs
  BY DEF ToRelay
<1> QED
  BY <1>1, <1>2, <1>3, <1>4 DEF Welcome, Ack, PushFrame, CompactFrame, ToClient, ToRelay

\* The cast never changes.
LEMMA CastKept ==
    ASSUME Next
    PROVE  /\ cast' = cast
           /\ Blobs' = Blobs /\ Entry' = Entry /\ Snapshots' = Snapshots
           /\ ToClient' = ToClient /\ ToRelay' = ToRelay
           /\ Cap' = Cap /\ MaxBlobs' = MaxBlobs
<1>1. cast' = cast
  BY DEF Next, RelayStep, ClientStep, Connect, ReadBacklog, Resync, SendPart, Forward,
         RelayPush, RelayAck, RelayFanout, RelayCompact, OnWelcome, OnAck, OnUpdate,
         OnPart, SeeClose, Push, Drop, LateFanout, Consume
<1>2. Blobs' = Blobs /\ Cap' = Cap /\ MaxBlobs' = MaxBlobs
  BY <1>1 DEF Blobs, Pushers, MaxBlobs, Cap
<1> QED
  BY <1>1, <1>2 DEF Entry, Snapshots, ToClient, ToRelay

Log == Types /\ LogShape /\ Bounds /\ Served

LEMMA UpdatesOf ==
    ASSUME NEW es \in Seq(Entry)
    PROVE  /\ Updates(es) \in Seq(ToClient) /\ Len(Updates(es)) = Len(es)
           /\ \A i \in 1..Len(es) : Updates(es)[i] = Update(es[i])
<1>1. DOMAIN es = 1..Len(es) /\ Len(es) \in Nat /\ \A i \in 1..Len(es) : es[i] \in Entry
  OBVIOUS
<1>2. \A i \in 1..Len(es) : Update(es[i]) \in ToClient
  BY <1>1, FrameTypes
<1>3. Updates(es) = [i \in 1..Len(es) |-> Update(es[i])]
  BY <1>1 DEF Updates
<1> QED
  BY <1>1, <1>2, <1>3

\* A wire after more frames were put on it.
Longer(q, more, new) ==
    /\ Len(new) = Len(q) + Len(more)
    /\ \A i \in DOMAIN q : i \in DOMAIN new /\ new[i] = q[i]
    /\ \A i \in DOMAIN more : Len(q) + i \in DOMAIN new /\ new[Len(q) + i] = more[i]
    /\ \A i \in DOMAIN new : i \in DOMAIN q \/ \E j \in DOMAIN more : i = Len(q) + j

LEMMA Appended ==
    ASSUME NEW q \in Seq(ToClient), NEW more \in Seq(ToClient)
    PROVE  q \o more \in Seq(ToClient) /\ Longer(q, more, q \o more)
<1>1. /\ q \o more \in Seq(ToClient) /\ Len(q \o more) = Len(q) + Len(more)
      /\ DOMAIN q = 1..Len(q) /\ DOMAIN more = 1..Len(more) /\ Len(q) \in Nat /\ Len(more) \in Nat
  OBVIOUS
<1>2. DOMAIN (q \o more) = 1..(Len(q) + Len(more))
  BY <1>1
<1>3. \A i \in 1..(Len(q) + Len(more)) : (q \o more)[i] = IF i <= Len(q) THEN q[i] ELSE more[i - Len(q)]
  BY <1>1
<1>4. \A i \in DOMAIN (q \o more) : i \notin DOMAIN q => (i - Len(q)) \in DOMAIN more /\ i = Len(q) + (i - Len(q))
  BY <1>1, <1>2
<1>5. \A i \in DOMAIN q : i \in DOMAIN (q \o more) /\ (q \o more)[i] = q[i]
  BY <1>1, <1>2, <1>3
<1>6. \A i \in DOMAIN more :
          Len(q) + i \in DOMAIN (q \o more) /\ (q \o more)[Len(q) + i] = more[i]
  BY <1>1, <1>2, <1>3
<1> QED
  BY <1>1, <1>4, <1>5, <1>6 DEF Longer

LEMMA Shortened ==
    ASSUME NEW S, NEW q \in Seq(S), q # <<>>
    PROVE  /\ Head(q) \in S /\ Head(q) = q[1] /\ 1 \in DOMAIN q
           /\ Tail(q) \in Seq(S) /\ Len(Tail(q)) = Len(q) - 1
           /\ \A i \in DOMAIN Tail(q) : i + 1 \in DOMAIN q /\ Tail(q)[i] = q[i + 1]
           /\ \A i \in DOMAIN q : i = 1 \/ i - 1 \in DOMAIN Tail(q)
OBVIOUS

\* A greeting and the updates behind it.
LEMMA WithUpdates ==
    ASSUME NEW g \in Seq(ToClient), NEW es \in Seq(Entry)
    PROVE  /\ g \o Updates(es) \in Seq(ToClient) /\ Len(g \o Updates(es)) = Len(g) + Len(es)
           /\ \A i \in DOMAIN g : (g \o Updates(es))[i] = g[i]
           /\ \A i \in DOMAIN es :
                 /\ Len(g) + i \in DOMAIN (g \o Updates(es))
                 /\ (g \o Updates(es))[Len(g) + i] = Update(es[i])
           /\ \A i \in DOMAIN (g \o Updates(es)) :
                 i \in DOMAIN g \/ \E j \in DOMAIN es : i = Len(g) + j
<1>1. /\ Updates(es) \in Seq(ToClient) /\ Len(Updates(es)) = Len(es)
      /\ \A i \in 1..Len(es) : Updates(es)[i] = Update(es[i])
  BY UpdatesOf
<1> HIDE DEF Updates
<1>2. DOMAIN Updates(es) = 1..Len(es) /\ DOMAIN es = 1..Len(es)
  BY <1>1
<1>3. g \o Updates(es) \in Seq(ToClient) /\ Longer(g, Updates(es), g \o Updates(es))
  BY <1>1, Appended
<1> QED
  BY <1>1, <1>2, <1>3 DEF Longer

\* What Hello and Lagged do: the client is below the snapshot, or gets the tail.
ServesSnapshot(d, greeting) ==
    /\ lastSent[d] < base /\ lastSent'[d] = lastSent[d]
    /\ pc'[d] = "snapshot" /\ s2c'[d] = s2c[d] \o greeting
    /\ serving'[d].seq = base /\ serving'[d].next = 1
    /\ serving'[d].backlog \in Seq(Entry)
    /\ Len(serving'[d].backlog) = top - base
    /\ \A i \in 1..(top - base) :
           serving'[d].backlog[i] \in hist /\ serving'[d].backlog[i].seq = base + i

ServesTail(d, greeting) ==
    /\ base <= lastSent[d] /\ lastSent'[d] = top
    /\ pc'[d] = "live" /\ serving'[d] = serving[d]
    /\ \E tail \in Seq(Entry) :
           /\ s2c'[d] = s2c[d] \o (greeting \o Updates(tail))
           /\ Len(tail) = top - lastSent[d]
           /\ \A i \in 1..(top - lastSent[d]) :
                  tail[i] \in hist /\ tail[i].seq = lastSent[d] + i

LEMMA ServeFromIs ==
    ASSUME Log, NEW d \in Device, NEW greeting \in Seq(ToClient), ServeFrom(d, greeting)
    PROVE  /\ pc' \in [Device -> States] /\ lastSent' \in [Device -> Nat]
           /\ serving' \in [Device -> Snapshots] /\ s2c' \in [Device -> Seq(ToClient)]
           /\ \A c \in Device \ {d} :
                 /\ pc'[c] = pc[c] /\ lastSent'[c] = lastSent[c]
                 /\ serving'[c] = serving[c] /\ s2c'[c] = s2c[c]
           /\ ServesSnapshot(d, greeting) \/ ServesTail(d, greeting)
<1>0. /\ base \in Nat /\ top \in Nat /\ base <= top /\ lastSent[d] \in Nat /\ lastSent[d] <= top
      /\ s2c \in [Device -> Seq(ToClient)] /\ s2c[d] \in Seq(ToClient)
      /\ lastSent \in [Device -> Nat]
  BY DEF Log, Types, Bounds, BoundsAt, CountsAt, WiresAt, PhaseAt
<1>1. CASE lastSent[d] < base
  <2>1. /\ ReadSince(base) \in Seq(Entry) /\ Len(ReadSince(base)) = top - base
        /\ \A i \in 1..(top - base) : ReadSince(base)[i] \in hist /\ ReadSince(base)[i].seq = base + i
    BY <1>0, TailOfLog DEF Log
  <2>2. [seq |-> base, next |-> 1, backlog |-> ReadSince(base)] \in Snapshots
    BY <1>0, <2>1, FanoutAssumption DEF Snapshots
  <2>3. s2c[d] \o greeting \in Seq(ToClient)
    BY <1>0
  <2>4. /\ serving' = [serving EXCEPT ![d] = [seq |-> base, next |-> 1, backlog |-> ReadSince(base)]]
        /\ pc' = [pc EXCEPT ![d] = "snapshot"] /\ s2c' = [s2c EXCEPT ![d] = s2c[d] \o greeting]
        /\ lastSent' = lastSent
    BY <1>1 DEF ServeFrom, Send
  <2>5. serving \in [Device -> Snapshots] /\ pc \in [Device -> States]
    BY DEF Log, Types
  <2>6. /\ serving'[d] = [seq |-> base, next |-> 1, backlog |-> ReadSince(base)]
        /\ serving' \in [Device -> Snapshots] /\ s2c' \in [Device -> Seq(ToClient)]
        /\ pc' \in [Device -> States] /\ pc'[d] = "snapshot" /\ s2c'[d] = s2c[d] \o greeting
        /\ \A c \in Device \ {d} :
              pc'[c] = pc[c] /\ serving'[c] = serving[c] /\ s2c'[c] = s2c[c]
    BY <1>0, <2>2, <2>3, <2>4, <2>5 DEF States
  <2>7. serving'[d].seq = base /\ serving'[d].next = 1 /\ serving'[d].backlog = ReadSince(base)
    BY <2>6
  <2>8. ServesSnapshot(d, greeting)
    BY <1>0, <1>1, <2>1, <2>4, <2>6, <2>7 DEF ServesSnapshot
  <2> QED
    BY <1>0, <2>4, <2>6, <2>8
<1>2. CASE ~(lastSent[d] < base)
  <2> DEFINE tail == ReadSince(lastSent[d])
  <2>1. /\ tail \in Seq(Entry) /\ Len(tail) = top - lastSent[d]
        /\ \A i \in 1..(top - lastSent[d]) : tail[i] \in hist /\ tail[i].seq = lastSent[d] + i
    <3>1. Types /\ LogShape /\ lastSent[d] \in Nat /\ base <= lastSent[d] /\ lastSent[d] <= top
      BY <1>0, <1>2 DEF Log
    <3> QED BY <3>1, TailOfLog
  <2>2. greeting \o Updates(tail) \in Seq(ToClient)
    BY <2>1, UpdatesOf
  <2>3. s2c[d] \o (greeting \o Updates(tail)) \in Seq(ToClient)
    BY <1>0, <2>2
  <2>4. LastOf(tail, lastSent[d]) = top
    <3>1. tail = <<>> => top = lastSent[d]
      BY <1>0, <2>1
    <3>2. tail # <<>> => Len(tail) \in 1..(top - lastSent[d]) /\ Last(tail) = tail[Len(tail)]
      BY <2>1 DEF Last
    <3> QED BY <1>0, <2>1, <3>1, <3>2 DEF LastOf
  <2>5. /\ lastSent' = [lastSent EXCEPT ![d] = LastOf(tail, lastSent[d])]
        /\ pc' = [pc EXCEPT ![d] = "live"] /\ serving' = serving
        /\ s2c' = [s2c EXCEPT ![d] = s2c[d] \o (greeting \o Updates(tail))]
    BY <1>2 DEF ServeFrom, Send
  <2> HIDE DEF tail
  <2>6. serving \in [Device -> Snapshots] /\ pc \in [Device -> States]
    BY DEF Log, Types
  <2>7. ServesTail(d, greeting)
    <3>1. /\ base <= lastSent[d] /\ lastSent'[d] = top
          /\ pc'[d] = "live" /\ serving'[d] = serving[d]
          /\ s2c'[d] = s2c[d] \o (greeting \o Updates(tail))
      BY <1>0, <1>2, <2>4, <2>5, <2>6
    <3> QED BY <2>1, <3>1 DEF ServesTail
  <2> QED
    BY <1>0, <2>3, <2>4, <2>5, <2>6, <2>7 DEF States
<1> QED
  BY <1>1, <1>2

\* Reading a frame takes it off the wire, and may put an offer on the other.
LEMMA ConsumeIs ==
    ASSUME Types, Next, NEW d \in Device, s2c[d] # <<>>, Consume(d),
           cursor'[d] \in Nat, has'[d] \subseteq Blobs
    PROVE  /\ s2c' \in [Device -> Seq(ToClient)] /\ s2c'[d] = Tail(s2c[d])
           /\ c2s' \in [Device -> Seq(ToRelay)]
           /\ \/ c2s'[d] = c2s[d]
              \/ c2s'[d] = Append(c2s[d], CompactFrame(cursor'[d], has'[d]))
           /\ \A c \in Device \ {d} : s2c'[c] = s2c[c] /\ c2s'[c] = c2s[c]
           /\ caughtUp' \in [Device -> BOOLEAN]
           /\ UNCHANGED <<relayLog, task, session, made, drops, cast>>
<1>1. s2c' = [s2c EXCEPT ![d] = Tail(s2c[d])] /\ UNCHANGED <<relayLog, task, session, made, drops, cast>>
  BY DEF Consume
<1>2. Tail(s2c[d]) \in Seq(ToClient)
  BY DEF Types
<1>3. CompactFrame(cursor'[d], has'[d]) \in ToRelay
  BY FrameTypes
<1>4. /\ caughtUp' = [caughtUp EXCEPT ![d] = TRUE] \/ caughtUp' = caughtUp
      /\ \/ c2s' = c2s
         \/ c2s' = [c2s EXCEPT ![d] = Append(c2s[d], CompactFrame(cursor'[d], has'[d]))]
  BY DEF Consume, AfterFrame
<1>5. Append(c2s[d], CompactFrame(cursor'[d], has'[d])) \in Seq(ToRelay)
  BY <1>3 DEF Types
<1> HIDE DEF Consume
<1> QED
  BY <1>1, <1>2, <1>4, <1>5 DEF Types

\* The capacity bounds a receiver.
LEMMA BufferedIs ==
    ASSUME NEW q \in Seq(Entry), NEW e \in Entry, cast \in Casts, Len(q) <= Cap
    PROVE  /\ Buffered(q, e) \in Seq(Entry) /\ Len(Buffered(q, e)) <= Cap
           /\ \A i \in DOMAIN Buffered(q, e) : Buffered(q, e)[i] = e \/ \E j \in DOMAIN q : Buffered(q, e)[i] = q[j]
<1>1. Cap \in Nat \ {0}
  BY FanoutAssumption DEF Cap
<1>2. CASE Len(q) = Cap
  <2>1. q # <<>> /\ Tail(q) \in Seq(Entry) /\ Len(Tail(q)) = Len(q) - 1
    BY <1>1, <1>2
  <2>2. \A i \in 1..Len(Tail(q)) : Tail(q)[i] = q[i + 1] /\ i + 1 \in DOMAIN q
    BY <2>1
  <2>3. Buffered(q, e) = Append(Tail(q), e)
    BY <1>2 DEF Buffered
  <2> QED BY <1>1, <1>2, <2>1, <2>2, <2>3
<1>3. CASE Len(q) # Cap
  BY <1>1, <1>3 DEF Buffered
<1> QED
  BY <1>2, <1>3

\* What a broadcast does to the receivers.
LEMMA BroadcastIs ==
    ASSUME Types, Bounds, NEW e \in hist, Broadcast(e)
    PROVE  /\ rx' \in [Device -> Seq(Entry)] /\ lagged' \in [Device -> BOOLEAN]
           /\ \A d \in Device :
                 /\ rx'[d] = IF Subscribed(d) THEN Buffered(rx[d], e) ELSE rx[d]
                 /\ lagged'[d] = (lagged[d] \/ Overflows(d))
                 /\ Len(rx'[d]) <= Cap
                 /\ \A i \in DOMAIN rx'[d] : rx'[d][i] \in hist
           /\ overtaken' \in BOOLEAN
           /\ UNCHANGED <<base, top, entries, snapBlobs, hist>>
<1>1. e \in Entry /\ cast \in Casts /\ rx \in [Device -> Seq(Entry)]
  BY DEF Types
<1>2. \A d \in Device : rx[d] \in Seq(Entry) /\ Len(rx[d]) <= Cap /\ \A i \in DOMAIN rx[d] : rx[d][i] \in hist
  BY <1>1 DEF Bounds, BoundsAt, CountsAt, WiresAt, PhaseAt
<1>3. \A d \in Device : 
          /\ Buffered(rx[d], e) \in Seq(Entry) /\ Len(Buffered(rx[d], e)) <= Cap
          /\ \A i \in DOMAIN Buffered(rx[d], e) : Buffered(rx[d], e)[i] \in hist
  <2> TAKE d \in Device
  <2>1. \A i \in DOMAIN Buffered(rx[d], e) :
            Buffered(rx[d], e)[i] = e \/ \E j \in DOMAIN rx[d] : Buffered(rx[d], e)[i] = rx[d][j]
    BY <1>1, <1>2, BufferedIs
  <2> QED BY <1>1, <1>2, <2>1, BufferedIs
<1>4. /\ rx' = [d \in Device |-> IF Subscribed(d) THEN Buffered(rx[d], e) ELSE rx[d]]
      /\ lagged' = [d \in Device |-> lagged[d] \/ Overflows(d)]
      /\ UNCHANGED <<base, top, entries, snapBlobs, hist>>
  BY DEF Broadcast
<1>5. overtaken' \in BOOLEAN
  BY DEF Broadcast
<1>6. \A d \in Device : (lagged[d] \/ Overflows(d)) \in BOOLEAN
  BY DEF Types, Overflows
<1> QED
  BY <1>2, <1>3, <1>4, <1>5, <1>6

LEMMA TypesKept ==
    ASSUME Log, Next
    PROVE  Types'
<1>0. /\ Types /\ LogShape /\ Bounds /\ cast' = cast /\ cast \in Casts
      /\ Blobs' = Blobs /\ Entry' = Entry /\ Snapshots' = Snapshots
      /\ ToClient' = ToClient /\ ToRelay' = ToRelay
  BY CastKept DEF Log, Types
<1>1. ASSUME NEW d \in Device, Connect(d) PROVE Types'
  BY <1>0, <1>1 DEF Connect, Types, States, relayLog
<1>2. ASSUME NEW d \in Device, ReadBacklog(d) PROVE Types'
  <2>1. ServeFrom(d, <<Welcome(top)>>) /\ <<Welcome(top)>> \in Seq(ToClient)
    BY <1>2, FrameTypes DEF ReadBacklog, Log, Types
  <2>2. /\ pc' \in [Device -> States] /\ lastSent' \in [Device -> Nat]
        /\ serving' \in [Device -> Snapshots] /\ s2c' \in [Device -> Seq(ToClient)]
    BY <2>1, ServeFromIs
  <2> QED BY <1>0, <1>2, <2>2 DEF ReadBacklog, Types, relayLog, client
<1>3. ASSUME NEW d \in Device, Resync(d) PROVE Types'
  <2>1. ServeFrom(d, <<>>) /\ <<>> \in Seq(ToClient)
    BY <1>3 DEF Resync
  <2>2. /\ pc' \in [Device -> States] /\ lastSent' \in [Device -> Nat]
        /\ serving' \in [Device -> Snapshots] /\ s2c' \in [Device -> Seq(ToClient)]
    BY <2>1, ServeFromIs
  <2> QED BY <1>0, <1>3, <2>2 DEF Resync, Types, relayLog, client
<1>4. ASSUME NEW d \in Device, SendPart(d) PROVE Types'
  <2> DEFINE at == serving[d]
             part == Part(at.seq, at.next, {b \in snapBlobs : PartOf(b) = at.next})
  <2>1. /\ pc[d] = "snapshot" /\ at \in Snapshots /\ at.next \in 1..Parts /\ at.seq \in Nat
        /\ s2c[d] \in Seq(ToClient) /\ at.backlog \in Seq(Entry)
    BY <1>0, <1>4 DEF SendPart, Log, Types, Served, ServedAt, Snapshots
  <2>2. part \in ToClient
    BY <1>0, <2>1, FrameTypes DEF Types
  <2>3. s2c[d] \o <<part>> \in Seq(ToClient)
    BY <2>1, <2>2
  <2>4. <<part>> \o Updates(at.backlog) \in Seq(ToClient)
    BY <2>1, <2>2, UpdatesOf
  <2>5. s2c[d] \o (<<part>> \o Updates(at.backlog)) \in Seq(ToClient)
    BY <2>1, <2>4
  <2>6. LastOf(at.backlog, at.seq) \in Nat
    <3>1. at.backlog # <<>> => Last(at.backlog) \in Entry
      BY <2>1 DEF Last
    <3> QED BY <2>1, <3>1 DEF LastOf, Entry
  <2>7. NoSnapshot \in Snapshots /\ <<>> \in Seq(Entry)
    BY FanoutAssumption DEF NoSnapshot, Snapshots
  <2>8. at.next < Parts => [at EXCEPT !.next = at.next + 1] \in Snapshots
    BY <2>1, FanoutAssumption DEF Snapshots
  <2>9. \/ /\ at.next < Parts /\ s2c' = [s2c EXCEPT ![d] = s2c[d] \o <<part>>]
           /\ serving' = [serving EXCEPT ![d] = [at EXCEPT !.next = at.next + 1]]
           /\ UNCHANGED <<pc, lastSent, rx, lagged>>
        \/ /\ s2c' = [s2c EXCEPT ![d] = s2c[d] \o (<<part>> \o Updates(at.backlog))]
           /\ serving' = [serving EXCEPT ![d] = NoSnapshot]
           /\ lastSent' = [lastSent EXCEPT ![d] = LastOf(at.backlog, at.seq)]
           /\ pc' = [pc EXCEPT ![d] = "live"] /\ UNCHANGED <<rx, lagged>>
        \/ EndTask(d, "closed") /\ UNCHANGED <<lastSent, s2c>>
    BY <1>4 DEF SendPart, Send
  <2>10. UNCHANGED <<relayLog, owed, late, c2s, client, drops, cast>>
    BY <1>4 DEF SendPart
  <2> DEFINE tailed == <<part>> \o Updates(at.backlog)
  <2> HIDE DEF at, part, tailed
  <2>a. /\ pc \in [Device -> States] /\ lastSent \in [Device -> Nat] /\ rx \in [Device -> Seq(Entry)]
        /\ lagged \in [Device -> BOOLEAN] /\ serving \in [Device -> Snapshots] /\ s2c \in [Device -> Seq(ToClient)]
        /\ "live" \in States /\ "closed" \in States
    BY <1>0 DEF Types, States
  <2>11. /\ pc' \in [Device -> States] /\ lastSent' \in [Device -> Nat] /\ rx' \in [Device -> Seq(Entry)]
         /\ lagged' \in [Device -> BOOLEAN]
    <3>1. pc' \in [Device -> States]
      BY <2>a, <2>9 DEF EndTask
    <3>2. lastSent' \in [Device -> Nat]
      BY <2>a, <2>6, <2>9
    <3>3. rx' \in [Device -> Seq(Entry)] /\ lagged' \in [Device -> BOOLEAN]
      BY <2>a, <2>7, <2>9 DEF EndTask
    <3> QED BY <3>1, <3>2, <3>3
  <2>12. serving' \in [Device -> Snapshots]
    BY <2>a, <2>7, <2>8, <2>9 DEF EndTask
  <2>13. s2c' \in [Device -> Seq(ToClient)]
    <3>1. s2c[d] \o tailed \in Seq(ToClient)
      BY <2>5 DEF tailed
    <3>2. \/ s2c' = [s2c EXCEPT ![d] = s2c[d] \o <<part>>]
          \/ s2c' = [s2c EXCEPT ![d] = s2c[d] \o tailed]
          \/ s2c' = s2c
      BY <2>9 DEF tailed
    <3> QED BY <2>a, <2>3, <3>1, <3>2
  <2> QED
    BY <1>0, <2>10, <2>11, <2>12, <2>13 DEF Types, relayLog, client
<1>5. ASSUME NEW d \in Device, Forward(d) PROVE Types'
  <2>1. /\ rx[d] \in Seq(Entry) /\ rx[d] # <<>> /\ Tail(rx[d]) \in Seq(Entry) /\ Head(rx[d]) \in Entry
        /\ s2c[d] \in Seq(ToClient)
    BY <1>0, <1>5 DEF Forward, Types
  <2>2. Update(Head(rx[d])) \in ToClient /\ Head(rx[d]).seq \in Nat
    BY <2>1, FrameTypes DEF Entry
  <2>3. s2c[d] \o <<Update(Head(rx[d]))>> \in Seq(ToClient)
    BY <2>1, <2>2
  <2> QED BY <1>0, <1>5, <2>1, <2>2, <2>3 DEF Forward, Send, Types, relayLog, client
<1>6. ASSUME NEW d \in Device, RelayPush(d) PROVE Types'
  <2>1. /\ c2s[d] \in Seq(ToRelay) /\ c2s[d] # <<>> /\ Head(c2s[d]) \in ToRelay
        /\ Head(c2s[d]).kind = "push" /\ Tail(c2s[d]) \in Seq(ToRelay)
    BY <1>0, <1>6 DEF RelayPush, Types
  <2>2. [seq |-> top + 1, blob |-> Head(c2s[d]).blob] \in Entry
    BY <1>0, <2>1, FrameTypes DEF Entry, Types
  <2> QED BY <1>0, <1>6, <2>1, <2>2 DEF RelayPush, Types, States, client
<1>7. ASSUME NEW d \in Device, RelayAck(d) PROVE Types'
  <2>1. PICK e \in owed[d] : s2c' = [s2c EXCEPT ![d] = s2c[d] \o <<Ack(e.seq)>>]
    BY <1>7 DEF RelayAck, Send
  <2>2. Ack(e.seq) \in ToClient /\ s2c[d] \in Seq(ToClient)
    BY <1>0, <2>1, FrameTypes DEF Types, Entry
  <2>3. s2c[d] \o <<Ack(e.seq)>> \in Seq(ToClient)
    BY <2>2
  <2> QED BY <1>0, <1>7, <2>1, <2>3 DEF RelayAck, Types, States, relayLog, client
<1>8. ASSUME NEW d \in Device, RelayFanout(d) PROVE Types'
  <2>1. PICK e \in owed[d] : Broadcast(e)
    BY <1>8 DEF RelayFanout
  <2>2. e \in hist
    BY <1>0 DEF Bounds, BoundsAt, CountsAt, WiresAt, PhaseAt
  <2>3. /\ rx' \in [Device -> Seq(Entry)] /\ lagged' \in [Device -> BOOLEAN]
        /\ overtaken' \in BOOLEAN /\ UNCHANGED <<base, top, entries, snapBlobs, hist>>
    BY <1>0, <2>1, <2>2, BroadcastIs
  <2> QED BY <1>0, <1>8, <2>3 DEF RelayFanout, Types, States, client
<1>9. ASSUME LateFanout PROVE Types'
  <2>1. PICK e \in late : Broadcast(e) /\ late' = late \ {e}
    BY <1>9 DEF LateFanout
  <2>2. e \in hist
    BY <1>0 DEF Types
  <2>3. /\ rx' \in [Device -> Seq(Entry)] /\ lagged' \in [Device -> BOOLEAN]
        /\ overtaken' \in BOOLEAN /\ UNCHANGED <<base, top, entries, snapBlobs, hist>>
    BY <1>0, <2>1, <2>2, BroadcastIs
  <2> QED BY <1>0, <1>9, <2>1, <2>3 DEF LateFanout, Types, client
<1>10. ASSUME NEW d \in Device, RelayCompact(d) PROVE Types'
  <2>1. /\ c2s[d] \in Seq(ToRelay) /\ c2s[d] # <<>> /\ Head(c2s[d]) \in ToRelay
        /\ Head(c2s[d]).kind = "compact" /\ Tail(c2s[d]) \in Seq(ToRelay)
    BY <1>0, <1>10 DEF RelayCompact, Types
  <2>2. Head(c2s[d]).upto \in Nat /\ Head(c2s[d]).blobs \subseteq Blobs
    BY <2>1, FrameTypes
  <2> QED BY <1>0, <1>10, <2>1, <2>2 DEF RelayCompact, Types, task, client
<1>11. ASSUME NEW d \in Device, OnWelcome(d) PROVE Types'
  <2>1. s2c[d] # <<>> /\ Head(s2c[d]) \in ToClient /\ Head(s2c[d]).kind = "welcome"
    BY <1>0, <1>11 DEF OnWelcome, Frame, Types
  <2>2. {Head(s2c[d]).latest} \subseteq Nat
    BY <2>1, FrameTypes
  <2>3. Consume(d) /\ cursor'[d] \in Nat /\ has'[d] \subseteq Blobs
    BY <1>0, <1>11 DEF OnWelcome, Types
  <2>4. /\ s2c' \in [Device -> Seq(ToClient)] /\ c2s' \in [Device -> Seq(ToRelay)]
        /\ caughtUp' \in [Device -> BOOLEAN]
        /\ UNCHANGED <<relayLog, task, session, made, drops, cast>>
    BY <1>0, <2>1, <2>3, ConsumeIs
  <2> QED BY <1>0, <1>11, <2>2, <2>4 DEF OnWelcome, Types, relayLog, task
<1>12. ASSUME NEW d \in Device, OnAck(d) PROVE Types'
  <2>1. Consume(d) /\ s2c[d] # <<>> /\ cursor'[d] \in Nat /\ has'[d] \subseteq Blobs
    BY <1>0, <1>12 DEF OnAck, Frame, Types
  <2>2. /\ s2c' \in [Device -> Seq(ToClient)] /\ c2s' \in [Device -> Seq(ToRelay)]
        /\ caughtUp' \in [Device -> BOOLEAN]
        /\ UNCHANGED <<relayLog, task, session, made, drops, cast>>
    BY <1>0, <2>1, ConsumeIs
  <2> QED BY <1>0, <1>12, <2>2 DEF OnAck, Types, relayLog, task
<1>13. ASSUME NEW d \in Device, OnUpdate(d) PROVE Types'
  <2>1. s2c[d] # <<>> /\ Head(s2c[d]) \in ToClient /\ Head(s2c[d]).kind = "update"
    BY <1>0, <1>13 DEF OnUpdate, Frame, Types
  <2>2. Head(s2c[d]).seq \in Nat /\ Head(s2c[d]).blob \in Blobs
    BY <2>1, FrameTypes
  <2>3. cursor' \in [Device -> Nat] /\ has' \in [Device -> SUBSET Blobs]
    <3>1. /\ \/ has' = [has EXCEPT ![d] = has[d] \union {Head(s2c[d]).blob}]
             \/ has' = has
          /\ \/ cursor' = [cursor EXCEPT ![d] = Head(s2c[d]).seq]
             \/ cursor' = cursor
      BY <1>13 DEF OnUpdate
    <3>2. cursor' \in [Device -> Nat]
      BY <1>0, <2>2, <3>1 DEF Types
    <3>3. has[d] \union {Head(s2c[d]).blob} \subseteq Blobs
      BY <1>0, <2>2 DEF Types
    <3> QED BY <1>0, <3>1, <3>2, <3>3 DEF Types
  <2>4. Consume(d)
    BY <1>13 DEF OnUpdate
  <2>5. /\ s2c' \in [Device -> Seq(ToClient)] /\ c2s' \in [Device -> Seq(ToRelay)]
        /\ caughtUp' \in [Device -> BOOLEAN]
        /\ UNCHANGED <<relayLog, task, session, made, drops, cast>>
    BY <1>0, <2>1, <2>3, <2>4, ConsumeIs
  <2> QED BY <1>0, <1>13, <2>3, <2>5 DEF OnUpdate, Types, relayLog, task
<1>14. ASSUME NEW d \in Device, OnPart(d) PROVE Types'
  <2> DEFINE part == Head(s2c[d])
             seen == (UNION {t.seen : t \in {t \in tracker[d] : t.upto = part.upto}}) \union {part.idx}
  <2>1. s2c[d] # <<>> /\ part \in ToClient /\ part.kind = "part"
    BY <1>0, <1>14 DEF OnPart, Frame, Types
  <2>2. part.upto \in Nat /\ part.idx \in 1..Parts /\ part.blobs \subseteq Blobs
    BY <2>1, FrameTypes
  <2>3. seen \subseteq 1..Parts
    <3>1. \A t \in tracker[d] : t.seen \subseteq 1..Parts
      BY <1>0 DEF Types, Progress
    <3> QED BY <2>2, <3>1
  <2>4. [upto |-> part.upto, seen |-> seen] \in Progress
    BY <2>2, <2>3 DEF Progress
  <2>5. /\ \/ has' = [has EXCEPT ![d] = has[d] \union part.blobs]
           \/ has' = has
        /\ \/ cursor' = [cursor EXCEPT ![d] = part.upto]
           \/ cursor' = cursor
        /\ \/ tracker' = [tracker EXCEPT ![d] = {}]
           \/ tracker' = [tracker EXCEPT ![d] = {[upto |-> part.upto, seen |-> seen]}]
           \/ tracker' = tracker
        /\ Consume(d) /\ UNCHANGED <<unacked, inFlight, goal>>
    BY <1>14 DEF OnPart
  <2> HIDE DEF part, seen
  <2>6. /\ cursor' \in [Device -> Nat] /\ has' \in [Device -> SUBSET Blobs]
        /\ tracker' \in [Device -> SUBSET Progress]
    <3>1. cursor' \in [Device -> Nat]
      BY <1>0, <2>2, <2>5 DEF Types
    <3>2. has[d] \union part.blobs \subseteq Blobs
      BY <1>0, <2>2 DEF Types
    <3>3. has' \in [Device -> SUBSET Blobs]
      BY <1>0, <2>5, <3>2 DEF Types
    <3>4. \E T \in SUBSET Progress : tracker' = [tracker EXCEPT ![d] = T] \/ tracker' = tracker
      <4>1. {[upto |-> part.upto, seen |-> seen]} \in SUBSET Progress /\ {} \in SUBSET Progress
        BY <2>4
      <4> QED BY <2>5, <4>1
    <3>5. tracker' \in [Device -> SUBSET Progress]
      BY <1>0, <3>4 DEF Types
    <3> QED BY <3>1, <3>3, <3>5
  <2>7. /\ s2c' \in [Device -> Seq(ToClient)] /\ c2s' \in [Device -> Seq(ToRelay)]
        /\ caughtUp' \in [Device -> BOOLEAN]
        /\ UNCHANGED <<relayLog, task, session, made, drops, cast>>
    BY <1>0, <2>1, <2>5, <2>6, ConsumeIs
  <2> QED BY <1>0, <2>5, <2>6, <2>7 DEF Types, relayLog, task
<1>15. ASSUME NEW d \in Device, SeeClose(d) PROVE Types'
  <2>1. NoSnapshot \in Snapshots /\ <<>> \in Seq(Entry) /\ <<>> \in Seq(ToClient) /\ <<>> \in Seq(ToRelay)
    BY FanoutAssumption DEF NoSnapshot, Snapshots
  <2> QED BY <1>0, <1>15, <2>1 DEF SeeClose, EndSession, EndTask, Types, States, relayLog
<1>16. ASSUME NEW d \in Device, Push(d) PROVE Types'
  <2> DEFINE n == IF unacked[d] THEN made[d] ELSE made[d] + 1
             b == [dev |-> d, n |-> n]
  <2>1. /\ d \in Pushers /\ (unacked[d] \/ made[d] < MaxBlobs) /\ made[d] \in Nat /\ MaxBlobs \in Nat
        /\ made[d] <= MaxBlobs /\ (unacked[d] => made[d] >= 1)
    BY <1>0, <1>16, FanoutAssumption DEF Push, Types, Bounds, BoundsAt, CountsAt, WiresAt, PhaseAt, MaxBlobs
  <2>2. n \in 1..MaxBlobs /\ n \in Nat
    BY <2>1
  <2>6. b \in Blobs
    BY <2>1, <2>2 DEF Blobs
  <2>3. PushFrame(b) \in ToRelay
    BY <2>6, FrameTypes
  <2>4. Append(c2s[d], PushFrame(b)) \in Seq(ToRelay)
    BY <1>0, <2>3 DEF Types
  <2>5. /\ made' = [made EXCEPT ![d] = n] /\ has' = [has EXCEPT ![d] = has[d] \union {b}]
        /\ c2s' = [c2s EXCEPT ![d] = Append(c2s[d], PushFrame(b))]
        /\ unacked' = [unacked EXCEPT ![d] = TRUE] /\ inFlight' = [inFlight EXCEPT ![d] = TRUE]
        /\ UNCHANGED <<relayLog, task, s2c, session, cursor, tracker, goal, caughtUp, drops, cast>>
    BY <1>16 DEF Push
  <2> HIDE DEF n, b
  <2>7. has[d] \union {b} \subseteq Blobs
    BY <1>0, <2>6 DEF Types
  <2> QED BY <1>0, <2>2, <2>4, <2>5, <2>7 DEF Types, relayLog, task
<1>17. ASSUME NEW d \in Device, NEW crash \in BOOLEAN, Drop(d, crash) PROVE Types'
  <2>1. NoSnapshot \in Snapshots /\ <<>> \in Seq(Entry) /\ <<>> \in Seq(ToClient) /\ <<>> \in Seq(ToRelay)
    BY FanoutAssumption DEF NoSnapshot, Snapshots
  <2>2. late' \subseteq hist /\ hist' = hist
    BY <1>0, <1>17 DEF Drop, Types, Bounds, BoundsAt, CountsAt, WiresAt, PhaseAt, relayLog
  <2>3. tracker' \in [Device -> SUBSET Progress]
    BY <1>0, <1>17 DEF Drop, Types
  <2>4. drops' \in Nat
    BY <1>0, <1>17 DEF Drop, Types
  <2> QED BY <1>0, <1>17, <2>1, <2>2, <2>3, <2>4 DEF Drop, EndSession, EndTask, Types, States, relayLog
<1> QED
  BY <1>1, <1>2, <1>3, <1>4, <1>5, <1>6, <1>7, <1>8, <1>9, <1>10, <1>11, <1>12, <1>13,
     <1>14, <1>15, <1>16, <1>17 DEF Next, RelayStep, ClientStep

-----------------------------------------------------------------------------
(* What a step changes                                                      *)

\* All there is of one device, its task and its connection, but the receiver.
Local(d) ==
    <<pc[d], lastSent[d], owed[d], serving[d], c2s[d], s2c[d], session[d], cursor[d],
      has[d], tracker[d], made[d], unacked[d], inFlight[d], goal[d]>>

StepOf(d) ==
    \/ Connect(d) \/ RelayStep(d) \/ ClientStep(d) \/ Push(d)
    \/ \E crash \in BOOLEAN : Drop(d, crash)

\* A step is of one device and leaves the others alone, but for a broadcast.
LEMMA Locality ==
    ASSUME Types, NEW d \in Device, StepOf(d), NEW c \in Device \ {d}
    PROVE  /\ Local(c)' = Local(c)
           /\ RelayFanout(d) \/ (rx'[c] = rx[c] /\ lagged'[c] = lagged[c])
<1> USE DEF Local, Types
<1>1. CASE Connect(d)
  BY <1>1 DEF Connect
<1>2. CASE ReadBacklog(d) \/ Resync(d)
  BY <1>2 DEF ReadBacklog, Resync, ServeFrom, Send, client
<1>3. CASE SendPart(d)
  BY <1>3 DEF SendPart, EndTask, Send, client
<1>4. CASE Forward(d)
  BY <1>4 DEF Forward, Send, client
<1>5. CASE RelayPush(d) \/ RelayAck(d) \/ RelayCompact(d)
  BY <1>5 DEF RelayPush, RelayAck, RelayCompact, Send, task, client
<1>6. CASE RelayFanout(d)
  BY <1>6 DEF RelayFanout, client
<1>7. CASE OnWelcome(d) \/ OnAck(d) \/ OnUpdate(d) \/ OnPart(d)
  <2>1. /\ s2c' = [s2c EXCEPT ![d] = Tail(s2c[d])]
        /\ c2s' = c2s \/ c2s' = [c2s EXCEPT ![d] = Append(c2s[d], CompactFrame(cursor'[d], has'[d]))]
        /\ UNCHANGED <<task, session, made>>
    BY <1>7 DEF OnWelcome, OnAck, OnUpdate, OnPart, Consume, AfterFrame
  <2>2. cursor'[c] = cursor[c] /\ has'[c] = has[c] /\ tracker'[c] = tracker[c]
    BY <1>7 DEF OnWelcome, OnAck, OnUpdate, OnPart
  <2>3. unacked'[c] = unacked[c] /\ inFlight'[c] = inFlight[c] /\ goal'[c] = goal[c]
    BY <1>7 DEF OnWelcome, OnAck, OnUpdate, OnPart
  <2> QED BY <2>1, <2>2, <2>3 DEF task
<1>8. CASE SeeClose(d)
  BY <1>8 DEF SeeClose, EndSession, EndTask
<1>9. CASE Push(d)
  BY <1>9 DEF Push, task
<1>10. CASE \E crash \in BOOLEAN : Drop(d, crash)
  BY <1>10 DEF Drop, EndSession, EndTask
<1> QED
  BY <1>1, <1>2, <1>3, <1>4, <1>5, <1>6, <1>7, <1>8, <1>9, <1>10 DEF StepOf, RelayStep, ClientStep

\* The log only grows; a push and a compaction are the steps that change it.
LEMMA LogGrows ==
    ASSUME Types, LogShape, Next
    PROVE  /\ hist \subseteq hist' /\ top <= top' /\ base <= base'
           /\ \/ UNCHANGED <<base, top, entries, snapBlobs, hist>>
              \/ \E d \in Device : RelayPush(d) \/ RelayCompact(d)
<1>1. \/ UNCHANGED <<base, top, entries, snapBlobs, hist>>
      \/ \E d \in Device : RelayPush(d) \/ RelayCompact(d)
  BY DEF Next, RelayStep, ClientStep, Connect, ReadBacklog, Resync, SendPart, Forward,
         RelayAck, RelayFanout, OnWelcome, OnAck, OnUpdate, OnPart, SeeClose, Push, Drop,
         LateFanout, Consume, Broadcast, relayLog
<1>2. ASSUME NEW d \in Device, RelayPush(d)
      PROVE  hist \subseteq hist' /\ top <= top' /\ base <= base'
  BY <1>2 DEF RelayPush, Types
<1>3. ASSUME NEW d \in Device, RelayCompact(d)
      PROVE  hist \subseteq hist' /\ top <= top' /\ base <= base'
  <2>1. c2s[d] \in Seq(ToRelay) /\ c2s[d] # <<>> /\ Head(c2s[d]) \in ToRelay /\ Head(c2s[d]).kind = "compact"
    BY <1>3 DEF RelayCompact, Types
  <2>2. Head(c2s[d]).upto \in Nat
    BY <2>1, FrameTypes
  <2> QED BY <1>3, <2>2 DEF RelayCompact, Types
<1> QED
  BY <1>1, <1>2, <1>3 DEF Types

LEMMA LogShapeKept ==
    ASSUME Log, Next
    PROVE  LogShape'
<1>0. Types /\ LogShape /\ Types'
  BY TypesKept DEF Log
<1>1. CASE UNCHANGED <<base, top, entries, snapBlobs, hist>>
  BY <1>0, <1>1 DEF LogShape
<1>2. ASSUME NEW d \in Device, RelayPush(d)
      PROVE  LogShape'
  <2> DEFINE e == [seq |-> top + 1, blob |-> Head(c2s[d]).blob]
  <2>1. /\ hist' = hist \union {e} /\ entries' = entries \union {e} /\ top' = top + 1 /\ base' = base
        /\ e.seq = top + 1
    BY <1>2 DEF RelayPush
  <2> HIDE DEF e
  <2>2. base \in Nat /\ top \in Nat /\ base <= top /\ \A f \in hist : f.seq \in Nat
    BY <1>0 DEF Types, Entry
  <2>3. \A f \in hist' : 1 <= f.seq /\ f.seq <= top'
    BY <1>0, <2>1, <2>2 DEF LogShape
  <2>4. \A f, g \in hist' : f.seq = g.seq => f = g
    BY <1>0, <2>1, <2>2 DEF LogShape
  <2>5. \A n \in 1..top' : \E f \in hist' : f.seq = n
    BY <1>0, <2>1, <2>2 DEF LogShape
  <2>6. entries' = {f \in hist' : f.seq > base'}
    BY <1>0, <2>1, <2>2 DEF LogShape
  <2> QED BY <2>3, <2>4, <2>5, <2>6 DEF LogShape
<1>3. ASSUME NEW d \in Device, RelayCompact(d)
      PROVE  LogShape'
  <2>1. /\ hist' = hist /\ top' = top
        /\ \/ base' = base /\ entries' = entries
           \/ base < base' /\ entries' = {e \in entries : e.seq > base'}
    BY <1>3 DEF RelayCompact
  <2>2. base \in Nat /\ base' \in Nat /\ \A e \in hist : e.seq \in Nat
    BY <1>0 DEF Types, Entry
  <2>3. entries' = {e \in hist' : e.seq > base'}
    BY <1>0, <2>1, <2>2 DEF LogShape
  <2> QED BY <1>0, <2>1, <2>3 DEF LogShape
<1> QED
  BY <1>0, <1>1, <1>2, <1>3, LogGrows

\* Each outcome of a SendPart, at the device it is for.
NextPart(d) ==
    Part(serving[d].seq, serving[d].next, {b \in snapBlobs : PartOf(b) = serving[d].next})

SendsMore(d) ==
    /\ base = serving[d].seq /\ serving[d].next < Parts
    /\ s2c'[d] = s2c[d] \o <<NextPart(d)>>
    /\ serving'[d].seq = serving[d].seq /\ serving'[d].next = serving[d].next + 1
    /\ serving'[d].backlog = serving[d].backlog
    /\ pc'[d] = "snapshot" /\ lastSent'[d] = lastSent[d]
    /\ rx'[d] = rx[d] /\ lagged'[d] = lagged[d]

SendsLast(d) ==
    /\ base = serving[d].seq /\ serving[d].next = Parts
    /\ s2c'[d] = s2c[d] \o (<<NextPart(d)>> \o Updates(serving[d].backlog))
    /\ pc'[d] = "live" /\ lastSent'[d] = serving[d].seq + Len(serving[d].backlog)
    /\ rx'[d] = rx[d] /\ lagged'[d] = lagged[d]

Closes(d) ==
    /\ base # serving[d].seq
    /\ s2c'[d] = s2c[d] /\ lastSent'[d] = lastSent[d]
    /\ pc'[d] = "closed" /\ rx'[d] = <<>> /\ lagged'[d] = FALSE

LEMMA SendPartIs ==
    ASSUME Log, NEW d \in Device, SendPart(d)
    PROVE  /\ pc[d] = "snapshot" /\ NextPart(d) \in ToClient
           /\ SendsMore(d) \/ SendsLast(d) \/ Closes(d)
           /\ UNCHANGED <<relayLog, owed, late, c2s, client, drops, cast>>
<1>0. /\ Types /\ pc[d] = "snapshot" /\ serving[d] \in Snapshots /\ serving[d].next \in 1..Parts
      /\ serving[d].seq \in Nat /\ serving[d].backlog \in Seq(Entry)
      /\ \A i \in DOMAIN serving[d].backlog : serving[d].backlog[i].seq = serving[d].seq + i
  BY DEF SendPart, Log, Types, Served, ServedAt, Snapshots
<1>1. NextPart(d) \in ToClient
  BY <1>0, FrameTypes DEF Types, NextPart
<1>2. LastOf(serving[d].backlog, serving[d].seq) = serving[d].seq + Len(serving[d].backlog)
  <2>1. serving[d].backlog # <<>> =>
            /\ Len(serving[d].backlog) \in DOMAIN serving[d].backlog
            /\ Last(serving[d].backlog) = serving[d].backlog[Len(serving[d].backlog)]
    BY <1>0 DEF Last
  <2> QED BY <1>0, <2>1 DEF LastOf
<1>3. \/ /\ base = serving[d].seq /\ serving[d].next < Parts
         /\ s2c' = [s2c EXCEPT ![d] = s2c[d] \o <<NextPart(d)>>]
         /\ serving' = [serving EXCEPT ![d] = [serving[d] EXCEPT !.next = serving[d].next + 1]]
         /\ UNCHANGED <<pc, lastSent, rx, lagged>>
      \/ /\ base = serving[d].seq /\ serving[d].next = Parts
         /\ s2c' = [s2c EXCEPT ![d] = s2c[d] \o (<<NextPart(d)>> \o Updates(serving[d].backlog))]
         /\ lastSent' = [lastSent EXCEPT ![d] = LastOf(serving[d].backlog, serving[d].seq)]
         /\ pc' = [pc EXCEPT ![d] = "live"] /\ UNCHANGED <<rx, lagged>>
      \/ base # serving[d].seq /\ EndTask(d, "closed") /\ UNCHANGED <<lastSent, s2c>>
  BY DEF SendPart, Send, NextPart, SnapshotStillThere
<1>4. UNCHANGED <<relayLog, owed, late, c2s, client, drops, cast>>
  BY DEF SendPart
<1>5. CASE /\ base = serving[d].seq /\ serving[d].next < Parts
           /\ s2c' = [s2c EXCEPT ![d] = s2c[d] \o <<NextPart(d)>>]
           /\ serving' = [serving EXCEPT ![d] = [serving[d] EXCEPT !.next = serving[d].next + 1]]
           /\ UNCHANGED <<pc, lastSent, rx, lagged>>
  <2>1. serving'[d] = [serving[d] EXCEPT !.next = serving[d].next + 1]
    BY <1>0, <1>5 DEF Types
  <2>2. /\ serving'[d].seq = serving[d].seq /\ serving'[d].next = serving[d].next + 1
        /\ serving'[d].backlog = serving[d].backlog
    BY <1>0, <2>1 DEF Snapshots
  <2>3. SendsMore(d)
    BY <1>0, <1>5, <2>2 DEF SendsMore, Types
  <2> QED BY <1>0, <1>1, <1>4, <2>3
<1>6. CASE /\ base = serving[d].seq /\ serving[d].next = Parts
           /\ s2c' = [s2c EXCEPT ![d] = s2c[d] \o (<<NextPart(d)>> \o Updates(serving[d].backlog))]
           /\ lastSent' = [lastSent EXCEPT ![d] = LastOf(serving[d].backlog, serving[d].seq)]
           /\ pc' = [pc EXCEPT ![d] = "live"] /\ UNCHANGED <<rx, lagged>>
  <2>1. SendsLast(d)
    BY <1>0, <1>2, <1>6 DEF SendsLast, Types
  <2> QED BY <1>0, <1>1, <1>4, <2>1
<1>7. CASE base # serving[d].seq /\ EndTask(d, "closed") /\ UNCHANGED <<lastSent, s2c>>
  <2>1. Closes(d)
    BY <1>0, <1>7 DEF Closes, EndTask, Types
  <2> QED BY <1>0, <1>1, <1>4, <2>1
<1> QED
  BY <1>3, <1>5, <1>6, <1>7

\* A push is of the device's last edit, new or not acked yet.
Mine(d) == [dev |-> d, n |-> made'[d]]

LEMMA PushIs ==
    ASSUME Types, Bounds, NEW d \in Device, Push(d)
    PROVE  /\ session[d] /\ ~inFlight[d] /\ made'[d] \in 1..MaxBlobs /\ made[d] \in Nat
           /\ made'[d] = IF unacked[d] THEN made[d] ELSE made[d] + 1
           /\ Mine(d) \in Blobs /\ has'[d] = has[d] \union {Mine(d)}
           /\ c2s'[d] = Append(c2s[d], PushFrame(Mine(d))) /\ PushFrame(Mine(d)) \in ToRelay
           /\ unacked'[d] /\ inFlight'[d]
           /\ UNCHANGED <<relayLog, task, s2c, session, cursor, tracker, goal, caughtUp, drops, cast>>
<1> DEFINE n == IF unacked[d] THEN made[d] ELSE made[d] + 1
           b == [dev |-> d, n |-> n]
<1>1. /\ d \in Pushers /\ (unacked[d] \/ made[d] < MaxBlobs) /\ made[d] \in Nat /\ MaxBlobs \in Nat
      /\ made[d] <= MaxBlobs /\ (unacked[d] => made[d] >= 1)
  BY FanoutAssumption DEF Push, Types, Bounds, BoundsAt, CountsAt, MaxBlobs
<1>2. n \in 1..MaxBlobs /\ n \in Nat
  BY <1>1
<1>3. b \in Blobs /\ PushFrame(b) \in ToRelay
  BY <1>1, <1>2, FrameTypes DEF Blobs
<1>4. /\ session[d] /\ ~inFlight[d]
      /\ made' = [made EXCEPT ![d] = n] /\ has' = [has EXCEPT ![d] = has[d] \union {b}]
      /\ c2s' = [c2s EXCEPT ![d] = Append(c2s[d], PushFrame(b))]
      /\ unacked' = [unacked EXCEPT ![d] = TRUE] /\ inFlight' = [inFlight EXCEPT ![d] = TRUE]
      /\ UNCHANGED <<relayLog, task, s2c, session, cursor, tracker, goal, caughtUp, drops, cast>>
  BY DEF Push
<1> HIDE DEF b
<1>5. made'[d] = n /\ b = Mine(d)
  BY <1>4 DEF Mine, Types, b
<1> HIDE DEF n
<1>6. /\ has'[d] = has[d] \union {b} /\ c2s'[d] = Append(c2s[d], PushFrame(b))
      /\ unacked'[d] /\ inFlight'[d]
  BY <1>4 DEF Types
<1>7. made'[d] = IF unacked[d] THEN made[d] ELSE made[d] + 1
  BY <1>5 DEF n
<1> QED
  BY <1>1, <1>2, <1>3, <1>4, <1>5, <1>6, <1>7

\* What a device reads and what it makes of it.
LEMMA ReadIs ==
    ASSUME Log, Next, NEW d \in Device,
           OnWelcome(d) \/ OnAck(d) \/ OnUpdate(d) \/ OnPart(d)
    PROVE  /\ session[d] /\ s2c[d] # <<>> /\ s2c'[d] = Tail(s2c[d])
           /\ \/ c2s'[d] = c2s[d]
              \/ c2s'[d] = Append(c2s[d], CompactFrame(cursor'[d], has'[d]))
           /\ UNCHANGED <<relayLog, task, session, made, drops, cast>>
<1>0. Types /\ Types' /\ Consume(d) /\ s2c[d] # <<>> /\ session[d]
  BY TypesKept DEF Log, OnWelcome, OnAck, OnUpdate, OnPart, Frame
<1>1. cursor'[d] \in Nat /\ has'[d] \subseteq Blobs
  BY <1>0, CastKept DEF Types
<1> QED
  BY <1>0, <1>1, ConsumeIs

UpdateIs(d) ==
    LET u == Head(s2c[d])
    IN  /\ u.kind = "update"
        /\ IF u.seq > cursor[d]
           THEN has'[d] = has[d] \union {u.blob} /\ cursor'[d] = u.seq
           ELSE has'[d] = has[d] /\ cursor'[d] = cursor[d]
        /\ tracker'[d] = tracker[d]

PartIs(d) ==
    LET p == Head(s2c[d])
        seen == Seen(tracker[d], p.upto) \union {p.idx}
    IN  /\ p.kind = "part"
        /\ \/ /\ p.upto > cursor[d] /\ 1..Parts \subseteq seen
              /\ has'[d] = has[d] \union p.blobs /\ cursor'[d] = p.upto /\ tracker'[d] = {}
           \/ /\ p.upto > cursor[d] /\ ~(1..Parts \subseteq seen)
              /\ has'[d] = has[d] \union p.blobs /\ cursor'[d] = cursor[d]
              /\ tracker'[d] = {[upto |-> p.upto, seen |-> seen]}
           \/ /\ p.upto <= cursor[d]
              /\ has'[d] = has[d] /\ cursor'[d] = cursor[d] /\ tracker'[d] = tracker[d]

\* Every part is in when there are as many as there are parts.
LEMMA AllParts ==
    ASSUME NEW seen \in SUBSET (1..Parts)
    PROVE  AllPartsIn(seen) <=> 1..Parts \subseteq seen
<1>1. IsFiniteSet(1..Parts) /\ Cardinality(1..Parts) = Parts
  BY FanoutAssumption, FS_Interval
<1>2. Cardinality(seen) = Cardinality(1..Parts) => seen = 1..Parts
  BY <1>1, FS_Subset
<1> QED
  BY <1>1, <1>2 DEF AllPartsIn

LEMMA OnUpdateIs ==
    ASSUME Types, NEW d \in Device, OnUpdate(d)
    PROVE  UpdateIs(d) /\ UNCHANGED <<unacked, inFlight, goal>>
BY DEF OnUpdate, Frame, AboveCursor, UpdateIs, Types

LEMMA OnPartIs ==
    ASSUME Types, NEW d \in Device, OnPart(d)
    PROVE  PartIs(d) /\ UNCHANGED <<unacked, inFlight, goal>>
<1> DEFINE p == Head(s2c[d])
           seen == Seen(tracker[d], p.upto) \union {p.idx}
<1>1. p.kind = "part" /\ p \in ToClient
  BY DEF OnPart, Frame, Types
<1>2. p.upto \in Nat /\ p.idx \in 1..Parts /\ cursor[d] \in Nat
  BY <1>1, FrameTypes DEF Types
<1>3. seen \subseteq 1..Parts
  <2>1. \A t \in tracker[d] : t.seen \subseteq 1..Parts
    BY DEF Types, Progress
  <2> QED BY <1>2, <2>1 DEF Seen
<1>4. AllPartsIn(seen) <=> 1..Parts \subseteq seen
  BY <1>3, AllParts
<1>5. /\ IF p.upto > cursor[d]
         THEN /\ has' = [has EXCEPT ![d] = has[d] \union p.blobs]
              /\ IF AllPartsIn(seen)
                 THEN /\ cursor' = [cursor EXCEPT ![d] = p.upto]
                      /\ tracker' = [tracker EXCEPT ![d] = {}]
                 ELSE /\ tracker' = [tracker EXCEPT ![d] = {[upto |-> p.upto, seen |-> seen]}]
                      /\ UNCHANGED cursor
         ELSE UNCHANGED <<has, cursor, tracker>>
      /\ UNCHANGED <<unacked, inFlight, goal>>
  BY DEF OnPart, Seen
<1> HIDE DEF p, seen
<1>6. p.upto > cursor[d] \/ p.upto <= cursor[d]
  BY <1>2
<1>7. \/ /\ p.upto > cursor[d] /\ 1..Parts \subseteq seen
         /\ has'[d] = has[d] \union p.blobs /\ cursor'[d] = p.upto /\ tracker'[d] = {}
      \/ /\ p.upto > cursor[d] /\ ~(1..Parts \subseteq seen)
         /\ has'[d] = has[d] \union p.blobs /\ cursor'[d] = cursor[d]
         /\ tracker'[d] = {[upto |-> p.upto, seen |-> seen]}
      \/ /\ p.upto <= cursor[d]
         /\ has'[d] = has[d] /\ cursor'[d] = cursor[d] /\ tracker'[d] = tracker[d]
  BY <1>2, <1>4, <1>5, <1>6 DEF Types
<1> QED
  BY <1>1, <1>5, <1>7 DEF PartIs, p, seen

\* A position is a number.
LEMMA PosTypes ==
    ASSUME Types, NEW d \in Device, NEW k \in DOMAIN s2c[d]
    PROVE  /\ s2c[d][k] \in ToClient
           /\ Moves(s2c[d][k]) => Pos(s2c[d][k]) \in Nat
<1>1. s2c[d] \in Seq(ToClient)
  BY DEF Types
<1>2. s2c[d][k] \in ToClient
  BY <1>1
<1> QED
  BY <1>2, FrameTypes DEF Moves, Pos

LEMMA BoundsElsewhere ==
    ASSUME Log, Next, NEW c \in Device, Local(c)' = Local(c), Len(rx'[c]) <= Cap,
           \A i \in DOMAIN rx'[c] : rx'[c][i] \in hist',
           pc[c] \in {"none", "closed"} => rx'[c] = rx[c]
    PROVE  BoundsAt(c)'
<1>0. /\ Types /\ Types' /\ BoundsAt(c) /\ hist \subseteq hist' /\ top <= top'
      /\ top \in Nat /\ top' \in Nat /\ Cap' = Cap /\ MaxBlobs' = MaxBlobs
  BY TypesKept, LogGrows, CastKept DEF Log, Bounds, Types
<1>1. /\ pc'[c] = pc[c] /\ lastSent'[c] = lastSent[c] /\ owed'[c] = owed[c] /\ c2s'[c] = c2s[c]
      /\ s2c'[c] = s2c[c] /\ session'[c] = session[c] /\ cursor'[c] = cursor[c]
      /\ tracker'[c] = tracker[c] /\ made'[c] = made[c] /\ goal'[c] = goal[c] /\ unacked'[c] = unacked[c]
  BY DEF Local
<1>2. \A i \in DOMAIN s2c'[c] : Moves(s2c'[c][i]) => Pos(s2c'[c][i]) <= top'
  BY <1>0, <1>1, PosTypes DEF BoundsAt, CountsAt, WiresAt, PhaseAt
<1>3. \A i \in DOMAIN c2s'[c] : c2s'[c][i].kind = "compact" => c2s'[c][i].upto <= top'
  <2>1. \A i \in DOMAIN c2s[c] : c2s[c][i] \in ToRelay
    BY <1>0 DEF Types
  <2>2. \A i \in DOMAIN c2s[c] : c2s[c][i].kind = "compact" => c2s[c][i].upto \in Nat
    BY <2>1, FrameTypes
  <2> QED BY <1>0, <1>1, <2>2 DEF BoundsAt, CountsAt, WiresAt, PhaseAt
<1>4. lastSent'[c] <= top' /\ cursor'[c] <= top'
  BY <1>0, <1>1 DEF BoundsAt, CountsAt, WiresAt, PhaseAt, Types
<1> QED
  BY <1>0, <1>1, <1>2, <1>3, <1>4 DEF BoundsAt, CountsAt, WiresAt, PhaseAt

LEMMA BoundsHere ==
    ASSUME Log, Next, NEW d \in Device, StepOf(d)
    PROVE  BoundsAt(d)'
<1>0. /\ Types /\ Types' /\ Bounds /\ BoundsAt(d) /\ LogShape /\ LogShape'
      /\ hist \subseteq hist' /\ top <= top'
      /\ top \in Nat /\ top' \in Nat /\ Cap' = Cap /\ MaxBlobs' = MaxBlobs
      /\ Cap \in Nat \ {0} /\ MaxBlobs \in Nat
  BY TypesKept, LogShapeKept, LogGrows, CastKept, FanoutAssumption DEF Log, Bounds, Types, Cap, MaxBlobs
<1>1. /\ cursor[d] \in Nat /\ lastSent[d] \in Nat /\ made[d] \in Nat /\ rx[d] \in Seq(Entry)
      /\ c2s[d] \in Seq(ToRelay) /\ s2c[d] \in Seq(ToClient) /\ serving[d] \in Snapshots
      /\ cursor[d] <= top /\ lastSent[d] <= top /\ base \in Nat /\ base <= top
  BY <1>0 DEF Types, BoundsAt, CountsAt, WiresAt, PhaseAt
<1>2. \A i \in DOMAIN s2c[d] : Moves(s2c[d][i]) => Pos(s2c[d][i]) \in Nat /\ Pos(s2c[d][i]) <= top
  BY <1>0, PosTypes DEF BoundsAt, CountsAt, WiresAt, PhaseAt
<1>3. \A i \in DOMAIN c2s[d] : c2s[d][i] \in ToRelay /\
          (c2s[d][i].kind = "compact" => c2s[d][i].upto \in Nat /\ c2s[d][i].upto <= top)
  <2>1. \A i \in DOMAIN c2s[d] : c2s[d][i] \in ToRelay
    BY <1>1
  <2> QED BY <1>0, <2>1, FrameTypes DEF BoundsAt, CountsAt, WiresAt, PhaseAt
<1>4. CASE Connect(d)
  BY <1>0, <1>1, <1>4 DEF Connect, Types, BoundsAt, CountsAt, WiresAt, PhaseAt, relayLog
<1>5. ASSUME NEW greeting \in Seq(ToClient), ServeFrom(d, greeting),
             UNCHANGED <<hist, base, top, client, rx, owed, c2s>>,
             \A i \in DOMAIN greeting : ~Moves(greeting[i]), pc[d] \in {"hello", "live"}
      PROVE  BoundsAt(d)'
  <2>1. pc'[d] \in {"snapshot", "live"} /\ lastSent'[d] <= top
    <3>1. ServesSnapshot(d, greeting) \/ ServesTail(d, greeting)
      BY <1>5, ServeFromIs
    <3>0. top <= top
      BY <1>0
    <3>2. CASE ServesSnapshot(d, greeting)
      BY <1>1, <3>2 DEF ServesSnapshot
    <3>3. CASE ServesTail(d, greeting)
      BY <1>1, <3>0, <3>3 DEF ServesTail
    <3> QED BY <3>1, <3>2, <3>3
  <2>2. \A i \in DOMAIN s2c'[d] : Moves(s2c'[d][i]) => Pos(s2c'[d][i]) <= top
    <3>1. CASE ServesSnapshot(d, greeting)
      <4>1. s2c'[d] = s2c[d] \o greeting
        BY <3>1 DEF ServesSnapshot
      <4>2. Longer(s2c[d], greeting, s2c'[d])
        BY <1>1, <4>1, Appended
      <4> QED BY <1>2, <1>5, <4>2 DEF Longer
    <3>2. CASE ServesTail(d, greeting)
      <4>1. PICK tail \in Seq(Entry) :
                /\ s2c'[d] = s2c[d] \o (greeting \o Updates(tail))
                /\ Len(tail) = top - lastSent[d]
                /\ \A i \in 1..(top - lastSent[d]) : tail[i] \in hist /\ tail[i].seq = lastSent[d] + i
        BY <3>2 DEF ServesTail
      <4> DEFINE more == greeting \o Updates(tail)
      <4>2. /\ more \in Seq(ToClient) /\ Len(more) = Len(greeting) + Len(tail)
            /\ \A i \in DOMAIN greeting : more[i] = greeting[i]
            /\ \A i \in DOMAIN tail : more[Len(greeting) + i] = Update(tail[i])
            /\ \A i \in DOMAIN more :
                 i \in DOMAIN greeting \/ \E j \in DOMAIN tail : i = Len(greeting) + j
        BY WithUpdates
      <4> HIDE DEF more
      <4>3. \A i \in DOMAIN tail : Pos(Update(tail[i])) <= top
        <5>1. DOMAIN tail = 1..(top - lastSent[d])
          BY <4>1
        <5>2. \A i \in DOMAIN tail : tail[i].seq <= top
          BY <1>0, <1>1, <4>1, <5>1
        <5> QED BY <5>2 DEF Pos, Update
      <4>4. \A i \in DOMAIN more : Moves(more[i]) => Pos(more[i]) <= top
        BY <1>5, <4>2, <4>3
      <4>5. s2c'[d] = s2c[d] \o more
        BY <4>1 DEF more
      <4>6. Longer(s2c[d], more, s2c'[d])
        BY <1>1, <4>2, <4>5, Appended
      <4> QED BY <1>2, <4>4, <4>6 DEF Longer
    <3> QED BY <1>5, <3>1, <3>2, ServeFromIs
  <2>3. CountsAt(d)'
    BY <1>0, <1>5, <2>1 DEF BoundsAt, CountsAt, client
  <2>4. WiresAt(d)'
    BY <1>0, <1>5, <2>2 DEF BoundsAt, WiresAt, client
  <2>5. PhaseAt(d)'
    BY <1>0, <1>5, <2>1 DEF BoundsAt, PhaseAt, client
  <2> QED BY <2>3, <2>4, <2>5 DEF BoundsAt
<1>6. CASE ReadBacklog(d)
  <2>1. <<Welcome(top)>> \in Seq(ToClient) /\ \A i \in DOMAIN <<Welcome(top)>> : ~Moves(<<Welcome(top)>>[i])
    BY <1>0, FrameTypes DEF Welcome, Moves
  <2> QED BY <1>5, <1>6, <2>1 DEF ReadBacklog, relayLog
<1>7. CASE Resync(d)
  <2>1. <<>> \in Seq(ToClient) /\ \A i \in DOMAIN <<>> : ~Moves(<<>>[i])
    OBVIOUS
  <2> QED BY <1>5, <1>7, <2>1 DEF Resync, relayLog
<1>8. CASE SendPart(d)
  <2>1. /\ pc[d] = "snapshot" /\ NextPart(d) \in ToClient
        /\ SendsMore(d) \/ SendsLast(d) \/ Closes(d)
        /\ UNCHANGED <<relayLog, owed, c2s, client>>
    BY <1>8, SendPartIs
  <2>2. /\ serving[d].backlog \in Seq(Entry) /\ serving[d].seq <= base /\ serving[d].seq \in Nat
        /\ serving[d].seq + Len(serving[d].backlog) <= top
        /\ \A i \in DOMAIN serving[d].backlog : serving[d].backlog[i].seq = serving[d].seq + i
    BY <1>1, <2>1 DEF Log, Served, ServedAt, Snapshots
  <2>3. Pos(NextPart(d)) <= top
    <3>1. serving[d].seq <= top
      BY <1>0, <1>1, <2>2
    <3> QED BY <3>1 DEF NextPart, Part, Pos
  <2>4. \A i \in DOMAIN serving[d].backlog : Pos(Update(serving[d].backlog[i])) <= top
    BY <1>0, <2>2 DEF Pos, Update
  <2>5. \A i \in DOMAIN s2c'[d] : Moves(s2c'[d][i]) => Pos(s2c'[d][i]) <= top
    <3>1. CASE SendsMore(d)
      <4>1. <<NextPart(d)>> \in Seq(ToClient)
        BY <2>1
      <4>2. Longer(s2c[d], <<NextPart(d)>>, s2c'[d])
        BY <1>1, <3>1, <4>1, Appended DEF SendsMore
      <4> QED BY <1>2, <2>3, <4>2 DEF Longer
    <3>2. CASE SendsLast(d)
      <4> DEFINE more == <<NextPart(d)>> \o Updates(serving[d].backlog)
      <4>1. /\ more \in Seq(ToClient)
            /\ \A i \in DOMAIN <<NextPart(d)>> : more[i] = <<NextPart(d)>>[i]
            /\ \A i \in DOMAIN serving[d].backlog :
                   more[Len(<<NextPart(d)>>) + i] = Update(serving[d].backlog[i])
            /\ \A i \in DOMAIN more :
                   \/ i \in DOMAIN <<NextPart(d)>>
                   \/ \E j \in DOMAIN serving[d].backlog : i = Len(<<NextPart(d)>>) + j
        <5>1. <<NextPart(d)>> \in Seq(ToClient)
          BY <2>1
        <5> QED BY <2>2, <5>1, WithUpdates
      <4>2. s2c'[d] = s2c[d] \o more
        BY <3>2 DEF SendsLast
      <4> HIDE DEF more
      <4>3. \A i \in DOMAIN more : Pos(more[i]) <= top
        BY <2>3, <2>4, <4>1
      <4>4. Longer(s2c[d], more, s2c'[d])
        BY <1>1, <4>1, <4>2, Appended
      <4> QED BY <1>2, <4>3, <4>4 DEF Longer
    <3>3. CASE Closes(d)
      BY <1>2, <3>3 DEF Closes
    <3> QED BY <2>1, <3>1, <3>2, <3>3
  <2>6. lastSent'[d] <= top /\ pc'[d] \in {"snapshot", "live", "closed"}
    BY <1>1, <2>1, <2>2 DEF SendsMore, SendsLast, Closes
  <2>7. rx'[d] = rx[d] \/ (rx'[d] = <<>> /\ pc'[d] = "closed")
    BY <2>1 DEF SendsMore, SendsLast, Closes
  <2>8. CountsAt(d)'
    BY <1>0, <2>1, <2>6 DEF BoundsAt, CountsAt, client, relayLog
  <2>9. WiresAt(d)'
    BY <1>0, <2>1, <2>5, <2>7 DEF BoundsAt, WiresAt, client, relayLog
  <2>10. PhaseAt(d)'
    <3>1. pc'[d] = "closed" => rx'[d] = <<>>
      BY <2>1 DEF SendsMore, SendsLast, Closes
    <3> QED BY <1>0, <2>1, <2>6, <3>1 DEF BoundsAt, PhaseAt, client
  <2> QED BY <2>8, <2>9, <2>10 DEF BoundsAt
<1>9. CASE Forward(d)
  <2>1. /\ rx[d] # <<>> /\ pc[d] = "live" /\ rx'[d] = Tail(rx[d]) /\ pc'[d] = "live"
        /\ \/ /\ s2c'[d] = s2c[d] \o <<Update(Head(rx[d]))>> /\ lastSent'[d] = Head(rx[d]).seq
           \/ s2c'[d] = s2c[d] /\ lastSent'[d] = lastSent[d]
        /\ UNCHANGED <<relayLog, owed, c2s, client>>
    <3>1. /\ rx \in [Device -> Seq(Entry)] /\ s2c \in [Device -> Seq(ToClient)] /\ lastSent \in [Device -> Nat]
      BY <1>0 DEF Types
    <3>2. /\ \/ s2c' = [s2c EXCEPT ![d] = @ \o <<Update(Head(rx[d]))>>] /\ lastSent' = [lastSent EXCEPT ![d] = Head(rx[d]).seq]
             \/ UNCHANGED <<s2c, lastSent>>
          /\ rx[d] # <<>> /\ rx' = [rx EXCEPT ![d] = Tail(@)]
          /\ pc[d] = "live" /\ pc' = pc /\ UNCHANGED <<relayLog, owed, c2s, client>>
      BY <1>9 DEF Forward, Send
    <3> QED BY <3>1, <3>2
  <2>2. /\ Head(rx[d]) \in hist /\ Head(rx[d]) \in Entry /\ Len(Tail(rx[d])) <= Cap
        /\ \A i \in DOMAIN Tail(rx[d]) : Tail(rx[d])[i] \in hist
    BY <1>0, <1>1, <2>1, Shortened DEF BoundsAt, WiresAt
  <2>3. Head(rx[d]).seq <= top /\ Pos(Update(Head(rx[d]))) <= top
    BY <1>0, <2>2 DEF LogShape, Pos, Update
  <2>4. \A i \in DOMAIN s2c'[d] : Moves(s2c'[d][i]) => Pos(s2c'[d][i]) <= top
    <3>1. <<Update(Head(rx[d]))>> \in Seq(ToClient)
      BY <2>2, FrameTypes
    <3>2. s2c'[d] = s2c[d] \o <<Update(Head(rx[d]))>> => Longer(s2c[d], <<Update(Head(rx[d]))>>, s2c'[d])
      BY <1>1, <3>1, Appended
    <3> QED BY <1>2, <2>1, <2>3, <3>2 DEF Longer
  <2>5. CountsAt(d)'
    BY <1>0, <1>1, <2>1, <2>3 DEF BoundsAt, CountsAt, client, relayLog
  <2>6. WiresAt(d)'
    BY <1>0, <2>1, <2>2, <2>4 DEF BoundsAt, WiresAt, client, relayLog
  <2>7. PhaseAt(d)'
    BY <1>0, <2>1 DEF BoundsAt, PhaseAt, client
  <2> QED BY <2>5, <2>6, <2>7 DEF BoundsAt
<1>10. CASE RelayPush(d)
  <2>1. /\ c2s[d] # <<>> /\ c2s'[d] = Tail(c2s[d]) /\ pc[d] = "live" /\ pc'[d] = "ack"
        /\ \E e \in hist' : owed'[d] = {e}
        /\ UNCHANGED <<lastSent, rx, s2c, client>>
    BY <1>0, <1>10 DEF RelayPush, Types
  <2>2. \A i \in DOMAIN c2s'[d] : c2s'[d][i].kind = "compact" => c2s'[d][i].upto <= top'
    BY <1>0, <1>1, <1>3, <2>1, Shortened
  <2>3. \A i \in DOMAIN s2c'[d] : Moves(s2c'[d][i]) => Pos(s2c'[d][i]) <= top'
    BY <1>0, <1>2, <2>1
  <2>4. CountsAt(d)'
    BY <1>0, <1>1, <2>1 DEF BoundsAt, CountsAt, client
  <2>5. WiresAt(d)'
    BY <1>0, <2>1, <2>2, <2>3 DEF BoundsAt, WiresAt
  <2>6. PhaseAt(d)'
    BY <1>0, <2>1 DEF BoundsAt, PhaseAt, client
  <2> QED BY <2>4, <2>5, <2>6 DEF BoundsAt
<1>11. CASE RelayAck(d)
  <2>1. PICK e \in owed[d] : s2c'[d] = s2c[d] \o <<Ack(e.seq)>>
    BY <1>0, <1>11 DEF RelayAck, Send, Types
  <2>2. <<Ack(e.seq)>> \in Seq(ToClient) /\ ~Moves(Ack(e.seq))
    <3>1. e.seq \in Nat
      BY <1>0, <2>1 DEF Types, Entry
    <3> QED BY <3>1, FrameTypes DEF Ack, Moves
  <2>3. Longer(s2c[d], <<Ack(e.seq)>>, s2c'[d])
    BY <1>1, <2>1, <2>2, Appended
  <2>4. \A i \in DOMAIN s2c'[d] : Moves(s2c'[d][i]) => Pos(s2c'[d][i]) <= top
    BY <1>2, <2>2, <2>3 DEF Longer
  <2>5. pc[d] = "ack" /\ pc'[d] = "fanout" /\ UNCHANGED <<relayLog, lastSent, rx, owed, c2s, client>>
    BY <1>0, <1>11 DEF RelayAck, Types
  <2>6. CountsAt(d)'
    BY <1>0, <2>5 DEF BoundsAt, CountsAt, client, relayLog
  <2>7. WiresAt(d)'
    BY <1>0, <2>4, <2>5 DEF BoundsAt, WiresAt, relayLog
  <2>8. PhaseAt(d)'
    BY <1>0, <2>5 DEF BoundsAt, PhaseAt, client
  <2> QED BY <2>6, <2>7, <2>8 DEF BoundsAt
<1>12. CASE RelayFanout(d)
  <2>1. PICK e \in owed[d] : Broadcast(e)
    BY <1>12 DEF RelayFanout
  <2>2. e \in hist
    BY <1>0 DEF BoundsAt, WiresAt
  <2>3. Len(rx'[d]) <= Cap /\ (\A i \in DOMAIN rx'[d] : rx'[d][i] \in hist)
    BY <1>0, <2>1, <2>2, BroadcastIs
  <2>4. pc[d] = "fanout" /\ pc'[d] = "live" /\ owed'[d] = {} /\ UNCHANGED <<lastSent, c2s, s2c, client, top, hist>>
    BY <1>0, <1>12, <2>1 DEF RelayFanout, Broadcast, Types
  <2>5. CountsAt(d)'
    BY <1>0, <2>4 DEF BoundsAt, CountsAt, client
  <2>6. WiresAt(d)'
    BY <1>0, <2>3, <2>4 DEF BoundsAt, WiresAt
  <2>7. PhaseAt(d)'
    BY <1>0, <2>4 DEF BoundsAt, PhaseAt, client
  <2> QED BY <2>5, <2>6, <2>7 DEF BoundsAt
<1>13. CASE RelayCompact(d)
  <2>1. /\ pc[d] = "live" /\ c2s[d] # <<>> /\ c2s'[d] = Tail(c2s[d])
        /\ UNCHANGED <<top, hist, task, s2c, client>>
    BY <1>0, <1>13 DEF RelayCompact, Types
  <2>2. \A i \in DOMAIN c2s'[d] : c2s'[d][i].kind = "compact" => c2s'[d][i].upto <= top
    BY <1>1, <1>3, <2>1, Shortened
  <2>3. CountsAt(d)'
    BY <1>0, <2>1 DEF BoundsAt, CountsAt, client, task
  <2>4. WiresAt(d)'
    BY <1>0, <2>1, <2>2 DEF BoundsAt, WiresAt, task
  <2>5. PhaseAt(d)'
    BY <1>0, <2>1 DEF BoundsAt, PhaseAt, client, task
  <2> QED BY <2>3, <2>4, <2>5 DEF BoundsAt
<1>14. CASE OnWelcome(d) \/ OnAck(d) \/ OnUpdate(d) \/ OnPart(d)
  <2>1. /\ session[d] /\ s2c[d] # <<>> /\ s2c'[d] = Tail(s2c[d])
        /\ \/ c2s'[d] = c2s[d]
           \/ c2s'[d] = Append(c2s[d], CompactFrame(cursor'[d], has'[d]))
        /\ UNCHANGED <<relayLog, task, session, made, drops, cast>>
    BY <1>14, ReadIs
  <2>2. /\ \A i \in DOMAIN s2c'[d] : Moves(s2c'[d][i]) => Pos(s2c'[d][i]) <= top
        /\ Head(s2c[d]) = s2c[d][1] /\ 1 \in DOMAIN s2c[d] /\ Head(s2c[d]) \in ToClient
    <3>1. /\ Head(s2c[d]) \in ToClient /\ Head(s2c[d]) = s2c[d][1] /\ 1 \in DOMAIN s2c[d]
          /\ \A i \in DOMAIN Tail(s2c[d]) : i + 1 \in DOMAIN s2c[d] /\ Tail(s2c[d])[i] = s2c[d][i + 1]
      BY <1>1, <2>1, Shortened
    <3> QED BY <1>2, <2>1, <3>1
  <2>3. Moves(Head(s2c[d])) => Pos(Head(s2c[d])) <= top
    BY <1>2, <2>2
  <2>4. cursor'[d] <= top
    <3>1. CASE OnUpdate(d)
      BY <1>0, <1>1, <2>3, <3>1, OnUpdateIs DEF UpdateIs, Moves, Pos
    <3>2. CASE OnPart(d)
      <4>1. Head(s2c[d]).kind = "part" /\ (cursor'[d] = Head(s2c[d]).upto \/ cursor'[d] = cursor[d])
        BY <1>0, <3>2, OnPartIs DEF PartIs
      <4> QED BY <1>1, <2>3, <4>1 DEF Moves, Pos
    <3>3. CASE OnWelcome(d) \/ OnAck(d)
      BY <1>1, <3>3 DEF OnWelcome, OnAck
    <3> QED BY <1>14, <3>1, <3>2, <3>3
  <2>5. \A i \in DOMAIN c2s'[d] : c2s'[d][i].kind = "compact" => c2s'[d][i].upto <= top
    <3>1. CompactFrame(cursor'[d], has'[d]).upto <= top
      BY <2>4 DEF CompactFrame
    <3>2. CASE c2s'[d] = Append(c2s[d], CompactFrame(cursor'[d], has'[d]))
      <4>1. \A i \in DOMAIN c2s'[d] : c2s'[d][i] = CompactFrame(cursor'[d], has'[d]) \/ (i \in DOMAIN c2s[d] /\ c2s'[d][i] = c2s[d][i])
        BY <1>1, <3>2
      <4> QED BY <1>3, <3>1, <4>1
    <3> QED BY <1>3, <2>1, <3>2
  <2>6. tracker'[d] = tracker[d] \/ (\E t : tracker'[d] = {t}) \/ tracker'[d] = {}
    <3>1. CASE OnUpdate(d)
      BY <1>0, <3>1, OnUpdateIs DEF UpdateIs
    <3>2. CASE OnPart(d)
      BY <1>0, <3>2, OnPartIs DEF PartIs
    <3>3. CASE OnWelcome(d) \/ OnAck(d)
      BY <3>3 DEF OnWelcome, OnAck
    <3> QED BY <1>14, <3>1, <3>2, <3>3
  <2>7. goal'[d] = goal[d] \/ \E g : goal'[d] = {g}
    <3>1. goal \in [Device -> SUBSET Nat]
      BY <1>0 DEF Types
    <3>2. goal' = goal \/ goal' = [goal EXCEPT ![d] = {Head(s2c[d]).latest}]
      BY <1>14 DEF OnWelcome, OnAck, OnUpdate, OnPart
    <3> QED BY <3>1, <3>2
  <2>8. unacked'[d] = unacked[d] \/ ~unacked'[d]
    BY <1>0, <1>14 DEF OnWelcome, OnAck, OnUpdate, OnPart, Types
  <2>9. CountsAt(d)'
    BY <1>0, <2>1, <2>4, <2>6, <2>7, <2>8 DEF BoundsAt, CountsAt, task, relayLog
  <2>10. WiresAt(d)'
    BY <1>0, <2>1, <2>2, <2>5 DEF BoundsAt, WiresAt, task, relayLog
  <2>11. PhaseAt(d)'
    BY <1>0, <2>1 DEF BoundsAt, PhaseAt, task
  <2> QED BY <2>9, <2>10, <2>11 DEF BoundsAt
<1>15. CASE SeeClose(d)
  BY <1>0, <1>1, <1>15 DEF SeeClose, EndSession, EndTask, Types, BoundsAt, CountsAt, WiresAt, PhaseAt, relayLog
<1>16. CASE Push(d)
  <2>1. /\ session[d] /\ made'[d] \in 1..MaxBlobs
        /\ c2s'[d] = Append(c2s[d], PushFrame(Mine(d)))
        /\ UNCHANGED <<relayLog, task, s2c, session, cursor, tracker, goal, caughtUp, drops, cast>>
    BY <1>0, <1>16, PushIs
  <2>2. \A i \in DOMAIN c2s'[d] : c2s'[d][i].kind = "compact" => c2s'[d][i].upto <= top
    <3>1. PushFrame(Mine(d)).kind # "compact"
      BY DEF PushFrame
    <3>2. \A i \in DOMAIN c2s'[d] :
              c2s'[d][i] = PushFrame(Mine(d)) \/ (i \in DOMAIN c2s[d] /\ c2s'[d][i] = c2s[d][i])
      BY <1>1, <2>1
    <3> QED BY <1>3, <3>1, <3>2
  <2>3. CountsAt(d)'
    BY <1>0, <1>1, <2>1 DEF BoundsAt, CountsAt, task, relayLog
  <2>4. WiresAt(d)'
    BY <1>0, <2>1, <2>2 DEF BoundsAt, WiresAt, task, relayLog
  <2>5. PhaseAt(d)'
    BY <1>0, <2>1 DEF BoundsAt, PhaseAt, task
  <2> QED BY <2>3, <2>4, <2>5 DEF BoundsAt
<1>17. CASE \E crash \in BOOLEAN : Drop(d, crash)
  BY <1>0, <1>1, <1>17 DEF Drop, EndSession, EndTask, Types, BoundsAt, CountsAt, WiresAt, PhaseAt, relayLog
<1> QED
  BY <1>4, <1>6, <1>7, <1>8, <1>9, <1>10, <1>11, <1>12, <1>13, <1>14, <1>15, <1>16, <1>17
  DEF StepOf, RelayStep, ClientStep

LEMMA BoundsKept ==
    ASSUME Log, Next
    PROVE  Bounds'
<1>0. /\ Types /\ Types' /\ Bounds /\ LogShape /\ LogShape' /\ hist \subseteq hist' /\ top <= top'
      /\ top \in Nat /\ top' \in Nat /\ Cap' = Cap /\ MaxBlobs' = MaxBlobs /\ Cap \in Nat
  BY TypesKept, LogShapeKept, LogGrows, CastKept, FanoutAssumption DEF Log, Types, Cap
<1>1. ASSUME NEW c \in Device, Local(c)' = Local(c), rx'[c] = rx[c]
      PROVE  BoundsAt(c)'
  BY <1>0, <1>1, BoundsElsewhere DEF Bounds, BoundsAt, CountsAt, WiresAt, PhaseAt
<1>2. CASE LateFanout
  <2>1. PICK e \in late : Broadcast(e)
    BY <1>2 DEF LateFanout
  <2>2. \A c \in Device : Len(rx'[c]) <= Cap /\ (\A i \in DOMAIN rx'[c] : rx'[c][i] \in hist)
                          /\ (pc[c] \in {"none", "closed"} => rx'[c] = rx[c])
    BY <1>0, <2>1, BroadcastIs DEF Types, Subscribed
  <2>3. \A c \in Device : Local(c)' = Local(c)
    BY <1>2 DEF LateFanout, Local, client
  <2> QED BY <1>0, <2>2, <2>3, BoundsElsewhere DEF Bounds
<1>3. ASSUME NEW d \in Device, StepOf(d)
      PROVE  Bounds'
  <2>1. ASSUME NEW c \in Device \ {d} PROVE BoundsAt(c)'
    <3>1. CASE RelayFanout(d)
      <4>1. PICK e \in owed[d] : Broadcast(e)
        BY <3>1 DEF RelayFanout
      <4>2. Len(rx'[c]) <= Cap /\ (\A i \in DOMAIN rx'[c] : rx'[c][i] \in hist)
                 /\ (pc[c] \in {"none", "closed"} => rx'[c] = rx[c])
        BY <1>0, <4>1, BroadcastIs DEF Bounds, BoundsAt, CountsAt, WiresAt, PhaseAt, Subscribed
      <4> QED BY <1>0, <1>3, <4>2, Locality, BoundsElsewhere
    <3>2. CASE ~RelayFanout(d)
      BY <1>0, <1>1, <1>3, <3>2, Locality
    <3> QED BY <3>1, <3>2
  <2>2. BoundsAt(d)'
    BY <1>3, BoundsHere
  <2> QED BY <2>1, <2>2 DEF Bounds
<1> QED
  BY <1>2, <1>3 DEF Next, StepOf

LEMMA ServedKept ==
    ASSUME Log, Next
    PROVE  Served'
<1>0. /\ Types /\ Types' /\ Served /\ hist \subseteq hist' /\ top <= top' /\ base <= base'
      /\ top \in Nat /\ top' \in Nat /\ base \in Nat /\ base' \in Nat /\ base <= top
  BY TypesKept, LogGrows DEF Log, Types
<1>1. ASSUME NEW c \in Device, pc'[c] = pc[c], lastSent'[c] = lastSent[c], serving'[c] = serving[c]
      PROVE  ServedAt(c)'
  <2>1. serving[c].seq \in Nat /\ serving[c].backlog \in Seq(Entry) /\ Len(serving[c].backlog) \in Nat
    <3>1. serving[c] \in Snapshots
      BY <1>0 DEF Types
    <3> QED BY <3>1 DEF Snapshots
  <2>2. CASE pc[c] = "snapshot"
    <3>1. /\ serving[c].next \in 1..Parts
          /\ lastSent[c] < serving[c].seq /\ serving[c].seq <= base
          /\ serving[c].seq + Len(serving[c].backlog) <= top
          /\ \A i \in DOMAIN serving[c].backlog :
                 serving[c].backlog[i] \in hist /\ serving[c].backlog[i].seq = serving[c].seq + i
      BY <1>0, <2>2 DEF Served, ServedAt
    <3>2. serving[c].seq <= base' /\ serving[c].seq + Len(serving[c].backlog) <= top'
      BY <1>0, <2>1, <3>1
    <3> QED BY <1>0, <1>1, <3>1, <3>2 DEF ServedAt
  <2> QED BY <1>1, <2>2 DEF ServedAt
<1>2. CASE LateFanout
  BY <1>1, <1>2 DEF LateFanout, Served
<1>3. ASSUME NEW d \in Device, StepOf(d)
      PROVE  Served'
  <2>1. ASSUME NEW c \in Device \ {d} PROVE ServedAt(c)'
    BY <1>0, <1>1, <1>3, Locality DEF Local
  <2>2. ServedAt(d)'
    <3>1. CASE pc'[d] # "snapshot"
      BY <3>1 DEF ServedAt
    <3>2. CASE ReadBacklog(d) \/ Resync(d)
      <4>1. PICK greeting \in Seq(ToClient) : ServeFrom(d, greeting)
        <5>1. <<Welcome(top)>> \in Seq(ToClient) /\ <<>> \in Seq(ToClient)
          BY <1>0, FrameTypes
        <5> QED BY <3>2, <5>1 DEF ReadBacklog, Resync
      <4>2. UNCHANGED <<hist, base, top>>
        BY <3>2 DEF ReadBacklog, Resync, relayLog
      <4>3. CASE ServesSnapshot(d, greeting)
        <5>1. /\ lastSent'[d] < base /\ serving'[d].seq = base /\ serving'[d].next \in 1..Parts
              /\ serving'[d].backlog \in Seq(Entry) /\ Len(serving'[d].backlog) = top - base
              /\ \A i \in 1..(top - base) :
                     serving'[d].backlog[i] \in hist /\ serving'[d].backlog[i].seq = base + i
          BY <4>3, FanoutAssumption DEF ServesSnapshot
        <5>2. DOMAIN serving'[d].backlog = 1..(top - base)
          BY <5>1
        <5>3. base + (top - base) <= top /\ base <= base
          BY <1>0
        <5> QED BY <4>2, <5>1, <5>2, <5>3 DEF ServedAt
      <4>4. CASE ServesTail(d, greeting)
        BY <4>4 DEF ServesTail, ServedAt
      <4> QED BY <4>1, <4>3, <4>4, ServeFromIs
    <3>3. CASE SendPart(d)
      <4>1. pc[d] = "snapshot" /\ (SendsMore(d) \/ SendsLast(d) \/ Closes(d)) /\ UNCHANGED <<hist, base, top>>
        BY <3>3, SendPartIs DEF relayLog
      <4>2. CASE SendsMore(d)
        <5>1. serving[d].next \in 1..Parts /\ serving[d].next + 1 \in 1..Parts
          BY <1>0, <4>1, <4>2, FanoutAssumption DEF Served, ServedAt, SendsMore
        <5> QED BY <1>0, <4>1, <4>2, <5>1 DEF Served, ServedAt, SendsMore
      <4> QED BY <4>1, <4>2 DEF SendsLast, Closes, ServedAt
    <3>4. CASE /\ ~(ReadBacklog(d) \/ Resync(d) \/ SendPart(d)) /\ pc'[d] = "snapshot"
      <4>1. pc'[d] = pc[d] /\ lastSent'[d] = lastSent[d] /\ serving'[d] = serving[d]
        <5>1. CASE Connect(d)
          BY <1>0, <3>4, <5>1 DEF Connect, Types
        <5>2. CASE Forward(d) \/ RelayPush(d) \/ RelayAck(d) \/ RelayFanout(d) \/ RelayCompact(d)
          BY <1>0, <3>4, <5>2 DEF Forward, RelayPush, RelayAck, RelayFanout, RelayCompact, Types, task
        <5>3. CASE OnWelcome(d) \/ OnAck(d) \/ OnUpdate(d) \/ OnPart(d)
          BY <5>3, ReadIs DEF task
        <5>4. CASE SeeClose(d) \/ \E crash \in BOOLEAN : Drop(d, crash)
          BY <1>0, <3>4, <5>4 DEF SeeClose, Drop, EndSession, EndTask, Types
        <5>5. CASE Push(d)
          BY <5>5 DEF Push, task
        <5> QED BY <1>3, <3>4, <5>1, <5>2, <5>3, <5>4, <5>5 DEF StepOf, RelayStep, ClientStep
      <4> QED BY <1>1, <4>1
    <3> QED BY <3>1, <3>2, <3>3, <3>4
  <2> QED BY <2>1, <2>2 DEF Served
<1> QED
  BY <1>2, <1>3 DEF Next, StepOf

LEMMA LogKept ==
    ASSUME Log, [Next]_vars
    PROVE  Log'
<1>1. CASE Next
  BY <1>1, TypesKept, LogShapeKept, BoundsKept, ServedKept DEF Log
<1>2. CASE UNCHANGED vars
  <2> USE <1>2 DEF vars, relayLog, task, client
  <2>1. cast' = cast /\ Blobs' = Blobs /\ Cap' = Cap /\ MaxBlobs' = MaxBlobs
    BY DEF Blobs, Pushers, MaxBlobs, Cap
  <2>2. Types'
    BY <2>1 DEF Log, Types, Entry, Snapshots, ToClient, ToRelay
  <2>3. LogShape' /\ Served'
    BY DEF Log, LogShape, Served, ServedAt
  <2>4. Bounds'
    BY <2>1 DEF Log, Bounds, BoundsAt, CountsAt, WiresAt, PhaseAt
  <2> QED BY <2>2, <2>3, <2>4 DEF Log
<1> QED
  BY <1>1, <1>2

-----------------------------------------------------------------------------
(* A device's unacked edit                                                  *)

LEMMA AcksSent ==
    ASSUME NEW q, NEW more, NEW new, Longer(q, more, new),
           \A i \in DOMAIN more : more[i].kind # "ack"
    PROVE  Acks(new) = Acks(q)
BY DEF Longer, Acks

LEMMA AcksRead ==
    ASSUME NEW q \in Seq(ToClient), q # <<>>
    PROVE  \A i \in Acks(Tail(q)) : i \in Nat /\ i + 1 \in Acks(q) /\ i + 1 # 1
<1>1. \A i \in DOMAIN Tail(q) : i \in Nat /\ i # 0 /\ i + 1 \in DOMAIN q /\ Tail(q)[i] = q[i + 1]
  OBVIOUS
<1> QED
  BY <1>1 DEF Acks

LEMMA PushesRead ==
    ASSUME NEW q \in Seq(ToRelay), q # <<>>
    PROVE  \A i \in Pushes(Tail(q)) :
               i \in Nat /\ i + 1 \in Pushes(q) /\ i + 1 # 1 /\ Tail(q)[i] = q[i + 1]
<1>1. \A i \in DOMAIN Tail(q) : i \in Nat /\ i # 0 /\ i + 1 \in DOMAIN q /\ Tail(q)[i] = q[i + 1]
  OBVIOUS
<1> QED
  BY <1>1 DEF Pushes

\* An offer is no push.
LEMMA OffersSent ==
    ASSUME NEW q \in Seq(ToRelay), NEW f, f.kind # "push"
    PROVE  Pushes(Append(q, f)) = Pushes(q) /\ \A i \in Pushes(q) : Append(q, f)[i] = q[i]
<1>1. /\ DOMAIN Append(q, f) = 1..(Len(q) + 1) /\ DOMAIN q = 1..Len(q) /\ Len(q) \in Nat
      /\ \A i \in 1..Len(q) : Append(q, f)[i] = q[i]
      /\ Append(q, f)[Len(q) + 1] = f
  OBVIOUS
<1>2. Pushes(Append(q, f)) = Pushes(q)
  BY <1>1 DEF Pushes
<1> QED
  BY <1>1, <1>2 DEF Pushes

\* The frames a task sends, but for the acks.
LEMMA StreamNoAcks ==
    ASSUME Log, NEW d \in Device, ReadBacklog(d) \/ Resync(d) \/ SendPart(d) \/ Forward(d)
    PROVE  Acks(s2c'[d]) = Acks(s2c[d])
<1>0. Types /\ s2c[d] \in Seq(ToClient) /\ rx[d] \in Seq(Entry)
  BY DEF Log, Types
<1>1. ASSUME NEW greeting \in Seq(ToClient), ServeFrom(d, greeting),
             \A i \in DOMAIN greeting : greeting[i].kind # "ack"
      PROVE  Acks(s2c'[d]) = Acks(s2c[d])
  <2>1. CASE ServesSnapshot(d, greeting)
    <3>1. Longer(s2c[d], greeting, s2c'[d])
      BY <1>0, <2>1, Appended DEF ServesSnapshot
    <3> QED BY <1>1, <3>1, AcksSent
  <2>2. CASE ServesTail(d, greeting)
    <3>1. PICK tail \in Seq(Entry) : s2c'[d] = s2c[d] \o (greeting \o Updates(tail))
      BY <2>2 DEF ServesTail
    <3> DEFINE more == greeting \o Updates(tail)
    <3>2. more \in Seq(ToClient) /\ \A i \in DOMAIN more : more[i].kind # "ack"
      <4>1. \A e : Update(e).kind # "ack"
        BY DEF Update
      <4> QED BY <1>1, <4>1, WithUpdates
    <3> HIDE DEF more
    <3>3. Longer(s2c[d], more, s2c'[d])
      BY <1>0, <3>1, <3>2, Appended DEF more
    <3> QED BY <3>2, <3>3, AcksSent
  <2> QED BY <1>1, <2>1, <2>2, ServeFromIs
<1>2. CASE ReadBacklog(d)
  <2>1. <<Welcome(top)>> \in Seq(ToClient) /\ \A i \in DOMAIN <<Welcome(top)>> : <<Welcome(top)>>[i].kind # "ack"
    BY <1>0, FrameTypes DEF Welcome, Types
  <2> QED BY <1>1, <1>2, <2>1 DEF ReadBacklog
<1>3. CASE Resync(d)
  <2>1. <<>> \in Seq(ToClient) /\ \A i \in DOMAIN <<>> : <<>>[i].kind # "ack"
    OBVIOUS
  <2> QED BY <1>1, <1>3, <2>1 DEF Resync
<1>4. CASE SendPart(d)
  <2>1. NextPart(d) \in ToClient /\ (SendsMore(d) \/ SendsLast(d) \/ Closes(d)) /\ NextPart(d).kind # "ack"
    BY <1>4, SendPartIs DEF NextPart, Part
  <2>2. <<NextPart(d)>> \in Seq(ToClient) /\ \A i \in DOMAIN <<NextPart(d)>> : <<NextPart(d)>>[i].kind # "ack"
    BY <2>1
  <2>3. CASE SendsMore(d)
    <3>1. Longer(s2c[d], <<NextPart(d)>>, s2c'[d])
      BY <1>0, <2>2, <2>3, Appended DEF SendsMore
    <3> QED BY <2>2, <3>1, AcksSent
  <2>4. CASE SendsLast(d)
    <3> DEFINE more == <<NextPart(d)>> \o Updates(serving[d].backlog)
    <3>1. serving[d].backlog \in Seq(Entry)
      <4>1. serving[d] \in Snapshots
        BY <1>0 DEF Types
      <4> QED BY <4>1 DEF Snapshots
    <3>2. more \in Seq(ToClient) /\ \A i \in DOMAIN more : more[i].kind # "ack"
      <4> DEFINE g == <<NextPart(d)>>
      <4>1. \A e : Update(e).kind # "ack"
        BY DEF Update
      <4>2. g \in Seq(ToClient) /\ \A i \in DOMAIN g : g[i].kind # "ack"
        BY <2>2
      <4> HIDE DEF g
      <4>3. g \o Updates(serving[d].backlog) \in Seq(ToClient)
            /\ \A i \in DOMAIN (g \o Updates(serving[d].backlog)) :
                   (g \o Updates(serving[d].backlog))[i].kind # "ack"
        <5> DEFINE us == Updates(serving[d].backlog)
        <5>1. /\ us \in Seq(ToClient) /\ Len(us) = Len(serving[d].backlog)
              /\ \A i \in 1..Len(serving[d].backlog) : us[i] = Update(serving[d].backlog[i])
          BY <3>1, UpdatesOf
        <5> HIDE DEF us
        <5>2. \A i \in DOMAIN us : us[i].kind # "ack"
          BY <4>1, <5>1
        <5>3. g \o us \in Seq(ToClient) /\ Longer(g, us, g \o us)
          BY <4>2, <5>1, Appended
        <5>4. \A i \in DOMAIN (g \o us) : (g \o us)[i].kind # "ack"
          BY <4>2, <5>2, <5>3 DEF Longer
        <5> QED BY <5>3, <5>4 DEF us
      <4> QED BY <4>3 DEF g
    <3> HIDE DEF more
    <3>3. Longer(s2c[d], more, s2c'[d])
      BY <1>0, <2>4, <3>2, Appended DEF more, SendsLast
    <3> QED BY <3>2, <3>3, AcksSent
  <2> QED BY <2>1, <2>3, <2>4 DEF Closes
<1>5. CASE Forward(d)
  <2>1. \/ s2c'[d] = s2c[d] \o <<Update(Head(rx[d]))>>
        \/ s2c'[d] = s2c[d]
    BY <1>0, <1>5 DEF Forward, Send, Types
  <2>2. Head(rx[d]) \in Entry
    BY <1>0, <1>5 DEF Forward
  <2>3. /\ <<Update(Head(rx[d]))>> \in Seq(ToClient)
        /\ \A i \in DOMAIN <<Update(Head(rx[d]))>> : <<Update(Head(rx[d]))>>[i].kind # "ack"
    <3>1. Update(Head(rx[d])).kind # "ack"
      BY DEF Update
    <3> QED BY <2>2, <3>1, FrameTypes
  <2>4. CASE s2c'[d] = s2c[d] \o <<Update(Head(rx[d]))>>
    <3>1. Longer(s2c[d], <<Update(Head(rx[d]))>>, s2c'[d])
      BY <1>0, <2>3, <2>4, Appended
    <3> QED BY <2>3, <3>1, AcksSent
  <2> QED BY <2>1, <2>4
<1> QED
  BY <1>2, <1>3, <1>4, <1>5

LEMMA FlightHere ==
    ASSUME Log, Flight, Next, NEW d \in Device, StepOf(d)
    PROVE  FlightAt(d)'
<1>0. /\ Types /\ Types' /\ FlightAt(d) /\ PhaseAt(d) /\ hist \subseteq hist'
      /\ s2c[d] \in Seq(ToClient) /\ c2s[d] \in Seq(ToRelay)
  BY TypesKept, LogGrows DEF Log, Flight, Types, Bounds, BoundsAt
<1>1. CASE Connect(d)
  BY <1>0, <1>1 DEF Connect, Types, FlightAt, PhaseAt, Acks, Pushes, relayLog
<1>2. CASE ReadBacklog(d) \/ Resync(d) \/ SendPart(d) \/ Forward(d)
  <2>1. Acks(s2c'[d]) = Acks(s2c[d])
    BY <1>2, StreamNoAcks DEF Log
  <2>2. pc[d] \notin {"ack", "fanout"} /\ pc'[d] \notin {"ack", "fanout"} /\ UNCHANGED <<hist, c2s, owed, unacked, inFlight, made>>
    <3>1. CASE ReadBacklog(d) \/ Resync(d)
      BY <1>0, <3>1 DEF ReadBacklog, Resync, ServeFrom, Types, client, relayLog
    <3>2. CASE SendPart(d)
      BY <1>0, <3>2, SendPartIs DEF SendsMore, SendsLast, Closes, client, relayLog
    <3>3. CASE Forward(d)
      BY <1>0, <3>3 DEF Forward, client, relayLog
    <3> QED BY <1>2, <3>1, <3>2, <3>3
  <2> QED BY <1>0, <2>1, <2>2 DEF FlightAt, Current
<1>3. CASE RelayPush(d)
  <2> DEFINE b == Head(c2s[d]).blob
             e == [seq |-> top + 1, blob |-> b]
  <2>1. /\ c2s[d] # <<>> /\ c2s[d][1] = Head(c2s[d]) /\ 1 \in Pushes(c2s[d])
        /\ \A i \in Pushes(Tail(c2s[d])) : i \in Nat /\ i + 1 \in Pushes(c2s[d]) /\ i + 1 # 1
    BY <1>0, <1>3, PushesRead DEF RelayPush, Pushes
  <2>2. /\ hist' = hist \union {e} /\ owed'[d] = {e} /\ pc'[d] = "ack"
        /\ c2s'[d] = Tail(c2s[d]) /\ UNCHANGED <<s2c, client>>
    BY <1>0, <1>3 DEF RelayPush, Types
  <2>3. e.blob = b /\ Current(d, b) /\ Acks(s2c[d]) = {} /\ \A j \in Pushes(c2s[d]) : j = 1
    BY <1>0, <2>1 DEF FlightAt
  <2> HIDE DEF e, b
  <2>4. Pushes(c2s'[d]) = {} /\ Acks(s2c'[d]) = {}
    BY <2>1, <2>2, <2>3
  <2>5. \A f \in owed'[d] : Current(d, f.blob)'
    <3>1. \A f \in owed'[d] : f.blob = b
      BY <2>2, <2>3
    <3>2. unacked'[d] /\ inFlight'[d] /\ b = [dev |-> d, n |-> made'[d]]
      BY <2>2, <2>3 DEF Current, client
    <3> QED BY <3>1, <3>2 DEF Current
  <2> QED BY <2>2, <2>4, <2>5 DEF FlightAt
<1>4. CASE RelayAck(d)
  <2>1. PICK e \in owed[d] : Send(d, <<Ack(e.seq)>>)
    BY <1>4 DEF RelayAck
  <2>2. /\ pc[d] = "ack" /\ pc'[d] = "fanout" /\ s2c'[d] = Append(s2c[d], Ack(e.seq))
        /\ UNCHANGED <<relayLog, owed, c2s, client>>
    BY <1>0, <1>4, <2>1 DEF RelayAck, Send, Types
  <2>3. Acks(s2c[d]) = {} /\ Current(d, e.blob) /\ Pushes(c2s[d]) = {}
    BY <1>0, <2>1, <2>2 DEF FlightAt
  <2>4. \A i \in Acks(s2c'[d]) : i = Len(s2c[d]) + 1
    <3>1. /\ DOMAIN Append(s2c[d], Ack(e.seq)) = 1..(Len(s2c[d]) + 1) /\ DOMAIN s2c[d] = 1..Len(s2c[d])
          /\ Len(s2c[d]) \in Nat
          /\ \A i \in 1..Len(s2c[d]) : Append(s2c[d], Ack(e.seq))[i] = s2c[d][i]
      BY <1>0
    <3> QED BY <2>2, <2>3, <3>1 DEF Acks
  <2> QED BY <1>0, <2>2, <2>3, <2>4 DEF FlightAt, Current, client, relayLog
<1>5. CASE RelayFanout(d)
  <2>1. /\ pc[d] = "fanout" /\ pc'[d] = "live" /\ owed'[d] = {} /\ hist' = hist
        /\ UNCHANGED <<c2s, s2c, client>>
    BY <1>0, <1>5 DEF RelayFanout, Broadcast, Types
  <2> QED BY <1>0, <2>1 DEF FlightAt, Current, client
<1>6. CASE RelayCompact(d)
  <2>1. /\ pc[d] = "live" /\ c2s[d] # <<>> /\ c2s'[d] = Tail(c2s[d])
        /\ UNCHANGED <<hist, task, s2c, client>>
    BY <1>0, <1>6 DEF RelayCompact, Types
  <2>2. \A i \in Pushes(c2s'[d]) :
            i \in Nat /\ i + 1 \in Pushes(c2s[d]) /\ c2s'[d][i] = c2s[d][i + 1]
    BY <1>0, <2>1, PushesRead
  <2>3. /\ owed'[d] = {} /\ pc'[d] = "live" /\ Acks(s2c'[d]) = Acks(s2c[d])
        /\ UNCHANGED <<unacked, inFlight, made>>
    BY <1>0, <2>1 DEF FlightAt, client, task
  <2>4. \A i \in Pushes(c2s'[d]) :
            /\ unacked'[d] /\ inFlight'[d] /\ c2s'[d][i].blob = [dev |-> d, n |-> made'[d]]
            /\ Acks(s2c[d]) = {}
            /\ \A j \in Pushes(c2s'[d]) : j = i
    <3>1. \A i \in Pushes(c2s'[d]) : Current(d, c2s[d][i + 1].blob) /\ Acks(s2c[d]) = {}
      BY <1>0, <2>2 DEF FlightAt
    <3>2. \A i, j \in Pushes(c2s'[d]) : i + 1 = j + 1 /\ i \in Nat /\ j \in Nat
      BY <1>0, <2>2 DEF FlightAt
    <3> QED BY <2>2, <2>3, <3>1, <3>2 DEF Current
  <2>5. Acks(s2c'[d]) = Acks(s2c[d]) /\ \A i, j \in Acks(s2c[d]) : unacked[d] /\ inFlight[d] /\ i = j
    BY <1>0, <2>3 DEF FlightAt
  <2> QED BY <2>3, <2>4, <2>5 DEF FlightAt, Current
<1>7. CASE OnWelcome(d) \/ OnUpdate(d) \/ OnPart(d)
  <2>1. /\ s2c[d] # <<>> /\ s2c'[d] = Tail(s2c[d]) /\ UNCHANGED <<hist, task, made>>
        /\ \/ c2s'[d] = c2s[d]
           \/ c2s'[d] = Append(c2s[d], CompactFrame(cursor'[d], has'[d]))
    BY <1>7, ReadIs DEF relayLog
  <2>2. UNCHANGED <<unacked, inFlight>>
    BY <1>7 DEF OnWelcome, OnUpdate, OnPart
  <2>3. \A i \in Acks(s2c'[d]) : i \in Nat /\ i + 1 \in Acks(s2c[d])
    BY <1>0, <2>1, AcksRead
  <2>4. /\ Pushes(c2s'[d]) = Pushes(c2s[d])
        /\ \A i \in Pushes(c2s[d]) : c2s'[d][i] = c2s[d][i]
    <3>1. CASE c2s'[d] = c2s[d]
      BY <3>1
    <3>2. CASE c2s'[d] = Append(c2s[d], CompactFrame(cursor'[d], has'[d]))
      <4> DEFINE f == CompactFrame(cursor'[d], has'[d])
      <4>1. f.kind # "push"
        BY DEF CompactFrame
      <4> HIDE DEF f
      <4>2. Pushes(Append(c2s[d], f)) = Pushes(c2s[d]) /\ \A i \in Pushes(c2s[d]) : Append(c2s[d], f)[i] = c2s[d][i]
        BY <1>0, <4>1, OffersSent
      <4> QED BY <3>2, <4>2 DEF f
    <3> QED BY <2>1, <3>1, <3>2
  <2> QED BY <1>0, <2>1, <2>2, <2>3, <2>4 DEF FlightAt, Current, task
<1>8. CASE OnAck(d)
  <2>1. /\ s2c[d] # <<>> /\ s2c'[d] = Tail(s2c[d]) /\ UNCHANGED <<hist, task, made>>
        /\ \/ c2s'[d] = c2s[d]
           \/ c2s'[d] = Append(c2s[d], CompactFrame(cursor'[d], has'[d]))
    BY <1>8, ReadIs DEF relayLog
  <2>2. 1 \in Acks(s2c[d])
    BY <1>0, <1>8, <2>1 DEF OnAck, Frame, Acks
  <2>3. Pushes(c2s[d]) = {} /\ pc[d] # "ack" /\ \A i \in Acks(s2c[d]) : i = 1
    BY <1>0, <2>2 DEF FlightAt
  <2>4. Acks(s2c'[d]) = {}
    BY <1>0, <2>1, <2>3, AcksRead
  <2>5. Pushes(c2s'[d]) = {}
    <3>1. CASE c2s'[d] = c2s[d]
      BY <2>3, <3>1
    <3>2. CASE c2s'[d] = Append(c2s[d], CompactFrame(cursor'[d], has'[d]))
      <4> DEFINE f == CompactFrame(cursor'[d], has'[d])
      <4>1. f.kind # "push"
        BY DEF CompactFrame
      <4> HIDE DEF f
      <4>2. Pushes(Append(c2s[d], f)) = Pushes(c2s[d]) /\ \A i \in Pushes(c2s[d]) : Append(c2s[d], f)[i] = c2s[d][i]
        BY <1>0, <4>1, OffersSent
      <4> QED BY <2>3, <3>2, <4>2 DEF f
    <3> QED BY <2>1, <3>1, <3>2
  <2> QED BY <1>0, <2>1, <2>3, <2>4, <2>5 DEF FlightAt, task
<1>9. CASE SeeClose(d) \/ \E crash \in BOOLEAN : Drop(d, crash)
  <2>1. c2s'[d] = <<>> /\ s2c'[d] = <<>> /\ pc'[d] = "none"
    BY <1>0, <1>9 DEF SeeClose, Drop, EndSession, EndTask, Types
  <2>2. owed'[d] = {}
    BY <1>0, <1>9 DEF SeeClose, Drop, Types, FlightAt
  <2> QED BY <2>1, <2>2 DEF FlightAt, Acks, Pushes
<1>10. CASE Push(d)
  <2>1. /\ ~inFlight[d] /\ c2s'[d] = Append(c2s[d], PushFrame(Mine(d)))
        /\ unacked'[d] /\ inFlight'[d] /\ UNCHANGED <<hist, task, s2c>>
    BY <1>10, PushIs DEF Log, relayLog
  <2>2. Pushes(c2s[d]) = {} /\ Acks(s2c[d]) = {} /\ pc[d] # "ack"
    BY <1>0, <2>1 DEF FlightAt, Current
  <2>3. \A i \in Pushes(c2s'[d]) : i = Len(c2s[d]) + 1
    <3>1. /\ DOMAIN Append(c2s[d], PushFrame(Mine(d))) = 1..(Len(c2s[d]) + 1)
          /\ DOMAIN c2s[d] = 1..Len(c2s[d]) /\ Len(c2s[d]) \in Nat
          /\ \A i \in 1..Len(c2s[d]) : Append(c2s[d], PushFrame(Mine(d)))[i] = c2s[d][i]
      BY <1>0
    <3> QED BY <2>1, <2>2, <3>1 DEF Pushes
  <2>4. c2s'[d][Len(c2s[d]) + 1].blob = [dev |-> d, n |-> made'[d]]
    <3>1. c2s'[d][Len(c2s[d]) + 1] = PushFrame(Mine(d))
      BY <1>0, <2>1
    <3> QED BY <3>1 DEF PushFrame, Mine
  <2> QED BY <1>0, <2>1, <2>2, <2>3, <2>4 DEF FlightAt, Current, task
<1> QED
  BY <1>1, <1>2, <1>3, <1>4, <1>5, <1>6, <1>7, <1>8, <1>9, <1>10 DEF StepOf, RelayStep, ClientStep

\* The entries that tasks still owe a broadcast are different ones.
LEMMA OwedApartKept ==
    ASSUME Log, Flight, Next
    PROVE  OwedApart'
<1>0. /\ Types /\ Types' /\ LogShape /\ OwedApart
      /\ \A c \in Device : owed[c] \subseteq hist /\ c \in DOMAIN owed
      /\ late \subseteq hist
  BY TypesKept DEF Log, Flight, Types, Bounds, BoundsAt, WiresAt
<1>1. CASE UNCHANGED <<owed, late>>
  BY <1>0, <1>1 DEF OwedApart
<1>2. ASSUME NEW d \in Device, RelayPush(d) PROVE OwedApart'
  <2> DEFINE e == [seq |-> top + 1, blob |-> Head(c2s[d]).blob]
  <2>1. owed' = [owed EXCEPT ![d] = {e}] /\ late' = late /\ e.seq = top + 1
    BY <1>2 DEF RelayPush
  <2> HIDE DEF e
  <2>2. e \notin hist
    BY <1>0, <2>1 DEF Types, Entry, LogShape
  <2>3. owed'[d] = {e} /\ \A c \in Device \ {d} : owed'[c] = owed[c]
    BY <1>0, <2>1 DEF Types
  <2>4. \A c \in Device : e \notin owed[c] /\ e \notin late
    BY <1>0, <2>2
  <2> QED BY <1>0, <2>1, <2>3, <2>4 DEF OwedApart
<1>3. ASSUME NEW d \in Device, owed' = [owed EXCEPT ![d] = {}], late' \subseteq late \union owed[d]
      PROVE  OwedApart'
  <2>1. owed'[d] = {} /\ \A c \in Device \ {d} : owed'[c] = owed[c]
    BY <1>0, <1>3 DEF Types
  <2> QED BY <1>0, <1>3, <2>1 DEF OwedApart
<1>4. CASE LateFanout
  BY <1>0, <1>4 DEF LateFanout, OwedApart
<1>5. ASSUME NEW d \in Device, StepOf(d) PROVE OwedApart'
  <2>1. CASE RelayFanout(d)
    BY <1>3, <2>1 DEF RelayFanout
  <2>2. CASE \E crash \in BOOLEAN : Drop(d, crash)
    BY <1>3, <2>2 DEF Drop
  <2>3. CASE OnWelcome(d) \/ OnAck(d) \/ OnUpdate(d) \/ OnPart(d)
    BY <1>1, <2>3, ReadIs DEF task
  <2>4. CASE SendPart(d)
    BY <1>1, <2>4 DEF SendPart
  <2> QED BY <1>1, <1>2, <1>5, <2>1, <2>2, <2>3, <2>4
    DEF StepOf, RelayStep, ClientStep, Connect, ReadBacklog, Resync, Forward, RelayAck,
        RelayCompact, SeeClose, Push, task
<1> QED
  BY <1>4, <1>5 DEF Next, StepOf

LEMMA FlightKept ==
    ASSUME Log, Flight, Next
    PROVE  Flight'
<1>0. Types /\ hist \subseteq hist' /\ Flight /\ Types
  BY LogGrows DEF Log
<1>1. ASSUME NEW c \in Device, Local(c)' = Local(c) PROVE FlightAt(c)'
  <2>1. /\ pc'[c] = pc[c] /\ owed'[c] = owed[c] /\ c2s'[c] = c2s[c] /\ s2c'[c] = s2c[c]
        /\ made'[c] = made[c] /\ unacked'[c] = unacked[c] /\ inFlight'[c] = inFlight[c]
    BY <1>1 DEF Local
  <2>2. FlightAt(c) /\ hist \subseteq hist'
    BY <1>0 DEF Flight
  <2> QED BY <2>1, <2>2 DEF FlightAt, Current
<1>2. CASE LateFanout
  <2>1. \A c \in Device : Local(c)' = Local(c)
    BY <1>2 DEF LateFanout, Local, client
  <2> QED BY <1>1, <2>1, OwedApartKept DEF Flight
<1>3. ASSUME NEW d \in Device, StepOf(d) PROVE Flight'
  <2>1. \A c \in Device \ {d} : FlightAt(c)'
    BY <1>0, <1>1, <1>3, Locality
  <2> QED BY <1>3, <2>1, FlightHere, OwedApartKept DEF Flight
<1> QED
  BY <1>2, <1>3 DEF Next, StepOf

-----------------------------------------------------------------------------
(* The stream of one client                                                 *)

LEMMA OrderedLonger ==
    ASSUME NEW q \in Seq(ToClient), NEW more \in Seq(ToClient), NEW new \in Seq(ToClient),
           Longer(q, more, new), Ordered(q), Ordered(more),
           \A i \in DOMAIN q, j \in DOMAIN more : Before(q[i], more[j])
    PROVE  Ordered(new)
<1>0. /\ DOMAIN q = 1..Len(q) /\ DOMAIN more = 1..Len(more) /\ DOMAIN new = 1..Len(new)
      /\ Len(q) \in Nat /\ Len(more) \in Nat /\ Len(new) = Len(q) + Len(more)
  BY DEF Longer
<1> SUFFICES ASSUME NEW k \in DOMAIN new, NEW j \in 1..(k - 1)
             PROVE  Before(new[j], new[k])
  BY DEF Ordered
<1>1. CASE k \in DOMAIN q
  <2>1. j \in DOMAIN q /\ new[j] = q[j] /\ new[k] = q[k]
    BY <1>0, <1>1 DEF Longer
  <2> QED BY <1>1, <2>1 DEF Ordered
<1>2. CASE k \notin DOMAIN q
  <2>1. PICK n \in DOMAIN more : k = Len(q) + n
    BY <1>2 DEF Longer
  <2>2. new[k] = more[n]
    BY <2>1 DEF Longer
  <2>3. CASE j \in DOMAIN q
    BY <2>2, <2>3 DEF Longer
  <2>4. CASE j \notin DOMAIN q
    <3>1. j \in DOMAIN new
      BY <1>0
    <3>2. PICK m \in DOMAIN more : j = Len(q) + m
      BY <2>4, <3>1 DEF Longer
    <3>3. new[j] = more[m] /\ m \in 1..(n - 1)
      BY <1>0, <2>1, <3>2 DEF Longer
    <3> QED BY <2>2, <3>3 DEF Ordered
  <2> QED BY <2>3, <2>4
<1> QED
  BY <1>1, <1>2

\* One frame and then a stretch of the log.
LEMMA OrderedUpdates ==
    ASSUME NEW g \in Seq(ToClient), Len(g) <= 1, NEW es \in Seq(Entry), NEW n \in Nat,
           \A i \in DOMAIN es : es[i].seq = n + i,
           \A i \in DOMAIN g : Moves(g[i]) => Pos(g[i]) <= n /\ Pos(g[i]) \in Nat
    PROVE  /\ g \o Updates(es) \in Seq(ToClient)
           /\ Ordered(g \o Updates(es))
           /\ \A i \in DOMAIN (g \o Updates(es)) :
                 \/ \E j \in DOMAIN g : (g \o Updates(es))[i] = g[j]
                 \/ \E j \in DOMAIN es : (g \o Updates(es))[i] = Update(es[j])
<1> DEFINE us == Updates(es)
           new == g \o us
<1>1. /\ us \in Seq(ToClient) /\ Len(us) = Len(es) /\ DOMAIN us = 1..Len(es) /\ DOMAIN es = 1..Len(es)
      /\ \A i \in DOMAIN us : us[i] = Update(es[i])
  <2>1. /\ us \in Seq(ToClient) /\ Len(us) = Len(es)
        /\ \A i \in 1..Len(es) : us[i] = Update(es[i])
    BY UpdatesOf
  <2>2. DOMAIN es = 1..Len(es)
    OBVIOUS
  <2> HIDE DEF us
  <2>3. DOMAIN us = 1..Len(us)
    BY <2>1
  <2> QED BY <2>1, <2>2, <2>3
<1> HIDE DEF us
<1>2. new \in Seq(ToClient) /\ Longer(g, us, new)
  BY <1>1, Appended
<1> HIDE DEF new
<1>3. \A i \in DOMAIN us : us[i].kind = "update" /\ Pos(us[i]) = n + i
  BY <1>1 DEF Update, Pos
<1>4. Ordered(us)
  <2> SUFFICES ASSUME NEW k \in DOMAIN us, NEW j \in 1..(k - 1)
               PROVE  Before(us[j], us[k])
    BY DEF Ordered
  <2>1. j \in DOMAIN us /\ n + j < n + k /\ n + j <= n + k
    BY <1>1
  <2> QED BY <1>3, <2>1 DEF Before
<1>5. Ordered(g)
  <2>1. \A k \in DOMAIN g : 1..(k - 1) = {}
    OBVIOUS
  <2> QED BY <2>1 DEF Ordered
<1>6. \A i \in DOMAIN g, j \in DOMAIN us : Before(g[i], us[j])
  <2>1. \A j \in DOMAIN us : \A m \in Nat : m <= n => m <= n + j /\ m < n + j
    BY <1>1
  <2> QED BY <1>3, <2>1 DEF Before
<1>7. Ordered(new)
  BY <1>1, <1>2, <1>4, <1>5, <1>6, OrderedLonger
<1>8. \A i \in DOMAIN new :
          (\E j \in DOMAIN g : new[i] = g[j]) \/ (\E j \in DOMAIN es : new[i] = Update(es[j]))
  <2> TAKE i \in DOMAIN new
  <2>1. CASE i \in DOMAIN g
    BY <1>2, <2>1 DEF Longer
  <2>2. CASE i \notin DOMAIN g
    <3>1. PICK j \in DOMAIN us : i = Len(g) + j
      BY <1>2, <2>2 DEF Longer
    <3>2. new[i] = us[j]
      BY <1>2, <3>1 DEF Longer
    <3> QED BY <1>1, <3>1, <3>2
  <2> QED BY <2>1, <2>2
<1> QED
  BY <1>2, <1>7, <1>8 DEF new, us

\* How far a task's frames go, and what comes next.
LEMMA ReachIs ==
    ASSUME Log, Stream, NEW d \in Device
    PROVE  /\ Reach(d) \in Nat /\ lastSent[d] \in Nat /\ cursor[d] \in Nat /\ lastSent[d] <= Reach(d)
           /\ pc[d] # "snapshot" => Reach(d) = lastSent[d]
           /\ pc[d] = "snapshot" => lastSent[d] < serving[d].seq /\ Reach(d) = serving[d].seq
           /\ pc[d] \notin {"none", "closed"} => cursor[d] <= Reach(d) /\
                 \A k \in DOMAIN s2c[d] : Moves(s2c[d][k]) => Pos(s2c[d][k]) <= Reach(d)
<1>0. /\ Types /\ lastSent[d] \in Nat /\ cursor[d] \in Nat /\ serving[d].seq \in Nat /\ StreamAt(d)
  BY DEF Log, Types, Snapshots, Stream
<1>1. pc[d] = "snapshot" => lastSent[d] < serving[d].seq /\ Reach(d) = serving[d].seq
  BY DEF Log, Served, ServedAt, Reach
<1>2. pc[d] # "snapshot" => Reach(d) = lastSent[d]
  BY DEF Reach
<1>3. Reach(d) \in Nat /\ lastSent[d] <= Reach(d)
  BY <1>0, <1>1, <1>2
<1>4. ASSUME pc[d] \notin {"none", "closed"}, NEW k \in DOMAIN s2c[d], Moves(s2c[d][k])
      PROVE  Pos(s2c[d][k]) <= Reach(d)
  <2>1. Pos(s2c[d][k]) \in Nat
    BY <1>0, <1>4, PosTypes
  <2>2. CASE s2c[d][k].kind = "update"
    <3>1. Pos(s2c[d][k]) <= lastSent[d]
      BY <1>0, <2>2 DEF StreamAt, Pos
    <3> QED BY <1>0, <1>3, <2>1, <3>1
  <2>3. CASE s2c[d][k].kind = "part"
    BY <1>0, <1>4, <2>3 DEF StreamAt, Pos
  <2> QED BY <1>4, <2>2, <2>3 DEF Moves
<1> QED
  BY <1>0, <1>1, <1>2, <1>3, <1>4 DEF StreamAt

\* The frames a task puts on the wire are above those it has sent.
Sending(d, more) ==
    /\ more \in Seq(ToClient) /\ Ordered(more)
    /\ s2c'[d] = s2c[d] \o more
    /\ \A j \in DOMAIN more :
          /\ more[j].kind = "update" => Reach(d) < more[j].seq /\ more[j].seq <= lastSent'[d]
          /\ more[j].kind = "part" =>
                pc[d] = "snapshot" /\ base = serving[d].seq /\ more[j] = NextPart(d)
    /\ pc[d] \notin {"none", "closed"}
    /\ pc'[d] = "closed" \/ Reach(d) <= Reach(d)'
    /\ lastSent[d] <= lastSent'[d]

LEMMA ServeSends ==
    ASSUME Log, Stream, NEW d \in Device, pc[d] \in {"hello", "live"}, base' = base,
           NEW greeting \in Seq(ToClient), Len(greeting) <= 1,
           \A i \in DOMAIN greeting : greeting[i].kind = "welcome", ServeFrom(d, greeting)
    PROVE  \E more : Sending(d, more)
<1>0. /\ Types /\ s2c[d] \in Seq(ToClient) /\ Reach(d) = lastSent[d] /\ lastSent[d] \in Nat
      /\ base \in Nat /\ top \in Nat /\ lastSent[d] <= top
  BY ReachIs DEF Log, Types, Bounds, BoundsAt, CountsAt
<1>1. Ordered(greeting) /\ \A i \in DOMAIN greeting : ~Moves(greeting[i])
  BY <1>0 DEF Ordered, Moves, Before
<1>2. CASE ServesSnapshot(d, greeting)
  <2>1. s2c'[d] = s2c[d] \o greeting /\ Reach(d)' = base /\ lastSent[d] < base /\ lastSent'[d] = lastSent[d]
    BY <1>2 DEF ServesSnapshot, Reach
  <2>2. Sending(d, greeting)
    BY <1>0, <1>1, <2>1 DEF Sending, Moves
  <2> QED BY <2>2
<1>3. CASE ServesTail(d, greeting)
  <2>1. PICK tail \in Seq(Entry) :
           /\ s2c'[d] = s2c[d] \o (greeting \o Updates(tail))
           /\ Len(tail) = top - lastSent[d]
           /\ \A i \in 1..(top - lastSent[d]) :
                  tail[i] \in hist /\ tail[i].seq = lastSent[d] + i
    BY <1>3 DEF ServesTail
  <2>2. DOMAIN tail = 1..(top - lastSent[d])
    BY <1>0, <2>1
  <2> DEFINE more == greeting \o Updates(tail)
  <2>3. /\ more \in Seq(ToClient) /\ Ordered(more)
        /\ \A i \in DOMAIN more :
              (\E j \in DOMAIN greeting : more[i] = greeting[j]) \/ (\E j \in DOMAIN tail : more[i] = Update(tail[j]))
    <3>1. \A i \in DOMAIN greeting : Moves(greeting[i]) => Pos(greeting[i]) <= lastSent[d] /\ Pos(greeting[i]) \in Nat
      BY <1>1
    <3> QED BY <1>0, <2>1, <2>2, <3>1, OrderedUpdates
  <2> HIDE DEF more
  <2>4. lastSent'[d] = top /\ pc'[d] = "live" /\ Reach(d)' = top
    BY <1>3 DEF ServesTail, Reach
  <2>5. \A j \in DOMAIN more :
          /\ more[j].kind = "update" => lastSent[d] < more[j].seq /\ more[j].seq <= top
          /\ more[j].kind # "part"
    <3> TAKE j \in DOMAIN more
    <3>1. CASE \E i \in DOMAIN greeting : more[j] = greeting[i]
      BY <1>1, <3>1 DEF Moves
    <3>2. CASE \E i \in DOMAIN tail : more[j] = Update(tail[i])
      <4>1. PICK i \in DOMAIN tail : more[j] = Update(tail[i])
        BY <3>2
      <4>2. more[j].kind = "update" /\ more[j].seq = lastSent[d] + i
        BY <2>1, <2>2, <4>1 DEF Update
      <4> QED BY <1>0, <2>2, <4>2
    <3> QED BY <2>3, <3>1, <3>2
  <2>6. Sending(d, more)
    BY <1>0, <2>1, <2>3, <2>4, <2>5 DEF Sending, more
  <2> QED BY <2>6
<1> QED
  BY <1>2, <1>3, ServeFromIs

LEMMA PartSends ==
    ASSUME Log, Stream, NEW d \in Device, SendPart(d)
    PROVE  \E more : Sending(d, more)
<1> DEFINE g == <<NextPart(d)>>
<1>0. /\ pc[d] = "snapshot" /\ NextPart(d) \in ToClient /\ (SendsMore(d) \/ SendsLast(d) \/ Closes(d))
      /\ s2c[d] \in Seq(ToClient)
  BY SendPartIs DEF Log, Types
<1>1. /\ Reach(d) = serving[d].seq /\ lastSent[d] < serving[d].seq /\ serving[d].seq \in Nat
      /\ lastSent[d] \in Nat
  <2>1. serving[d] \in Snapshots
    BY DEF Log, Types
  <2> QED BY <1>0, <2>1, ReachIs DEF Snapshots
<1>2. /\ g \in Seq(ToClient) /\ Len(g) = 1
      /\ \A i \in DOMAIN g : g[i] = NextPart(d) /\ g[i].kind = "part" /\ Moves(g[i]) /\ Pos(g[i]) = serving[d].seq
  <2>1. NextPart(d).kind = "part" /\ Moves(NextPart(d)) /\ Pos(NextPart(d)) = serving[d].seq
    BY DEF NextPart, Part, Moves, Pos
  <2>2. \A i \in DOMAIN g : g[i] = NextPart(d)
    OBVIOUS
  <2> QED BY <1>0, <2>1, <2>2
<1> HIDE DEF g
<1>3. CASE SendsMore(d)
  <2>1. Ordered(g)
    BY <1>2 DEF Ordered
  <2>2. Reach(d)' = serving[d].seq /\ s2c'[d] = s2c[d] \o g /\ lastSent'[d] = lastSent[d]
    BY <1>3 DEF SendsMore, Reach, g
  <2>3. Sending(d, g)
    BY <1>0, <1>1, <1>2, <1>3, <2>1, <2>2 DEF Sending, SendsMore
  <2> QED BY <2>3
<1>4. CASE SendsLast(d)
  <2> DEFINE log == serving[d].backlog
             more == g \o Updates(log)
  <2>1. /\ log \in Seq(Entry) /\ \A i \in DOMAIN log : log[i].seq = serving[d].seq + i
        /\ DOMAIN log = 1..Len(log) /\ Len(log) \in Nat
    <3>1. serving[d] \in Snapshots
      BY DEF Log, Types
    <3> QED BY <1>0, <3>1 DEF Log, Served, ServedAt, Snapshots
  <2> HIDE DEF log
  <2>2. /\ more \in Seq(ToClient) /\ Ordered(more)
        /\ \A i \in DOMAIN more :
              (\E j \in DOMAIN g : more[i] = g[j]) \/ (\E j \in DOMAIN log : more[i] = Update(log[j]))
    <3>1. Len(g) <= 1 /\ \A i \in DOMAIN g : Moves(g[i]) => Pos(g[i]) <= serving[d].seq /\ Pos(g[i]) \in Nat
      BY <1>1, <1>2
    <3> QED BY <1>1, <1>2, <2>1, <3>1, OrderedUpdates
  <2> HIDE DEF more
  <2>3. lastSent'[d] = serving[d].seq + Len(log) /\ pc'[d] = "live" /\ Reach(d)' = lastSent'[d]
        /\ s2c'[d] = s2c[d] \o more
    BY <1>4 DEF SendsLast, Reach, g, more, log
  <2>4. \A j \in DOMAIN more :
          /\ more[j].kind = "update" => serving[d].seq < more[j].seq /\ more[j].seq <= lastSent'[d]
          /\ more[j].kind = "part" => more[j] = NextPart(d)
    <3> TAKE j \in DOMAIN more
    <3>1. CASE \E i \in DOMAIN g : more[j] = g[i]
      BY <1>2, <3>1
    <3>2. CASE \E i \in DOMAIN log : more[j] = Update(log[i])
      <4>1. PICK i \in DOMAIN log : more[j] = Update(log[i])
        BY <3>2
      <4>2. more[j].kind = "update" /\ more[j].seq = serving[d].seq + i
        BY <2>1, <4>1 DEF Update
      <4> QED BY <1>1, <2>1, <2>3, <4>2
    <3> QED BY <2>2, <3>1, <3>2
  <2>5. Sending(d, more)
    <3>1. base = serving[d].seq /\ Reach(d) <= Reach(d)' /\ lastSent[d] <= lastSent'[d]
      BY <1>1, <1>4, <2>1, <2>3 DEF SendsLast
    <3> QED BY <1>0, <1>1, <2>2, <2>3, <2>4, <3>1 DEF Sending
  <2> QED BY <2>5
<1>5. CASE Closes(d)
  <2>1. <<>> \in Seq(ToClient) /\ Ordered(<<>>) /\ s2c[d] \o <<>> = s2c[d]
    BY <1>0 DEF Ordered
  <2>2. Sending(d, <<>>)
    BY <1>0, <1>1, <1>5, <2>1 DEF Sending, Closes
  <2> QED BY <2>2
<1> QED
  BY <1>0, <1>3, <1>4, <1>5

LEMMA TaskSends ==
    ASSUME Log, Stream, NEW d \in Device,
           ReadBacklog(d) \/ Resync(d) \/ SendPart(d) \/ Forward(d) \/ RelayAck(d)
    PROVE  (\E more : Sending(d, more)) /\ UNCHANGED client
<1>0. /\ Types /\ s2c[d] \in Seq(ToClient) /\ rx[d] \in Seq(Entry) /\ top \in Nat
      /\ <<>> \in Seq(ToClient) /\ Ordered(<<>>) /\ s2c[d] \o <<>> = s2c[d]
  BY DEF Log, Types, Ordered
<1>1. CASE ReadBacklog(d)
  <2>1. /\ <<Welcome(top)>> \in Seq(ToClient) /\ Len(<<Welcome(top)>>) <= 1
        /\ \A i \in DOMAIN <<Welcome(top)>> : <<Welcome(top)>>[i].kind = "welcome"
    BY <1>0, FrameTypes DEF Welcome
  <2>2. pc[d] = "hello" /\ ServeFrom(d, <<Welcome(top)>>) /\ base' = base /\ UNCHANGED client
    BY <1>1 DEF ReadBacklog, relayLog
  <2> QED BY <2>1, <2>2, ServeSends
<1>2. CASE Resync(d)
  <2>1. Len(<<>>) <= 1 /\ \A i \in DOMAIN <<>> : <<>>[i].kind = "welcome"
    OBVIOUS
  <2>2. pc[d] = "live" /\ ServeFrom(d, <<>>) /\ base' = base /\ UNCHANGED client
    BY <1>2 DEF Resync, relayLog
  <2> QED BY <1>0, <2>1, <2>2, ServeSends
<1>3. CASE SendPart(d)
  BY <1>3, PartSends, SendPartIs
<1>4. CASE Forward(d)
  <2> DEFINE e == Head(rx[d])
             g == <<Update(e)>>
  <2>1. pc[d] = "live" /\ pc' = pc /\ serving' = serving /\ UNCHANGED client /\ e \in Entry
        /\ Reach(d) = lastSent[d] /\ Reach(d)' = lastSent'[d] /\ lastSent[d] \in Nat
    BY <1>0, <1>4, ReachIs DEF Forward, Reach
  <2>2. \/ s2c'[d] = s2c[d] \o g /\ lastSent'[d] = e.seq /\ e.seq > lastSent[d]
        \/ s2c'[d] = s2c[d] /\ lastSent'[d] = lastSent[d]
    BY <1>0, <1>4 DEF Forward, Send, NotYetSent, Types
  <2>3. CASE s2c'[d] = s2c[d] \o g /\ lastSent'[d] = e.seq /\ e.seq > lastSent[d]
    <3>1. g \in Seq(ToClient) /\ Ordered(g) /\ \A i \in DOMAIN g : g[i].kind = "update" /\ g[i].seq = e.seq
      BY <2>1, FrameTypes DEF Update, Ordered
    <3>2. e.seq \in Nat
      BY <2>1 DEF Entry
    <3> HIDE DEF g, e
    <3>3. Sending(d, g)
      BY <2>1, <2>3, <3>1, <3>2 DEF Sending
    <3> QED BY <2>1, <3>3
  <2>4. CASE s2c'[d] = s2c[d] /\ lastSent'[d] = lastSent[d]
    <3>1. Sending(d, <<>>)
      BY <1>0, <2>1, <2>4 DEF Sending
    <3> QED BY <2>1, <3>1
  <2> QED BY <2>2, <2>3, <2>4
<1>5. CASE RelayAck(d)
  <2>1. PICK e \in owed[d] : s2c'[d] = s2c[d] \o <<Ack(e.seq)>>
    BY <1>0, <1>5 DEF RelayAck, Send, Types
  <2>2. e \in Entry /\ pc[d] = "ack" /\ pc'[d] = "fanout" /\ UNCHANGED <<lastSent, serving, client>>
    BY <1>0, <1>5, <2>1 DEF RelayAck, Types
  <2> DEFINE g == <<Ack(e.seq)>>
  <2>3. g \in Seq(ToClient) /\ Ordered(g) /\ \A i \in DOMAIN g : g[i].kind = "ack"
    BY <2>2, FrameTypes DEF Ack, Ordered, Entry
  <2> HIDE DEF g
  <2>4. lastSent[d] \in Nat /\ Reach(d) = lastSent[d] /\ Reach(d)' = lastSent'[d]
    BY <2>2, ReachIs DEF Reach
  <2>5. Sending(d, g)
    BY <2>1, <2>2, <2>3, <2>4 DEF Sending, g
  <2> QED BY <2>2, <2>5
<1> QED
  BY <1>1, <1>2, <1>3, <1>4, <1>5

LEMMA StreamSent ==
    ASSUME Log, Stream, Next, NEW d \in Device, NEW more, Sending(d, more), UNCHANGED client
    PROVE  StreamAt(d)'
<1>0. /\ Types /\ Types' /\ s2c[d] \in Seq(ToClient) /\ StreamAt(d) /\ cursor'[d] = cursor[d]
      /\ lastSent'[d] \in Nat /\ more \in Seq(ToClient) /\ serving'[d].seq \in Nat
  <2>1. serving'[d] \in Snapshots' /\ Types'
    BY TypesKept DEF Log, Types
  <2> QED BY <2>1 DEF Log, Types, Stream, client, Sending, Snapshots
<1>1. /\ Reach(d) \in Nat /\ lastSent[d] \in Nat /\ cursor[d] \in Nat /\ lastSent[d] <= Reach(d)
      /\ cursor[d] <= Reach(d)
      /\ \A k \in DOMAIN s2c[d] : Moves(s2c[d][k]) => Pos(s2c[d][k]) <= Reach(d)
      /\ pc[d] = "snapshot" => lastSent[d] < serving[d].seq /\ Reach(d) = serving[d].seq
  BY ReachIs DEF Sending
<1>2. s2c'[d] \in Seq(ToClient) /\ Longer(s2c[d], more, s2c'[d])
  BY <1>0, Appended DEF Sending
<1>3. \A j \in DOMAIN more :
          /\ more[j] \in ToClient
          /\ more[j].kind = "update" => more[j].seq \in Nat
          /\ more[j].kind = "part" => more[j].upto \in Nat
  BY <1>0, FrameTypes
<1>4. \A i \in DOMAIN s2c[d], j \in DOMAIN more : Before(s2c[d][i], more[j])
  <2> SUFFICES ASSUME NEW i \in DOMAIN s2c[d], NEW j \in DOMAIN more,
                      Moves(s2c[d][i]), Moves(more[j])
               PROVE  /\ Pos(s2c[d][i]) <= Pos(more[j])
                      /\ s2c[d][i].kind = "update" \/ more[j].kind = "update" => Pos(s2c[d][i]) < Pos(more[j])
    BY DEF Before
  <2>1. Pos(s2c[d][i]) \in Nat /\ Pos(s2c[d][i]) <= Reach(d)
    BY <1>0, <1>1, PosTypes
  <2>2. CASE more[j].kind = "update"
    <3>1. Pos(more[j]) > Reach(d) /\ Pos(more[j]) \in Nat
      BY <1>3, <2>2 DEF Sending, Pos
    <3> QED BY <1>1, <2>1, <3>1
  <2>3. CASE more[j].kind = "part"
    <3>1. Pos(more[j]) = Reach(d) /\ lastSent[d] < Reach(d) /\ more[j].kind # "update"
      BY <1>1, <2>3 DEF Sending, NextPart, Part, Pos
    <3>2. s2c[d][i].kind = "update" => Pos(s2c[d][i]) <= lastSent[d]
      BY <1>0 DEF StreamAt, Pos
    <3> QED BY <1>1, <2>1, <3>1, <3>2
  <2> QED BY <2>2, <2>3 DEF Moves
<1>5. Ordered(s2c'[d])
  <2>1. Ordered(s2c[d]) /\ Ordered(more)
    BY <1>0 DEF StreamAt, Sending
  <2> QED BY <1>0, <1>2, <1>4, <2>1, OrderedLonger
<1>6. \A k \in DOMAIN s2c'[d] : s2c'[d][k].kind = "update" =>
          cursor[d] < s2c'[d][k].seq /\ s2c'[d][k].seq <= lastSent'[d]
  <2> SUFFICES ASSUME NEW k \in DOMAIN s2c'[d], s2c'[d][k].kind = "update"
               PROVE  cursor[d] < s2c'[d][k].seq /\ s2c'[d][k].seq <= lastSent'[d]
    OBVIOUS
  <2>1. CASE k \in DOMAIN s2c[d]
    <3>1. /\ s2c'[d][k] = s2c[d][k] /\ cursor[d] < s2c[d][k].seq /\ s2c[d][k].seq <= lastSent[d]
          /\ s2c[d][k].kind = "update"
      BY <1>0, <1>2, <2>1 DEF Longer, StreamAt
    <3>2. s2c[d][k].seq \in Nat
      BY <1>0, <2>1, <3>1, PosTypes DEF Moves, Pos
    <3> QED BY <1>0, <1>1, <3>1, <3>2 DEF Sending
  <2>2. CASE k \notin DOMAIN s2c[d]
    <3>1. PICK j \in DOMAIN more : s2c'[d][k] = more[j]
      BY <1>2, <2>2 DEF Longer
    <3>2. more[j].seq \in Nat /\ Reach(d) < more[j].seq /\ more[j].seq <= lastSent'[d]
      BY <1>3, <3>1 DEF Sending
    <3> QED BY <1>1, <3>1, <3>2
  <2> QED BY <2>1, <2>2
<1>7. ASSUME pc'[d] \notin {"none", "closed"}
      PROVE  /\ cursor[d] <= Reach(d)'
             /\ \A k \in DOMAIN s2c'[d] : s2c'[d][k].kind = "part" => s2c'[d][k].upto <= Reach(d)'
  <2>1. Reach(d)' \in Nat /\ Reach(d) <= Reach(d)'
    BY <1>0, <1>7 DEF Sending, Reach
  <2>2. ASSUME NEW k \in DOMAIN s2c'[d], s2c'[d][k].kind = "part" PROVE s2c'[d][k].upto <= Reach(d)'
    <3>1. CASE k \in DOMAIN s2c[d]
      <4>1. s2c'[d][k] = s2c[d][k] /\ Pos(s2c[d][k]) = s2c[d][k].upto /\ Moves(s2c[d][k])
        BY <1>2, <2>2, <3>1 DEF Longer, Moves, Pos
      <4>2. Pos(s2c[d][k]) \in Nat /\ Pos(s2c[d][k]) <= Reach(d)
        BY <1>0, <1>1, <3>1, <4>1, PosTypes
      <4> QED BY <1>1, <2>1, <4>1, <4>2
    <3>2. CASE k \notin DOMAIN s2c[d]
      <4>1. PICK j \in DOMAIN more : s2c'[d][k] = more[j]
        BY <1>2, <3>2 DEF Longer
      <4>2. more[j].upto = Reach(d)
        BY <1>1, <2>2, <4>1 DEF Sending, NextPart, Part
      <4> QED BY <2>1, <4>1, <4>2
    <3> QED BY <3>1, <3>2
  <2>3. cursor[d] <= Reach(d)'
    BY <1>1, <2>1
  <2> QED BY <2>2, <2>3
<1> QED
  BY <1>0, <1>5, <1>6, <1>7 DEF StreamAt

LEMMA StreamRead ==
    ASSUME Log, Stream, Next, NEW d \in Device,
           OnWelcome(d) \/ OnAck(d) \/ OnUpdate(d) \/ OnPart(d)
    PROVE  StreamAt(d)'
<1> DEFINE f == s2c[d][1]
<1>0. /\ Types /\ Types' /\ s2c[d] \in Seq(ToClient) /\ StreamAt(d) /\ cursor[d] \in Nat
      /\ s2c[d] # <<>> /\ s2c'[d] = Tail(s2c[d]) /\ UNCHANGED <<task>>
      /\ Reach(d)' = Reach(d) /\ pc'[d] = pc[d] /\ lastSent'[d] = lastSent[d]
      /\ f = Head(s2c[d]) /\ 1 \in DOMAIN s2c[d]
  <2>1. s2c[d] # <<>> /\ s2c'[d] = Tail(s2c[d]) /\ UNCHANGED task
    BY ReadIs
  <2>2. s2c[d] \in Seq(ToClient) /\ Types /\ Types' /\ StreamAt(d) /\ cursor[d] \in Nat
    BY TypesKept DEF Log, Types, Stream
  <2>3. f = Head(s2c[d]) /\ 1 \in DOMAIN s2c[d]
    BY <2>1, <2>2
  <2> QED BY <2>1, <2>2, <2>3 DEF task, Reach
<1>1. \A i \in DOMAIN s2c'[d] : i \in Nat /\ i + 1 \in DOMAIN s2c[d] /\ s2c'[d][i] = s2c[d][i + 1]
  BY <1>0
<1>2. cursor'[d] = cursor[d] \/ (Moves(f) /\ cursor'[d] = Pos(f))
  <2>1. CASE OnWelcome(d) \/ OnAck(d)
    BY <2>1 DEF OnWelcome, OnAck
  <2>2. CASE OnUpdate(d)
    BY <1>0, <2>2, OnUpdateIs DEF UpdateIs, Moves, Pos
  <2>3. CASE OnPart(d)
    BY <1>0, <2>3, OnPartIs DEF PartIs, Moves, Pos
  <2> QED BY <2>1, <2>2, <2>3
<1>3. \A k \in DOMAIN s2c'[d] : Before(f, s2c'[d][k])
  <2>1. \A k \in DOMAIN s2c'[d] : 1 \in 1..((k + 1) - 1)
    BY <1>0
  <2> QED BY <1>0, <1>1, <2>1 DEF StreamAt, Ordered
<1> HIDE DEF f
<1>4. \A k \in DOMAIN s2c'[d] : s2c'[d][k].kind = "update" =>
          cursor'[d] < s2c'[d][k].seq /\ s2c'[d][k].seq <= lastSent'[d]
  <2> SUFFICES ASSUME NEW k \in DOMAIN s2c'[d], s2c'[d][k].kind = "update"
               PROVE  cursor'[d] < s2c'[d][k].seq /\ s2c'[d][k].seq <= lastSent'[d]
    OBVIOUS
  <2>1. cursor[d] < s2c'[d][k].seq /\ s2c'[d][k].seq <= lastSent[d]
    BY <1>0, <1>1 DEF StreamAt
  <2>2. Moves(f) => Pos(f) < s2c'[d][k].seq
    BY <1>3 DEF Before, Moves, Pos
  <2> QED BY <1>0, <1>2, <2>1, <2>2
<1>5. Ordered(s2c'[d])
  <2> SUFFICES ASSUME NEW k \in DOMAIN s2c'[d], NEW j \in 1..(k - 1)
               PROVE  Before(s2c'[d][j], s2c'[d][k])
    BY DEF Ordered
  <2>1. j \in DOMAIN s2c'[d] /\ j + 1 \in 1..((k + 1) - 1)
    BY <1>0, <1>1
  <2>2. Before(s2c[d][j + 1], s2c[d][k + 1])
    BY <1>0, <1>1, <2>1 DEF StreamAt, Ordered
  <2> QED BY <1>1, <2>1, <2>2
<1>6. ASSUME pc'[d] \notin {"none", "closed"}
      PROVE  /\ cursor'[d] <= Reach(d)'
             /\ \A k \in DOMAIN s2c'[d] : s2c'[d][k].kind = "part" => s2c'[d][k].upto <= Reach(d)'
  <2>1. cursor[d] <= Reach(d) /\ \A k \in DOMAIN s2c[d] : Moves(s2c[d][k]) => Pos(s2c[d][k]) <= Reach(d)
    BY <1>0, <1>6, ReachIs
  <2>2. cursor'[d] <= Reach(d)'
    BY <1>0, <1>2, <2>1 DEF f
  <2> QED BY <1>0, <1>1, <2>1, <2>2 DEF Moves, Pos
<1> QED
  BY <1>4, <1>5, <1>6 DEF StreamAt

LEMMA StreamKept ==
    ASSUME Log, Stream, Next
    PROVE  Stream'
<1>0. Types /\ \A c \in Device : StreamAt(c) /\ PhaseAt(c) /\ serving[c] \in Snapshots
  BY DEF Log, Stream, Types, Bounds, BoundsAt
<1>1. ASSUME NEW c \in Device, Local(c)' = Local(c) PROVE StreamAt(c)'
  <2>1. /\ pc'[c] = pc[c] /\ lastSent'[c] = lastSent[c] /\ serving'[c] = serving[c]
        /\ s2c'[c] = s2c[c] /\ cursor'[c] = cursor[c]
    BY <1>1 DEF Local
  <2> QED BY <1>0, <2>1 DEF StreamAt, Reach
<1>2. CASE LateFanout
  BY <1>1, <1>2 DEF LateFanout, Local, Stream, client
<1>3. ASSUME NEW d \in Device, StepOf(d) PROVE StreamAt(d)'
  <2>1. CASE Connect(d)
    <3>1. /\ s2c[d] = <<>> /\ s2c' = s2c /\ cursor' = cursor /\ pc'[d] = "hello" /\ lastSent'[d] = cursor[d]
          /\ cursor[d] \in Nat
      BY <1>0, <2>1 DEF Connect, Types, PhaseAt
    <3>2. cursor'[d] <= Reach(d)'
      BY <3>1 DEF Reach
    <3> QED BY <3>1, <3>2 DEF StreamAt, Ordered
  <2>2. CASE ReadBacklog(d) \/ Resync(d) \/ SendPart(d) \/ Forward(d) \/ RelayAck(d)
    BY <2>2, TaskSends, StreamSent
  <2>3. CASE RelayPush(d) \/ RelayFanout(d) \/ RelayCompact(d) \/ Push(d)
    <3>1. /\ UNCHANGED <<s2c, cursor, lastSent, serving>>
          /\ \/ pc'[d] = pc[d]
             \/ pc[d] \in {"live", "fanout"} /\ pc'[d] \in {"ack", "live"}
      BY <1>0, <2>3 DEF RelayPush, RelayFanout, RelayCompact, Push, Types, task, client
    <3>2. Reach(d)' = Reach(d)
      BY <3>1 DEF Reach
    <3> QED BY <1>0, <3>1, <3>2 DEF StreamAt
  <2>4. CASE OnWelcome(d) \/ OnAck(d) \/ OnUpdate(d) \/ OnPart(d)
    BY <2>4, StreamRead
  <2>5. CASE SeeClose(d) \/ \E crash \in BOOLEAN : Drop(d, crash)
    <3>1. s2c'[d] = <<>> /\ pc'[d] = "none"
      BY <1>0, <2>5 DEF SeeClose, Drop, EndSession, EndTask, Types
    <3> QED BY <3>1 DEF StreamAt, Ordered
  <2> QED BY <1>3, <2>1, <2>2, <2>3, <2>4, <2>5 DEF StepOf, RelayStep, ClientStep
<1>4. ASSUME NEW d \in Device, StepOf(d) PROVE Stream'
  BY <1>0, <1>1, <1>3, <1>4, Locality DEF Stream
<1> QED
  BY <1>2, <1>4 DEF Next, StepOf

-----------------------------------------------------------------------------
(* The invariant                                                            *)

\* What holds of the log, the unacked edits and the streams, together.
Delivery == Log /\ Flight /\ Stream

LEMMA DeliveryInit ==
    ASSUME Init
    PROVE  Delivery
<1> USE FanoutAssumption DEF Init
<1>1. NoSnapshot \in Snapshots
  BY DEF NoSnapshot, Snapshots
<1>2. Types
  <2>1. /\ cast \in Casts /\ drops \in Nat /\ overtaken \in BOOLEAN
        /\ base \in Nat /\ top \in Nat /\ base <= top
        /\ hist \subseteq Entry /\ snapBlobs \subseteq Blobs /\ late \subseteq hist
    <3>1. cast \in Casts /\ overtaken \in BOOLEAN
      OBVIOUS
    <3>2. drops \in Nat /\ base \in Nat /\ top \in Nat /\ base <= top
      OBVIOUS
    <3>3. hist = {} /\ snapBlobs = {} /\ late = {}
      OBVIOUS
    <3> QED BY <3>1, <3>2, <3>3
  <2>2. pc \in [Device -> States] /\ serving \in [Device -> Snapshots]
    BY <1>1 DEF States
  <2>3. lastSent \in [Device -> Nat] /\ cursor \in [Device -> Nat] /\ made \in [Device -> Nat]
    OBVIOUS
  <2>4. /\ rx \in [Device -> Seq(Entry)] /\ c2s \in [Device -> Seq(ToRelay)]
        /\ s2c \in [Device -> Seq(ToClient)]
    OBVIOUS
  <2>5. /\ owed \in [Device -> SUBSET Entry] /\ has \in [Device -> SUBSET Blobs]
        /\ tracker \in [Device -> SUBSET Progress] /\ goal \in [Device -> SUBSET Nat]
    OBVIOUS
  <2>6. /\ lagged \in [Device -> BOOLEAN] /\ session \in [Device -> BOOLEAN]
        /\ unacked \in [Device -> BOOLEAN] /\ inFlight \in [Device -> BOOLEAN]
        /\ caughtUp \in [Device -> BOOLEAN]
    OBVIOUS
  <2> QED BY <2>1, <2>2, <2>3, <2>4, <2>5, <2>6 DEF Types
<1>3. LogShape
  BY DEF LogShape
<1>4. \A d \in Device : CountsAt(d) /\ WiresAt(d) /\ PhaseAt(d)
  BY DEF CountsAt, WiresAt, PhaseAt, MaxBlobs, Cap
<1>5. Served /\ Flight /\ Stream
  BY DEF Served, ServedAt, Flight, OwedApart, FlightAt, Acks, Pushes, Stream, StreamAt, Ordered
<1> QED
  BY <1>2, <1>3, <1>4, <1>5 DEF Delivery, Log, Bounds, BoundsAt

LEMMA DeliveryKept ==
    ASSUME Delivery, [Next]_vars
    PROVE  Delivery'
<1>1. CASE Next
  BY <1>1, LogKept, FlightKept, StreamKept DEF Delivery
<1>2. CASE UNCHANGED vars
  <2> USE <1>2 DEF vars, relayLog, task, client
  <2>1. Log'
    BY LogKept DEF Delivery
  <2>2. Flight'
    BY DEF Delivery, Flight, OwedApart, FlightAt, Current
  <2>3. Stream'
    BY DEF Delivery, Stream, StreamAt, Reach
  <2> QED BY <2>1, <2>2, <2>3 DEF Delivery
<1> QED
  BY <1>1, <1>2

LEMMA AtMostOne ==
    ASSUME NEW S, \A x, y \in S : x = y
    PROVE  Cardinality(S) <= 1
<1>1. CASE S = {}
  BY <1>1, FS_EmptySet
<1>2. CASE S # {}
  <2>1. PICK x \in S : S = {x}
    BY <1>2
  <2> QED BY <2>1, FS_Singleton
<1> QED
  BY <1>1, <1>2

LEMMA DeliveryTypes ==
    ASSUME Delivery
    PROVE  TypeOK
<1>0. Types /\ LogShape /\ \A d \in Device : CountsAt(d) /\ WiresAt(d)
  BY DEF Delivery, Log, Bounds, BoundsAt
<1>1. \A d \in Device : Len(rx[d]) <= Cap /\ Range(rx[d]) \subseteq Entry
  <2> TAKE d \in Device
  <2>1. rx[d] \in Seq(Entry) /\ Len(rx[d]) <= Cap
    BY <1>0 DEF Types, WiresAt
  <2>2. \A i \in DOMAIN rx[d] : rx[d][i] \in Entry
    BY <2>1
  <2> QED BY <2>1, <2>2 DEF Range
<1>2. \A d \in Device : owed[d] \subseteq Entry /\ has[d] \subseteq Blobs
  BY <1>0 DEF Types
<1>3. \A d \in Device : Cardinality(tracker[d]) <= 1 /\ Cardinality(goal[d]) <= 1
  <2> TAKE d \in Device
  <2>1. (\A x, y \in tracker[d] : x = y) /\ (\A x, y \in goal[d] : x = y)
    BY <1>0 DEF CountsAt
  <2> QED BY <2>1, AtMostOne
<1> QED
  BY <1>0, <1>1, <1>2, <1>3 DEF TypeOK, Types, LogShape, States

LEMMA DeliveryOrders ==
    ASSUME Delivery
    PROVE  StreamOrdered
<1> SUFFICES ASSUME NEW d \in Device, NEW i \in DOMAIN s2c[d], s2c[d][i].kind = "update"
             PROVE  /\ cursor[d] < s2c[d][i].seq /\ s2c[d][i].seq <= lastSent[d]
                    /\ \A j \in 1..(i - 1) :
                           s2c[d][j].kind = "update" => s2c[d][j].seq < s2c[d][i].seq
  BY DEF StreamOrdered
<1>1. StreamAt(d)
  BY DEF Delivery, Stream
<1>2. ASSUME NEW j \in 1..(i - 1), s2c[d][j].kind = "update"
      PROVE  s2c[d][j].seq < s2c[d][i].seq
  <2>1. Before(s2c[d][j], s2c[d][i])
    BY <1>1 DEF StreamAt, Ordered
  <2> QED BY <1>2, <2>1 DEF Before, Moves, Pos
<1> QED
  BY <1>1, <1>2 DEF StreamAt

LEMMA DeliveryAlways == Spec => []Delivery
BY DeliveryInit, DeliveryKept, PTL DEF Spec

\* Every reachable state of a vault's log, tasks, wires and devices has its
\* type: no receiver holds more than the channel's capacity, no device has two
\* part sets in progress or two Welcomes in one session, compaction never
\* passes the log's end and the stored log is part of what was logged.
THEOREM TypeCorrect == Spec => []TypeOK
BY DeliveryAlways, DeliveryTypes, PTL

\* No entry is sent to a client twice, nor behind a later one, however the
\* backlog, a snapshot's tail, a resync and the broadcasts overlap.
THEOREM StreamsStayOrdered == Spec => []StreamOrdered
BY DeliveryAlways, DeliveryOrders, PTL
=============================================================================
