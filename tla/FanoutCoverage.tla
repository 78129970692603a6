--------------------------- MODULE FanoutCoverage ---------------------------
(***************************************************************************)
(* Neither a cursor nor a snapshot ever passes an edit that is not still    *)
(* coming, as long as no broadcast is overtaken: for any devices, casts,    *)
(* capacity of the broadcast channel and number of parts.                   *)
(*                                                                          *)
(* The invariant says of every position that a device, an offer, a frame on *)
(* the wire or a task will put a cursor or a snapshot at, that whoever gets *)
(* there has what it passes.                                                *)
(***************************************************************************)
EXTENDS FanoutProofs

-----------------------------------------------------------------------------
(* What a client has once it has read what was sent                         *)

Brings(f) ==
    IF f.kind = "update" THEN {f.blob} ELSE IF f.kind = "part" THEN f.blobs ELSE {}

\* The edits of a client that has H and reads q up to its k-th frame.
After(H, q, k) == H \union UNION {Brings(q[j]) : j \in 1..k}
AfterAll(H, q) == After(H, q, Len(q))

InParts(blobs, idxs) == {b \in blobs : PartOf(b) \in idxs}

\* The parts of the set up to u that the frames of q up to the k-th bring.
Brought(q, k, u) == {q[j].idx : j \in {j \in 1..k : q[j].kind = "part" /\ q[j].upto = u}}

\* Trackers of the stored snapshot hold what it says.
TrackersAt(d) ==
    \A t \in tracker[d] :
        /\ t.upto <= base
        /\ t.upto = base => InParts(snapBlobs, t.seen) \subseteq has[d]

\* So do its parts on the wire; a part is ignored only where the client has
\* what it brings.
PartsAt(d) ==
    \A k \in DOMAIN s2c[d] : s2c[d][k].kind = "part" =>
        /\ s2c[d][k].upto <= base
        /\ s2c[d][k].upto = base => s2c[d][k].blobs = InParts(snapBlobs, {s2c[d][k].idx})
        /\ \/ s2c[d][k].upto <= cursor[d]
           \/ s2c[d][k].idx \in Seen(tracker[d], s2c[d][k].upto)
           => s2c[d][k].blobs \subseteq has[d]
        /\ \A j \in DOMAIN s2c[d] :
              /\ s2c[d][j].kind = "part"
              /\ s2c[d][j].upto = s2c[d][k].upto /\ s2c[d][j].idx = s2c[d][k].idx
              => s2c[d][j].blobs = s2c[d][k].blobs

\* A task that serves the stored snapshot has sent the parts before the next;
\* a client that is there already has them all.
ServingAt(d) ==
    pc[d] = "snapshot" /\ base = serving[d].seq =>
        /\ InParts(snapBlobs, 1..(serving[d].next - 1)) \subseteq AfterAll(has[d], s2c[d])
        /\ cursor[d] >= base => snapBlobs \subseteq has[d]

PartedAt(d) == TrackersAt(d) /\ PartsAt(d) /\ ServingAt(d)
Parted == \A d \in Device : PartedAt(d)

-----------------------------------------------------------------------------
(* Coverage                                                                 *)

\* The edits that a device will push again: no task of the relay has them.
Retries ==
    {b \in Blobs :
        /\ unacked[b.dev] /\ b.n = made[b.dev]
        /\ pc[b.dev] \notin {"ack", "fanout"}
        /\ Acks(s2c[b.dev]) = {}}

\* Whoever has H at seq n misses nothing up to n that is not still coming, by
\* the log h and the retries R.
Covers(H, n, h, R) ==
    \A e \in h : e.seq <= n =>
        e.blob \in H \union R \/ \E f \in h : f.blob = e.blob /\ f.seq > n

\* The entries whose broadcast is still to come.
Pending == late \union UNION {owed[d] : d \in Device}

\* A frame that moves the cursor of a client with this tracker when it is read.
Completes(T, q, k) ==
    \/ q[k].kind = "update"
    \/ q[k].kind = "part" /\ 1..Parts \subseteq Seen(T, q[k].upto) \union Brought(q, k, q[k].upto)

\* Where a client is, what it offers and where the frames sent to it take it.
CursorAt(d) == Covers(has[d], cursor[d], hist, Retries)
OffersAt(d) ==
    \A i \in DOMAIN c2s[d] : c2s[d][i].kind = "compact" =>
        Covers(c2s[d][i].blobs, c2s[d][i].upto, hist, Retries)
FramesAt(d) ==
    \A k \in DOMAIN s2c[d] : Completes(tracker[d], s2c[d], k) =>
        Covers(After(has[d], s2c[d], k), Pos(s2c[d][k]), hist, Retries)
SentAt(d) ==
    pc[d] \in {"hello", "live", "ack", "fanout"} =>
        Covers(AfterAll(has[d], s2c[d]), lastSent[d], hist, Retries)
ClientAt(d) == CursorAt(d) /\ OffersAt(d) /\ FramesAt(d) /\ SentAt(d)

\* The end of what a task will send without its receiver, and what it brings.
Flowing(d) ==
    \/ pc[d] \in {"live", "ack", "fanout"}
    \/ pc[d] = "snapshot" /\ base = serving[d].seq
EndOf(d) ==
    IF pc[d] = "snapshot" THEN serving[d].seq + Len(serving[d].backlog) ELSE lastSent[d]
Piped(d) ==
    AfterAll(has[d], s2c[d]) \union
        (IF pc[d] = "snapshot"
         THEN snapBlobs \union {serving[d].backlog[i].blob : i \in DOMAIN serving[d].backlog}
         ELSE {})
\* ... and with the receiver's first i entries, those already sent left out.
Received(q, n, i) == {q[j].blob : j \in {j \in 1..i : q[j].seq > n}}
Gets(d, i) == Piped(d) \union Received(rx[d], EndOf(d), i)

\* The receiver goes up to the broadcasts that are pending, and whoever is sent
\* all of it misses only what is pending or pushed again.
Rising(q, P) ==
    \A i \in DOMAIN q :
        /\ \A j \in 1..(i - 1) : q[j].seq < q[i].seq
        /\ \A o \in P : q[i].seq < o.seq
Comes(H, h, R, P) ==
    \A e \in h :
        e.blob \in H \union R \/ \E f \in P : f.blob = e.blob /\ f.seq >= e.seq
InOrderAt(d) == Rising(rx[d], Pending)
ReceiverAt(d) ==
    Flowing(d) /\ ~lagged[d] =>
        /\ \A i \in DOMAIN rx[d] : rx[d][i].seq > EndOf(d) =>
               Covers(Gets(d, i), rx[d][i].seq, hist, Retries)
        /\ Comes(Gets(d, Len(rx[d])), hist, Retries, Pending)

Covered ==
    /\ Covers(snapBlobs, base, hist, Retries)
    /\ \A d \in Device : ClientAt(d)
    /\ \A d \in Device : InOrderAt(d)
    /\ \A d \in Device : ReceiverAt(d)

FInv == Delivery /\ Parted /\ (overtaken \/ Covered)

-----------------------------------------------------------------------------
(* Reading and sending                                                      *)

\* Frames put on the wire leave what the earlier ones bring alone.
LEMMA AfterSent ==
    ASSUME NEW H, NEW q \in Seq(ToClient), NEW more \in Seq(ToClient), NEW new \in Seq(ToClient),
           Longer(q, more, new)
    PROVE  /\ \A k \in DOMAIN q : After(H, new, k) = After(H, q, k)
           /\ \A k \in Nat : k >= Len(q) => AfterAll(H, q) \subseteq After(H, new, k)
           /\ AfterAll(H, q) \subseteq AfterAll(H, new)
           /\ \A j \in DOMAIN more, k \in Nat :
                 k >= Len(q) + j => Brings(more[j]) \subseteq After(H, new, k)
<1>0. /\ DOMAIN q = 1..Len(q) /\ DOMAIN more = 1..Len(more) /\ DOMAIN new = 1..Len(new)
      /\ Len(q) \in Nat /\ Len(more) \in Nat /\ Len(new) = Len(q) + Len(more)
      /\ \A i \in 1..Len(q) : new[i] = q[i]
      /\ \A i \in 1..Len(more) : new[Len(q) + i] = more[i]
  BY DEF Longer
<1>1. \A k \in DOMAIN q : After(H, new, k) = After(H, q, k)
  <2> TAKE k \in DOMAIN q
  <2>1. \A j \in 1..k : new[j] = q[j]
    BY <1>0
  <2> QED BY <2>1 DEF After
<1>2. \A k \in Nat : k >= Len(q) => AfterAll(H, q) \subseteq After(H, new, k)
  <2> TAKE k \in Nat
  <2> HAVE k >= Len(q)
  <2>1. \A j \in 1..Len(q) : j \in 1..k /\ new[j] = q[j]
    BY <1>0
  <2> QED BY <2>1 DEF After, AfterAll
<1>3. ASSUME NEW j \in DOMAIN more, NEW k \in Nat, k >= Len(q) + j
      PROVE  Brings(more[j]) \subseteq After(H, new, k)
  <2>1. Len(q) + j \in 1..k /\ new[Len(q) + j] = more[j]
    BY <1>0, <1>3
  <2> QED BY <2>1 DEF After
<1> QED
  BY <1>0, <1>1, <1>2, <1>3 DEF AfterAll

\* A client that has what the first frame brings loses nothing by reading it.
LEMMA AfterRead ==
    ASSUME NEW H, NEW H2, H \subseteq H2, NEW q \in Seq(ToClient), q # <<>>,
           Brings(q[1]) \subseteq H2
    PROVE  /\ \A k \in DOMAIN Tail(q) : After(H, q, k + 1) \subseteq After(H2, Tail(q), k)
           /\ AfterAll(H, q) \subseteq AfterAll(H2, Tail(q))
<1>0. /\ Len(q) \in Nat /\ Len(q) >= 1 /\ Tail(q) \in Seq(ToClient) /\ Len(Tail(q)) = Len(q) - 1
      /\ DOMAIN Tail(q) = 1..(Len(q) - 1)
      /\ \A i \in 1..(Len(q) - 1) : Tail(q)[i] = q[i + 1]
  OBVIOUS
<1>1. ASSUME NEW k \in 0..(Len(q) - 1)
      PROVE  After(H, q, k + 1) \subseteq After(H2, Tail(q), k)
  <2>1. \A j \in 1..(k + 1) : j = 1 \/ (j - 1 \in 1..k /\ Tail(q)[j - 1] = q[j])
    BY <1>0
  <2>2. \A j \in 1..(k + 1) : Brings(q[j]) \subseteq H2 \union UNION {Brings(Tail(q)[i]) : i \in 1..k}
    BY <2>1
  <2> QED BY <2>2 DEF After
<1>2. AfterAll(H, q) \subseteq AfterAll(H2, Tail(q))
  <2>1. Len(q) - 1 \in 0..(Len(q) - 1) /\ (Len(q) - 1) + 1 = Len(q)
    BY <1>0
  <2> QED BY <1>0, <1>1, <2>1 DEF AfterAll
<1> QED
  BY <1>0, <1>1, <1>2

\* What a device has only grows.
LEMMA HasGrows ==
    ASSUME NEW H, NEW H2, H \subseteq H2, NEW q
    PROVE  /\ \A k : After(H, q, k) \subseteq After(H2, q, k)
           /\ AfterAll(H, q) \subseteq AfterAll(H2, q)
BY DEF After, AfterAll

\* The parts of a snapshot make it up.
LEMMA AllInParts ==
    ASSUME NEW blobs \in SUBSET Blobs
    PROVE  InParts(blobs, 1..Parts) = blobs
<1>1. ASSUME NEW b \in Blobs PROVE PartOf(b) \in 1..Parts
  <2>1. b.n \in Nat /\ Parts \in Nat /\ Parts > 0
    BY FanoutAssumption DEF Blobs
  <2>2. b.n % Parts \in 0..(Parts - 1)
    BY <2>1
  <2> QED BY <2>1, <2>2 DEF PartOf
<1> QED
  BY <1>1 DEF InParts

\* The stored snapshot changes only for a newer one.
LEMMA SnapshotGrows ==
    ASSUME Delivery, Next
    PROVE  base \in Nat /\ base' \in Nat /\ (base < base' \/ (base' = base /\ snapBlobs' = snapBlobs))
<1>0. Types /\ LogShape /\ base \in Nat /\ base' \in Nat
  BY DeliveryKept DEF Delivery, Log, Types
<1>1. CASE UNCHANGED <<base, top, entries, snapBlobs, hist>>
  BY <1>0, <1>1
<1>2. CASE \E d \in Device : RelayPush(d)
  BY <1>0, <1>2 DEF RelayPush
<1>3. CASE \E d \in Device : RelayCompact(d)
  BY <1>0, <1>3 DEF RelayCompact
<1> QED
  BY <1>0, <1>1, <1>2, <1>3, LogGrows

-----------------------------------------------------------------------------
(* Parts                                                                    *)

\* Nothing changes for a device that reads and is sent no frame.
LEMMA PartedStays ==
    ASSUME Delivery, Parted, Next, NEW d \in Device, has[d] \subseteq has'[d],
           cursor'[d] = cursor[d], tracker'[d] = tracker[d], s2c'[d] = s2c[d],
           pc'[d] = "snapshot" => pc[d] = "snapshot" /\ serving'[d] = serving[d]
    PROVE  PartedAt(d)'
<1>0. /\ TrackersAt(d) /\ PartsAt(d) /\ ServingAt(d) /\ Types
      /\ base \in Nat /\ base' \in Nat /\ (base < base' \/ (base' = base /\ snapBlobs' = snapBlobs))
  BY SnapshotGrows DEF Parted, PartedAt, Delivery, Log
<1>1. TrackersAt(d)'
  <2>1. \A t \in tracker[d] : t.upto \in Nat
    BY <1>0 DEF Types, Progress
  <2> QED BY <1>0, <2>1 DEF TrackersAt
<1>2. PartsAt(d)'
  <2>1. \A k \in DOMAIN s2c[d] : s2c[d][k].kind = "part" => s2c[d][k].upto \in Nat
    BY <1>0, PosTypes DEF Moves, Pos
  <2>2. ASSUME NEW k \in DOMAIN s2c[d], s2c[d][k].kind = "part"
        PROVE  /\ s2c[d][k].upto <= base'
               /\ s2c[d][k].upto = base' => s2c[d][k].blobs = InParts(snapBlobs', {s2c[d][k].idx})
               /\ \/ s2c[d][k].upto <= cursor[d]
                  \/ s2c[d][k].idx \in Seen(tracker[d], s2c[d][k].upto)
                  => s2c[d][k].blobs \subseteq has'[d]
               /\ \A j \in DOMAIN s2c[d] :
                     /\ s2c[d][j].kind = "part"
                     /\ s2c[d][j].upto = s2c[d][k].upto /\ s2c[d][j].idx = s2c[d][k].idx
                     => s2c[d][j].blobs = s2c[d][k].blobs
    <3>1. /\ s2c[d][k].upto <= base /\ s2c[d][k].upto \in Nat
          /\ s2c[d][k].upto = base => s2c[d][k].blobs = InParts(snapBlobs, {s2c[d][k].idx})
          /\ \/ s2c[d][k].upto <= cursor[d]
             \/ s2c[d][k].idx \in Seen(tracker[d], s2c[d][k].upto)
             => s2c[d][k].blobs \subseteq has[d]
      BY <1>0, <2>1, <2>2 DEF PartsAt
    <3>2. \A j \in DOMAIN s2c[d] :
              /\ s2c[d][j].kind = "part"
              /\ s2c[d][j].upto = s2c[d][k].upto /\ s2c[d][j].idx = s2c[d][k].idx
              => s2c[d][j].blobs = s2c[d][k].blobs
      BY <1>0, <2>2 DEF PartsAt
    <3>3. s2c[d][k].upto <= base' /\ (s2c[d][k].upto = base' => base' = base /\ snapBlobs' = snapBlobs)
      BY <1>0, <3>1
    <3> QED BY <3>1, <3>2, <3>3
  <2>3. s2c'[d] = s2c[d] /\ cursor'[d] = cursor[d] /\ tracker'[d] = tracker[d]
    OBVIOUS
  <2> QED BY ONLY <2>2, <2>3 DEF PartsAt
<1>3. ServingAt(d)'
  <2> SUFFICES ASSUME pc'[d] = "snapshot", base' = serving'[d].seq
               PROVE  /\ InParts(snapBlobs', 1..(serving'[d].next - 1)) \subseteq AfterAll(has'[d], s2c'[d])
                      /\ cursor'[d] >= base' => snapBlobs' \subseteq has'[d]
    BY DEF ServingAt
  <2>1. pc[d] = "snapshot" /\ serving'[d] = serving[d] /\ serving[d].seq <= base
    BY DEF Delivery, Log, Served, ServedAt
  <2>2. base' = base /\ snapBlobs' = snapBlobs /\ base = serving[d].seq
    BY <1>0, <2>1
  <2>3. AfterAll(has[d], s2c[d]) \subseteq AfterAll(has'[d], s2c'[d])
    BY HasGrows
  <2> QED BY <1>0, <2>1, <2>2, <2>3 DEF ServingAt
<1> QED
  BY <1>1, <1>2, <1>3 DEF PartedAt

\* The frames a task sends.
LEMMA PartedSent ==
    ASSUME Delivery, Parted, Next, NEW d \in Device, NEW more, Sending(d, more),
           UNCHANGED <<client, base, snapBlobs>>
    PROVE  TrackersAt(d)' /\ PartsAt(d)'
<1>0. /\ TrackersAt(d) /\ PartsAt(d) /\ ServingAt(d) /\ Types /\ s2c[d] \in Seq(ToClient)
      /\ cursor'[d] = cursor[d] /\ tracker'[d] = tracker[d] /\ has'[d] = has[d]
      /\ snapBlobs \subseteq Blobs /\ base' = base /\ snapBlobs' = snapBlobs
  BY DEF Parted, PartedAt, Delivery, Log, Types, client
<1>1. TrackersAt(d)'
  BY <1>0 DEF TrackersAt
<1>2. s2c'[d] \in Seq(ToClient) /\ Longer(s2c[d], more, s2c'[d])
  BY <1>0, Appended DEF Sending
<1> DEFINE p == NextPart(d)
<1>3. /\ p.upto = serving[d].seq /\ p.idx = serving[d].next /\ p.kind = "part"
      /\ p.blobs = InParts(snapBlobs, {p.idx})
  BY DEF NextPart, Part, InParts
<1> HIDE DEF p
<1>4. \A j \in DOMAIN more : more[j].kind = "part" =>
          more[j] = p /\ pc[d] = "snapshot" /\ base = serving[d].seq
  BY DEF Sending, p
<1>5. ASSUME pc[d] = "snapshot", base = serving[d].seq, p.upto <= cursor[d] \/ p.idx \in Seen(tracker[d], p.upto)
      PROVE  p.blobs \subseteq has[d]
  <2>1. CASE p.upto <= cursor[d]
    <3>1. cursor[d] >= base
      BY <1>0, <1>3, <1>5, <2>1 DEF Types
    <3>2. snapBlobs \subseteq has[d]
      BY <1>0, <1>5, <3>1 DEF ServingAt
    <3> QED BY <1>3, <3>2 DEF InParts
  <2>2. CASE p.idx \in Seen(tracker[d], p.upto)
    <3>1. PICK t \in tracker[d] : t.upto = p.upto /\ p.idx \in t.seen
      BY <2>2 DEF Seen
    <3>2. InParts(snapBlobs, t.seen) \subseteq has[d]
      BY <1>0, <1>3, <1>5, <3>1 DEF TrackersAt
    <3> QED BY <1>3, <3>1, <3>2 DEF InParts
  <2> QED BY <1>5, <2>1, <2>2
<1>6. \A k \in DOMAIN s2c'[d] : s2c'[d][k].kind = "part" =>
          \/ \E j \in DOMAIN s2c[d] : s2c'[d][k] = s2c[d][j]
          \/ s2c'[d][k] = p /\ pc[d] = "snapshot" /\ base = serving[d].seq
  <2> TAKE k \in DOMAIN s2c'[d]
  <2>1. CASE k \in DOMAIN s2c[d]
    BY <1>2, <2>1 DEF Longer
  <2>2. CASE k \notin DOMAIN s2c[d]
    <3>1. PICK j \in DOMAIN more : s2c'[d][k] = more[j]
      BY <1>2, <2>2 DEF Longer
    <3> QED BY <1>4, <3>1
  <2> QED BY <2>1, <2>2
<1>7. ASSUME NEW f, f.kind = "part",
             \/ \E j \in DOMAIN s2c[d] : f = s2c[d][j]
             \/ f = p /\ pc[d] = "snapshot" /\ base = serving[d].seq
      PROVE  /\ f.upto <= base /\ (f.upto = base => f.blobs = InParts(snapBlobs, {f.idx}))
             /\ f.upto <= cursor[d] \/ f.idx \in Seen(tracker[d], f.upto) => f.blobs \subseteq has[d]
  <2>1. CASE \E j \in DOMAIN s2c[d] : f = s2c[d][j]
    BY <1>0, <1>7, <2>1 DEF PartsAt
  <2>2. CASE f = p /\ pc[d] = "snapshot" /\ base = serving[d].seq
    <3>1. base <= base
      BY <1>0 DEF Types
    <3> QED BY <1>3, <1>5, <2>2, <3>1
  <2> QED BY <1>7, <2>1, <2>2
<1>8. ASSUME NEW f, NEW g, f.kind = "part", g.kind = "part", f.upto = g.upto, f.idx = g.idx,
             \/ \E j \in DOMAIN s2c[d] : f = s2c[d][j]
             \/ f = p /\ pc[d] = "snapshot" /\ base = serving[d].seq,
             \/ \E j \in DOMAIN s2c[d] : g = s2c[d][j]
             \/ g = p /\ pc[d] = "snapshot" /\ base = serving[d].seq
      PROVE  f.blobs = g.blobs
  <2>1. CASE (\E j \in DOMAIN s2c[d] : f = s2c[d][j]) /\ (\E j \in DOMAIN s2c[d] : g = s2c[d][j])
    BY <1>0, <1>8, <2>1 DEF PartsAt
  <2>2. CASE (f = p \/ g = p) /\ base = serving[d].seq
    <3>1. f.upto = base /\ g.upto = base
      BY <1>3, <1>8, <2>2
    <3> QED BY <1>7, <1>8, <3>1
  <2> QED BY <1>8, <2>1, <2>2
<1>9. PartsAt(d)'
  <2> DEFINE new == s2c'[d]
  <2>1. ASSUME NEW k \in DOMAIN new, new[k].kind = "part"
        PROVE  /\ new[k].upto <= base /\ (new[k].upto = base => new[k].blobs = InParts(snapBlobs, {new[k].idx}))
               /\ new[k].upto <= cursor[d] \/ new[k].idx \in Seen(tracker[d], new[k].upto) => new[k].blobs \subseteq has[d]
    BY <1>6, <1>7, <2>1
  <2>2. ASSUME NEW k \in DOMAIN new, NEW j \in DOMAIN new, new[k].kind = "part", new[j].kind = "part",
               new[j].upto = new[k].upto, new[j].idx = new[k].idx
        PROVE  new[j].blobs = new[k].blobs
    BY <1>6, <1>8, <2>2
  <2> QED BY <1>0, <2>1, <2>2 DEF PartsAt
<1> QED
  BY <1>1, <1>9

LEMMA ServingSent ==
    ASSUME Delivery, Parted, Next, NEW d \in Device,
           ReadBacklog(d) \/ Resync(d) \/ SendPart(d) \/ Forward(d) \/ RelayAck(d)
    PROVE  ServingAt(d)'
<1>0. /\ Log /\ Stream /\ Types /\ ServingAt(d) /\ s2c[d] \in Seq(ToClient) /\ base \in Nat
  BY DEF Delivery, Log, Types, Parted, PartedAt
<1>1. CASE ReadBacklog(d) \/ Resync(d)
  <2>1. PICK greeting \in Seq(ToClient) : ServeFrom(d, greeting)
    <3>1. <<Welcome(top)>> \in Seq(ToClient) /\ <<>> \in Seq(ToClient)
      BY <1>0, FrameTypes DEF Types
    <3> QED BY <1>1, <3>1 DEF ReadBacklog, Resync
  <2>2. base' = base /\ cursor' = cursor /\ pc[d] \in {"hello", "live"}
    BY <1>1 DEF ReadBacklog, Resync, relayLog, client
  <2>3. CASE ServesSnapshot(d, greeting)
    <3>1. serving'[d].next = 1 /\ lastSent[d] < base
      BY <2>3 DEF ServesSnapshot
    <3>2. cursor[d] <= lastSent[d] /\ cursor[d] \in Nat /\ lastSent[d] \in Nat
      BY <1>0, <2>2, ReachIs
    <3>3. 1..(serving'[d].next - 1) = {}
      BY <3>1
    <3>4. InParts(snapBlobs', 1..(serving'[d].next - 1)) = {}
      BY <3>3 DEF InParts
    <3>5. ~(cursor'[d] >= base')
      BY <1>0, <2>2, <3>1, <3>2
    <3> QED BY <3>4, <3>5 DEF ServingAt
  <2>4. CASE ServesTail(d, greeting)
    BY <2>4 DEF ServesTail, ServingAt
  <2> QED BY <1>0, <2>1, <2>3, <2>4, ServeFromIs
<1>2. CASE SendPart(d)
  <2>1. /\ pc[d] = "snapshot" /\ NextPart(d) \in ToClient
        /\ SendsMore(d) \/ SendsLast(d) \/ Closes(d)
        /\ has' = has /\ cursor' = cursor /\ base' = base /\ snapBlobs' = snapBlobs
    BY <1>0, <1>2, SendPartIs DEF client, relayLog
  <2>2. CASE SendsMore(d)
    <3>1. /\ serving'[d].seq = serving[d].seq /\ serving'[d].next = serving[d].next + 1
          /\ base = serving[d].seq /\ s2c'[d] = s2c[d] \o <<NextPart(d)>> /\ serving[d].next \in 1..Parts
      BY <1>0, <2>1, <2>2 DEF SendsMore, Log, Served, ServedAt
    <3> DEFINE more == <<NextPart(d)>>
    <3>2. more \in Seq(ToClient) /\ 1 \in DOMAIN more /\ Len(more) = 1 /\ more[1] = NextPart(d)
      BY <2>1
    <3> HIDE DEF more
    <3>3. s2c'[d] \in Seq(ToClient) /\ Longer(s2c[d], more, s2c'[d])
      BY <1>0, <3>1, <3>2, Appended DEF more
    <3>4. AfterAll(has[d], s2c[d]) \subseteq AfterAll(has[d], s2c'[d])
      BY <1>0, <3>2, <3>3, AfterSent
    <3>5. Brings(more[1]) \subseteq After(has[d], s2c'[d], Len(s2c'[d]))
      <4>1. Len(s2c'[d]) \in Nat /\ Len(s2c'[d]) >= Len(s2c[d]) + 1
        BY <1>0, <3>2, <3>3 DEF Longer
      <4> QED BY <1>0, <3>2, <3>3, <4>1, AfterSent
    <3>6. Brings(more[1]) = InParts(snapBlobs, {serving[d].next})
      BY <3>2 DEF NextPart, Part, Brings, InParts
    <3>7. InParts(snapBlobs, 1..serving[d].next) \subseteq AfterAll(has[d], s2c'[d])
      <4>1. InParts(snapBlobs, 1..(serving[d].next - 1)) \subseteq AfterAll(has[d], s2c[d])
        BY <1>0, <2>1, <3>1 DEF ServingAt
      <4>2. 1..serving[d].next = (1..(serving[d].next - 1)) \union {serving[d].next}
        BY <3>1
      <4> QED BY <3>4, <3>5, <3>6, <4>1, <4>2 DEF InParts, AfterAll
    <3>8. (serving[d].next + 1) - 1 = serving[d].next
      BY <3>1
    <3>9. cursor[d] >= base => snapBlobs \subseteq has[d]
      BY <1>0, <2>1, <3>1 DEF ServingAt
    <3> QED BY <2>1, <3>1, <3>7, <3>8, <3>9 DEF ServingAt
  <2> QED BY <2>1, <2>2 DEF SendsLast, Closes, ServingAt
<1>3. CASE Forward(d) \/ RelayAck(d)
  BY <1>0, <1>3 DEF Forward, RelayAck, ServingAt, Types
<1> QED
  BY <1>1, <1>2, <1>3

\* Whatever a device reads it has, or has from before.
LEMMA ReadKeeps ==
    ASSUME Delivery, Parted, Next, NEW d \in Device,
           OnWelcome(d) \/ OnAck(d) \/ OnUpdate(d) \/ OnPart(d)
    PROVE  /\ has[d] \subseteq has'[d] /\ Brings(s2c[d][1]) \subseteq has'[d]
           /\ s2c[d] \in Seq(ToClient) /\ s2c[d] # <<>> /\ s2c'[d] = Tail(s2c[d])
           /\ AfterAll(has[d], s2c[d]) \subseteq AfterAll(has'[d], s2c'[d])
<1>0. /\ s2c[d] \in Seq(ToClient) /\ s2c[d] # <<>> /\ s2c'[d] = Tail(s2c[d]) /\ Types
      /\ StreamAt(d) /\ PartsAt(d)
  BY ReadIs DEF Delivery, Log, Types, Stream, Parted, PartedAt
<1>1. 1 \in DOMAIN s2c[d] /\ s2c[d][1] = Head(s2c[d])
  BY <1>0
<1>2. has[d] \subseteq has'[d] /\ Brings(s2c[d][1]) \subseteq has'[d]
  <2>1. CASE OnWelcome(d) \/ OnAck(d)
    BY <1>1, <2>1 DEF OnWelcome, OnAck, Frame, Brings
  <2>2. CASE OnUpdate(d)
    <3>1. UpdateIs(d)
      BY <1>0, <2>2, OnUpdateIs
    <3>2. s2c[d][1].seq > cursor[d]
      <4>1. cursor[d] < s2c[d][1].seq
        BY <1>0, <1>1, <3>1 DEF UpdateIs, StreamAt
      <4>2. cursor[d] \in Nat /\ s2c[d][1].seq \in Nat
        BY <1>0, <1>1, <3>1, PosTypes DEF Types, UpdateIs, Moves, Pos
      <4> QED BY <4>1, <4>2
    <3> QED BY <1>1, <3>1, <3>2 DEF UpdateIs, Brings
  <2>3. CASE OnPart(d)
    <3>1. PartIs(d)
      BY <1>0, <2>3, OnPartIs
    <3>2. s2c[d][1].upto <= cursor[d] => s2c[d][1].blobs \subseteq has[d]
      BY <1>0, <1>1, <3>1 DEF PartsAt, PartIs
    <3> QED BY <1>1, <3>1, <3>2 DEF PartIs, Brings
  <2> QED BY <2>1, <2>2, <2>3
<1> QED
  BY <1>0, <1>2, AfterRead

\* What reading the part f makes of a client's cursor, tracker and edits.
LEMMA PartRead ==
    ASSUME Delivery, Parted, Next, NEW d \in Device, OnPart(d)
    PROVE  /\ TrackersAt(d)'
           /\ cursor[d] <= cursor'[d]
           /\ cursor'[d] = cursor[d] \/
                 /\ cursor'[d] = s2c[d][1].upto
                 /\ cursor'[d] = base => snapBlobs \subseteq has'[d]
           /\ \A k \in DOMAIN s2c[d] :
                 /\ s2c[d][k].kind = "part"
                 /\ s2c[d][k].upto <= cursor'[d] \/ s2c[d][k].idx \in Seen(tracker'[d], s2c[d][k].upto)
                 => s2c[d][k].blobs \subseteq has'[d]
<1> DEFINE f == s2c[d][1]
           seen == Seen(tracker[d], f.upto) \union {f.idx}
<1>0. /\ Types /\ Stream /\ StreamAt(d) /\ PartsAt(d) /\ TrackersAt(d) /\ snapBlobs \subseteq Blobs
      /\ s2c[d] \in Seq(ToClient) /\ s2c[d] # <<>> /\ PartIs(d) /\ UNCHANGED <<base, snapBlobs>>
      /\ cursor[d] \in Nat /\ base \in Nat
  BY ReadIs, OnPartIs DEF Delivery, Log, Types, Stream, Parted, PartedAt, relayLog
<1>1. 1 \in DOMAIN s2c[d] /\ f = Head(s2c[d]) /\ f.kind = "part" /\ f \in ToClient
  BY <1>0, PosTypes DEF PartIs
<1>2. f.upto \in Nat /\ f.idx \in 1..Parts /\ f.blobs \subseteq Blobs /\ f.upto <= base
  BY <1>0, <1>1, FrameTypes DEF PartsAt
<1>3. \/ /\ f.upto > cursor[d] /\ 1..Parts \subseteq seen
         /\ has'[d] = has[d] \union f.blobs /\ cursor'[d] = f.upto /\ tracker'[d] = {}
      \/ /\ f.upto > cursor[d] /\ ~(1..Parts \subseteq seen)
         /\ has'[d] = has[d] \union f.blobs /\ cursor'[d] = cursor[d]
         /\ tracker'[d] = {[upto |-> f.upto, seen |-> seen]}
      \/ /\ f.upto <= cursor[d]
         /\ has'[d] = has[d] /\ cursor'[d] = cursor[d] /\ tracker'[d] = tracker[d]
  BY <1>0, <1>1 DEF PartIs
\* The parts of this snapshot that are in: those seen before and this one.
<1>4. f.upto = base => InParts(snapBlobs, seen) \subseteq has[d] \union f.blobs
  <2> SUFFICES ASSUME f.upto = base, NEW b \in InParts(snapBlobs, seen)
               PROVE  b \in has[d] \union f.blobs
    OBVIOUS
  <2>1. b \in snapBlobs /\ PartOf(b) \in seen
    BY DEF InParts
  <2>2. CASE PartOf(b) = f.idx
    <3>1. f.blobs = InParts(snapBlobs, {f.idx})
      BY <1>0, <1>1 DEF PartsAt
    <3> QED BY <2>1, <2>2, <3>1 DEF InParts
  <2>3. CASE PartOf(b) \in Seen(tracker[d], f.upto)
    <3>1. PICK t \in tracker[d] : t.upto = f.upto /\ PartOf(b) \in t.seen
      BY <2>3 DEF Seen
    <3>2. InParts(snapBlobs, t.seen) \subseteq has[d]
      BY <1>0, <3>1 DEF TrackersAt
    <3> QED BY <2>1, <3>1, <3>2 DEF InParts
  <2> QED BY <2>1, <2>2, <2>3
<1>5. ASSUME NEW k \in DOMAIN s2c[d], s2c[d][k].kind = "part", f.upto > cursor[d],
             has'[d] = has[d] \union f.blobs, s2c[d][k].upto = f.upto, s2c[d][k].idx \in seen
      PROVE  s2c[d][k].blobs \subseteq has'[d]
  <2>1. CASE s2c[d][k].idx = f.idx
    <3>1. s2c[d][k].blobs = f.blobs
      BY <1>0, <1>1, <1>5, <2>1 DEF PartsAt
    <3> QED BY <1>5, <3>1
  <2>2. CASE s2c[d][k].idx \in Seen(tracker[d], f.upto)
    <3>1. s2c[d][k].blobs \subseteq has[d]
      BY <1>0, <1>5, <2>2 DEF PartsAt
    <3> QED BY <1>5, <3>1
  <2> QED BY <1>5, <2>1, <2>2
<1>6. ASSUME NEW k \in DOMAIN s2c[d], s2c[d][k].kind = "part"
      PROVE  /\ s2c[d][k] \in ToClient /\ s2c[d][k].upto \in Nat /\ s2c[d][k].idx \in 1..Parts
             /\ f.upto <= s2c[d][k].upto
  <2>1. s2c[d][k] \in ToClient /\ s2c[d][k].upto \in Nat /\ s2c[d][k].idx \in 1..Parts
    BY <1>0, <1>6, PosTypes, FrameTypes
  <2>2. CASE k = 1
    BY <1>2, <2>1, <2>2
  <2>3. CASE k # 1
    <3>1. 1 \in 1..(k - 1)
      BY <1>0, <2>3
    <3>2. Before(f, s2c[d][k])
      BY <1>0, <3>1 DEF StreamAt, Ordered
    <3> QED BY <1>1, <1>6, <2>1, <3>2 DEF Before, Moves, Pos
  <2> QED BY <2>1, <2>2, <2>3
<1>7. \A k \in DOMAIN s2c[d] : s2c[d][k].kind = "part" /\ s2c[d][k].upto <= cursor[d]
          => s2c[d][k].blobs \subseteq has[d]
  BY <1>0 DEF PartsAt
<1> HIDE DEF f, seen
<1>8. CASE /\ f.upto > cursor[d] /\ 1..Parts \subseteq seen
           /\ has'[d] = has[d] \union f.blobs /\ cursor'[d] = f.upto /\ tracker'[d] = {}
  <2>1. f.upto = base => snapBlobs \subseteq has'[d]
    <3>1. InParts(snapBlobs, 1..Parts) \subseteq InParts(snapBlobs, seen)
      BY <1>8 DEF InParts
    <3> QED BY <1>0, <1>4, <1>8, <3>1, AllInParts
  <2>2. TrackersAt(d)'
    BY <1>8 DEF TrackersAt
  <2>3. ASSUME NEW k \in DOMAIN s2c[d], s2c[d][k].kind = "part",
               s2c[d][k].upto <= f.upto \/ s2c[d][k].idx \in Seen({}, s2c[d][k].upto)
        PROVE  s2c[d][k].blobs \subseteq has'[d]
    <3>1. s2c[d][k].upto = f.upto /\ s2c[d][k].idx \in seen
      BY <1>2, <1>6, <1>8, <2>3 DEF Seen
    <3> QED BY <1>5, <1>8, <2>3, <3>1
  <2>4. cursor[d] <= f.upto
    BY <1>0, <1>2, <1>8
  <2> QED BY <1>8, <2>1, <2>2, <2>3, <2>4 DEF f
<1>9. CASE /\ f.upto > cursor[d] /\ ~(1..Parts \subseteq seen)
           /\ has'[d] = has[d] \union f.blobs /\ cursor'[d] = cursor[d]
           /\ tracker'[d] = {[upto |-> f.upto, seen |-> seen]}
  <2>1. \A t \in tracker'[d] : t.upto = f.upto /\ t.seen = seen
    BY <1>9
  <2>2. TrackersAt(d)'
    BY <1>0, <1>2, <1>4, <1>9, <2>1 DEF TrackersAt
  <2>3. ASSUME NEW k \in DOMAIN s2c[d], s2c[d][k].kind = "part",
               s2c[d][k].upto <= cursor[d] \/ s2c[d][k].idx \in Seen(tracker'[d], s2c[d][k].upto)
        PROVE  s2c[d][k].blobs \subseteq has'[d]
    <3>1. CASE s2c[d][k].upto <= cursor[d]
      BY <1>7, <1>9, <2>3, <3>1
    <3>2. CASE s2c[d][k].idx \in Seen(tracker'[d], s2c[d][k].upto)
      <4>1. s2c[d][k].upto = f.upto /\ s2c[d][k].idx \in seen
        BY <2>1, <3>2 DEF Seen
      <4> QED BY <1>5, <1>9, <2>3, <4>1
    <3> QED BY <2>3, <3>1, <3>2
  <2>4. cursor[d] <= cursor'[d]
    BY <1>0, <1>9
  <2> QED BY <1>9, <2>2, <2>3, <2>4
<1>10. CASE /\ f.upto <= cursor[d]
            /\ has'[d] = has[d] /\ cursor'[d] = cursor[d] /\ tracker'[d] = tracker[d]
  <2>1. TrackersAt(d)'
    BY <1>0, <1>10 DEF TrackersAt
  <2>2. cursor[d] <= cursor'[d]
    BY <1>0, <1>10
  <2> QED BY <1>0, <1>10, <2>1, <2>2 DEF PartsAt
<1> QED
  BY <1>3, <1>8, <1>9, <1>10

LEMMA PartedRead ==
    ASSUME Delivery, Parted, Next, NEW d \in Device,
           OnWelcome(d) \/ OnAck(d) \/ OnUpdate(d) \/ OnPart(d)
    PROVE  PartedAt(d)'
<1>0. /\ Types /\ StreamAt(d) /\ TrackersAt(d) /\ PartsAt(d) /\ ServingAt(d)
      /\ s2c[d] \in Seq(ToClient) /\ s2c[d] # <<>> /\ s2c'[d] = Tail(s2c[d])
      /\ UNCHANGED <<base, snapBlobs, pc, serving, lastSent>>
      /\ cursor[d] \in Nat /\ base \in Nat /\ lastSent[d] \in Nat
      /\ has[d] \subseteq has'[d] /\ AfterAll(has[d], s2c[d]) \subseteq AfterAll(has'[d], s2c'[d])
  BY ReadIs, ReadKeeps DEF Delivery, Log, Types, Stream, Parted, PartedAt, relayLog, task
<1>1. \A i \in DOMAIN s2c'[d] : i \in Nat /\ i + 1 \in DOMAIN s2c[d] /\ s2c'[d][i] = s2c[d][i + 1]
  BY <1>0
\* What is the same for every frame: later parts are ignored only where they are had.
<1>2. /\ TrackersAt(d)'
      /\ \A k \in DOMAIN s2c'[d] :
            /\ s2c'[d][k].kind = "part"
            /\ s2c'[d][k].upto <= cursor'[d] \/ s2c'[d][k].idx \in Seen(tracker'[d], s2c'[d][k].upto)
            => s2c'[d][k].blobs \subseteq has'[d]
      /\ pc[d] = "snapshot" /\ base = serving[d].seq /\ cursor'[d] >= base => snapBlobs \subseteq has'[d]
  <2>1. CASE OnWelcome(d) \/ OnAck(d)
    <3>1. UNCHANGED <<cursor, has, tracker>>
      BY <2>1 DEF OnWelcome, OnAck
    <3>2. TrackersAt(d)'
      BY <1>0, <3>1 DEF TrackersAt
    <3>3. \A k \in DOMAIN s2c'[d] :
              /\ s2c'[d][k].kind = "part"
              /\ s2c'[d][k].upto <= cursor'[d] \/ s2c'[d][k].idx \in Seen(tracker'[d], s2c'[d][k].upto)
              => s2c'[d][k].blobs \subseteq has'[d]
      <4>1. PartsAt(d)
        BY <1>0
      <4> QED BY ONLY <1>1, <3>1, <4>1 DEF PartsAt
    <3>4. pc[d] = "snapshot" /\ base = serving[d].seq /\ cursor'[d] >= base => snapBlobs \subseteq has'[d]
      BY <1>0, <3>1 DEF ServingAt
    <3> QED BY <3>2, <3>3, <3>4
  <2>2. CASE OnUpdate(d)
    <3> DEFINE f == s2c[d][1]
    <3>1. /\ UpdateIs(d) /\ f = Head(s2c[d]) /\ 1 \in DOMAIN s2c[d] /\ f.kind = "update"
          /\ tracker'[d] = tracker[d] /\ (cursor'[d] = f.seq \/ cursor'[d] = cursor[d])
      BY <1>0, <2>2, OnUpdateIs DEF UpdateIs
    <3>2. f.seq <= lastSent[d] /\ f.seq \in Nat
      BY <1>0, <3>1, PosTypes DEF StreamAt, Moves, Pos
    <3>3. \A k \in DOMAIN s2c'[d] : s2c'[d][k].kind = "part" =>
              f.seq < s2c'[d][k].upto /\ s2c'[d][k].upto \in Nat
      <4> SUFFICES ASSUME NEW k \in DOMAIN s2c'[d], s2c'[d][k].kind = "part"
                   PROVE  f.seq < s2c'[d][k].upto /\ s2c'[d][k].upto \in Nat
        OBVIOUS
      <4>1. 1 \in 1..((k + 1) - 1) /\ k + 1 \in DOMAIN s2c[d] /\ s2c'[d][k] = s2c[d][k + 1]
        BY <1>0, <1>1
      <4>2. Before(f, s2c[d][k + 1])
        BY <1>0, <4>1 DEF StreamAt, Ordered
      <4>3. s2c'[d][k].upto \in Nat
        BY <1>0, <4>1, PosTypes DEF Moves, Pos
      <4> QED BY <3>1, <4>1, <4>2, <4>3 DEF Before, Moves, Pos
    <3>4. TrackersAt(d)'
      BY <1>0, <3>1 DEF TrackersAt
    <3> HIDE DEF f
    <3>5. ASSUME NEW k \in DOMAIN s2c'[d], s2c'[d][k].kind = "part",
                 s2c'[d][k].upto <= cursor'[d] \/ s2c'[d][k].idx \in Seen(tracker'[d], s2c'[d][k].upto)
          PROVE  s2c'[d][k].blobs \subseteq has'[d]
      <4>1. s2c'[d][k].upto <= cursor[d] \/ s2c'[d][k].idx \in Seen(tracker[d], s2c'[d][k].upto)
        BY <3>1, <3>2, <3>3, <3>5
      <4> QED BY <1>0, <1>1, <3>5, <4>1 DEF PartsAt
    <3>6. pc[d] = "snapshot" /\ base = serving[d].seq /\ cursor'[d] >= base => snapBlobs \subseteq has'[d]
      <4>1. pc[d] = "snapshot" => lastSent[d] < serving[d].seq
        BY DEF Delivery, Log, Served, ServedAt
      <4> QED BY <1>0, <3>1, <3>2, <4>1 DEF ServingAt
    <3> QED BY <3>4, <3>5, <3>6
  <2>3. CASE OnPart(d)
    <3>1. TrackersAt(d)' /\ s2c[d][1].upto \in Nat /\ s2c[d][1].upto <= base
      <4>1. s2c[d][1].kind = "part" /\ 1 \in DOMAIN s2c[d]
        BY <1>0, <2>3 DEF OnPart, Frame
      <4> QED BY <1>0, <2>3, <4>1, PartRead, PosTypes DEF PartsAt, Moves, Pos
    <3>2. \A k \in DOMAIN s2c'[d] :
              /\ s2c'[d][k].kind = "part"
              /\ s2c'[d][k].upto <= cursor'[d] \/ s2c'[d][k].idx \in Seen(tracker'[d], s2c'[d][k].upto)
              => s2c'[d][k].blobs \subseteq has'[d]
      BY <1>1, <2>3, PartRead
    <3>3. pc[d] = "snapshot" /\ base = serving[d].seq /\ cursor'[d] >= base => snapBlobs \subseteq has'[d]
      <4>1. CASE cursor'[d] = cursor[d]
        BY <1>0, <4>1 DEF ServingAt
      <4>2. CASE cursor'[d] = s2c[d][1].upto /\ (cursor'[d] = base => snapBlobs \subseteq has'[d])
        BY <1>0, <3>1, <4>2
      <4> QED BY <2>3, <4>1, <4>2, PartRead
    <3> QED BY <3>1, <3>2, <3>3
  <2> QED BY <2>1, <2>2, <2>3
<1>3. PartsAt(d)'
  <2>1. ASSUME NEW k \in DOMAIN s2c'[d], s2c'[d][k].kind = "part"
        PROVE  /\ s2c'[d][k].upto <= base
               /\ s2c'[d][k].upto = base => s2c'[d][k].blobs = InParts(snapBlobs, {s2c'[d][k].idx})
    BY <1>0, <1>1, <2>1 DEF PartsAt
  <2>2. ASSUME NEW k \in DOMAIN s2c'[d], NEW j \in DOMAIN s2c'[d],
               s2c'[d][k].kind = "part", s2c'[d][j].kind = "part",
               s2c'[d][j].upto = s2c'[d][k].upto, s2c'[d][j].idx = s2c'[d][k].idx
        PROVE  s2c'[d][j].blobs = s2c'[d][k].blobs
    BY <1>0, <1>1, <2>2 DEF PartsAt
  <2> QED BY <1>0, <1>2, <2>1, <2>2 DEF PartsAt
<1>4. ServingAt(d)'
  BY <1>0, <1>2 DEF ServingAt
<1> QED
  BY <1>2, <1>3, <1>4 DEF PartedAt

LEMMA PartedKept ==
    ASSUME Delivery, Parted, Next
    PROVE  Parted'
<1>0. Types /\ Log /\ Stream /\ \A c \in Device : PartedAt(c)
  BY DEF Delivery, Log, Parted
<1>1. ASSUME NEW c \in Device, Local(c)' = Local(c) PROVE PartedAt(c)'
  <2>1. /\ has'[c] = has[c] /\ cursor'[c] = cursor[c] /\ tracker'[c] = tracker[c] /\ s2c'[c] = s2c[c]
        /\ pc'[c] = pc[c] /\ serving'[c] = serving[c]
    BY <1>1 DEF Local
  <2> QED BY <2>1, PartedStays
<1>2. CASE LateFanout
  BY <1>1, <1>2 DEF LateFanout, Local, Parted, client
<1>3. ASSUME NEW d \in Device, StepOf(d) PROVE PartedAt(d)'
  <2>1. CASE Connect(d) \/ RelayPush(d) \/ RelayFanout(d) \/ RelayCompact(d) \/ Push(d)
    <3>1. /\ UNCHANGED <<cursor, tracker, s2c>> /\ has[d] \subseteq has'[d]
          /\ serving' = serving /\ (pc'[d] = "snapshot" => pc[d] = "snapshot")
      BY <1>0, <2>1 DEF Connect, RelayPush, RelayFanout, RelayCompact, Push, Types, task, client
    <3> QED BY <3>1, PartedStays
  <2>2. CASE ReadBacklog(d) \/ Resync(d) \/ SendPart(d) \/ Forward(d) \/ RelayAck(d)
    <3>1. PICK more : Sending(d, more)
      BY <1>0, <2>2, TaskSends
    <3>2. UNCHANGED <<client, base, snapBlobs>>
      BY <1>0, <2>2, TaskSends, SendPartIs DEF ReadBacklog, Resync, Forward, RelayAck, relayLog
    <3> QED BY <2>2, <3>1, <3>2, PartedSent, ServingSent DEF PartedAt
  <2>3. CASE OnWelcome(d) \/ OnAck(d) \/ OnUpdate(d) \/ OnPart(d)
    BY <2>3, PartedRead
  <2>4. CASE SeeClose(d) \/ \E crash \in BOOLEAN : Drop(d, crash)
    <3>1. /\ s2c'[d] = <<>> /\ pc'[d] = "none" /\ UNCHANGED <<base, snapBlobs, has>>
          /\ tracker'[d] \subseteq tracker[d]
      BY <1>0, <2>4 DEF SeeClose, Drop, EndSession, EndTask, Types, relayLog
    <3>2. TrackersAt(d)' /\ PartsAt(d)' /\ ServingAt(d)'
      BY <1>0, <3>1 DEF PartedAt, TrackersAt, PartsAt, ServingAt
    <3> QED BY <3>2 DEF PartedAt
  <2> QED BY <1>3, <2>1, <2>2, <2>3, <2>4 DEF StepOf, RelayStep, ClientStep
<1>4. ASSUME NEW d \in Device, StepOf(d) PROVE Parted'
  BY <1>0, <1>1, <1>3, <1>4, Locality DEF Parted
<1> QED
  BY <1>2, <1>4 DEF Next, StepOf

-----------------------------------------------------------------------------
(* What is still coming                                                     *)

\* An edit stops waiting for its device's next push only by being logged anew.
LEMMA RetriesStep ==
    ASSUME Delivery, Next, NEW b \in Retries
    PROVE  \/ b \in Retries'
           \/ \E f \in hist' : f.blob = b /\ f.seq = top + 1 /\ f \in owed'[b.dev]
<1>0. /\ Types /\ Types' /\ Log /\ Stream /\ Flight /\ Blobs' = Blobs /\ b \in Blobs
  BY CastKept, DeliveryKept DEF Delivery, Log, Retries
<1>1. ASSUME NEW c \in Device, b.dev = c, pc'[c] \notin {"ack", "fanout"}, unacked'[c], made'[c] = made[c],
             Acks(s2c'[c]) = {}
      PROVE  b \in Retries'
  BY <1>0, <1>1 DEF Retries
<1> DEFINE c == b.dev
<1>2. c \in Device /\ unacked[c] /\ b.n = made[c] /\ pc[c] \notin {"ack", "fanout"} /\ Acks(s2c[c]) = {}
  <2>1. c \in Pushers /\ Pushers \subseteq Device
    BY <1>0, FanoutAssumption DEF Blobs, Pushers, Types
  <2> QED BY <2>1 DEF Retries
<1> HIDE DEF c
<1>3. b.dev = c
  BY DEF c
<1>4. CASE Local(c)' = Local(c)
  BY <1>1, <1>2, <1>3, <1>4 DEF Local
<1>5. CASE LateFanout
  BY <1>4, <1>5 DEF LateFanout, Local, client
<1>6. ASSUME StepOf(c)
      PROVE  \/ b \in Retries'
             \/ \E f \in hist' : f.blob = b /\ f.seq = top + 1 /\ f \in owed'[b.dev]
  <2>1. CASE Connect(c) \/ RelayCompact(c)
    <3>1. UNCHANGED <<unacked, made, s2c>> /\ pc'[c] \in {pc[c], "hello"}
      BY <1>0, <1>2, <2>1 DEF Connect, RelayCompact, Types, task, client
    <3> QED BY <1>1, <1>2, <1>3, <3>1
  <2>2. CASE ReadBacklog(c) \/ Resync(c) \/ SendPart(c) \/ Forward(c)
    <3>1. Acks(s2c'[c]) = Acks(s2c[c])
      BY <1>0, <1>2, <2>2, StreamNoAcks
    <3>2. UNCHANGED <<unacked, made>> /\ pc'[c] \notin {"ack", "fanout"}
      <4>1. CASE ReadBacklog(c) \/ Resync(c)
        BY <1>0, <1>2, <4>1 DEF ReadBacklog, Resync, ServeFrom, Types, client
      <4>2. CASE SendPart(c)
        BY <1>0, <1>2, <4>2, SendPartIs DEF SendsMore, SendsLast, Closes, client
      <4>3. CASE Forward(c)
        BY <1>2, <4>3 DEF Forward, client
      <4> QED BY <2>2, <4>1, <4>2, <4>3
    <3> QED BY <1>1, <1>2, <1>3, <3>1, <3>2
  <2>3. CASE RelayPush(c)
    <3> DEFINE h == Head(c2s[c]).blob
               e == [seq |-> top + 1, blob |-> h]
    <3>1. 1 \in Pushes(c2s[c]) /\ c2s[c][1] = Head(c2s[c])
      BY <1>0, <1>2, <2>3 DEF RelayPush, Types, Pushes
    <3>2. h = [dev |-> c, n |-> made[c]]
      BY <1>0, <1>2, <3>1 DEF Flight, FlightAt, Current
    <3>3. h = b
      BY <1>0, <1>2, <1>3, <3>2 DEF Blobs
    <3>4. e \in hist' /\ owed'[c] = {e} /\ e.blob = h /\ e.seq = top + 1
      BY <1>0, <1>2, <2>3 DEF RelayPush, Types
    <3> HIDE DEF e, h
    <3> QED BY <1>3, <3>3, <3>4
  <2>4. CASE RelayAck(c) \/ RelayFanout(c)
    BY <1>2, <2>4 DEF RelayAck, RelayFanout
  <2>5. CASE OnWelcome(c) \/ OnUpdate(c) \/ OnPart(c)
    <3>1. s2c[c] \in Seq(ToClient) /\ s2c[c] # <<>> /\ s2c'[c] = Tail(s2c[c]) /\ UNCHANGED <<task, made>>
      BY <1>0, <1>2, <2>5, ReadIs DEF Types
    <3>2. UNCHANGED unacked
      BY <2>5 DEF OnWelcome, OnUpdate, OnPart
    <3>3. Acks(s2c'[c]) = {}
      BY <1>2, <3>1, AcksRead
    <3> QED BY <1>1, <1>2, <1>3, <3>1, <3>2, <3>3 DEF task
  <2>6. CASE OnAck(c)
    <3>1. s2c[c] \in Seq(ToClient) /\ s2c[c] # <<>> /\ Head(s2c[c]).kind = "ack"
      BY <1>0, <1>2, <2>6 DEF OnAck, Frame, Types
    <3>2. 1 \in Acks(s2c[c])
      BY <3>1 DEF Acks
    <3> QED BY <1>2, <3>2
  <2>7. CASE SeeClose(c) \/ \E crash \in BOOLEAN : Drop(c, crash)
    <3>1. s2c'[c] = <<>> /\ pc'[c] = "none" /\ UNCHANGED <<unacked, made>>
      BY <1>0, <1>2, <2>7 DEF SeeClose, Drop, EndSession, EndTask, Types
    <3>2. Acks(s2c'[c]) = {}
      BY <3>1 DEF Acks
    <3> QED BY <1>1, <1>2, <1>3, <3>1, <3>2
  <2>8. CASE Push(c)
    <3>1. made'[c] = made[c] /\ unacked'[c] /\ UNCHANGED <<task, s2c>>
      BY <1>0, <1>2, <2>8, PushIs DEF Log
    <3> QED BY <1>1, <1>2, <1>3, <3>1 DEF task
  <2> QED BY <1>6, <2>1, <2>2, <2>3, <2>4, <2>5, <2>6, <2>7, <2>8 DEF StepOf, RelayStep, ClientStep
<1>7. ASSUME NEW d \in Device, d # c, StepOf(d) PROVE Local(c)' = Local(c)
  BY <1>0, <1>2, <1>7, Locality
<1> QED
  BY <1>2, <1>4, <1>5, <1>6, <1>7 DEF Next, StepOf

\* What is covered stays covered, for whoever has no less.
LEMMA CoversKept ==
    ASSUME Delivery, Next, NEW n, n \in Nat, n <= top, NEW H, NEW H2, H \subseteq H2,
           Covers(H, n, hist, Retries)
    PROVE  Covers(H2, n, hist', Retries')
<1>0. /\ hist \subseteq hist' /\ top \in Nat /\ \A e \in hist : e.seq \in Nat /\ e.seq <= top
  BY LogGrows DEF Delivery, Log, Types, LogShape, Entry
<1>1. \A e \in hist' : e \in hist \/ e.seq = top + 1
  BY LogGrows DEF Delivery, Log, RelayPush, RelayCompact
<1> SUFFICES ASSUME NEW e \in hist', e.seq <= n
             PROVE  e.blob \in H2 \union Retries' \/ \E f \in hist' : f.blob = e.blob /\ f.seq > n
  BY DEF Covers
<1>2. e \in hist
  BY <1>0, <1>1
<1>3. CASE e.blob \in Retries
  <2>1. CASE \E f \in hist' : f.blob = e.blob /\ f.seq = top + 1
    BY <1>0, <2>1
  <2> QED BY <1>3, <2>1, RetriesStep
<1>4. CASE e.blob \in H \/ \E f \in hist : f.blob = e.blob /\ f.seq > n
  BY <1>0, <1>4
<1> QED
  BY <1>2, <1>3, <1>4 DEF Covers

\* Whoever has what comes next is covered further on.
LEMMA CoversOn ==
    ASSUME Delivery, NEW H, NEW n, NEW H2, NEW m, n \in Nat, m \in Nat, H \subseteq H2,
           Covers(H, n, hist, Retries),
           \A f \in hist : f.seq > n /\ f.seq <= m => f.blob \in H2
    PROVE  Covers(H2, m, hist, Retries)
<1>0. \A e \in hist : e.seq \in Nat
  BY DEF Delivery, Log, Types, Entry
<1> SUFFICES ASSUME NEW e \in hist, e.seq <= m
             PROVE  e.blob \in H2 \union Retries \/ \E f \in hist : f.blob = e.blob /\ f.seq > m
  BY DEF Covers
<1>1. CASE e.seq > n
  BY <1>1
<1>2. CASE e.seq <= n
  <2>1. CASE e.blob \in H \union Retries
    BY <2>1
  <2>2. CASE \E f \in hist : f.blob = e.blob /\ f.seq > n
    <3>1. PICK f \in hist : f.blob = e.blob /\ f.seq > n
      BY <2>2
    <3> QED BY <1>0, <3>1
  <2> QED BY <1>2, <2>1, <2>2 DEF Covers
<1> QED
  BY <1>0, <1>1, <1>2

\* What a client with H and the trackers T has of the snapshot B up to u, and
\* what the parts on the wire have.
SeenIn(T, u, B, H) == \A t \in T : t.upto = u => InParts(B, t.seen) \subseteq H
PartsOf(q, u, B) ==
    \A j \in DOMAIN q : q[j].kind = "part" /\ q[j].upto = u =>
        q[j].blobs = InParts(B, {q[j].idx})

\* A client that has read every part has what the snapshot holds.
LEMMA PartsBring ==
    ASSUME NEW H, NEW T, NEW q \in Seq(ToClient), NEW B \in SUBSET Blobs, NEW u, NEW k \in DOMAIN q,
           SeenIn(T, u, B, H), PartsOf(q, u, B),
           1..Parts \subseteq Seen(T, u) \union Brought(q, k, u)
    PROVE  B \subseteq After(H, q, k)
<1> SUFFICES ASSUME NEW b \in B PROVE b \in After(H, q, k)
  OBVIOUS
<1>1. PartOf(b) \in 1..Parts
  BY AllInParts DEF InParts
<1>2. CASE PartOf(b) \in Seen(T, u)
  <2>1. PICK t \in T : t.upto = u /\ PartOf(b) \in t.seen
    BY <1>2 DEF Seen
  <2> QED BY <2>1 DEF InParts, After, SeenIn
<1>3. CASE PartOf(b) \in Brought(q, k, u)
  <2>1. PICK j \in 1..k : q[j].kind = "part" /\ q[j].upto = u /\ PartOf(b) = q[j].idx
    BY <1>3 DEF Brought
  <2>2. j \in DOMAIN q
    BY <2>1
  <2>3. b \in Brings(q[j])
    BY <2>1, <2>2 DEF Brings, InParts, PartsOf
  <2> QED BY <2>1, <2>3 DEF After
<1> QED
  BY <1>1, <1>2, <1>3

\* The stretch of the log behind n, and what a task sends with it.
Behind(es, n) == \A i \in DOMAIN es : es[i] \in hist /\ es[i].seq = n + i
Stretch(q, g, es, new) == new = q \o (g \o Updates(es))

Splits(q, g, es, new) ==
    \A k \in DOMAIN new : k \notin DOMAIN q =>
        \/ \E m \in DOMAIN g : k = Len(q) + m /\ new[k] = g[m]
        \/ \E i \in DOMAIN es : k = Len(q) + Len(g) + i /\ new[k] = Update(es[i])

LEMMA StretchIs ==
    ASSUME NEW q \in Seq(ToClient), NEW g \in Seq(ToClient), NEW es \in Seq(Entry), NEW new,
           Stretch(q, g, es, new)
    PROVE  /\ new \in Seq(ToClient) /\ Longer(q, g \o Updates(es), new)
           /\ Len(new) = Len(q) + Len(g) + Len(es)
           /\ Splits(q, g, es, new)
<1> DEFINE more == g \o Updates(es)
<1>1. /\ more \in Seq(ToClient) /\ Len(more) = Len(g) + Len(es)
      /\ \A i \in DOMAIN g : more[i] = g[i]
      /\ \A i \in DOMAIN es : Len(g) + i \in DOMAIN more /\ more[Len(g) + i] = Update(es[i])
      /\ \A i \in DOMAIN more : i \in DOMAIN g \/ \E j \in DOMAIN es : i = Len(g) + j
  BY WithUpdates
<1> HIDE DEF more
<1>2. new \in Seq(ToClient) /\ Longer(q, more, new)
  BY <1>1, Appended DEF more, Stretch
<1>3. /\ Len(q) \in Nat /\ Len(g) \in Nat /\ Len(es) \in Nat /\ DOMAIN es = 1..Len(es)
      /\ Len(new) = Len(q) + Len(g) + Len(es)
  BY <1>1, <1>2 DEF Longer
<1>5. ASSUME NEW k \in DOMAIN new, k \notin DOMAIN q
      PROVE  \/ \E m \in DOMAIN g : k = Len(q) + m /\ new[k] = g[m]
             \/ \E i \in DOMAIN es : k = Len(q) + Len(g) + i /\ new[k] = Update(es[i])
  <2>1. PICK m \in DOMAIN more : k = Len(q) + m /\ new[k] = more[m]
    BY <1>2, <1>5 DEF Longer
  <2>2. CASE m \in DOMAIN g
    BY <1>1, <2>1, <2>2
  <2>3. CASE \E i \in DOMAIN es : m = Len(g) + i
    <3>1. PICK i \in DOMAIN es : m = Len(g) + i
      BY <2>3
    <3>2. k = Len(q) + Len(g) + i /\ new[k] = Update(es[i])
      BY <1>1, <1>3, <2>1, <3>1
    <3> QED BY <3>2
  <2> QED BY <1>1, <2>1, <2>2, <2>3
<1> QED
  BY <1>2, <1>3, <1>5 DEF more, Splits

\* It covers up to its end.
LEMMA TailCovers ==
    ASSUME Delivery, NEW q \in Seq(ToClient), NEW g \in Seq(ToClient), NEW es \in Seq(Entry),
           NEW H, NEW H0, NEW n \in Nat, NEW new, Stretch(q, g, es, new), Behind(es, n),
           H0 \subseteq After(H, new, Len(q) + Len(g)), Covers(H0, n, hist, Retries)
    PROVE  \A i \in 0..Len(es) :
               Covers(After(H, new, Len(q) + Len(g) + i), n + i, hist, Retries)
<1> DEFINE more == g \o Updates(es)
<1>1. /\ more \in Seq(ToClient) /\ Len(more) = Len(g) + Len(es)
      /\ \A i \in DOMAIN g : more[i] = g[i]
      /\ \A i \in DOMAIN es : Len(g) + i \in DOMAIN more /\ more[Len(g) + i] = Update(es[i])
      /\ \A i \in DOMAIN more : i \in DOMAIN g \/ \E j \in DOMAIN es : i = Len(g) + j
  BY WithUpdates
<1> HIDE DEF more
<1>2. new \in Seq(ToClient) /\ Longer(q, more, new)
  BY StretchIs DEF more
<1>3. /\ Len(q) \in Nat /\ Len(g) \in Nat /\ Len(es) \in Nat /\ DOMAIN es = 1..Len(es)
      /\ Len(new) = Len(q) + Len(g) + Len(es)
  BY <1>1, <1>2 DEF Longer
<1>4. ASSUME NEW i \in 0..Len(es)
      PROVE  Covers(After(H, new, Len(q) + Len(g) + i), n + i, hist, Retries)
  <2> DEFINE K == Len(q) + Len(g) + i
  <2>1. K \in Nat /\ K >= Len(q) + Len(g) /\ n + i \in Nat
    BY <1>3
  <2>2. H0 \subseteq After(H, new, K)
    <3>1. 1..(Len(q) + Len(g)) \subseteq 1..K
      BY <1>3, <2>1
    <3>2. After(H, new, Len(q) + Len(g)) \subseteq After(H, new, K)
      BY <3>1 DEF After
    <3> QED BY <3>2
  <2>3. ASSUME NEW f \in hist, f.seq > n, f.seq <= n + i
        PROVE  f.blob \in After(H, new, K)
    <3>1. f.seq \in Nat
      BY DEF Delivery, Log, Types, Entry
    <3>2. PICK j \in 1..i : f.seq = n + j
      <4>1. f.seq - n \in 1..i /\ f.seq = n + (f.seq - n)
        BY <2>3, <3>1
      <4> QED BY <4>1
    <3>3. j \in DOMAIN es /\ es[j] = f
      <4>1. j \in DOMAIN es
        BY <1>3, <3>2
      <4>2. es[j] \in hist /\ es[j].seq = f.seq
        BY <3>2, <4>1 DEF Behind
      <4> QED BY <2>3, <4>1, <4>2 DEF Delivery, Log, LogShape
    <3> DEFINE x == Len(g) + j
    <3>4. x \in DOMAIN more /\ f.blob \in Brings(more[x])
      <4>1. Update(f).kind = "update" /\ Update(f).blob = f.blob
        BY DEF Update
      <4>2. x \in DOMAIN more /\ more[x] = Update(f)
        BY <1>1, <3>3
      <4> QED BY <4>1, <4>2 DEF Brings
    <3>5. K >= Len(q) + x
      BY <1>3
    <3> HIDE DEF x, K
    <3>6. Brings(more[x]) \subseteq After(H, new, K)
      <4>1. \A y \in DOMAIN more, k \in Nat :
                k >= Len(q) + y => Brings(more[y]) \subseteq After(H, new, k)
        BY <1>1, <1>2, AfterSent
      <4> QED BY <2>1, <3>4, <3>5, <4>1
    <3> QED BY <3>4, <3>6
  <2> HIDE DEF K
  <2>4. Covers(After(H, new, K), n + i, hist, Retries)
    BY <2>1, <2>2, <2>3, CoversOn
  <2> QED BY <2>4 DEF K
<1> QED
  BY <1>4

-----------------------------------------------------------------------------
(* The client's side                                                        *)

\* What a device is at, offers and is sent lies within the log.
LEMMA WithinLog ==
    ASSUME Delivery, NEW d \in Device
    PROVE  /\ cursor[d] \in Nat /\ cursor[d] <= top
           /\ lastSent[d] \in Nat /\ lastSent[d] <= top
           /\ \A i \in DOMAIN c2s[d] : c2s[d][i].kind = "compact" =>
                 c2s[d][i].upto \in Nat /\ c2s[d][i].upto <= top
           /\ \A k \in DOMAIN s2c[d] : Moves(s2c[d][k]) =>
                 Pos(s2c[d][k]) \in Nat /\ Pos(s2c[d][k]) <= top
<1>0. Types /\ CountsAt(d) /\ WiresAt(d)
  BY DEF Delivery, Log, Bounds, BoundsAt
<1>1. \A i \in DOMAIN c2s[d] : c2s[d][i].kind = "compact" => c2s[d][i].upto \in Nat
  <2>1. c2s[d] \in Seq(ToRelay)
    BY <1>0 DEF Types
  <2> QED BY <2>1, FrameTypes
<1> QED
  BY <1>0, <1>1, PosTypes DEF CountsAt, WiresAt, Types

LEMMA CompletesMoves ==
    ASSUME NEW T, NEW q, NEW k, Completes(T, q, k)
    PROVE  Moves(q[k])
BY DEF Completes, Moves

LEMMA BaseCovered ==
    ASSUME Delivery, Next, ~overtaken, Covered
    PROVE  Covers(snapBlobs', base', hist', Retries')
<1>0. Types /\ base \in Nat /\ base <= top
  BY DEF Delivery, Log, Types
<1>1. CASE base' = base /\ snapBlobs' = snapBlobs
  BY <1>0, <1>1, CoversKept DEF Covered
<1>2. ASSUME NEW d \in Device, RelayCompact(d), ~(base' = base /\ snapBlobs' = snapBlobs)
      PROVE  Covers(snapBlobs', base', hist', Retries')
  <2>1. c2s[d] \in Seq(ToRelay) /\ c2s[d] # <<>> /\ 1 \in DOMAIN c2s[d] /\ Head(c2s[d]) = c2s[d][1]
    BY <1>0, <1>2 DEF RelayCompact, Types
  <2>2. base' = c2s[d][1].upto /\ snapBlobs' = c2s[d][1].blobs /\ c2s[d][1].kind = "compact"
    BY <1>2, <2>1 DEF RelayCompact
  <2>3. Covers(c2s[d][1].blobs, c2s[d][1].upto, hist, Retries)
    BY <2>1, <2>2 DEF Covered, ClientAt, OffersAt
  <2>4. c2s[d][1].upto \in Nat /\ c2s[d][1].upto <= top
    BY <2>1, <2>2, WithinLog
  <2> QED BY <2>2, <2>3, <2>4, CoversKept
<1>3. CASE UNCHANGED <<base, top, entries, snapBlobs, hist>>
  BY <1>1, <1>3
<1>4. CASE \E d \in Device : RelayPush(d)
  BY <1>1, <1>4 DEF RelayPush
<1> QED
  BY <1>1, <1>2, <1>3, <1>4, LogGrows DEF Delivery, Log

\* Nothing changes for a device that reads, is sent and offers nothing.
LEMMA ClientStays ==
    ASSUME Delivery, Next, NEW d \in Device, ClientAt(d), has[d] \subseteq has'[d],
           cursor'[d] = cursor[d], tracker'[d] = tracker[d], s2c'[d] = s2c[d],
           lastSent'[d] = lastSent[d],
           \A i \in DOMAIN c2s'[d] : c2s'[d][i].kind = "compact" =>
               \E j \in DOMAIN c2s[d] : c2s'[d][i] = c2s[d][j],
           pc'[d] \in {"hello", "live", "ack", "fanout"} => pc[d] \in {"hello", "live", "ack", "fanout"}
    PROVE  ClientAt(d)'
<1>0. /\ cursor[d] \in Nat /\ cursor[d] <= top /\ lastSent[d] \in Nat /\ lastSent[d] <= top
      /\ \A i \in DOMAIN c2s[d] : c2s[d][i].kind = "compact" =>
            c2s[d][i].upto \in Nat /\ c2s[d][i].upto <= top
      /\ \A k \in DOMAIN s2c[d] : Moves(s2c[d][k]) =>
            Pos(s2c[d][k]) \in Nat /\ Pos(s2c[d][k]) <= top
      /\ CursorAt(d) /\ OffersAt(d) /\ FramesAt(d) /\ SentAt(d)
  BY WithinLog DEF ClientAt
<1>1. CursorAt(d)'
  BY <1>0, CoversKept DEF CursorAt
<1>2. OffersAt(d)'
  <2>1. \A j \in DOMAIN c2s[d] : c2s[d][j].kind = "compact" =>
            Covers(c2s[d][j].blobs, c2s[d][j].upto, hist', Retries')
    BY <1>0, CoversKept DEF OffersAt
  <2> QED BY <2>1 DEF OffersAt
<1>3. FramesAt(d)'
  <2> SUFFICES ASSUME NEW k \in DOMAIN s2c[d], Completes(tracker[d], s2c[d], k)
               PROVE  Covers(After(has'[d], s2c[d], k), Pos(s2c[d][k]), hist', Retries')
    BY DEF FramesAt
  <2>1. Pos(s2c[d][k]) \in Nat /\ Pos(s2c[d][k]) <= top
    BY <1>0, CompletesMoves
  <2>2. After(has[d], s2c[d], k) \subseteq After(has'[d], s2c[d], k)
    BY HasGrows
  <2>3. Covers(After(has[d], s2c[d], k), Pos(s2c[d][k]), hist, Retries)
    BY <1>0 DEF FramesAt
  <2> QED BY <2>1, <2>2, <2>3, CoversKept
<1>4. SentAt(d)'
  <2>1. AfterAll(has[d], s2c[d]) \subseteq AfterAll(has'[d], s2c[d])
    BY HasGrows
  <2> QED BY <1>0, <2>1, CoversKept DEF SentAt
<1> QED
  BY <1>1, <1>2, <1>3, <1>4 DEF ClientAt

\* Frames that are sent are covered where they move the cursor to.
LEMMA ClientSent ==
    ASSUME Delivery, Next, NEW d \in Device, ClientAt(d), NEW more, Sending(d, more),
           UNCHANGED <<client, top, c2s>>,
           \A k \in DOMAIN s2c'[d] :
               k \notin DOMAIN s2c[d] /\ Completes(tracker[d], s2c'[d], k) =>
                   Covers(After(has[d], s2c'[d], k), Pos(s2c'[d][k]), hist, Retries),
           pc'[d] \in {"hello", "live", "ack", "fanout"} =>
               Covers(AfterAll(has[d], s2c'[d]), lastSent'[d], hist, Retries)
    PROVE  ClientAt(d)'
<1>0. /\ CursorAt(d) /\ OffersAt(d) /\ FramesAt(d) /\ Types
      /\ cursor'[d] = cursor[d] /\ tracker'[d] = tracker[d] /\ has'[d] = has[d] /\ c2s'[d] = c2s[d]
      /\ s2c[d] \in Seq(ToClient) /\ Delivery'
  BY DeliveryKept DEF ClientAt, Delivery, Log, Types, client
<1>1. /\ cursor[d] \in Nat /\ cursor[d] <= top
      /\ \A i \in DOMAIN c2s[d] : c2s[d][i].kind = "compact" =>
            c2s[d][i].upto \in Nat /\ c2s[d][i].upto <= top
  BY WithinLog
<1>2. /\ \A k \in DOMAIN s2c'[d] : Moves(s2c'[d][k]) =>
            Pos(s2c'[d][k]) \in Nat /\ Pos(s2c'[d][k]) <= top
      /\ lastSent'[d] \in Nat /\ lastSent'[d] <= top
  <2>1. Types' /\ WiresAt(d)' /\ CountsAt(d)' /\ top' = top
    BY <1>0 DEF Delivery, Log, Bounds, BoundsAt
  <2>2. \A k \in DOMAIN s2c'[d] : s2c'[d][k] \in ToClient'
    BY <2>1 DEF Types
  <2>3. ToClient' = ToClient
    BY CastKept
  <2>4. \A k \in DOMAIN s2c'[d] : Moves(s2c'[d][k]) => Pos(s2c'[d][k]) \in Nat
    BY <2>2, <2>3, FrameTypes DEF Moves, Pos
  <2> QED BY <2>1, <2>4 DEF WiresAt, CountsAt, Types
<1>3. CursorAt(d)'
  BY <1>0, <1>1, CoversKept DEF CursorAt
<1>4. OffersAt(d)'
  BY <1>0, <1>1, CoversKept DEF OffersAt
<1>5. more \in Seq(ToClient) /\ s2c'[d] \in Seq(ToClient) /\ Longer(s2c[d], more, s2c'[d])
  BY <1>0, Appended DEF Sending
<1>6. \A k \in DOMAIN s2c[d] : After(has[d], s2c'[d], k) = After(has[d], s2c[d], k)
  BY <1>0, <1>5, AfterSent
<1>7. FramesAt(d)'
  <2> SUFFICES ASSUME NEW k \in DOMAIN s2c'[d], Completes(tracker[d], s2c'[d], k)
               PROVE  Covers(After(has[d], s2c'[d], k), Pos(s2c'[d][k]), hist', Retries')
    BY <1>0 DEF FramesAt
  <2>1. Pos(s2c'[d][k]) \in Nat /\ Pos(s2c'[d][k]) <= top
    BY <1>2, CompletesMoves
  <2>2. Covers(After(has[d], s2c'[d], k), Pos(s2c'[d][k]), hist, Retries)
    <3>1. CASE k \in DOMAIN s2c[d]
      <4>1. \A j \in 1..k : j \in DOMAIN s2c[d] /\ s2c'[d][j] = s2c[d][j]
        BY <1>0, <1>5, <3>1 DEF Longer
      <4>2. s2c'[d][k] = s2c[d][k]
        BY <1>5, <3>1 DEF Longer
      <4>3. \A u : Brought(s2c'[d], k, u) = Brought(s2c[d], k, u)
        BY <4>1 DEF Brought
      <4>4. Completes(tracker[d], s2c[d], k)
        BY <4>2, <4>3 DEF Completes
      <4> QED BY <1>0, <1>6, <3>1, <4>2, <4>4 DEF FramesAt
    <3>2. CASE k \notin DOMAIN s2c[d]
      BY <3>2
    <3> QED BY <3>1, <3>2
  <2> QED BY <2>1, <2>2, CoversKept
<1>8. SentAt(d)'
  <2>1. pc'[d] \in {"hello", "live", "ack", "fanout"} =>
            Covers(AfterAll(has[d], s2c'[d]), lastSent'[d], hist', Retries')
    BY <1>2, CoversKept
  <2> QED BY <1>0, <2>1 DEF SentAt
<1> QED
  BY <1>3, <1>4, <1>7, <1>8 DEF ClientAt

\* What reading a frame makes of the tracker completes no set that was not
\* going to be completed.
LEMMA CompletesRead ==
    ASSUME Delivery, Parted, Next, NEW d \in Device,
           OnWelcome(d) \/ OnAck(d) \/ OnUpdate(d) \/ OnPart(d),
           NEW k \in DOMAIN s2c'[d], Completes(tracker'[d], s2c'[d], k)
    PROVE  k \in Nat /\ k + 1 \in DOMAIN s2c[d] /\ s2c'[d][k] = s2c[d][k + 1]
           /\ Completes(tracker[d], s2c[d], k + 1)
<1> DEFINE f == s2c[d][1]
<1>0. /\ Types /\ s2c[d] \in Seq(ToClient) /\ s2c[d] # <<>> /\ s2c'[d] = Tail(s2c[d]) /\ f = Head(s2c[d])
  <2>1. Log /\ Types /\ s2c[d] \in Seq(ToClient)
    BY DEF Delivery, Log, Types
  <2>2. s2c[d] # <<>> /\ s2c'[d] = Tail(s2c[d])
    BY <2>1, ReadIs
  <2> QED BY <2>1, <2>2
<1>1. /\ \A i \in DOMAIN s2c'[d] : i \in Nat /\ i + 1 \in DOMAIN s2c[d] /\ s2c'[d][i] = s2c[d][i + 1]
      /\ DOMAIN s2c'[d] = 1..Len(s2c'[d]) /\ Len(s2c'[d]) \in Nat
  BY <1>0
<1>2. CASE s2c'[d][k].kind = "update"
  BY <1>1, <1>2 DEF Completes
<1>3. CASE s2c'[d][k].kind = "part"
  <2> DEFINE u == s2c'[d][k].upto
  <2>1. 1..Parts \subseteq Seen(tracker'[d], u) \union Brought(s2c'[d], k, u)
    BY <1>3 DEF Completes
  <2>2. Brought(s2c'[d], k, u) \subseteq Brought(s2c[d], k + 1, u)
    <3>1. k \in Nat /\ k <= Len(s2c'[d])
      BY <1>1
    <3>2. \A j \in 1..k : j \in DOMAIN s2c'[d] /\ j + 1 \in 1..(k + 1)
      BY <1>1, <3>1
    <3>3. \A j \in 1..k : j + 1 \in 1..(k + 1) /\ s2c'[d][j] = s2c[d][j + 1]
      BY <1>1, <3>2
    <3> QED BY <3>3 DEF Brought
  <2>3. Seen(tracker'[d], u) \subseteq Seen(tracker[d], u) \union Brought(s2c[d], k + 1, u)
    <3>1. CASE OnWelcome(d) \/ OnAck(d) \/ OnUpdate(d)
      BY <3>1 DEF OnWelcome, OnAck, OnUpdate
    <3>2. CASE OnPart(d)
      <4>1. /\ f.kind = "part"
            /\ \/ tracker'[d] = {} \/ tracker'[d] = tracker[d]
               \/ tracker'[d] = {[upto |-> f.upto, seen |-> Seen(tracker[d], f.upto) \union {f.idx}]}
        BY <1>0, <3>2, OnPartIs DEF PartIs
      <4>2. CASE tracker'[d] = {}
        BY <4>2 DEF Seen
      <4>3. CASE tracker'[d] = tracker[d]
        BY <4>3
      <4>4. CASE tracker'[d] = {[upto |-> f.upto, seen |-> Seen(tracker[d], f.upto) \union {f.idx}]}
        <5>1. CASE f.upto = u
          <6>1. 1 \in 1..(k + 1)
            BY <1>1
          <6>2. f.idx \in Brought(s2c[d], k + 1, u)
            BY <4>1, <5>1, <6>1 DEF Brought
          <6>3. Seen(tracker'[d], u) \subseteq Seen(tracker[d], f.upto) \union {f.idx}
            BY <4>4 DEF Seen
          <6> QED BY <5>1, <6>2, <6>3
        <5>2. CASE f.upto # u
          BY <4>4, <5>2 DEF Seen
        <5> QED BY <5>1, <5>2
      <4> QED BY <4>1, <4>2, <4>3, <4>4
    <3> QED BY <3>1, <3>2
  <2>4. 1..Parts \subseteq Seen(tracker[d], u) \union Brought(s2c[d], k + 1, u)
    BY <2>1, <2>2, <2>3
  <2> QED BY <1>1, <1>3, <2>4 DEF Completes
<1> QED
  BY <1>2, <1>3 DEF Completes

\* A client that reads a frame is covered where the frame takes it.
LEMMA ClientRead ==
    ASSUME Delivery, Parted, Next, NEW d \in Device, ClientAt(d),
           OnWelcome(d) \/ OnAck(d) \/ OnUpdate(d) \/ OnPart(d)
    PROVE  ClientAt(d)'
<1>0. /\ Types /\ Log /\ CursorAt(d) /\ OffersAt(d) /\ FramesAt(d) /\ SentAt(d)
      /\ s2c[d] \in Seq(ToClient) /\ s2c[d] # <<>> /\ s2c'[d] = Tail(s2c[d])
      /\ has[d] \subseteq has'[d] /\ Brings(s2c[d][1]) \subseteq has'[d]
      /\ AfterAll(has[d], s2c[d]) \subseteq AfterAll(has'[d], s2c'[d])
      /\ UNCHANGED <<pc, lastSent>> /\ c2s[d] \in Seq(ToRelay)
  BY ReadIs, ReadKeeps DEF ClientAt, Delivery, Log, Types, task
<1>1. /\ cursor[d] \in Nat /\ cursor[d] <= top /\ lastSent[d] \in Nat /\ lastSent[d] <= top
      /\ \A i \in DOMAIN c2s[d] : c2s[d][i].kind = "compact" =>
            c2s[d][i].upto \in Nat /\ c2s[d][i].upto <= top
      /\ \A k \in DOMAIN s2c[d] : Moves(s2c[d][k]) =>
            Pos(s2c[d][k]) \in Nat /\ Pos(s2c[d][k]) <= top
  BY WithinLog
<1>2. FramesAt(d)'
  <2> SUFFICES ASSUME NEW k \in DOMAIN s2c'[d], Completes(tracker'[d], s2c'[d], k)
               PROVE  Covers(After(has'[d], s2c'[d], k), Pos(s2c'[d][k]), hist', Retries')
    BY DEF FramesAt
  <2>1. k \in Nat /\ k + 1 \in DOMAIN s2c[d] /\ s2c'[d][k] = s2c[d][k + 1]
        /\ Completes(tracker[d], s2c[d], k + 1)
    BY CompletesRead
  <2>2. After(has[d], s2c[d], k + 1) \subseteq After(has'[d], s2c'[d], k)
    BY <1>0, AfterRead
  <2> DEFINE m == k + 1
  <2>3. m \in DOMAIN s2c[d] /\ Completes(tracker[d], s2c[d], m)
    BY <2>1
  <2>4. s2c'[d][k] = s2c[d][m] /\ After(has[d], s2c[d], m) \subseteq After(has'[d], s2c'[d], k)
    BY <2>1, <2>2
  <2> HIDE DEF m
  <2>5. Covers(After(has[d], s2c[d], m), Pos(s2c[d][m]), hist, Retries)
    BY <1>0, <2>3 DEF FramesAt
  <2>6. Pos(s2c[d][m]) \in Nat /\ Pos(s2c[d][m]) <= top
    BY <1>1, <2>3, CompletesMoves
  <2> QED BY <2>4, <2>5, <2>6, CoversKept
<1>3. \/ cursor'[d] = cursor[d]
      \/ Completes(tracker[d], s2c[d], 1) /\ cursor'[d] = Pos(s2c[d][1])
  <2> DEFINE f == s2c[d][1]
  <2>0. f = Head(s2c[d])
    BY <1>0
  <2>1. CASE OnWelcome(d) \/ OnAck(d)
    BY <2>1 DEF OnWelcome, OnAck
  <2>2. CASE OnUpdate(d)
    BY <1>0, <2>0, <2>2, OnUpdateIs DEF UpdateIs, Completes, Pos
  <2>3. CASE OnPart(d)
    <3>1. f.kind = "part" /\ (cursor'[d] = cursor[d] \/
              (cursor'[d] = f.upto /\ 1..Parts \subseteq Seen(tracker[d], f.upto) \union {f.idx}))
      BY <1>0, <2>0, <2>3, OnPartIs DEF PartIs
    <3>2. f.idx \in Brought(s2c[d], 1, f.upto)
      BY <3>1 DEF Brought
    <3> QED BY <3>1, <3>2 DEF Completes, Pos
  <2> QED BY <2>1, <2>2, <2>3
<1>4. CursorAt(d)' /\ cursor'[d] \in Nat /\ cursor'[d] <= top
  <2>1. CASE cursor'[d] = cursor[d]
    BY <1>0, <1>1, <2>1, CoversKept DEF CursorAt
  <2>2. CASE Completes(tracker[d], s2c[d], 1) /\ cursor'[d] = Pos(s2c[d][1])
    <3>1. 1 \in DOMAIN s2c[d]
      BY <1>0
    <3>2. cursor'[d] \in Nat /\ cursor'[d] <= top
      BY <1>1, <2>2, <3>1, CompletesMoves
    <3>3. Covers(After(has[d], s2c[d], 1), cursor'[d], hist, Retries)
      BY <1>0, <2>2, <3>1 DEF FramesAt
    <3>4. After(has[d], s2c[d], 1) \subseteq has'[d]
      <4>1. \A j \in 1..1 : j = 1
        OBVIOUS
      <4> QED BY <1>0, <4>1 DEF After
    <3>5. Covers(has'[d], cursor'[d], hist', Retries')
      BY <3>2, <3>3, <3>4, CoversKept
    <3> QED BY <3>2, <3>5 DEF CursorAt
  <2> QED BY <1>3, <2>1, <2>2
<1>5. OffersAt(d)'
  <2>1. \A i \in DOMAIN c2s[d] : c2s[d][i].kind = "compact" =>
            Covers(c2s[d][i].blobs, c2s[d][i].upto, hist', Retries')
    BY <1>0, <1>1, CoversKept DEF OffersAt
  <2> DEFINE offer == CompactFrame(cursor'[d], has'[d])
  <2>2. CASE c2s'[d] = c2s[d]
    BY <2>1, <2>2 DEF OffersAt
  <2>3. CASE c2s'[d] = Append(c2s[d], offer)
    <3>1. offer.upto = cursor'[d] /\ offer.blobs = has'[d]
      BY DEF CompactFrame
    <3>2. Covers(offer.blobs, offer.upto, hist', Retries')
      BY <1>4, <3>1 DEF CursorAt
    <3> HIDE DEF offer
    <3>3. \A i \in DOMAIN c2s'[d] : c2s'[d][i] = offer \/ (i \in DOMAIN c2s[d] /\ c2s'[d][i] = c2s[d][i])
      BY <1>0, <2>3
    <3> QED BY <2>1, <3>2, <3>3 DEF OffersAt
  <2> QED BY <1>0, <2>2, <2>3, ReadIs
<1>6. SentAt(d)'
  BY <1>0, <1>1, CoversKept DEF SentAt
<1> QED
  BY <1>2, <1>4, <1>5, <1>6 DEF ClientAt

\* ... those behind a greeting or a last part too.
LEMMA ClientTailSent ==
    ASSUME Delivery, Next, NEW d \in Device, ClientAt(d), NEW more, Sending(d, more),
           UNCHANGED <<client, top, c2s>>,
           NEW g \in Seq(ToClient), NEW es \in Seq(Entry), NEW H0, NEW n \in Nat,
           Stretch(s2c[d], g, es, s2c'[d]), Behind(es, n),
           H0 \subseteq After(has[d], s2c'[d], Len(s2c[d]) + Len(g)),
           Covers(H0, n, hist, Retries),
           lastSent'[d] = n + Len(es),
           \A k \in DOMAIN s2c'[d] :
               k \notin DOMAIN s2c[d] /\ k <= Len(s2c[d]) + Len(g) /\ Completes(tracker[d], s2c'[d], k) =>
                   Covers(After(has[d], s2c'[d], k), Pos(s2c'[d][k]), hist, Retries)
    PROVE  ClientAt(d)'
<1> DEFINE q == s2c[d]
           new == s2c'[d]
           H == has[d]
<1>0. /\ q \in Seq(ToClient) /\ Len(q) \in Nat /\ Len(g) \in Nat /\ DOMAIN es = 1..Len(es)
      /\ Len(es) \in Nat /\ Stretch(q, g, es, new)
      /\ H0 \subseteq After(H, new, Len(q) + Len(g))
  BY DEF Delivery, Log, Types
<1> HIDE DEF q, new, H
<1>1. /\ \A i \in 0..Len(es) :
            Covers(After(H, new, Len(q) + Len(g) + i), n + i, hist, Retries)
      /\ Len(new) = Len(q) + Len(g) + Len(es)
      /\ Splits(q, g, es, new)
  <2>1. ASSUME NEW i \in 0..Len(es)
        PROVE  Covers(After(H, new, Len(q) + Len(g) + i), n + i, hist, Retries)
    BY <1>0, TailCovers
  <2>2. Len(new) = Len(q) + Len(g) + Len(es)
    BY <1>0, StretchIs
  <2>3. Splits(q, g, es, new)
    BY <1>0, StretchIs
  <2> QED BY <2>1, <2>2, <2>3
<1>2. ASSUME NEW k \in DOMAIN new, k \notin DOMAIN q, Completes(tracker[d], new, k)
      PROVE  Covers(After(H, new, k), Pos(new[k]), hist, Retries)
  <2>1. CASE \E m \in DOMAIN g : k = Len(q) + m
    <3>1. k <= Len(q) + Len(g)
      BY <1>0, <2>1
    <3> QED BY <1>2, <3>1 DEF q, new, H
  <2>2. CASE \E i \in DOMAIN es : k = Len(q) + Len(g) + i /\ new[k] = Update(es[i])
    <3>1. PICK i \in DOMAIN es : k = Len(q) + Len(g) + i /\ new[k] = Update(es[i])
      BY <2>2
    <3>2. Pos(new[k]) = n + i
      BY <3>1 DEF Update, Pos, Behind
    <3>3. i \in 0..Len(es)
      BY <1>0
    <3> QED BY <1>1, <3>1, <3>2, <3>3
  <2> QED BY <1>1, <1>2, <2>1, <2>2 DEF Splits
<1>3. Covers(AfterAll(H, new), lastSent'[d], hist, Retries)
  <2>1. Len(es) \in 0..Len(es)
    BY <1>0
  <2> QED BY <1>1, <2>1 DEF AfterAll
<1> QED
  BY <1>2, <1>3, ClientSent DEF q, new, H

LEMMA ClientServed ==
    ASSUME Delivery, Next, NEW d \in Device, ClientAt(d), ReadBacklog(d) \/ Resync(d)
    PROVE  ClientAt(d)'
<1>0. /\ Log /\ Stream /\ Types /\ s2c[d] \in Seq(ToClient) /\ SentAt(d) /\ top \in Nat
      /\ lastSent[d] \in Nat /\ lastSent[d] <= top
      /\ pc[d] \in {"hello", "live"} /\ UNCHANGED <<client, top, c2s>>
  BY WithinLog DEF Delivery, Log, Types, ClientAt, ReadBacklog, Resync, relayLog
<1>1. PICK greeting \in Seq(ToClient) :
          ServeFrom(d, greeting) /\ \A i \in DOMAIN greeting : greeting[i].kind = "welcome"
  <2>1. CASE ReadBacklog(d)
    <3>1. <<Welcome(top)>> \in Seq(ToClient) /\ \A i \in DOMAIN <<Welcome(top)>> : <<Welcome(top)>>[i].kind = "welcome"
      BY <1>0, FrameTypes DEF Welcome
    <3> QED BY <2>1, <3>1 DEF ReadBacklog
  <2>2. CASE Resync(d)
    <3>1. <<>> \in Seq(ToClient) /\ \A i \in DOMAIN <<>> : <<>>[i].kind = "welcome"
      OBVIOUS
    <3> QED BY <2>2, <3>1 DEF Resync
  <2> QED BY <2>1, <2>2
<1>2. PICK more : Sending(d, more)
  BY <1>0, TaskSends
<1>3. CASE ServesSnapshot(d, greeting)
  <2>1. Longer(s2c[d], greeting, s2c'[d])
    BY <1>0, <1>3, Appended DEF ServesSnapshot
  <2>2. \A k \in DOMAIN s2c'[d] : k \notin DOMAIN s2c[d] => s2c'[d][k].kind = "welcome"
    BY <1>1, <2>1 DEF Longer
  <2>3. \A k \in DOMAIN s2c'[d] : k \notin DOMAIN s2c[d] => ~Completes(tracker[d], s2c'[d], k)
    BY <2>2 DEF Completes
  <2>4. pc'[d] = "snapshot"
    BY <1>3 DEF ServesSnapshot
  <2> QED BY <1>0, <1>2, <2>3, <2>4, ClientSent
<1>4. CASE ServesTail(d, greeting)
  <2>1. PICK tail \in Seq(Entry) :
           /\ s2c'[d] = s2c[d] \o (greeting \o Updates(tail))
           /\ Len(tail) = top - lastSent[d]
           /\ \A i \in 1..(top - lastSent[d]) :
                  tail[i] \in hist /\ tail[i].seq = lastSent[d] + i
    BY <1>4 DEF ServesTail
  <2>2. DOMAIN tail = 1..(top - lastSent[d]) /\ lastSent'[d] = lastSent[d] + Len(tail)
    BY <1>0, <1>4, <2>1 DEF ServesTail
  <2> DEFINE g == greeting \o Updates(tail)
             H0 == AfterAll(has[d], s2c[d])
             K == Len(s2c[d]) + Len(greeting)
  <2>3. /\ g \in Seq(ToClient) /\ \A i \in DOMAIN greeting : g[i] = greeting[i]
        /\ DOMAIN greeting = 1..Len(greeting) /\ Len(greeting) \in Nat /\ Len(s2c[d]) \in Nat
    BY <1>0, WithUpdates
  <2>4. s2c'[d] \in Seq(ToClient) /\ Longer(s2c[d], g, s2c'[d])
    <3> HIDE DEF g
    <3>1. s2c'[d] = s2c[d] \o g
      BY <2>1 DEF g
    <3> QED BY <1>0, <2>3, <3>1, Appended
  <2> HIDE DEF g
  <2>5. H0 \subseteq After(has[d], s2c'[d], K)
    <3>1. K \in Nat /\ K >= Len(s2c[d])
      BY <2>3
    <3> HIDE DEF K
    <3>2. \A k \in Nat : k >= Len(s2c[d]) => AfterAll(has[d], s2c[d]) \subseteq After(has[d], s2c'[d], k)
      BY <1>0, <2>3, <2>4, AfterSent
    <3> QED BY <3>1, <3>2
  <2>6. Covers(H0, lastSent[d], hist, Retries)
    BY <1>0 DEF SentAt
  <2>7. \A k \in DOMAIN s2c'[d] : k \notin DOMAIN s2c[d] /\ k <= K => ~Completes(tracker[d], s2c'[d], k)
    <3> SUFFICES ASSUME NEW k \in DOMAIN s2c'[d], k \notin DOMAIN s2c[d], k <= K
                 PROVE  s2c'[d][k].kind = "welcome"
      BY DEF Completes
    <3>1. PICK j \in DOMAIN g : k = Len(s2c[d]) + j
      BY <2>4 DEF Longer
    <3>2. j \in DOMAIN greeting
      <4>1. j \in Nat /\ j >= 1
        BY <2>3
      <4> QED BY <2>3, <3>1, <4>1
    <3>3. s2c'[d][k] = greeting[j]
      BY <2>3, <2>4, <3>1, <3>2 DEF Longer
    <3> QED BY <1>1, <3>2, <3>3
  <2> HIDE DEF H0
  <2>8. Behind(tail, lastSent[d]) /\ Stretch(s2c[d], greeting, tail, s2c'[d])
    BY <2>1, <2>2 DEF Behind, Stretch
  <2>9. \A k \in DOMAIN s2c'[d] :
               k \notin DOMAIN s2c[d] /\ k <= Len(s2c[d]) + Len(greeting) /\ Completes(tracker[d], s2c'[d], k) =>
                   Covers(After(has[d], s2c'[d], k), Pos(s2c'[d][k]), hist, Retries)
    BY <2>7
  <2> HIDE DEF K
  <2>10. H0 \subseteq After(has[d], s2c'[d], Len(s2c[d]) + Len(greeting))
    BY <2>5 DEF K
  <2> QED BY <1>0, <1>2, <2>1, <2>2, <2>6, <2>8, <2>9, <2>10, ClientTailSent
<1> QED
  BY <1>0, <1>1, <1>3, <1>4, ServeFromIs

LEMMA CoversMore ==
    ASSUME NEW H, NEW H2, H \subseteq H2, NEW n, NEW h, NEW R, Covers(H, n, h, R)
    PROVE  Covers(H2, n, h, R)
BY DEF Covers

\* A part that completes its set brings the rest of the snapshot.
LEMMA ClientParts ==
    ASSUME Delivery, Parted, Next, NEW d \in Device, ClientAt(d), SendPart(d),
           Covers(snapBlobs, base, hist, Retries)
    PROVE  ClientAt(d)'
<1> DEFINE p == NextPart(d)
           q == s2c[d]
           new == s2c'[d]
           H == has[d]
           g == <<p>>
<1>0. /\ Log /\ Stream /\ Types /\ q \in Seq(ToClient) /\ snapBlobs \in SUBSET Blobs /\ base \in Nat
      /\ pc[d] = "snapshot" /\ p \in ToClient /\ (SendsMore(d) \/ SendsLast(d) \/ Closes(d))
      /\ UNCHANGED <<client, top, c2s, base, snapBlobs>> /\ serving[d] \in Snapshots
  BY SendPartIs DEF Delivery, Log, Types, relayLog
<1>1. PICK more : Sending(d, more)
  BY <1>0, TaskSends
<1>2. /\ p.upto = serving[d].seq /\ p.idx = serving[d].next /\ p.kind = "part" /\ Pos(p) = serving[d].seq
      /\ p.blobs = InParts(snapBlobs, {serving[d].next})
  BY DEF NextPart, Part, InParts, Pos
<1>3. g \in Seq(ToClient) /\ Len(g) = 1 /\ 1 \in DOMAIN g /\ DOMAIN g = {1} /\ g[1] = p
  BY <1>0
<1> HIDE DEF g, p
<1>4. CASE SendsMore(d)
  <2>1. base = serving[d].seq /\ new = q \o g /\ pc'[d] = "snapshot"
    BY <1>0, <1>4 DEF SendsMore, g, p
  <2>2. new \in Seq(ToClient) /\ Longer(q, g, new)
    BY <1>0, <1>3, <2>1, Appended
  <2> HIDE DEF q, new
  <2>3. ASSUME NEW k \in DOMAIN new, k \notin DOMAIN q, Completes(tracker[d], new, k)
        PROVE  Covers(After(H, new, k), Pos(new[k]), hist, Retries)
    <3>1. new[k] = p
      BY <1>3, <2>2, <2>3 DEF Longer
    <3>2. 1..Parts \subseteq Seen(tracker[d], base) \union Brought(new, k, base) /\ Pos(new[k]) = base
      BY <1>2, <2>1, <2>3, <3>1 DEF Completes
    <3>3. SeenIn(tracker[d], base, snapBlobs, H)
      BY DEF Parted, PartedAt, TrackersAt, SeenIn
    <3>4. PartsOf(new, base, snapBlobs)
      <4>1. PartsAt(d)'
        BY PartedKept DEF Parted, PartedAt
      <4> QED BY <1>0, <4>1 DEF PartsAt, PartsOf, new
    <3> HIDE DEF H
    <3>5. snapBlobs \subseteq After(H, new, k)
      BY <1>0, <2>2, <3>2, <3>3, <3>4, PartsBring
    <3> QED BY <3>2, <3>5, CoversMore
  <2> QED BY <1>0, <1>1, <2>1, <2>3, ClientSent DEF q, new
<1>5. CASE SendsLast(d)
  <2> DEFINE log == serving[d].backlog
             K == Len(q) + Len(g)
  <2>1. /\ base = serving[d].seq /\ serving[d].next = Parts /\ Stretch(q, g, log, new)
        /\ lastSent'[d] = base + Len(log)
    BY <1>5 DEF SendsLast, Stretch, g, p
  <2>2. log \in Seq(Entry) /\ Behind(log, base)
    BY <1>0, <2>1 DEF Log, Served, ServedAt, Snapshots, Behind
  <2>3. new \in Seq(ToClient) /\ Longer(q, g \o Updates(log), new)
    BY <1>0, <1>3, <2>1, <2>2, StretchIs
  <2>4. /\ g \o Updates(log) \in Seq(ToClient) /\ 1 \in DOMAIN (g \o Updates(log))
        /\ (g \o Updates(log))[1] = p
    <3>1. /\ g \o Updates(log) \in Seq(ToClient) /\ Len(g \o Updates(log)) = Len(g) + Len(log)
          /\ \A i \in DOMAIN g : (g \o Updates(log))[i] = g[i]
      BY <1>3, <2>2, WithUpdates
    <3>2. Len(log) \in Nat
      BY <2>2
    <3> QED BY <1>3, <3>1, <3>2
  <2> DEFINE x == g \o Updates(log)
  <2>5. K = Len(q) + 1 /\ K \in Nat
    BY <1>0, <1>3
  <2>6. x \in Seq(ToClient) /\ Longer(q, x, new) /\ 1 \in DOMAIN x /\ x[1] = p
    BY <2>3, <2>4
  <2>7. Covers(snapBlobs, base, hist, Retries) /\ ServingAt(d)
    BY DEF Parted, PartedAt
  <2>8. InParts(snapBlobs, 1..(Parts - 1)) \subseteq AfterAll(H, q)
    BY <1>0, <2>1, <2>7 DEF ServingAt
  <2> HIDE DEF q, new, H, log, x
  <2>9. snapBlobs \subseteq After(H, new, K)
    <3>1. AfterAll(H, q) \subseteq After(H, new, K)
      <4>1. \A k \in Nat : k >= Len(q) => AfterAll(H, q) \subseteq After(H, new, k)
        BY <1>0, <2>3, <2>6, AfterSent
      <4> QED BY <1>0, <2>5, <4>1
    <3>2. Brings(x[1]) \subseteq After(H, new, K)
      <4>1. \A j \in DOMAIN x, k \in Nat : k >= Len(q) + j => Brings(x[j]) \subseteq After(H, new, k)
        BY <1>0, <2>3, <2>6, AfterSent
      <4>2. K >= Len(q) + 1
        BY <1>0, <2>5
      <4> QED BY <2>5, <2>6, <4>1, <4>2
    <3>3. Brings(x[1]) = InParts(snapBlobs, {Parts})
      BY <1>2, <2>1, <2>6 DEF Brings
    <3>4. 1..Parts = (1..(Parts - 1)) \union {Parts}
      BY FanoutAssumption
    <3>5. snapBlobs = InParts(snapBlobs, 1..(Parts - 1)) \union InParts(snapBlobs, {Parts})
      <4>1. InParts(snapBlobs, 1..Parts) = snapBlobs
        BY <1>0, AllInParts
      <4> QED BY <3>4, <4>1 DEF InParts
    <3> QED BY <2>8, <3>1, <3>2, <3>3, <3>5
  <2>10. ASSUME NEW k \in DOMAIN new, k \notin DOMAIN q, k <= K, Completes(tracker[d], new, k)
         PROVE  Covers(After(H, new, k), Pos(new[k]), hist, Retries)
    <3>1. PICK j \in DOMAIN x : k = Len(q) + j /\ new[k] = x[j]
      BY <2>6, <2>10 DEF Longer
    <3>2. j = 1 /\ k = K
      <4>1. j \in Nat /\ j >= 1 /\ Len(q) \in Nat
        BY <1>0, <2>6
      <4> QED BY <2>5, <2>10, <3>1, <4>1
    <3>3. Pos(new[k]) = base
      BY <1>2, <2>1, <2>6, <3>1, <3>2
    <3> QED BY <2>9, <3>2, <3>3, CoversMore
  <2> HIDE DEF K
  <2>11. \A k \in DOMAIN new :
             k \notin DOMAIN q /\ k <= Len(q) + Len(g) /\ Completes(tracker[d], new, k) =>
                 Covers(After(H, new, k), Pos(new[k]), hist, Retries)
    BY <2>10 DEF K
  <2>12. snapBlobs \subseteq After(H, new, Len(q) + Len(g))
    BY <2>9 DEF K
  <2> QED BY <1>0, <1>1, <1>3, <2>1, <2>2, <2>11, <2>12, ClientTailSent DEF q, new, H
<1>6. CASE Closes(d)
  <2>1. /\ s2c'[d] = s2c[d] /\ lastSent'[d] = lastSent[d] /\ pc'[d] = "closed"
        /\ has'[d] = has[d] /\ cursor'[d] = cursor[d] /\ tracker'[d] = tracker[d] /\ c2s'[d] = c2s[d]
    BY <1>0, <1>6 DEF Closes, client
  <2> QED BY <2>1, ClientStays
<1> QED
  BY <1>0, <1>4, <1>5, <1>6

\* What the receiver yields is covered with what was sent before it.
LEMMA ClientForwarded ==
    ASSUME Delivery, Next, NEW d \in Device, ClientAt(d), ReceiverAt(d), Forward(d)
    PROVE  ClientAt(d)'
<1> DEFINE q == s2c[d]
           new == s2c'[d]
           H == has[d]
           e == rx[d][1]
           g == <<Update(e)>>
<1>0. /\ Log /\ Stream /\ Types /\ q \in Seq(ToClient) /\ pc[d] = "live" /\ ~lagged[d] /\ rx[d] # <<>>
      /\ rx[d] \in Seq(Entry) /\ UNCHANGED <<client, top, c2s, pc>>
  BY DEF Delivery, Log, Types, Forward, relayLog
<1>1. 1 \in DOMAIN rx[d] /\ e = Head(rx[d]) /\ e \in Entry
  BY <1>0
<1>2. \/ new = q \o g /\ lastSent'[d] = e.seq /\ e.seq > lastSent[d]
      \/ new = q /\ lastSent'[d] = lastSent[d]
  BY <1>0, <1>1 DEF Forward, Send, NotYetSent, Types
<1>3. PICK more : Sending(d, more)
  BY <1>0, TaskSends
<1>4. CASE new = q \o g /\ lastSent'[d] = e.seq /\ e.seq > lastSent[d]
  <2>1. EndOf(d) = lastSent[d] /\ Piped(d) = AfterAll(H, q) /\ Flowing(d)
    BY <1>0 DEF EndOf, Piped, Flowing
  <2>2. Gets(d, 1) \subseteq AfterAll(H, q) \union {e.blob}
    <3>1. \A j \in 1..1 : rx[d][j].blob = e.blob
      OBVIOUS
    <3> QED BY <2>1, <3>1 DEF Gets, Received
  <2>3. Covers(Gets(d, 1), e.seq, hist, Retries)
    BY <1>0, <1>1, <1>4, <2>1 DEF ReceiverAt
  <2>4. g \in Seq(ToClient) /\ Len(g) = 1 /\ 1 \in DOMAIN g /\ DOMAIN g = {1} /\ g[1] = Update(e)
    BY <1>1, FrameTypes
  <2>5. Brings(g[1]) = {e.blob} /\ Pos(g[1]) = e.seq
    BY <2>4 DEF Brings, Update, Pos
  <2> HIDE DEF q, new, H, e, g
  <2>6. new \in Seq(ToClient) /\ Longer(q, g, new)
    BY <1>0, <1>4, <2>4, Appended
  <2>7. Len(q) \in Nat /\ Len(new) = Len(q) + 1
    BY <1>0, <2>4, <2>6 DEF Longer
  <2>8. Gets(d, 1) \subseteq After(H, new, Len(new))
    <3>1. AfterAll(H, q) \subseteq AfterAll(H, new)
      BY <1>0, <2>4, <2>6, AfterSent
    <3>2. \A j \in DOMAIN g, k \in Nat : k >= Len(q) + j => Brings(g[j]) \subseteq After(H, new, k)
      BY <1>0, <2>4, <2>6, AfterSent
    <3>3. Len(new) \in Nat /\ Len(new) >= Len(q) + 1
      BY <2>7
    <3>4. Brings(g[1]) \subseteq After(H, new, Len(new))
      BY <2>4, <3>2, <3>3
    <3> QED BY <2>2, <2>5, <3>1, <3>4 DEF AfterAll
  <2>9. Covers(After(H, new, Len(new)), e.seq, hist, Retries)
    BY <2>3, <2>8, CoversMore
  <2>10. \A k \in DOMAIN new : k \notin DOMAIN q => k = Len(new) /\ new[k] = g[1]
    BY <2>4, <2>6, <2>7 DEF Longer
  <2>11. \A k \in DOMAIN new : k \notin DOMAIN q => Covers(After(H, new, k), Pos(new[k]), hist, Retries)
    BY <2>5, <2>9, <2>10
  <2>12. Covers(AfterAll(H, new), lastSent'[d], hist, Retries)
    BY <1>4, <2>9 DEF AfterAll
  <2> QED BY <1>0, <1>3, <2>11, <2>12, ClientSent DEF q, new, H
<1>5. CASE new = q /\ lastSent'[d] = lastSent[d]
  <2>1. /\ has'[d] = has[d] /\ cursor'[d] = cursor[d] /\ tracker'[d] = tracker[d] /\ c2s'[d] = c2s[d]
        /\ pc'[d] = pc[d]
    BY <1>0 DEF client
  <2> QED BY <1>5, <2>1, ClientStays
<1> QED
  BY <1>2, <1>4, <1>5

\* An ack moves nothing.
LEMMA ClientAcked ==
    ASSUME Delivery, Next, NEW d \in Device, ClientAt(d), RelayAck(d)
    PROVE  ClientAt(d)'
<1> DEFINE q == s2c[d]
           new == s2c'[d]
<1>0. /\ Log /\ Stream /\ Types /\ q \in Seq(ToClient) /\ pc[d] = "ack" /\ SentAt(d)
      /\ UNCHANGED <<client, top, c2s, lastSent>>
  BY DEF Delivery, Log, Types, RelayAck, ClientAt, relayLog
<1>1. PICK more : Sending(d, more)
  BY <1>0, TaskSends
<1>2. PICK e \in owed[d] : new = q \o <<Ack(e.seq)>>
  BY <1>0 DEF RelayAck, Send, Types
<1>3. e \in Entry
  BY <1>0, <1>2 DEF Types
<1> DEFINE g == <<Ack(e.seq)>>
<1>4. g \in Seq(ToClient) /\ \A j \in DOMAIN g : g[j].kind = "ack"
  BY <1>3, FrameTypes DEF Ack, Entry
<1> HIDE DEF g
<1>5. new \in Seq(ToClient) /\ Longer(q, g, new)
  BY <1>0, <1>2, <1>4, Appended DEF g
<1>6. \A k \in DOMAIN new : k \notin DOMAIN q => ~Completes(tracker[d], new, k)
  <2>1. \A k \in DOMAIN new : k \notin DOMAIN q => new[k].kind = "ack"
    BY <1>4, <1>5 DEF Longer
  <2> QED BY <2>1 DEF Completes
<1>7. Covers(AfterAll(has[d], new), lastSent'[d], hist, Retries)
  <2>1. AfterAll(has[d], q) \subseteq AfterAll(has[d], new)
    BY <1>0, <1>4, <1>5, AfterSent
  <2>2. Covers(AfterAll(has[d], q), lastSent[d], hist, Retries)
    BY <1>0 DEF SentAt
  <2> QED BY <1>0, <2>1, <2>2, CoversMore
<1> QED
  BY <1>0, <1>1, <1>6, <1>7, ClientSent

LEMMA ClientKept ==
    ASSUME Delivery, Parted, Next, ~overtaken, Covered
    PROVE  \A d \in Device : ClientAt(d)'
<1>0. /\ Types /\ Log /\ \A c \in Device : ClientAt(c) /\ ReceiverAt(c) /\ PhaseAt(c)
      /\ Covers(snapBlobs, base, hist, Retries)
  BY DEF Delivery, Log, Covered, Bounds, BoundsAt
<1>1. ASSUME NEW c \in Device, Local(c)' = Local(c) PROVE ClientAt(c)'
  <2>1. /\ has'[c] = has[c] /\ cursor'[c] = cursor[c] /\ tracker'[c] = tracker[c] /\ s2c'[c] = s2c[c]
        /\ c2s'[c] = c2s[c] /\ pc'[c] = pc[c] /\ lastSent'[c] = lastSent[c]
    BY <1>1 DEF Local
  <2> QED BY <1>0, <2>1, ClientStays
<1>2. CASE LateFanout
  BY <1>1, <1>2 DEF LateFanout, Local, client
<1>3. ASSUME NEW d \in Device, StepOf(d) PROVE ClientAt(d)'
  <2>1. CASE Connect(d)
    <3>1. /\ UNCHANGED <<relayLog, cursor, has, tracker, s2c, c2s>> /\ s2c[d] = <<>> /\ c2s[d] = <<>>
          /\ lastSent'[d] = cursor[d] /\ pc'[d] = "hello"
      BY <1>0, <2>1 DEF Connect, Types, PhaseAt
    <3>2. CursorAt(d)'
      BY <1>0, <3>1, WithinLog, CoversKept DEF ClientAt, CursorAt
    <3>3. OffersAt(d)' /\ FramesAt(d)'
      BY <3>1 DEF OffersAt, FramesAt
    <3>4. AfterAll(has'[d], s2c'[d]) = has'[d]
      <4>1. 1..Len(<<>>) = {}
        OBVIOUS
      <4> QED BY <3>1, <4>1 DEF AfterAll, After
    <3>5. SentAt(d)'
      BY <3>1, <3>2, <3>4 DEF SentAt, CursorAt
    <3> QED BY <3>2, <3>3, <3>5 DEF ClientAt
  <2>2. CASE ReadBacklog(d) \/ Resync(d)
    BY <1>0, <2>2, ClientServed
  <2>3. CASE SendPart(d)
    BY <1>0, <2>3, ClientParts
  <2>4. CASE Forward(d)
    BY <1>0, <2>4, ClientForwarded
  <2>5. CASE RelayAck(d)
    BY <1>0, <2>5, ClientAcked
  <2>6. CASE RelayPush(d) \/ RelayFanout(d) \/ RelayCompact(d) \/ Push(d)
    <3>1. /\ UNCHANGED <<cursor, tracker, s2c, lastSent>> /\ has[d] \subseteq has'[d]
          /\ pc'[d] \in {"hello", "live", "ack", "fanout"} => pc[d] \in {"hello", "live", "ack", "fanout"}
      BY <1>0, <2>6 DEF RelayPush, RelayFanout, RelayCompact, Push, Types, task, client
    <3>2. \A i \in DOMAIN c2s'[d] : c2s'[d][i].kind = "compact" =>
              \E j \in DOMAIN c2s[d] : c2s'[d][i] = c2s[d][j]
      <4>0. c2s[d] \in Seq(ToRelay)
        BY <1>0 DEF Types
      <4>1. CASE RelayFanout(d)
        BY <4>1 DEF RelayFanout
      <4>2. CASE RelayPush(d) \/ RelayCompact(d)
        <5>1. c2s[d] # <<>> /\ c2s'[d] = Tail(c2s[d])
          BY <1>0, <4>2 DEF RelayPush, RelayCompact, Types
        <5>2. \A i \in DOMAIN c2s'[d] : i + 1 \in DOMAIN c2s[d] /\ c2s'[d][i] = c2s[d][i + 1]
          BY <4>0, <5>1
        <5> QED BY <5>2
      <4>3. CASE Push(d)
        <5> DEFINE f == PushFrame(Mine(d))
        <5>1. c2s'[d] = Append(c2s[d], f) /\ f.kind = "push"
          BY <1>0, <4>3, PushIs DEF Log, PushFrame
        <5> HIDE DEF f
        <5>2. \A i \in DOMAIN c2s'[d] : c2s'[d][i] = f \/ (i \in DOMAIN c2s[d] /\ c2s'[d][i] = c2s[d][i])
          BY <4>0, <5>1
        <5> QED BY <5>1, <5>2
      <4> QED BY <2>6, <4>1, <4>2, <4>3
    <3> QED BY <1>0, <3>1, <3>2, ClientStays
  <2>7. CASE OnWelcome(d) \/ OnAck(d) \/ OnUpdate(d) \/ OnPart(d)
    BY <1>0, <2>7, ClientRead
  <2>8. CASE SeeClose(d) \/ \E crash \in BOOLEAN : Drop(d, crash)
    <3>1. /\ s2c'[d] = <<>> /\ c2s'[d] = <<>> /\ pc'[d] = "none" /\ UNCHANGED <<cursor, has>>
      BY <1>0, <2>8 DEF SeeClose, Drop, EndSession, EndTask, Types
    <3>2. CursorAt(d)'
      BY <1>0, <3>1, WithinLog, CoversKept DEF ClientAt, CursorAt
    <3>3. OffersAt(d)' /\ FramesAt(d)' /\ SentAt(d)'
      BY <3>1 DEF OffersAt, FramesAt, SentAt
    <3> QED BY <3>2, <3>3 DEF ClientAt
  <2> QED BY <1>3, <2>1, <2>2, <2>3, <2>4, <2>5, <2>6, <2>7, <2>8 DEF StepOf, RelayStep, ClientStep
<1>4. ASSUME NEW d \in Device, StepOf(d) PROVE \A c \in Device : ClientAt(c)'
  BY <1>0, <1>1, <1>3, <1>4, Locality
<1> QED
  BY <1>2, <1>1, <1>4 DEF Next, StepOf

-----------------------------------------------------------------------------
(* The receiver's side                                                      *)

\* What is pending is logged.
LEMMA PendingLogged ==
    ASSUME Delivery
    PROVE  Pending \subseteq hist
BY DEF Delivery, Log, Types, Bounds, BoundsAt, WiresAt, Pending

\* But for a broadcast, what was pending is, or is pushed again.
LEMMA PendingSteady ==
    ASSUME Delivery, Next, NEW d \in Device, StepOf(d), ~RelayFanout(d)
    PROVE  /\ \A f \in Pending : f \in Pending' \/ f.blob \in Retries'
           /\ \A f \in Pending' : f \in Pending \/ f.seq = top + 1
<1>0. /\ Types /\ Log /\ FlightAt(d) /\ Blobs' = Blobs /\ owed[d] \subseteq hist /\ hist \subseteq Entry
  BY CastKept DEF Delivery, Log, Types, Flight, Bounds, BoundsAt, WiresAt
<1>1. CASE owed' = owed /\ late' = late
  BY <1>1 DEF Pending
<1>2. CASE RelayPush(d)
  <2> DEFINE e == [seq |-> top + 1, blob |-> Head(c2s[d]).blob]
  <2>1. late' = late /\ owed'[d] = {e} /\ e.seq = top + 1 /\ owed[d] = {}
        /\ \A c \in Device \ {d} : owed'[c] = owed[c]
    BY <1>0, <1>2 DEF RelayPush, Types, FlightAt
  <2> HIDE DEF e
  <2>2. Pending' = Pending \union {e}
    BY <2>1 DEF Pending
  <2> QED BY <2>1, <2>2
<1>3. CASE \E crash \in BOOLEAN : Drop(d, crash)
  <2>1. /\ owed'[d] = {} /\ \A c \in Device \ {d} : owed'[c] = owed[c]
        /\ late' = late \union owed[d] \/ (pc[d] = "ack" /\ late' = late)
        /\ s2c'[d] = <<>> /\ pc'[d] = "none" /\ UNCHANGED <<unacked, made>>
    BY <1>0, <1>3 DEF Drop, EndSession, EndTask, Types
  <2>2. Pending' \subseteq Pending
    BY <2>1 DEF Pending
  <2>3. ASSUME NEW f \in owed[d], pc[d] = "ack"
        PROVE  f.blob \in Retries'
    <3>1. Current(d, f.blob) /\ f.blob \in Blobs
      BY <1>0, <2>3 DEF FlightAt, Entry
    <3>2. Acks(s2c'[d]) = {} /\ pc'[d] \notin {"ack", "fanout"}
      BY <2>1 DEF Acks
    <3>3. f.blob.dev = d /\ unacked'[d] /\ f.blob.n = made'[d]
      BY <2>1, <3>1 DEF Current
    <3> QED BY <1>0, <3>1, <3>2, <3>3 DEF Retries
  <2>4. \A f \in Pending : f \in Pending' \/ f.blob \in Retries'
    BY <2>1, <2>3 DEF Pending
  <2> QED BY <2>2, <2>4
<1>4. CASE UNCHANGED <<owed, late>>
  BY <1>1, <1>4
<1>5. UNCHANGED <<owed, late>> \/ RelayPush(d) \/ \E crash \in BOOLEAN : Drop(d, crash)
  <2>1. CASE ClientStep(d)
    <3>1. CASE SeeClose(d)
      BY <3>1 DEF SeeClose
    <3>2. CASE OnWelcome(d) \/ OnAck(d) \/ OnUpdate(d) \/ OnPart(d)
      BY <1>0, <3>2, ReadIs DEF task
    <3> QED BY <2>1, <3>1, <3>2 DEF ClientStep
  <2>2. CASE Connect(d) \/ Push(d)
    BY <2>2 DEF Connect, Push, task
  <2>3. CASE RelayStep(d)
    BY <2>3 DEF RelayStep, ReadBacklog, Resync, SendPart, Forward, RelayAck, RelayCompact, task
  <2> QED BY <2>1, <2>2, <2>3 DEF StepOf
<1> QED
  BY <1>2, <1>3, <1>4, <1>5

\* A broadcast is of one pending entry, the lowest unless it overtakes.
LEMMA PendingBroadcast ==
    ASSUME Delivery, Next, LateFanout \/ (\E d \in Device : RelayFanout(d))
    PROVE  \E e \in Pending :
               /\ Broadcast(e) /\ e \in hist /\ Pending' = Pending \ {e}
               /\ ~overtaken' => \A o \in Pending : o = e \/ e.seq < o.seq
<1>0. /\ Types /\ LogShape /\ Pending \subseteq hist /\ OwedApart /\ \A c \in Device : FlightAt(c)
      /\ \A e \in hist : e.seq \in Nat
  BY PendingLogged DEF Delivery, Log, Types, Flight, Entry
<1>1. ASSUME NEW e \in Pending, Broadcast(e), ~overtaken', NEW o \in Pending
      PROVE  o = e \/ e.seq < o.seq
  <2>1. Pending = late \union UNION Range(owed)
    BY <1>0 DEF Pending, Range, Types
  <2>2. ~(o.seq < e.seq)
    BY <1>1, <2>1 DEF Broadcast
  <2>3. o \in hist /\ e \in hist /\ o.seq \in Nat /\ e.seq \in Nat /\ (o.seq = e.seq => o = e)
    BY <1>0, <1>1 DEF LogShape
  <2> QED BY <2>2, <2>3
<1>2. CASE LateFanout
  <2>1. PICK e \in late : Broadcast(e) /\ late' = late \ {e} /\ owed' = owed
    BY <1>2 DEF LateFanout
  <2>2. Pending' = Pending \ {e} /\ e \in Pending
    BY <1>0, <2>1 DEF OwedApart, Pending
  <2> QED BY <1>0, <1>1, <2>1, <2>2
<1>3. ASSUME NEW d \in Device, RelayFanout(d)
      PROVE  \E e \in Pending :
                 /\ Broadcast(e) /\ e \in hist /\ Pending' = Pending \ {e}
                 /\ ~overtaken' => \A o \in Pending : o = e \/ e.seq < o.seq
  <2>1. PICK e \in owed[d] : Broadcast(e)
    BY <1>3 DEF RelayFanout
  <2>2. owed[d] = {e}
    BY <1>0, <1>3, <2>1 DEF RelayFanout, FlightAt
  <2>3. owed'[d] = {} /\ late' = late /\ \A c \in Device \ {d} : owed'[c] = owed[c]
    BY <1>0, <1>3 DEF RelayFanout, Types
  <2>4. Pending' = Pending \ {e} /\ e \in Pending
    BY <1>0, <2>1, <2>2, <2>3 DEF OwedApart, Pending
  <2> QED BY <1>0, <1>1, <2>1, <2>4
<1> QED
  BY <1>2, <1>3

\* Receivers shorten from the front and grow by what is broadcast.
LEMMA RisingRead ==
    ASSUME NEW q \in Seq(Entry), q # <<>>, NEW P, Rising(q, P)
    PROVE  Rising(Tail(q), P)
<1>1. \A i \in DOMAIN Tail(q) :
          /\ i + 1 \in DOMAIN q /\ Tail(q)[i] = q[i + 1]
          /\ \A j \in 1..(i - 1) : j + 1 \in 1..((i + 1) - 1) /\ Tail(q)[j] = q[j + 1]
  OBVIOUS
<1> SUFFICES ASSUME NEW i \in DOMAIN Tail(q)
             PROVE  /\ \A j \in 1..(i - 1) : Tail(q)[j].seq < Tail(q)[i].seq
                    /\ \A o \in P : Tail(q)[i].seq < o.seq
  BY DEF Rising
<1> DEFINE m == i + 1
<1>2. /\ m \in DOMAIN q /\ Tail(q)[i] = q[m]
      /\ \A j \in 1..(i - 1) : j + 1 \in 1..(m - 1) /\ Tail(q)[j] = q[j + 1]
  BY <1>1
<1> HIDE DEF m
<1>3. (\A j \in 1..(m - 1) : q[j].seq < q[m].seq) /\ \A o \in P : q[m].seq < o.seq
  BY <1>2 DEF Rising
<1> QED
  BY <1>2, <1>3

LEMMA RisingGrown ==
    ASSUME NEW q \in Seq(Entry), NEW e \in Entry, NEW P, Rising(q, P), e \in P,
           \A o \in P : o = e \/ e.seq < o.seq
    PROVE  Rising(Append(q, e), P \ {e})
<1> DEFINE new == Append(q, e)
<1>1. /\ Len(q) \in Nat /\ DOMAIN new = 1..(Len(q) + 1) /\ DOMAIN q = 1..Len(q)
      /\ \A i \in 1..Len(q) : new[i] = q[i]
      /\ new[Len(q) + 1] = e
  OBVIOUS
<1> HIDE DEF new
<1> SUFFICES ASSUME NEW i \in DOMAIN new
             PROVE  /\ \A j \in 1..(i - 1) : new[j].seq < new[i].seq
                    /\ \A o \in P \ {e} : new[i].seq < o.seq
  BY DEF Rising, new
<1>2. \A j \in 1..(i - 1) : j \in 1..Len(q) /\ new[j] = q[j]
  BY <1>1
<1>3. CASE i \in 1..Len(q)
  BY <1>1, <1>2, <1>3 DEF Rising
<1>4. CASE i = Len(q) + 1
  BY <1>1, <1>2, <1>4 DEF Rising
<1> QED
  BY <1>1, <1>3, <1>4

LEMMA InOrderKept ==
    ASSUME Delivery, Next, ~overtaken', Covered
    PROVE  \A d \in Device : InOrderAt(d)'
<1>0. /\ Types /\ Log /\ \A c \in Device : InOrderAt(c) /\ rx[c] \in Seq(Entry) /\ Len(rx[c]) <= Cap
      /\ \A c \in Device : \A i \in DOMAIN rx[c] : rx[c][i] \in hist
      /\ \A e \in hist : e.seq \in Nat /\ e.seq < top + 1 /\ e \in Entry
  <2>1. /\ Types /\ Log /\ LogShape /\ \A c \in Device : InOrderAt(c) /\ rx[c] \in Seq(Entry)
        /\ \A c \in Device : WiresAt(c)
    BY DEF Delivery, Log, Types, Covered, Bounds, BoundsAt
  <2>2. \A e \in hist : e.seq \in Nat /\ e.seq < top + 1 /\ e \in Entry
    BY <2>1 DEF Types, LogShape, Entry
  <2> QED BY <2>1, <2>2 DEF WiresAt
<1>1. ASSUME NEW c \in Device, rx'[c] = rx[c] \/ rx'[c] = <<>> \/ (rx[c] # <<>> /\ rx'[c] = Tail(rx[c])),
             \A f \in Pending' : f \in Pending \/ f.seq = top + 1
      PROVE  InOrderAt(c)'
  <2>1. Rising(rx[c], Pending')
    BY <1>0, <1>1 DEF InOrderAt, Rising
  <2>2. Rising(<<>>, Pending')
    BY DEF Rising
  <2>3. rx[c] # <<>> => Rising(Tail(rx[c]), Pending')
    BY <1>0, <2>1, RisingRead
  <2> QED BY <1>1, <2>1, <2>2, <2>3 DEF InOrderAt
<1>2. CASE LateFanout \/ \E d \in Device : RelayFanout(d)
  <2>1. PICK e \in Pending :
           /\ Broadcast(e) /\ e \in hist /\ Pending' = Pending \ {e}
           /\ \A o \in Pending : o = e \/ e.seq < o.seq
    BY <1>2, PendingBroadcast
  <2>2. \A c \in Device : rx'[c] = IF Subscribed(c) THEN Buffered(rx[c], e) ELSE rx[c]
    BY <1>0, <2>1, BroadcastIs DEF Log
  <2>3. ASSUME NEW c \in Device PROVE InOrderAt(c)'
    <3>1. Rising(rx[c], Pending) /\ rx[c] \in Seq(Entry) /\ e \in Entry
      BY <1>0, <2>1 DEF InOrderAt
    <3>2. Rising(Append(rx[c], e), Pending \ {e})
      BY <2>1, <3>1, RisingGrown
    <3>3. Len(rx[c]) = Cap => Rising(Append(Tail(rx[c]), e), Pending \ {e})
      <4> SUFFICES ASSUME Len(rx[c]) = Cap PROVE Rising(Append(Tail(rx[c]), e), Pending \ {e})
        OBVIOUS
      <4>1. rx[c] # <<>> /\ Tail(rx[c]) \in Seq(Entry)
        BY <1>0, FanoutAssumption DEF Types, Cap
      <4>2. Rising(Tail(rx[c]), Pending)
        BY <3>1, <4>1, RisingRead
      <4> QED BY <2>1, <3>1, <4>1, <4>2, RisingGrown
    <3>4. Rising(rx[c], Pending \ {e})
      BY <3>1 DEF Rising
    <3> QED BY <2>1, <2>2, <3>2, <3>3, <3>4 DEF InOrderAt, Buffered
  <2> QED BY <2>3
<1>3. ASSUME NEW d \in Device, StepOf(d), ~RelayFanout(d)
      PROVE  \A c \in Device : InOrderAt(c)'
  <2>1. \A f \in Pending' : f \in Pending \/ f.seq = top + 1
    BY <1>3, PendingSteady
  <2>2. \A c \in Device \ {d} : rx'[c] = rx[c]
    BY <1>0, <1>3, Locality
  <2>3. rx'[d] = rx[d] \/ rx'[d] = <<>> \/ (rx[d] # <<>> /\ rx'[d] = Tail(rx[d]))
    <3>1. CASE SeeClose(d) \/ SendPart(d) \/ \E crash \in BOOLEAN : Drop(d, crash)
      BY <1>0, <3>1 DEF SeeClose, SendPart, Drop, EndSession, EndTask, Types
    <3>2. CASE Forward(d)
      BY <1>0, <3>2 DEF Forward, Types
    <3>3. CASE OnWelcome(d) \/ OnAck(d) \/ OnUpdate(d) \/ OnPart(d)
      BY <1>0, <3>3, ReadIs DEF task
    <3>4. CASE Connect(d) \/ ReadBacklog(d) \/ Resync(d) \/ RelayPush(d) \/ RelayAck(d) \/ RelayCompact(d) \/ Push(d)
      BY <3>4 DEF Connect, ReadBacklog, Resync, RelayPush, RelayAck, RelayCompact, Push, task
    <3> QED BY <1>3, <3>1, <3>2, <3>3, <3>4 DEF StepOf, RelayStep, ClientStep
  <2> QED BY <1>1, <2>1, <2>2, <2>3
<1> QED
  BY <1>2, <1>3 DEF Next, StepOf

\* What is still to come stays so.
LEMMA ComesKept ==
    ASSUME Delivery, Next, NEW H, NEW H2, H \subseteq H2, NEW P,
           \A f \in P : f \in Pending' \/ f.blob \in Retries', Comes(H, hist, Retries, P)
    PROVE  Comes(H2, hist', Retries', Pending')
<1>0. /\ Types /\ Log /\ \A e \in hist : e.seq \in Nat /\ e.seq <= top
      /\ top \in Nat /\ \A b \in Blobs : b.dev \in Device
  <2>1. \A b \in Blobs : b.dev \in Device
    BY FanoutAssumption DEF Delivery, Log, Types, Blobs, Pushers
  <2> QED BY <2>1 DEF Delivery, Log, Types, LogShape, Entry
<1> SUFFICES ASSUME NEW e \in hist'
             PROVE  \/ e.blob \in H2 \union Retries'
                    \/ \E f \in Pending' : f.blob = e.blob /\ f.seq >= e.seq
  BY DEF Comes
<1>1. CASE e \in hist
  <2>1. CASE e.blob \in Retries
    <3>1. e.blob \in Blobs
      BY <2>1 DEF Retries
    <3>2. \A f \in owed'[e.blob.dev] : f \in Pending'
      BY <1>0, <3>1 DEF Pending
    <3>3. CASE \E f \in hist' : f.blob = e.blob /\ f.seq = top + 1 /\ f \in owed'[e.blob.dev]
      <4>1. PICK f \in hist' : f.blob = e.blob /\ f.seq = top + 1 /\ f \in owed'[e.blob.dev]
        BY <3>3
      <4>2. f.seq >= e.seq
        BY <1>0, <1>1, <4>1
      <4> QED BY <3>2, <4>1, <4>2
    <3> QED BY <2>1, <3>3, RetriesStep
  <2>2. CASE e.blob \in H
    BY <2>2
  <2>3. CASE \E f \in P : f.blob = e.blob /\ f.seq >= e.seq
    BY <2>3
  <2> QED BY <1>1, <2>1, <2>2, <2>3 DEF Comes
<1>2. CASE e \notin hist
  <2>1. PICK d \in Device : RelayPush(d)
    BY <1>2, LogGrows DEF Log, RelayCompact, Delivery
  <2>2. e \in owed'[d] /\ e.seq >= e.seq
    BY <1>0, <1>2, <2>1 DEF RelayPush, Types
  <2> QED BY <2>2 DEF Pending
<1> QED
  BY <1>1, <1>2

\* A receiver whose entries and what they come behind are covered stays covered.
LEMMA ReceiverMoves ==
    ASSUME Delivery, Next, NEW d \in Device, NEW P,
           \A f \in P : f \in Pending' \/ f.blob \in Retries',
           \A i \in DOMAIN rx'[d] : rx'[d][i] \in hist,
           \A i \in DOMAIN rx'[d] : rx'[d][i].seq > EndOf(d)' =>
               Covers(Gets(d, i)', rx'[d][i].seq, hist, Retries),
           Comes(Gets(d, Len(rx[d]))', hist, Retries, P)
    PROVE  ReceiverAt(d)'
<1>1. \A e \in hist : e.seq \in Nat /\ e.seq <= top
  BY DEF Delivery, Log, Types, LogShape, Entry
<1>2. ASSUME NEW i \in DOMAIN rx'[d], rx'[d][i].seq > EndOf(d)'
      PROVE  Covers(Gets(d, i)', rx'[d][i].seq, hist', Retries')
  <2>1. rx'[d][i].seq \in Nat /\ rx'[d][i].seq <= top
    BY <1>1
  <2>2. Covers(Gets(d, i)', rx'[d][i].seq, hist, Retries)
    BY <1>2
  <2> QED BY <2>1, <2>2, CoversKept
<1>3. Comes(Gets(d, Len(rx[d]))', hist', Retries', Pending')
  BY ComesKept
<1> QED
  BY <1>2, <1>3 DEF ReceiverAt

LEMMA ReceiverSteady ==
    ASSUME Delivery, Next, NEW d \in Device, ReceiverAt(d),
           \A f \in Pending : f \in Pending' \/ f.blob \in Retries',
           rx'[d] = rx[d], lagged'[d] = lagged[d],
           Flowing(d)' => Flowing(d) /\ EndOf(d)' = EndOf(d) /\ Piped(d) \subseteq Piped(d)'
    PROVE  ReceiverAt(d)'
<1> SUFFICES ASSUME Flowing(d)', ~lagged'[d] PROVE ReceiverAt(d)'
  BY DEF ReceiverAt
<1>1. /\ \A i \in DOMAIN rx[d] : rx[d][i].seq > EndOf(d) =>
            Covers(Gets(d, i), rx[d][i].seq, hist, Retries)
      /\ Comes(Gets(d, Len(rx[d])), hist, Retries, Pending)
  BY DEF ReceiverAt
<1>2. \A i : Gets(d, i) \subseteq Gets(d, i)'
  BY DEF Gets
<1>3. \A i \in DOMAIN rx'[d] : rx'[d][i] \in hist
  BY DEF Delivery, Log, Bounds, BoundsAt, WiresAt
<1>4. ASSUME NEW i \in DOMAIN rx'[d], rx'[d][i].seq > EndOf(d)'
      PROVE  Covers(Gets(d, i)', rx'[d][i].seq, hist, Retries)
  <2>1. Covers(Gets(d, i), rx[d][i].seq, hist, Retries)
    BY <1>1, <1>4
  <2> QED BY <1>2, <2>1, CoversMore
<1>5. Comes(Gets(d, Len(rx[d]))', hist, Retries, Pending)
  <2>1. Gets(d, Len(rx[d])) \subseteq Gets(d, Len(rx[d]))'
    BY DEF Gets
  <2> QED BY <1>1, <2>1 DEF Comes
<1> QED
  BY <1>3, <1>4, <1>5, ReceiverMoves

\* A task that goes on without sending has the same ahead of its receiver.
LEMMA FlowsOn ==
    ASSUME Delivery, Next, NEW d \in Device,
           AfterAll(has[d], s2c[d]) \subseteq AfterAll(has'[d], s2c'[d]), lastSent'[d] = lastSent[d],
           \/ pc'[d] = pc[d]
           \/ pc[d] \in {"live", "ack", "fanout"} /\ pc'[d] \in {"live", "ack", "fanout"},
           serving'[d].seq = serving[d].seq, serving'[d].backlog = serving[d].backlog
    PROVE  Flowing(d)' => Flowing(d) /\ EndOf(d)' = EndOf(d) /\ Piped(d) \subseteq Piped(d)'
<1>1. CASE pc[d] # "snapshot"
  BY <1>1 DEF Flowing, EndOf, Piped
<1>2. CASE pc[d] = "snapshot"
  <2> SUFFICES ASSUME base' = serving[d].seq
               PROVE  base = serving[d].seq /\ EndOf(d)' = EndOf(d) /\ Piped(d) \subseteq Piped(d)'
    BY <1>2 DEF Flowing
  <2>1. /\ base \in Nat /\ base' \in Nat /\ serving[d].seq <= base /\ pc'[d] = "snapshot"
        /\ base < base' \/ (base' = base /\ snapBlobs' = snapBlobs)
    BY <1>2, SnapshotGrows DEF Delivery, Log, Served, ServedAt
  <2>2. base = serving[d].seq /\ snapBlobs' = snapBlobs
    BY <2>1
  <2> QED BY <1>2, <2>1, <2>2 DEF EndOf, Piped
<1> QED
  BY <1>1, <1>2

LEMMA ReceiverParts ==
    ASSUME Delivery, Parted, Next, NEW d \in Device, ReceiverAt(d), SendPart(d),
           \A f \in Pending : f \in Pending' \/ f.blob \in Retries'
    PROVE  ReceiverAt(d)'
<1> DEFINE q == s2c[d]
           new == s2c'[d]
           H == has[d]
<1>0. /\ Log /\ Types /\ q \in Seq(ToClient) /\ snapBlobs \in SUBSET Blobs
      /\ pc[d] = "snapshot" /\ NextPart(d) \in ToClient /\ (SendsMore(d) \/ SendsLast(d) \/ Closes(d))
      /\ has'[d] = has[d] /\ base' = base /\ serving[d] \in Snapshots
  BY SendPartIs DEF Delivery, Log, Types, relayLog, client
<1>1. CASE SendsMore(d)
  <2>1. new \in Seq(ToClient) /\ Longer(q, <<NextPart(d)>>, new) /\ <<NextPart(d)>> \in Seq(ToClient)
    <3>1. <<NextPart(d)>> \in Seq(ToClient)
      BY <1>0
    <3> QED BY <1>0, <1>1, <3>1, Appended DEF SendsMore
  <2>2. AfterAll(H, q) \subseteq AfterAll(H, new)
    BY <1>0, <2>1, AfterSent
  <2>3. Flowing(d)' => Flowing(d) /\ EndOf(d)' = EndOf(d) /\ Piped(d) \subseteq Piped(d)'
    BY <1>0, <1>1, <2>2, FlowsOn DEF SendsMore
  <2> QED BY <1>1, <2>3, ReceiverSteady DEF SendsMore
<1>2. CASE SendsLast(d)
  <2> DEFINE log == serving[d].backlog
             g == <<NextPart(d)>>
             x == g \o Updates(log)
  <2>1. /\ base = serving[d].seq /\ serving[d].next = Parts /\ new = q \o x /\ pc'[d] = "live"
        /\ lastSent'[d] = serving[d].seq + Len(log) /\ log \in Seq(Entry)
    BY <1>0, <1>2 DEF SendsLast, Snapshots
  <2>2. g \in Seq(ToClient) /\ 1 \in DOMAIN g /\ Len(g) = 1 /\ g[1] = NextPart(d)
    BY <1>0
  <2> HIDE DEF g
  <2>3. /\ x \in Seq(ToClient) /\ \A i \in DOMAIN g : x[i] = g[i]
        /\ Len(x) = Len(g) + Len(log)
        /\ \A i \in DOMAIN log : Len(g) + i \in DOMAIN x /\ x[Len(g) + i] = Update(log[i])
    BY <2>1, <2>2, WithUpdates
  <2>4. 1 \in DOMAIN x /\ Brings(x[1]) = InParts(snapBlobs, {Parts})
    <3>1. Len(log) \in Nat
      BY <2>1
    <3>2. 1 \in DOMAIN x /\ x[1] = NextPart(d)
      BY <2>2, <2>3, <3>1
    <3> QED BY <2>1, <3>2 DEF NextPart, Part, Brings, InParts
  <2>5. \A i \in DOMAIN log : 1 + i \in DOMAIN x /\ Brings(x[1 + i]) = {log[i].blob}
    <3> HIDE DEF x
    <3>1. \A i \in DOMAIN log : 1 + i \in DOMAIN x /\ x[1 + i] = Update(log[i])
      BY <2>2, <2>3
    <3>2. \A i \in DOMAIN log : Brings(Update(log[i])) = {log[i].blob}
      BY DEF Update, Brings
    <3> QED BY <3>1, <3>2
  <2> HIDE DEF x
  <2>6. new \in Seq(ToClient) /\ Longer(q, x, new)
    BY <1>0, <2>1, <2>3, Appended
  <2> HIDE DEF q, new, H
  <2>7. AfterAll(H, q) \subseteq AfterAll(H, new)
    BY <1>0, <2>3, <2>6, AfterSent
  <2>8. ASSUME NEW j \in DOMAIN x PROVE Brings(x[j]) \subseteq AfterAll(H, new)
    <3>1. \A k \in Nat : k >= Len(q) + j => Brings(x[j]) \subseteq After(H, new, k)
      BY <1>0, <2>3, <2>6, AfterSent
    <3>2. Len(new) \in Nat /\ Len(new) >= Len(q) + j
      BY <1>0, <2>3, <2>6 DEF Longer
    <3> QED BY <3>1, <3>2 DEF AfterAll
  <2>9. snapBlobs \subseteq AfterAll(H, new)
    <3>1. InParts(snapBlobs, 1..(Parts - 1)) \subseteq AfterAll(H, q)
      BY <1>0, <2>1 DEF Parted, PartedAt, ServingAt, H, q
    <3>2. 1..Parts = (1..(Parts - 1)) \union {Parts}
      BY FanoutAssumption
    <3>3. snapBlobs = InParts(snapBlobs, 1..(Parts - 1)) \union InParts(snapBlobs, {Parts})
      <4>1. InParts(snapBlobs, 1..Parts) = snapBlobs
        BY <1>0, AllInParts
      <4> QED BY <3>2, <4>1 DEF InParts
    <3> QED BY <2>4, <2>7, <2>8, <3>1, <3>3
  <2>10. \A i \in DOMAIN log : log[i].blob \in AfterAll(H, new)
    BY <2>5, <2>8
  <2>11. Flowing(d) /\ EndOf(d)' = EndOf(d)
    BY <1>0, <2>1 DEF Flowing, EndOf
  <2>12. Piped(d) \subseteq Piped(d)'
    BY <1>0, <2>1, <2>7, <2>9, <2>10 DEF Piped, H, q, new
  <2> QED BY <1>2, <2>11, <2>12, ReceiverSteady DEF SendsLast
<1>3. CASE Closes(d)
  <2>1. ~Flowing(d)'
    BY <1>3 DEF Closes, Flowing
  <2> QED BY <2>1 DEF ReceiverAt
<1> QED
  BY <1>0, <1>1, <1>2, <1>3

\* Whoever is told the whole log needs nothing of the receiver.
LEMMA ReceiverServed ==
    ASSUME Delivery, Next, NEW d \in Device, ReadBacklog(d) \/ Resync(d), ClientAt(d)',
           Covers(snapBlobs, base, hist, Retries)
    PROVE  ReceiverAt(d)'
<1>0. /\ Log /\ Types /\ top \in Nat /\ base \in Nat /\ base <= top /\ UNCHANGED <<relayLog, rx>> /\ rx[d] \in Seq(Entry)
      /\ \A e \in hist : e.seq \in Nat /\ e.seq <= top
      /\ \A i \in DOMAIN rx[d] : rx[d][i] \in hist
      /\ SentAt(d)'
  BY DEF Delivery, Log, Types, LogShape, Bounds, BoundsAt, WiresAt, Entry, ReadBacklog, Resync, ClientAt
<1>1. PICK greeting \in Seq(ToClient) : ServeFrom(d, greeting)
  <2>1. <<Welcome(top)>> \in Seq(ToClient) /\ <<>> \in Seq(ToClient)
    BY <1>0, FrameTypes
  <2> QED BY <2>1 DEF ReadBacklog, Resync
<1>2. Covers(Piped(d)', top, hist', Retries') /\ EndOf(d)' = top
  <2>1. CASE ServesTail(d, greeting)
    <3>1. pc'[d] = "live" /\ lastSent'[d] = top
      BY <2>1 DEF ServesTail
    <3>2. Piped(d)' = AfterAll(has'[d], s2c'[d]) /\ EndOf(d)' = top
      BY <3>1 DEF Piped, EndOf
    <3> QED BY <1>0, <3>1, <3>2 DEF SentAt
  <2>2. CASE ServesSnapshot(d, greeting)
    <3> DEFINE log == serving'[d].backlog
    <3>1. /\ pc'[d] = "snapshot" /\ serving'[d].seq = base /\ log \in Seq(Entry) /\ Len(log) = top - base
          /\ \A i \in 1..(top - base) : log[i] \in hist /\ log[i].seq = base + i
          /\ snapBlobs' = snapBlobs
      BY <1>0, <2>2 DEF ServesSnapshot, relayLog
    <3>2. EndOf(d)' = base + Len(log) /\ snapBlobs \subseteq Piped(d)'
          /\ \A i \in DOMAIN log : log[i].blob \in Piped(d)'
      BY <3>1 DEF EndOf, Piped
    <3> HIDE DEF log
    <3>3. ASSUME NEW f \in hist, f.seq > base, f.seq <= top PROVE f.blob \in Piped(d)'
      <4> DEFINE i == f.seq - base
      <4>1. i \in 1..(top - base) /\ f.seq = base + i
        BY <1>0, <3>3
      <4> HIDE DEF i
      <4>2. log[i] \in hist /\ log[i].seq = f.seq /\ i \in DOMAIN log
        BY <1>0, <3>1, <4>1
      <4>3. log[i] = f
        BY <1>0, <3>3, <4>2 DEF Log, LogShape
      <4> QED BY <3>2, <4>2, <4>3
    <3>4. Covers(Piped(d)', top, hist, Retries)
      BY <1>0, <3>2, <3>3, CoversOn
    <3>5. Covers(Piped(d)', top, hist', Retries')
      <4>1. top <= top
        BY <1>0
      <4> QED BY <1>0, <3>4, <4>1, CoversKept
    <3>6. EndOf(d)' = top
      BY <1>0, <3>1, <3>2
    <3> QED BY <3>5, <3>6
  <2> QED BY <1>0, <1>1, <2>1, <2>2, ServeFromIs
<1>3. \A i \in DOMAIN rx'[d] : ~(rx'[d][i].seq > EndOf(d)')
  BY <1>0, <1>2
<1>4. Comes(Gets(d, Len(rx[d]))', hist', Retries', Pending')
  <2>1. hist' = hist
    BY <1>0 DEF relayLog
  <2>2. \A e \in hist' : e.blob \in Piped(d)' \union Retries'
    BY <1>0, <1>2, <2>1 DEF Covers
  <2>3. Piped(d)' \subseteq Gets(d, Len(rx[d]))'
    BY DEF Gets
  <2> QED BY <2>2, <2>3 DEF Comes
<1> QED
  BY <1>3, <1>4 DEF ReceiverAt

\* Forwarding moves the first entry from the receiver to the wire.
LEMMA ReceiverForwarded ==
    ASSUME Delivery, Next, NEW d \in Device, ReceiverAt(d), InOrderAt(d), Forward(d),
           \A f \in Pending : f \in Pending' \/ f.blob \in Retries'
    PROVE  ReceiverAt(d)'
<1> DEFINE q == s2c[d]
           new == s2c'[d]
           H == has[d]
           r == rx[d]
           e == rx[d][1]
           g == <<Update(e)>>
           n == EndOf(d)
           m == EndOf(d)'
<1>0. /\ Types /\ q \in Seq(ToClient) /\ pc[d] = "live" /\ pc'[d] = "live" /\ ~lagged[d] /\ r # <<>>
      /\ r \in Seq(Entry) /\ rx'[d] = Tail(r) /\ has'[d] = has[d]
      /\ \A i \in DOMAIN r : r[i] \in hist /\ r[i].seq \in Nat
      /\ n = lastSent[d] /\ m = lastSent'[d] /\ n \in Nat
      /\ Piped(d) = AfterAll(H, q) /\ Piped(d)' = AfterAll(H, new) /\ Flowing(d)
  <2>1. Types /\ WiresAt(d) /\ r \in Seq(Entry) /\ hist \subseteq Entry /\ lastSent[d] \in Nat
    BY DEF Delivery, Log, Types, Bounds, BoundsAt
  <2>2. \A i \in DOMAIN r : r[i] \in hist /\ r[i].seq \in Nat
    BY <2>1 DEF WiresAt, Entry
  <2>3. pc[d] = "live" /\ pc'[d] = "live" /\ ~lagged[d] /\ r # <<>> /\ rx'[d] = Tail(r) /\ has'[d] = has[d]
    BY <2>1 DEF Forward, Types, client
  <2> QED BY <2>1, <2>2, <2>3 DEF EndOf, Piped, Flowing, Types
<1>1. 1 \in DOMAIN r /\ e = Head(r) /\ e \in Entry /\ e.seq \in Nat
  BY <1>0
<1>2. \/ new = q \o g /\ m = e.seq /\ e.seq > n
      \/ new = q /\ m = n /\ ~(e.seq > n)
  <2>1. \/ new = q \o g /\ lastSent'[d] = e.seq /\ e.seq > lastSent[d]
        \/ new = q /\ lastSent'[d] = lastSent[d] /\ ~(e.seq > lastSent[d])
    <3>1. s2c \in [Device -> Seq(ToClient)] /\ lastSent \in [Device -> Nat] /\ Head(rx[d]) = e
      BY <1>0, <1>1 DEF Types
    <3>2. IF e.seq > lastSent[d]
          THEN s2c' = [s2c EXCEPT ![d] = @ \o g] /\ lastSent' = [lastSent EXCEPT ![d] = e.seq]
          ELSE UNCHANGED <<s2c, lastSent>>
      BY <3>1 DEF Forward, Send, NotYetSent
    <3> HIDE DEF e, g
    <3> QED BY <3>1, <3>2
  <2> HIDE DEF q, new, e, g, n, m
  <2> QED BY <1>0, <2>1
<1>3. AfterAll(H, q) \subseteq AfterAll(H, new) /\ (e.seq > n => e.blob \in AfterAll(H, new))
  <2>1. CASE new = q \o g /\ m = e.seq /\ e.seq > n
    <3>1. g \in Seq(ToClient) /\ Len(g) = 1 /\ 1 \in DOMAIN g /\ g[1] = Update(e)
      BY <1>1, FrameTypes
    <3>2. Brings(g[1]) = {e.blob}
      BY <3>1 DEF Brings, Update
    <3> HIDE DEF g
    <3>3. new \in Seq(ToClient) /\ Longer(q, g, new)
      BY <1>0, <2>1, <3>1, Appended
    <3> HIDE DEF q, new, H
    <3>4. AfterAll(H, q) \subseteq AfterAll(H, new)
      BY <1>0, <3>1, <3>3, AfterSent
    <3>5. \A j \in DOMAIN g, k \in Nat : k >= Len(q) + j => Brings(g[j]) \subseteq After(H, new, k)
      BY <1>0, <3>1, <3>3, AfterSent
    <3>6. Len(new) \in Nat /\ Len(new) >= Len(q) + 1
      BY <1>0, <3>1, <3>3 DEF Longer
    <3>7. Brings(g[1]) \subseteq After(H, new, Len(new))
      BY <3>1, <3>5, <3>6
    <3> QED BY <3>2, <3>4, <3>7 DEF AfterAll
  <2>2. CASE new = q /\ m = n /\ ~(e.seq > n)
    BY <2>2
  <2> QED BY <1>2, <2>1, <2>2
<1>4. \A j \in DOMAIN Tail(r) : j \in Nat /\ j + 1 \in DOMAIN r /\ Tail(r)[j] = r[j + 1] /\ e.seq < r[j + 1].seq
  <2> TAKE j \in DOMAIN Tail(r)
  <2>1. j \in Nat /\ j + 1 \in DOMAIN r /\ Tail(r)[j] = r[j + 1] /\ 1 \in 1..((j + 1) - 1)
    BY <1>0
  <2> QED BY <2>1 DEF InOrderAt, Rising
<1>5. Len(Tail(r)) + 1 = Len(r) /\ Len(Tail(r)) \in Nat
  BY <1>0
<1> HIDE DEF q, new, H, r, e, n, m
<1>6. n <= m /\ m \in Nat /\ \A j \in DOMAIN Tail(r) : r[j + 1].seq > n => r[j + 1].seq > m
  BY <1>0, <1>1, <1>2, <1>4
<1>7. ASSUME NEW i \in 0..Len(Tail(r))
      PROVE  Gets(d, i + 1) \subseteq Gets(d, i)'
  <2> SUFFICES ASSUME NEW j \in 1..(i + 1), r[j].seq > n
               PROVE  r[j].blob \in AfterAll(H, new) \union Received(Tail(r), m, i)
    <3>1. Gets(d, i + 1) = Piped(d) \union {r[j].blob : j \in {j \in 1..(i + 1) : r[j].seq > n}}
      BY DEF Gets, Received, n, r
    <3>2. Gets(d, i)' = Piped(d)' \union Received(Tail(r), m, i)
      BY <1>0 DEF Gets, Received, m, r
    <3>3. Piped(d) \subseteq AfterAll(H, new) /\ AfterAll(H, new) \subseteq Piped(d)'
      BY <1>0, <1>3
    <3> QED BY <3>1, <3>2, <3>3
  <2>1. CASE j = 1
    BY <1>3, <2>1 DEF e, r
  <2>2. CASE j # 1
    <3> DEFINE k == j - 1
    <3>1. k \in 1..i /\ k \in DOMAIN Tail(r) /\ j = k + 1
      BY <1>0, <1>5, <2>2
    <3> HIDE DEF k
    <3>2. Tail(r)[k] = r[j] /\ r[j].seq > m
      BY <1>4, <1>6, <3>1
    <3> QED BY <3>1, <3>2 DEF Received
  <2> QED BY <2>1, <2>2
<1>8. /\ \A i \in DOMAIN r : r[i].seq > n => Covers(Gets(d, i), r[i].seq, hist, Retries)
      /\ Comes(Gets(d, Len(r)), hist, Retries, Pending)
  BY <1>0 DEF ReceiverAt, r, n
<1>9. \A i \in DOMAIN rx'[d] : rx'[d][i] \in hist
  BY <1>0, <1>4
<1>10. ASSUME NEW i \in DOMAIN rx'[d], rx'[d][i].seq > m
       PROVE  Covers(Gets(d, i)', rx'[d][i].seq, hist, Retries)
  <2> DEFINE k == i + 1
  <2>1. k \in DOMAIN r /\ rx'[d][i] = r[k] /\ r[k].seq \in Nat /\ i \in 0..Len(Tail(r))
    BY <1>0, <1>4, <1>5
  <2>2. r[k].seq > n
    BY <1>0, <1>6, <1>10, <2>1
  <2>3. Gets(d, k) \subseteq Gets(d, i)'
    BY <1>7, <2>1
  <2> HIDE DEF k
  <2>4. Covers(Gets(d, k), r[k].seq, hist, Retries)
    BY <1>8, <2>1, <2>2
  <2> QED BY <2>1, <2>3, <2>4, CoversMore
<1>11. Comes(Gets(d, Len(rx[d]))', hist, Retries, Pending)
  <2>1. PICK z \in 0..Len(Tail(r)) : z = Len(Tail(r))
    BY <1>5
  <2>2. Gets(d, z + 1) \subseteq Gets(d, z)' /\ z + 1 = Len(r)
    BY <1>5, <1>7, <2>1
  <2>3. Gets(d, Len(rx[d]))' = Gets(d, z)'
    BY <1>0, <2>1 DEF Gets
  <2> QED BY <1>8, <2>2, <2>3 DEF Comes
<1> QED
  BY <1>9, <1>10, <1>11, ReceiverMoves DEF m

\* What a task sends without its receiver is covered up to its end.
LEMMA PipedCovers ==
    ASSUME Delivery, Covered, NEW d \in Device, Flowing(d)
    PROVE  EndOf(d) \in Nat /\ Covers(Piped(d), EndOf(d), hist, Retries)
<1>0. /\ Types /\ LogShape /\ SentAt(d) /\ base \in Nat /\ lastSent[d] \in Nat
      /\ Covers(snapBlobs, base, hist, Retries) /\ serving[d] \in Snapshots
      /\ \A e \in hist : e.seq \in Nat
  BY DEF Delivery, Log, Types, Covered, ClientAt, Entry
<1>1. CASE pc[d] \in {"live", "ack", "fanout"}
  BY <1>0, <1>1 DEF SentAt, EndOf, Piped
<1>2. CASE pc[d] = "snapshot" /\ base = serving[d].seq
  <2> DEFINE log == serving[d].backlog
             m == base + Len(log)
  <2>1. /\ log \in Seq(Entry) /\ \A i \in DOMAIN log : log[i] \in hist /\ log[i].seq = base + i
        /\ EndOf(d) = m /\ m \in Nat /\ snapBlobs \subseteq Piped(d)
        /\ \A i \in DOMAIN log : log[i].blob \in Piped(d)
    BY <1>0, <1>2 DEF Delivery, Log, Served, ServedAt, EndOf, Piped, Snapshots
  <2>2. ASSUME NEW f \in hist, f.seq > base, f.seq <= m PROVE f.blob \in Piped(d)
    <3> DEFINE i == f.seq - base
    <3> HIDE DEF log
    <3>1. i \in DOMAIN log /\ f.seq = base + i
      BY <1>0, <2>1, <2>2
    <3> HIDE DEF i
    <3>2. log[i] \in hist /\ log[i].seq = f.seq
      BY <2>1, <3>1
    <3>3. log[i] = f
      BY <1>0, <2>2, <3>2 DEF LogShape
    <3> QED BY <2>1, <3>1, <3>3
  <2> HIDE DEF m
  <2>3. Covers(Piped(d), m, hist, Retries)
    BY <1>0, <2>1, <2>2, CoversOn
  <2> QED BY <2>1, <2>3
<1> QED
  BY <1>1, <1>2 DEF Flowing

\* A receiver that takes the lowest pending entry gets what comes before it too.
LEMMA ReceiverTakes ==
    ASSUME Delivery, Covered, Next, NEW d \in Device, NEW e \in Pending, e \in hist,
           Flowing(d), ~lagged[d], rx'[d] = Append(rx[d], e), Pending' = Pending \ {e},
           \A o \in Pending : o = e \/ e.seq < o.seq,
           EndOf(d)' = EndOf(d), Piped(d)' = Piped(d)
    PROVE  ReceiverAt(d)'
<1> DEFINE r == rx[d]
           new == rx'[d]
           n == EndOf(d)
<1>0. /\ r \in Seq(Entry) /\ Len(r) \in Nat /\ DOMAIN r = 1..Len(r) /\ ReceiverAt(d)
      /\ \A i \in DOMAIN r : r[i] \in hist
      /\ \A f \in hist : f.seq \in Nat
      /\ Pending \subseteq hist /\ n \in Nat /\ Covers(Piped(d), n, hist, Retries)
  <2>1. WiresAt(d) /\ r \in Seq(Entry) /\ hist \subseteq Entry /\ ReceiverAt(d)
    BY DEF Delivery, Log, Types, Bounds, BoundsAt, Covered
  <2>2. (\A i \in DOMAIN r : r[i] \in hist) /\ (\A f \in hist : f.seq \in Nat)
    BY <2>1 DEF WiresAt, Entry
  <2>3. Pending \subseteq hist
    BY PendingLogged
  <2>4. n \in Nat /\ Covers(Piped(d), n, hist, Retries)
    BY PipedCovers
  <2>5. Len(r) \in Nat /\ DOMAIN r = 1..Len(r)
    BY <2>1
  <2> QED BY <2>1, <2>2, <2>3, <2>4, <2>5
<1>1. /\ \A i \in DOMAIN r : r[i].seq > n => Covers(Gets(d, i), r[i].seq, hist, Retries)
      /\ Comes(Gets(d, Len(r)), hist, Retries, Pending)
  BY DEF ReceiverAt, Covered
<1>2. /\ DOMAIN new = 1..(Len(r) + 1) /\ Len(new) = Len(r) + 1
      /\ \A i \in DOMAIN r : new[i] = r[i]
      /\ new[Len(r) + 1] = e
  BY <1>0
<1> HIDE DEF new, r
<1>3. \A i \in DOMAIN r : Gets(d, i) \subseteq Gets(d, i)'
  <2> TAKE i \in DOMAIN r
  <2>1. \A j \in 1..i : new[j] = r[j]
    BY <1>0, <1>2
  <2> QED BY <2>1 DEF Gets, Received, r, new
<1>4. PICK z \in Nat : z = Len(r) + 1 /\ z \in DOMAIN new /\ z = Len(new) /\ z \notin DOMAIN r
  BY <1>0, <1>2
<1>5. Gets(d, Len(r)) \subseteq Gets(d, z)' /\ (e.seq > n => e.blob \in Gets(d, z)')
  <2>1. \A j \in 1..Len(r) : j \in 1..z /\ new[j] = r[j]
    BY <1>0, <1>2, <1>4
  <2>2. z \in 1..z /\ new[z] = e
    BY <1>2, <1>4
  <2> QED BY <2>1, <2>2 DEF Gets, Received, r, new, n
<1>6. ASSUME NEW i \in DOMAIN new, new[i].seq > n
      PROVE  Covers(Gets(d, i)', new[i].seq, hist, Retries)
  <2>1. CASE i \in DOMAIN r
    <3>1. Covers(Gets(d, i), new[i].seq, hist, Retries)
      BY <1>1, <1>2, <1>6, <2>1
    <3>2. Gets(d, i) \subseteq Gets(d, i)'
      BY <1>3, <2>1
    <3> QED BY <3>1, <3>2, CoversMore
  <2>2. CASE i \notin DOMAIN r
    <3>1. i = z /\ new[i] = e
      BY <1>0, <1>2, <1>4, <2>2
    <3> SUFFICES ASSUME NEW f \in hist, f.seq <= e.seq
                 PROVE  \/ f.blob \in Gets(d, i)' \union Retries
                        \/ \E x \in hist : x.blob = f.blob /\ x.seq > e.seq
      BY <3>1 DEF Covers
    <3>2. CASE f.blob \in Gets(d, Len(r)) \union Retries
      BY <1>5, <3>1, <3>2
    <3>3. CASE \E x \in Pending : x.blob = f.blob /\ x.seq >= f.seq
      <4>1. PICK x \in Pending : x.blob = f.blob
        BY <3>3
      <4>2. CASE x = e
        BY <1>5, <1>6, <3>1, <4>1, <4>2
      <4>3. CASE x # e
        BY <1>0, <4>1, <4>3
      <4> QED BY <4>2, <4>3
    <3> QED BY <1>1, <3>2, <3>3 DEF Comes
  <2> QED BY <2>1, <2>2
<1>7. Comes(Gets(d, z)', hist, Retries, Pending')
  <2> SUFFICES ASSUME NEW f \in hist
               PROVE  \/ f.blob \in Gets(d, z)' \union Retries
                      \/ \E x \in Pending' : x.blob = f.blob /\ x.seq >= f.seq
    BY DEF Comes
  <2>1. CASE f.blob \in Gets(d, Len(r)) \union Retries
    BY <1>5, <2>1
  <2>2. CASE \E x \in Pending : x # e /\ x.blob = f.blob /\ x.seq >= f.seq
    BY <2>2
  <2>3. CASE e.blob = f.blob /\ e.seq >= f.seq
    <3>1. CASE e.seq > n
      BY <1>5, <2>3, <3>1
    \* Its edit is had already, or logged again further on.
    <3>2. CASE ~(e.seq > n)
      <4>1. CASE e.blob \in Piped(d) \union Retries
        BY <1>5, <2>3, <4>1 DEF Gets
      <4>2. CASE \E x \in hist : x.blob = e.blob /\ x.seq > n
        <5>1. PICK x \in hist : x.blob = e.blob /\ x.seq > n
          BY <4>2
        <5>2. CASE x.blob \in Gets(d, Len(r)) \union Retries
          BY <1>5, <2>3, <5>1, <5>2
        <5>3. CASE \E y \in Pending : y.blob = x.blob /\ y.seq >= x.seq
          <6>1. PICK y \in Pending : y.blob = x.blob /\ y.seq >= x.seq
            BY <5>3
          <6>2. y # e /\ y.seq >= f.seq
            BY <1>0, <2>3, <3>2, <5>1, <6>1
          <6> QED BY <2>3, <5>1, <6>1, <6>2
        <5> QED BY <1>1, <5>1, <5>2, <5>3 DEF Comes
      <4>3. e.seq <= n
        BY <1>0, <3>2
      <4> QED BY <1>0, <4>1, <4>2, <4>3 DEF Covers
    <3> QED BY <3>1, <3>2
  <2> QED BY <1>1, <2>1, <2>2, <2>3 DEF Comes
<1>8. \A f \in Pending' : f \in Pending' \/ f.blob \in Retries'
  OBVIOUS
<1>9. \A i \in DOMAIN new : new[i] \in hist
  BY <1>0, <1>2
<1>10. Comes(Gets(d, Len(rx[d]))', hist, Retries, Pending')
  <2>1. Gets(d, Len(rx[d]))' = Gets(d, z)'
    BY <1>4 DEF Gets, new
  <2> QED BY <1>7, <2>1
<1> DEFINE P == Pending'
<1>11. \A f \in P : f \in Pending' \/ f.blob \in Retries'
  OBVIOUS
<1>12. Comes(Gets(d, Len(rx[d]))', hist, Retries, P)
  BY <1>10
<1> HIDE DEF P
<1> QED
  BY <1>6, <1>9, <1>11, <1>12, ReceiverMoves DEF new, n

\* A broadcast reaches every receiver that could tell.
LEMMA ReceiverTold ==
    ASSUME Delivery, Covered, Next, ~overtaken', LateFanout \/ (\E c \in Device : RelayFanout(c)),
           NEW d \in Device
    PROVE  ReceiverAt(d)'
<1>0. /\ Types /\ Bounds /\ ReceiverAt(d) /\ cast \in Casts
  BY DEF Delivery, Log, Types, Covered
<1>1. PICK e \in Pending :
         /\ Broadcast(e) /\ e \in hist /\ Pending' = Pending \ {e}
         /\ \A o \in Pending : o = e \/ e.seq < o.seq
  BY PendingBroadcast
<1>2. /\ rx'[d] = IF Subscribed(d) THEN Buffered(rx[d], e) ELSE rx[d]
      /\ lagged'[d] = (lagged[d] \/ Overflows(d))
      /\ UNCHANGED <<base, snapBlobs>>
  BY <1>0, <1>1, BroadcastIs
<1>3. /\ UNCHANGED <<lastSent, serving, s2c, has>>
      /\ pc'[d] = pc[d] \/ (pc[d] = "fanout" /\ pc'[d] = "live")
  <2>1. CASE LateFanout
    BY <2>1 DEF LateFanout, client
  <2>2. CASE \E c \in Device : RelayFanout(c)
    BY <1>0, <2>2 DEF RelayFanout, client, Types
  <2> QED BY <2>1, <2>2
<1>4. /\ EndOf(d)' = EndOf(d) /\ Piped(d)' = Piped(d)
      /\ Flowing(d)' => Flowing(d) /\ Subscribed(d)
  <2>1. CASE pc'[d] = pc[d]
    BY <1>2, <1>3, <2>1 DEF EndOf, Piped, Flowing, Subscribed
  <2>2. CASE pc[d] = "fanout" /\ pc'[d] = "live"
    BY <1>2, <1>3, <2>2 DEF EndOf, Piped, Flowing, Subscribed
  <2> QED BY <1>3, <2>1, <2>2
<1> SUFFICES ASSUME Flowing(d)', ~lagged'[d] PROVE ReceiverAt(d)'
  BY DEF ReceiverAt
<1>5. Flowing(d) /\ ~lagged[d] /\ rx'[d] = Append(rx[d], e)
  BY <1>2, <1>4 DEF Overflows, Buffered
<1> QED
  BY <1>1, <1>4, <1>5, ReceiverTakes

\* A device's own step, but for a broadcast.
LEMMA ReceiverStepped ==
    ASSUME Delivery, Parted, Covered, Next, ~overtaken, NEW d \in Device, StepOf(d), ~RelayFanout(d),
           \A f \in Pending : f \in Pending' \/ f.blob \in Retries'
    PROVE  ReceiverAt(d)'
<1>0. /\ Types /\ Log /\ ReceiverAt(d) /\ InOrderAt(d) /\ Covers(snapBlobs, base, hist, Retries)
      /\ s2c[d] \in Seq(ToClient)
  BY DEF Delivery, Log, Types, Covered
<1>1. CASE Connect(d) \/ SeeClose(d) \/ \E crash \in BOOLEAN : Drop(d, crash)
  <2>1. pc'[d] \in {"hello", "none"}
    BY <1>0, <1>1 DEF Connect, SeeClose, Drop, EndSession, EndTask, Types
  <2> QED BY <2>1 DEF ReceiverAt, Flowing
<1>2. CASE ReadBacklog(d) \/ Resync(d)
  <2>1. ClientAt(d)'
    BY ClientKept
  <2> QED BY <1>0, <1>2, <2>1, ReceiverServed
<1>3. CASE SendPart(d)
  BY <1>0, <1>3, ReceiverParts
<1>4. CASE Forward(d)
  BY <1>0, <1>4, ReceiverForwarded
<1>5. CASE RelayPush(d) \/ RelayCompact(d) \/ Push(d)
  <2>1. /\ UNCHANGED <<s2c, lastSent, serving, rx, lagged>> /\ has[d] \subseteq has'[d]
        /\ pc'[d] = pc[d] \/ (pc[d] \in {"live", "ack", "fanout"} /\ pc'[d] \in {"live", "ack", "fanout"})
    BY <1>0, <1>5 DEF RelayPush, RelayCompact, Push, Types, task, client
  <2>2. AfterAll(has[d], s2c[d]) \subseteq AfterAll(has'[d], s2c'[d])
    BY <2>1, HasGrows
  <2>3. Flowing(d)' => Flowing(d) /\ EndOf(d)' = EndOf(d) /\ Piped(d) \subseteq Piped(d)'
    BY <2>1, <2>2, FlowsOn
  <2> QED BY <1>0, <2>1, <2>3, ReceiverSteady
<1>6. CASE RelayAck(d)
  <2>1. PICK e \in owed[d] : Send(d, <<Ack(e.seq)>>)
    BY <1>6 DEF RelayAck
  <2>2. /\ s2c'[d] = s2c[d] \o <<Ack(e.seq)>> /\ UNCHANGED <<lastSent, serving, rx, lagged, has>>
        /\ pc[d] = "ack" /\ pc'[d] = "fanout"
    BY <1>0, <1>6, <2>1 DEF RelayAck, Send, Types, client
  <2>3. <<Ack(e.seq)>> \in Seq(ToClient)
    <3>1. e \in Entry
      BY <1>0, <2>1 DEF Types
    <3>2. Ack(e.seq) \in ToClient
      BY <3>1, FrameTypes DEF Entry
    <3> QED BY <3>2
  <2>4. AfterAll(has[d], s2c[d]) \subseteq AfterAll(has'[d], s2c'[d])
    <3> DEFINE g == <<Ack(e.seq)>>
    <3> HIDE DEF g
    <3>1. g \in Seq(ToClient) /\ s2c'[d] = s2c[d] \o g
      BY <2>2, <2>3 DEF g
    <3>2. s2c'[d] \in Seq(ToClient) /\ Longer(s2c[d], g, s2c'[d])
      BY <1>0, <3>1, Appended
    <3>3. AfterAll(has[d], s2c[d]) \subseteq AfterAll(has[d], s2c'[d])
      BY <1>0, <3>1, <3>2, AfterSent
    <3> QED BY <2>2, <3>3
  <2>5. Flowing(d)' => Flowing(d) /\ EndOf(d)' = EndOf(d) /\ Piped(d) \subseteq Piped(d)'
    BY <2>2, <2>4, FlowsOn
  <2> QED BY <1>0, <2>2, <2>5, ReceiverSteady
<1>7. CASE OnWelcome(d) \/ OnAck(d) \/ OnUpdate(d) \/ OnPart(d)
  <2>1. UNCHANGED <<pc, lastSent, serving, rx, lagged>>
    BY <1>0, <1>7, ReadIs DEF task
  <2>2. AfterAll(has[d], s2c[d]) \subseteq AfterAll(has'[d], s2c'[d])
    BY <1>7, ReadKeeps
  <2>3. Flowing(d)' => Flowing(d) /\ EndOf(d)' = EndOf(d) /\ Piped(d) \subseteq Piped(d)'
    BY <2>1, <2>2, FlowsOn
  <2> QED BY <1>0, <2>1, <2>3, ReceiverSteady
<1> QED
  BY <1>1, <1>2, <1>3, <1>4, <1>5, <1>6, <1>7 DEF StepOf, RelayStep, ClientStep

LEMMA ReceiverKept ==
    ASSUME Delivery, Parted, Covered, Next, ~overtaken, ~overtaken'
    PROVE  \A d \in Device : ReceiverAt(d)'
<1>0. Types /\ \A c \in Device : ReceiverAt(c)
  BY DEF Delivery, Log, Covered
<1>1. CASE LateFanout \/ \E d \in Device : RelayFanout(d)
  BY <1>1, ReceiverTold
<1>2. ASSUME NEW d \in Device, StepOf(d), ~RelayFanout(d)
      PROVE  \A c \in Device : ReceiverAt(c)'
  <2>1. \A f \in Pending : f \in Pending' \/ f.blob \in Retries'
    BY <1>2, PendingSteady
  <2>2. ReceiverAt(d)'
    BY <1>2, <2>1, ReceiverStepped
  <2>3. ASSUME NEW c \in Device \ {d} PROVE ReceiverAt(c)'
    <3>1. Local(c)' = Local(c) /\ rx'[c] = rx[c] /\ lagged'[c] = lagged[c]
      BY <1>0, <1>2, <2>3, Locality
    <3>2. /\ has'[c] = has[c] /\ s2c'[c] = s2c[c] /\ lastSent'[c] = lastSent[c]
          /\ pc'[c] = pc[c] /\ serving'[c] = serving[c]
      BY <3>1 DEF Local
    <3>3. Flowing(c)' => Flowing(c) /\ EndOf(c)' = EndOf(c) /\ Piped(c) \subseteq Piped(c)'
      BY <3>2, FlowsOn
    <3>4. ReceiverAt(c)
      BY <1>0, <2>3
    <3> QED BY <2>1, <3>1, <3>3, <3>4, ReceiverSteady
  <2> QED BY <2>2, <2>3
<1> QED
  BY <1>1, <1>2 DEF Next, StepOf

-----------------------------------------------------------------------------
(* The invariant                                                            *)

LEMMA CoveredKept ==
    ASSUME Delivery, Parted, Covered, Next, ~overtaken, ~overtaken'
    PROVE  Covered'
<1>1. Covers(snapBlobs, base, hist, Retries)'
  BY BaseCovered
<1>2. \A d \in Device : ClientAt(d)'
  BY ClientKept
<1>3. \A d \in Device : InOrderAt(d)'
  BY InOrderKept
<1>4. \A d \in Device : ReceiverAt(d)'
  BY ReceiverKept
<1> QED
  BY <1>1, <1>2, <1>3, <1>4 DEF Covered

LEMMA OvertakenStays ==
    ASSUME Next, overtaken
    PROVE  overtaken'
BY DEF Next, RelayStep, ClientStep, Connect, ReadBacklog, Resync, SendPart, Forward, RelayPush,
       RelayAck, RelayFanout, RelayCompact, OnWelcome, OnAck, OnUpdate, OnPart, SeeClose, Push,
       Drop, LateFanout, Consume, Broadcast, relayLog

LEMMA CoverageInit ==
    ASSUME Init
    PROVE  FInv
<1>1. Delivery
  BY DeliveryInit
<1>2. Parted
  BY DEF Init, Parted, PartedAt, TrackersAt, PartsAt, ServingAt
<1>3. Covers(snapBlobs, base, hist, Retries)
  BY DEF Init, Covers
<1>4. \A d \in Device : ClientAt(d)
  BY DEF Init, ClientAt, CursorAt, OffersAt, FramesAt, SentAt, Covers
<1>5. \A d \in Device : InOrderAt(d)
  BY DEF Init, InOrderAt, Rising
<1>6. \A d \in Device : ReceiverAt(d)
  BY DEF Init, ReceiverAt, Flowing
<1> QED
  BY <1>1, <1>2, <1>3, <1>4, <1>5, <1>6 DEF FInv, Covered

LEMMA CoverageKept ==
    ASSUME FInv, [Next]_vars
    PROVE  FInv'
<1>1. CASE Next
  <2>1. Delivery' /\ Parted'
    BY <1>1, DeliveryKept, PartedKept DEF FInv
  <2>2. CASE overtaken'
    BY <2>1, <2>2 DEF FInv
  <2>3. CASE ~overtaken'
    <3>1. ~overtaken /\ Covered
      BY <1>1, <2>3, OvertakenStays DEF FInv
    <3> QED BY <1>1, <2>1, <2>3, <3>1, CoveredKept DEF FInv
  <2> QED BY <2>2, <2>3
<1>2. CASE UNCHANGED vars
  <2> USE <1>2 DEF vars, relayLog, task, client
  <2>1. Delivery'
    BY DeliveryKept DEF FInv
  <2>2. Parted => Parted'
    <3>1. Blobs' = Blobs
      BY DEF Blobs, Pushers, MaxBlobs
    <3>2. \A d \in Device : ServingAt(d) => ServingAt(d)'
      BY DEF ServingAt, AfterAll, After, InParts
    <3> QED BY <3>2 DEF Parted, PartedAt, TrackersAt, PartsAt, InParts
  <2>3. Covered => Covered'
    <3>1. Retries' = Retries /\ Pending' = Pending
      BY DEF Retries, Pending, Blobs, Pushers, MaxBlobs
    <3>2. \A d \in Device : ClientAt(d) => ClientAt(d)'
      BY <3>1 DEF ClientAt, CursorAt, OffersAt, FramesAt, SentAt, Completes, AfterAll
    <3>3. \A d \in Device : InOrderAt(d) => InOrderAt(d)'
      BY <3>1 DEF InOrderAt
    <3>4. \A d \in Device : ReceiverAt(d) => ReceiverAt(d)'
      <4>1. \A d \in Device : Piped(d)' = Piped(d) /\ EndOf(d)' = EndOf(d) /\ Flowing(d)' = Flowing(d)
        BY DEF Piped, EndOf, Flowing
      <4>2. \A d \in Device : \A i : Gets(d, i)' = Gets(d, i)
        BY <4>1 DEF Gets
      <4>3. rx' = rx /\ hist' = hist /\ lagged' = lagged
        OBVIOUS
      <4> QED BY ONLY <3>1, <4>1, <4>2, <4>3 DEF ReceiverAt
    <3> QED BY <3>1, <3>2, <3>3, <3>4 DEF Covered
  <2> QED BY <2>1, <2>2, <2>3 DEF FInv
<1> QED
  BY <1>1, <1>2

\* In every reachable state whoever gets to a position that a device, an offer,
\* a frame sent or a receiver holds has what it passes, unless a broadcast was
\* overtaken (the loop of `connection` against on_server_msg).
THEOREM CoverageAlways == Spec => []FInv
BY CoverageInit, CoverageKept, PTL DEF Spec

\* An edit that is pushed again is still coming.
LEMMA CoversComing ==
    ASSUME NEW H, NEW n, Covers(H, n, hist, Retries), NEW e \in hist, e.seq <= n
    PROVE  e.blob \in H \/ StillComing(e.blob, n)
BY DEF Covers, StillComing, Retries

\* A device's cursor, persisted and never lowered, passes no edit that the
\* device does not have or that is not still coming to it: on_server_msg moves
\* it only over what it applied, through every interleaving of pushes, acks,
\* broadcasts, overflows, snapshots in parts, compactions, disconnects and
\* crashes in which no broadcast overtakes an earlier entry's.
THEOREM CursorsCover == Spec => []CursorCovers
<1>1. FInv => CursorCovers
  BY CoversComing DEF FInv, Covered, ClientAt, CursorAt, CursorCovers
<1> QED
  BY <1>1, CoverageAlways, PTL

\* The snapshot that the relay compacted the log into holds every edit that it
\* forgot, or the edit is still coming to whoever loads it: a device offers its
\* documents only up to its cursor, and the relay keeps its tail.
THEOREM SnapshotsCover == Spec => []SnapshotCovers
<1>1. FInv => SnapshotCovers
  BY CoversComing DEF FInv, Covered, SnapshotCovers
<1> QED
  BY <1>1, CoverageAlways, PTL
=============================================================================
