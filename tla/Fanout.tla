------------------------------- MODULE Fanout -------------------------------
(***************************************************************************)
(* One vault's live connections at the relay and the cursors of its devices *)
(* (crates/tacitus-relay/src/main.rs `connection`, hub.rs, and the update   *)
(* stream half of crates/tacitus-sync/src/engine.rs `on_server_msg`).       *)
(*                                                                          *)
(* The relay runs one task per connection.  A push is appended under the    *)
(* vault's log mutex, but the ack and the broadcast to every connection     *)
(* come after the mutex is released, so the tasks of two pushers interleave *)
(* between the three.  A device takes any update above its cursor and moves *)
(* the cursor to it: it never looks for a gap.                              *)
(*                                                                          *)
(* The log itself is DurableLog's state: VaultLog shows that the files      *)
(* implement it.  Every client here speaks compact and compact2.            *)
(*                                                                          *)
(* A definition marked "mutant" is used by nothing: it is the slip that the *)
(* definition after it could have, and that one of the properties notices.  *)
(***************************************************************************)
EXTENDS Naturals, Sequences, FiniteSets, SequencesExt

CONSTANTS
    Device,     \* the vault's devices
    Casts,      \* the instances to explore, see FanoutAssumption
    MaxDrops,   \* bound: disconnects and crashes, over all devices
    Parts       \* parts of a snapshot

\* A cast says which devices are online, which of them push edits, which may
\* lose their connection or process, how many edits each pusher makes (a bound)
\* and the capacity of the broadcast channel (256 in hub.rs).
ASSUME FanoutAssumption ==
    /\ Casts \subseteq [online : SUBSET Device, pushers : SUBSET Device,
                       droppers : SUBSET Device, blobs : Nat, cap : Nat \ {0}]
    /\ \A c \in Casts : c.pushers \cup c.droppers \subseteq c.online
    /\ MaxDrops \in Nat
    /\ Parts \in Nat \ {0}

VARIABLES
    \* the relay's log
    base, top, entries,
    snapBlobs,  \* what the stored snapshot's ciphertext holds
    \* the relay's task for each device's connection
    pc,         \* where the task is
    lastSent,   \* last_sent
    rx,         \* its receiver of the broadcast channel
    lagged,     \* the receiver lost entries: the next recv is Lagged
    owed,       \* the entry it has appended and not broadcast yet, if any
    serving,    \* the snapshot it serves: its seq, the next part, the backlog behind
    late,       \* broadcasts still owed by tasks whose client is gone
    \* the wire, a FIFO each way
    c2s, s2c,
    \* the devices
    session,    \* the client's side of the connection is open
    cursor,     \* last_seq, persisted
    has,        \* the blobs whose edits the device's documents contain
    tracker,    \* PartTracker: {} or the set in progress
    made,       \* how many edits the device has made
    unacked,    \* its last edit is in the outbox
    inFlight,   \* ... and was pushed on this connection
    goal,       \* Welcome's latest_seq, if this session has seen it
    caughtUp,
    drops,
    cast,       \* the instance, chosen at the start
    \* history, read by no action's guard
    hist,       \* every entry ever logged
    overtaken   \* an entry was broadcast while an earlier one still had to be

relayLog == <<base, top, entries, snapBlobs, hist, overtaken>>
task == <<pc, lastSent, rx, lagged, owed, serving, late>>
client == <<session, cursor, has, tracker, made, unacked, inFlight, goal, caughtUp>>
vars == <<relayLog, task, c2s, s2c, client, drops, cast>>

Online == cast.online
Pushers == cast.pushers
Droppers == cast.droppers
MaxBlobs == cast.blobs
Cap == cast.cap

NoSnapshot == [seq |-> 0, next |-> 0, backlog |-> <<>>]

-----------------------------------------------------------------------------
Init ==
    /\ base = 0 /\ top = 0 /\ entries = {} /\ snapBlobs = {}
    /\ hist = {} /\ overtaken = FALSE
    /\ pc = [d \in Device |-> "none"]
    /\ lastSent = [d \in Device |-> 0]
    /\ rx = [d \in Device |-> <<>>]
    /\ lagged = [d \in Device |-> FALSE]
    /\ owed = [d \in Device |-> {}]
    /\ serving = [d \in Device |-> NoSnapshot]
    /\ late = {}
    /\ c2s = [d \in Device |-> <<>>]
    /\ s2c = [d \in Device |-> <<>>]
    /\ session = [d \in Device |-> FALSE]
    /\ cursor = [d \in Device |-> 0]
    /\ has = [d \in Device |-> {}]
    /\ tracker = [d \in Device |-> {}]
    /\ made = [d \in Device |-> 0]
    /\ unacked = [d \in Device |-> FALSE]
    /\ inFlight = [d \in Device |-> FALSE]
    /\ goal = [d \in Device |-> {}]
    /\ caughtUp = [d \in Device |-> FALSE]
    /\ drops = 0
    /\ cast \in Casts

-----------------------------------------------------------------------------
(* Frames and what they carry.                                              *)

Welcome(latest) == [kind |-> "welcome", latest |-> latest]
Update(e) == [kind |-> "update", seq |-> e.seq, blob |-> e.blob]
Ack(seq) == [kind |-> "ack", seq |-> seq]
Part(upto, idx, blobs) == [kind |-> "part", upto |-> upto, idx |-> idx, blobs |-> blobs]
PushFrame(b) == [kind |-> "push", blob |-> b]
CompactFrame(upto, blobs) == [kind |-> "compact", upto |-> upto, blobs |-> blobs]

\* read_since: the tail above a seq, in the log's order.
ReadSince(seq) ==
    LET tail == {e \in entries : e.seq > seq}
        place(e) == Cardinality({f \in tail : f.seq <= e.seq})
    IN  [i \in 1..Cardinality(tail) |-> CHOOSE e \in tail : place(e) = i]

Updates(es) == [i \in DOMAIN es |-> Update(es[i])]

\* Documents are packed into parts: which part holds a blob's documents.
PartOf(b) == 1 + (b.n % Parts)

Send(d, frames) == s2c' = [s2c EXCEPT ![d] = @ \o frames]

-----------------------------------------------------------------------------
(* The relay's task: hello, backlog, and the loop.                          *)

\* A client connects and says hello; the task subscribes before it reads the log.
Connect(d) ==
    /\ d \in Online
    /\ ~session[d]
    /\ pc[d] = "none"
    /\ session' = [session EXCEPT ![d] = TRUE]
    /\ goal' = [goal EXCEPT ![d] = {}]
    /\ caughtUp' = [caughtUp EXCEPT ![d] = FALSE]
    /\ pc' = [pc EXCEPT ![d] = "hello"]
    /\ lastSent' = [lastSent EXCEPT ![d] = cursor[d]]
    /\ UNCHANGED <<relayLog, rx, lagged, owed, serving, late, c2s, s2c, cursor,
                   has, tracker, made, unacked, inFlight, drops, cast>>

LastOf(es, else) == IF es = <<>> THEN else ELSE Last(es).seq

\* Hello's and Lagged's common part, under one lock: a client below the
\* snapshot will get its parts and then the tail; another gets the tail now.
ServeFrom(d, greeting) ==
    IF lastSent[d] < base
    THEN /\ serving' = [serving EXCEPT ![d] =
                [seq |-> base, next |-> 1, backlog |-> ReadSince(base)]]
         /\ pc' = [pc EXCEPT ![d] = "snapshot"]
         /\ Send(d, greeting)
         /\ UNCHANGED lastSent
    ELSE /\ LET tail == ReadSince(lastSent[d])
            IN  /\ Send(d, greeting \o Updates(tail))
                /\ lastSent' = [lastSent EXCEPT ![d] = LastOf(tail, @)]
         /\ pc' = [pc EXCEPT ![d] = "live"]
         /\ UNCHANGED serving

ReadBacklog(d) ==
    /\ pc[d] = "hello"
    /\ ServeFrom(d, <<Welcome(top)>>)
    /\ UNCHANGED <<relayLog, rx, lagged, owed, late, c2s, client, drops, cast>>

\* The receiver overflowed: resync from the log.
Resync(d) ==
    /\ pc[d] = "live"
    /\ lagged[d]
    /\ lagged' = [lagged EXCEPT ![d] = FALSE]
    /\ ServeFrom(d, <<>>)
    /\ UNCHANGED <<relayLog, rx, owed, late, c2s, client, drops, cast>>

\* The task returns; its receiver goes with it.
EndTask(d, state) ==
    /\ pc' = [pc EXCEPT ![d] = state]
    /\ rx' = [rx EXCEPT ![d] = <<>>]
    /\ lagged' = [lagged EXCEPT ![d] = FALSE]
    /\ serving' = [serving EXCEPT ![d] = NoSnapshot]

SnapshotStillThere(d) == base = serving[d].seq

\* send_snapshot: one part per lock; a newer snapshot closes the connection.
SendPart(d) ==
    /\ pc[d] = "snapshot"
    /\ LET at == serving[d]
           part == Part(at.seq, at.next, {b \in snapBlobs : PartOf(b) = at.next})
       IN  \/ /\ SnapshotStillThere(d)
              /\ at.next < Parts
              /\ Send(d, <<part>>)
              /\ serving' = [serving EXCEPT ![d].next = @ + 1]
              /\ UNCHANGED <<pc, lastSent, rx, lagged>>
           \/ /\ SnapshotStillThere(d)
              /\ at.next = Parts
              /\ Send(d, <<part>> \o Updates(at.backlog))
              /\ serving' = [serving EXCEPT ![d] = NoSnapshot]
              /\ lastSent' = [lastSent EXCEPT ![d] = LastOf(at.backlog, at.seq)]
              /\ pc' = [pc EXCEPT ![d] = "live"]
              /\ UNCHANGED <<rx, lagged>>
           \/ /\ ~SnapshotStillThere(d)
              /\ EndTask(d, "closed")
              /\ UNCHANGED <<lastSent, s2c>>
    /\ UNCHANGED <<relayLog, owed, late, c2s, client, drops, cast>>

\* mutant: an update the backlog already had is forwarded too.
Unseen(d, e) == TRUE
NotYetSent(d, e) == e.seq > lastSent[d]

\* The receiver yields an update; what the backlog already had is skipped.
Forward(d) ==
    /\ pc[d] = "live"
    /\ ~lagged[d]
    /\ rx[d] # <<>>
    /\ rx' = [rx EXCEPT ![d] = Tail(@)]
    /\ LET e == Head(rx[d])
       IN  IF NotYetSent(d, e)
           THEN /\ Send(d, <<Update(e)>>)
                /\ lastSent' = [lastSent EXCEPT ![d] = e.seq]
           ELSE UNCHANGED <<s2c, lastSent>>
    /\ UNCHANGED <<relayLog, pc, lagged, owed, serving, late, c2s, client, drops, cast>>

\* A push is appended under the log's mutex, which is then released ...
RelayPush(d) ==
    /\ pc[d] = "live"
    /\ c2s[d] # <<>>
    /\ Head(c2s[d]).kind = "push"
    /\ LET e == [seq |-> top + 1, blob |-> Head(c2s[d]).blob]
       IN  /\ entries' = entries \cup {e}
           /\ hist' = hist \cup {e}
           /\ owed' = [owed EXCEPT ![d] = {e}]
    /\ top' = top + 1
    /\ c2s' = [c2s EXCEPT ![d] = Tail(@)]
    /\ pc' = [pc EXCEPT ![d] = "ack"]
    /\ UNCHANGED <<base, snapBlobs, overtaken, lastSent, rx, lagged, serving,
                   late, s2c, client, drops, cast>>

\* ... then acked ...
RelayAck(d) ==
    /\ pc[d] = "ack"
    /\ \E e \in owed[d] : Send(d, <<Ack(e.seq)>>)
    /\ pc' = [pc EXCEPT ![d] = "fanout"]
    /\ UNCHANGED <<relayLog, lastSent, rx, lagged, owed, serving, late, c2s, client, drops, cast>>

\* mutant: the task subscribes once the backlog is served.
SubscribedLast(d) == pc[d] \in {"live", "ack", "fanout"}
\* Who the broadcast reaches: every task that has subscribed, the pusher's own.
Subscribed(d) == pc[d] \in {"hello", "snapshot", "live", "ack", "fanout"}

\* mutant: an overflow goes unnoticed.
OverflowSilently(d) == FALSE
Overflows(d) == Subscribed(d) /\ Len(rx[d]) = Cap

\* mutant: the channel has no capacity.
Grown(q, e) == Append(q, e)
\* A full receiver loses its oldest entry.
Buffered(q, e) == IF Len(q) = Cap THEN Append(Tail(q), e) ELSE Append(q, e)

\* hub.tx.send.
Broadcast(e) ==
    /\ rx' = [d \in Device |-> IF Subscribed(d) THEN Buffered(rx[d], e) ELSE rx[d]]
    /\ lagged' = [d \in Device |-> lagged[d] \/ Overflows(d)]
    /\ overtaken' = (overtaken \/ \E o \in late \cup UNION Range(owed) : o.seq < e.seq)
    /\ UNCHANGED <<base, top, entries, snapBlobs, hist>>

\* ... then broadcast to every connection.
RelayFanout(d) ==
    /\ pc[d] = "fanout"
    /\ \E e \in owed[d] : Broadcast(e)
    /\ owed' = [owed EXCEPT ![d] = {}]
    /\ pc' = [pc EXCEPT ![d] = "live"]
    /\ UNCHANGED <<lastSent, serving, late, c2s, s2c, client, drops, cast>>

\* The task of a client that is gone still gets to its broadcast.
LateFanout ==
    /\ \E e \in late : Broadcast(e) /\ late' = late \ {e}
    /\ UNCHANGED <<pc, lastSent, owed, serving, c2s, s2c, client, drops, cast>>

\* A compaction offer; a stale one is refused and changes nothing.
RelayCompact(d) ==
    /\ pc[d] = "live"
    /\ c2s[d] # <<>>
    /\ Head(c2s[d]).kind = "compact"
    /\ LET offer == Head(c2s[d])
       IN  IF base < offer.upto /\ offer.upto <= top
           THEN /\ base' = offer.upto
                /\ snapBlobs' = offer.blobs
                /\ entries' = {e \in entries : e.seq > offer.upto}
           ELSE UNCHANGED <<base, snapBlobs, entries>>
    /\ c2s' = [c2s EXCEPT ![d] = Tail(@)]
    /\ UNCHANGED <<top, hist, overtaken, task, s2c, client, drops, cast>>

-----------------------------------------------------------------------------
(* The device                                                               *)

\* tick_scan made an edit durable and pushes it; or, after a reconnect, the
\* Welcome makes the unacked one go out again.
Push(d) ==
    /\ d \in Pushers
    /\ session[d]
    /\ goal[d] # {}
    /\ ~inFlight[d]
    /\ unacked[d] \/ made[d] < MaxBlobs
    /\ LET n == IF unacked[d] THEN made[d] ELSE made[d] + 1
           b == [dev |-> d, n |-> n]
       IN  /\ made' = [made EXCEPT ![d] = n]
           /\ has' = [has EXCEPT ![d] = @ \cup {b}]
           /\ c2s' = [c2s EXCEPT ![d] = Append(@, PushFrame(b))]
    /\ unacked' = [unacked EXCEPT ![d] = TRUE]
    /\ inFlight' = [inFlight EXCEPT ![d] = TRUE]
    /\ UNCHANGED <<relayLog, task, s2c, session, cursor, tracker, goal, caughtUp, drops, cast>>

\* After each frame: the first time nothing is unacked and the cursor has
\* reached Welcome's latest_seq the device is caught up, and may then offer
\* its documents as a snapshot up to its cursor.
AfterFrame(d) ==
    IF ~caughtUp[d] /\ ~unacked'[d] /\ \E g \in goal'[d] : cursor'[d] >= g
    THEN /\ caughtUp' = [caughtUp EXCEPT ![d] = TRUE]
         /\ \/ UNCHANGED c2s
            \/ /\ cursor'[d] > 0
               /\ c2s' = [c2s EXCEPT ![d] = Append(@, CompactFrame(cursor'[d], has'[d]))]
    ELSE UNCHANGED <<caughtUp, c2s>>

Frame(d, kind) == session[d] /\ s2c[d] # <<>> /\ Head(s2c[d]).kind = kind

Consume(d) ==
    /\ s2c' = [s2c EXCEPT ![d] = Tail(@)]
    /\ AfterFrame(d)
    /\ UNCHANGED <<relayLog, task, session, made, drops, cast>>

OnWelcome(d) ==
    /\ Frame(d, "welcome")
    /\ goal' = [goal EXCEPT ![d] = {Head(s2c[d]).latest}]
    /\ UNCHANGED <<cursor, has, tracker, unacked, inFlight>>
    /\ Consume(d)

\* The oldest outbox entry is acked; the cursor does not move.
OnAck(d) ==
    /\ Frame(d, "ack")
    /\ unacked' = [unacked EXCEPT ![d] = FALSE]
    /\ inFlight' = [inFlight EXCEPT ![d] = FALSE]
    /\ UNCHANGED <<cursor, has, tracker, goal>>
    /\ Consume(d)

AboveCursor(d, seq) == seq > cursor[d]

OnUpdate(d) ==
    /\ Frame(d, "update")
    /\ LET u == Head(s2c[d])
       IN  IF AboveCursor(d, u.seq)
           THEN /\ has' = [has EXCEPT ![d] = @ \cup {u.blob}]
                /\ cursor' = [cursor EXCEPT ![d] = u.seq]
           ELSE UNCHANGED <<has, cursor>>
    /\ UNCHANGED <<tracker, unacked, inFlight, goal>>
    /\ Consume(d)

\* mutant: any part moves the cursor.
PartIn(seen) == seen # {}
AllPartsIn(seen) == Cardinality(seen) = Parts

\* Parts apply at once; the cursor moves when one complete set has been seen.
OnPart(d) ==
    /\ Frame(d, "part")
    /\ LET part == Head(s2c[d])
           before == UNION {t.seen : t \in {t \in tracker[d] : t.upto = part.upto}}
           seen == before \cup {part.idx}
       IN  IF part.upto > cursor[d]
           THEN /\ has' = [has EXCEPT ![d] = @ \cup part.blobs]
                /\ IF AllPartsIn(seen)
                   THEN /\ cursor' = [cursor EXCEPT ![d] = part.upto]
                        /\ tracker' = [tracker EXCEPT ![d] = {}]
                   ELSE /\ tracker' = [tracker EXCEPT ![d] = {[upto |-> part.upto, seen |-> seen]}]
                        /\ UNCHANGED cursor
           ELSE UNCHANGED <<has, cursor, tracker>>
    /\ UNCHANGED <<unacked, inFlight, goal>>
    /\ Consume(d)

-----------------------------------------------------------------------------
(* Connections end                                                          *)

\* A push that was not acked counts as unsent on the next connection.
EndSession(d) ==
    /\ session' = [session EXCEPT ![d] = FALSE]
    /\ inFlight' = [inFlight EXCEPT ![d] = FALSE]
    /\ c2s' = [c2s EXCEPT ![d] = <<>>]
    /\ s2c' = [s2c EXCEPT ![d] = <<>>]
    /\ EndTask(d, "none")

\* The relay closed: the client reads what was sent, then the end.
SeeClose(d) ==
    /\ session[d]
    /\ pc[d] = "closed"
    /\ s2c[d] = <<>>
    /\ EndSession(d)
    /\ UNCHANGED <<relayLog, lastSent, owed, late, cursor, has, tracker, made,
                   unacked, goal, caughtUp, drops, cast>>

\* The connection dies.  A task about to ack fails at the send and skips the
\* broadcast, unless the socket's buffer takes the ack; one past the ack goes on.
Drop(d, crash) ==
    /\ d \in Droppers
    /\ session[d]
    /\ drops < MaxDrops
    /\ drops' = drops + 1
    /\ EndSession(d)
    /\ \/ late' = late \cup owed[d]
       \/ pc[d] = "ack" /\ UNCHANGED late
    /\ owed' = [owed EXCEPT ![d] = {}]
    /\ tracker' = IF crash THEN [tracker EXCEPT ![d] = {}] ELSE tracker
    /\ UNCHANGED <<relayLog, lastSent, cursor, has, made, unacked, goal, caughtUp, cast>>

-----------------------------------------------------------------------------
RelayStep(d) ==
    \/ ReadBacklog(d) \/ Resync(d) \/ SendPart(d) \/ Forward(d)
    \/ RelayPush(d) \/ RelayAck(d) \/ RelayFanout(d) \/ RelayCompact(d)

ClientStep(d) ==
    \/ OnWelcome(d) \/ OnAck(d) \/ OnUpdate(d) \/ OnPart(d) \/ SeeClose(d)

Next ==
    \/ \E d \in Device : Connect(d)
    \/ \E d \in Device : RelayStep(d)
    \/ \E d \in Device : ClientStep(d)
    \/ \E d \in Device : Push(d)
    \/ \E d \in Device, crash \in BOOLEAN : Drop(d, crash)
    \/ LateFanout

\* Tasks run, sockets deliver and clients reconnect; nobody has to edit.
Fairness ==
    /\ \A d \in Device :
          /\ WF_vars(Connect(d))
          /\ WF_vars(RelayStep(d))
          /\ WF_vars(ClientStep(d))
          /\ WF_vars(Push(d) /\ unacked[d])
    /\ WF_vars(LateFanout)

Spec == Init /\ [][Next]_vars

FairSpec == Spec /\ Fairness

-----------------------------------------------------------------------------
(* Properties                                                               *)

Blobs == [dev : Pushers, n : 1..MaxBlobs]
Entry == [seq : Nat, blob : Blobs]

TypeOK ==
    /\ base \in Nat /\ top \in Nat /\ base <= top
    /\ entries \subseteq hist /\ hist \subseteq Entry
    /\ snapBlobs \subseteq Blobs
    /\ pc \in [Device -> {"none", "hello", "snapshot", "live", "ack", "fanout", "closed"}]
    /\ lastSent \in [Device -> Nat] /\ cursor \in [Device -> Nat]
    /\ \A d \in Device : Len(rx[d]) <= Cap /\ Range(rx[d]) \subseteq Entry
    /\ \A d \in Device : owed[d] \subseteq Entry /\ has[d] \subseteq Blobs
    /\ lagged \in [Device -> BOOLEAN] /\ session \in [Device -> BOOLEAN]
    /\ late \subseteq Entry
    /\ \A d \in Device : Cardinality(tracker[d]) <= 1 /\ Cardinality(goal[d]) <= 1

\* An edit that is logged and acked will still come to whoever is at seq n: it
\* is not acked, so its device pushes it again, or an entry above n has it.
StillComing(b, n) ==
    \/ unacked[b.dev] /\ b.n = made[b.dev]
    \/ \E f \in hist : f.blob = b /\ f.seq > n

\* A device whose cursor is n has the edits of every entry up to n: the cursor
\* "advances solely through Updates" so as not to "skip other devices' updates"
\* (engine.rs on_server_msg).  Anything skipped is never asked for again.  An
\* entry that was never broadcast because its ack could not be sent is skipped,
\* but pushed again.  The one thing that breaks this is a broadcast overtaken by
\* a later entry's.
CursorCovers ==
    overtaken \/ \A d \in Device : \A e \in hist :
        e.seq <= cursor[d] => e.blob \in has[d] \/ StillComing(e.blob, cursor[d])

\* What compaction forgets the snapshot holds: no device, present or future,
\* loses an edit to a compaction.
SnapshotCovers ==
    overtaken \/ \A e \in hist :
        e.seq <= base => e.blob \in snapBlobs \/ StillComing(e.blob, base)

\* What the relay still has on its way to a client only goes up from the
\* client's cursor, although the backlog and the broadcasts overlap: no entry
\* is sent twice and none behind a later one.
StreamOrdered ==
    \A d \in Device : \A i \in DOMAIN s2c[d] : s2c[d][i].kind = "update" =>
        /\ cursor[d] < s2c[d][i].seq /\ s2c[d][i].seq <= lastSent[d]
        /\ \A j \in 1..(i - 1) :
               s2c[d][j].kind = "update" => s2c[d][j].seq < s2c[d][i].seq

\* "Caught up = our docs cover the whole log - the moment a compaction snapshot
\* is honest" (live.rs): whatever a device offers as the snapshot up to a seq
\* has the edits of every entry up to that seq.
OfferHonest ==
    \A d \in Device : \A i \in DOMAIN c2s[d] : c2s[d][i].kind = "compact" =>
        \A e \in hist : e.seq <= c2s[d][i].upto => e.blob \in c2s[d][i].blobs

\* When the disconnects end, every edit any device made ends up on every
\* device, through whatever lag, compaction, retry and half-served snapshot,
\* unless a broadcast was overtaken.
Converges ==
    <>overtaken \/ <>[](\A d \in Online :
            /\ cursor[d] = top
            /\ \A b \in Blobs : b.n <= made[b.dev] => b \in has[d])
=============================================================================
