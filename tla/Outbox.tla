------------------------------- MODULE Outbox -------------------------------
(***************************************************************************)
(* How one device's edits get from its disk into the relay's log: the scan  *)
(* (engine.rs tick_scan_with_updates), the outbox (outbox.rs), and the two  *)
(* clients that drive them over a connection, the pass client (client.rs    *)
(* run_once, in the loop of run_forever) and the live client (live.rs       *)
(* session, in the loop of run_live) with its quota heal.                   *)
(*                                                                          *)
(* An edit is a number, a blob the set of edits one scan folded.  The relay *)
(* (tacitus-relay) is one connection's task over base and top: its log has  *)
(* top - base lines, and a full log refuses a push.  Fanout models what the *)
(* other devices see.                                                       *)
(*                                                                          *)
(* A definition marked "mutant" is used by nothing: it is the slip that the *)
(* definition after it could have, and that one of the properties notices.  *)
(***************************************************************************)
EXTENDS Naturals, Sequences, FiniteSets, SequencesExt, FiniteSetsExt

CONSTANTS
    Casts,       \* the instances to explore, see OutboxAssumption
    Quota,       \* lines of log at which the relay refuses a push
    MaxDrops     \* bound: connections that die, with or without the process

\* A cast says which client runs, the live or the pass client, and bounds the
\* user's edits and the pushes and compactions by other devices.
ASSUME OutboxAssumption ==
    /\ Casts \subseteq [live : BOOLEAN, edits : Nat, others : Nat]
    /\ Quota \in Nat \ {0}
    /\ MaxDrops \in Nat

VARIABLES
    \* the device's disk
    made,      \* the edits 1..made are in the vault's files
    docs,      \* the edits 1..docs are in the CRDT documents
    outbox,    \* outbox.jsonl
    cursor,    \* last_seq
    \* the device's process, for one session
    stage,     \* "stopped" of no process, "off" between two sessions, "start",
               \* "hello" sent, "on" from the Welcome
    batch,     \* what the scan in progress has folded and not queued, {} of none
    folding,   \* a scan is in progress
    target,    \* Welcome's latest_seq
    heal,      \* QuotaHeal
    offered,   \* compact_offered
    caughtUp,
    \* the wire, and the relay's task for the connection
    c2s, s2c,
    serving,   \* the task is past the Hello
    lastSent,
    \* the relay's log
    base, top,
    logged,    \* every edit in a blob the relay ever logged
    drops, others,
    cast       \* the instance, chosen at the start

disk == <<made, docs, outbox, cursor>>
process == <<stage, batch, folding, target, heal, offered, caughtUp>>
wire == <<c2s, s2c, serving, lastSent>>
relay == <<base, top, logged>>
bounds == <<drops, others, cast>>
vars == <<disk, process, wire, relay, bounds>>

Live == cast.live
MaxEdits == cast.edits
MaxOthers == cast.others

-----------------------------------------------------------------------------
(* Frames                                                                   *)

Hello(since) == [kind |-> "hello", since |-> since]
PushFrame(blob) == [kind |-> "push", blob |-> blob]
CompactFrame(upto) == [kind |-> "compact", upto |-> upto]
Welcome(latest) == [kind |-> "welcome", latest |-> latest]
Covers(seq) == [kind |-> "covers", seq |-> seq]   \* update or snapshot: the cursor moves to seq
AckFrame == [kind |-> "ack"]
Full == [kind |-> "full"]                         \* err quota_exceeded or log_full
Compacted == [kind |-> "compacted"]
Stale == [kind |-> "stale"]                       \* err compact_stale or compact_ahead

PushFrames(q) == [i \in DOMAIN q |-> PushFrame(q[i])]

-----------------------------------------------------------------------------
Init ==
    /\ made = 0 /\ docs = 0 /\ outbox = <<>> /\ cursor = 0
    /\ stage = "off" /\ batch = {} /\ folding = FALSE /\ target = 0
    /\ heal = "idle" /\ offered = FALSE /\ caughtUp = FALSE
    /\ c2s = <<>> /\ s2c = <<>> /\ serving = FALSE /\ lastSent = 0
    /\ base = 0 /\ top = 0 /\ logged = {}
    /\ drops = 0 /\ others = 0 /\ cast \in Casts

-----------------------------------------------------------------------------
(* The scan                                                                 *)

\* The user, or an agent, edits a note.
Edit ==
    /\ made < MaxEdits
    /\ made' = made + 1
    /\ UNCHANGED <<docs, outbox, cursor, process, wire, relay, bounds>>

\* A session starts; the live client's Hello goes first.
Connect ==
    /\ stage = "off"
    /\ stage' = "start"
    /\ heal' = "idle"
    /\ offered' = FALSE
    /\ caughtUp' = FALSE
    /\ target' = 0
    /\ c2s' = IF Live THEN <<Hello(cursor)>> ELSE <<>>
    /\ UNCHANGED <<disk, batch, folding, s2c, serving, lastSent, relay, bounds>>

\* Both clients scan as a session starts, the live one at any time after too.
MayScan == stage = "start" \/ (Live /\ stage \in {"hello", "on"} /\ docs < made)

\* apply_local_text: the documents have the edits, on disk, and the diff is in
\* memory only.
FoldDocs ==
    /\ MayScan
    /\ ~folding
    /\ folding' = TRUE
    /\ batch' = (docs + 1)..made
    /\ docs' = made
    /\ UNCHANGED <<made, outbox, cursor, stage, target, heal, offered, caughtUp,
                   wire, relay, bounds>>

\* mutant: a payload without updates is queued too.
QueuedAlways(q, blob) == Append(q, blob)
Queued(q, blob) == IF blob = {} THEN q ELSE Append(q, blob)

\* shadow.save, then outbox.push; the pass client now says Hello, the live one
\* pushes at once, Welcome or not.
QueueFold ==
    /\ folding
    /\ folding' = FALSE
    /\ batch' = {}
    /\ outbox' = Queued(outbox, batch)
    /\ stage' = IF stage = "start" THEN "hello" ELSE stage
    /\ c2s' = IF Live
              THEN IF batch = {} THEN c2s ELSE Append(c2s, PushFrame(batch))
              ELSE <<Hello(cursor)>>
    /\ UNCHANGED <<made, docs, cursor, target, heal, offered, caughtUp, s2c,
                   serving, lastSent, relay, bounds>>

-----------------------------------------------------------------------------
(* What the client does with a frame                                        *)

Frame(kind) ==
    /\ stage \in {"hello", "on"}
    /\ ~folding
    /\ s2c # <<>>
    /\ Head(s2c).kind = kind

Consume ==
    /\ s2c' = Tail(s2c)
    /\ UNCHANGED <<made, docs, batch, folding, serving, lastSent, relay, bounds>>

\* After a frame the engine saw, the live client may find itself caught up,
\* and then offers a snapshot if the log is past the threshold.
SendThenCatchUp(frames) ==
    IF Live /\ ~caughtUp /\ stage' = "on" /\ outbox' = <<>> /\ cursor' >= target'
    THEN /\ caughtUp' = TRUE
         /\ \/ c2s' = c2s \o frames /\ UNCHANGED offered
            \/ /\ ~offered
               /\ cursor' > 0
               /\ offered' = TRUE
               /\ c2s' = c2s \o frames \o <<CompactFrame(cursor')>>
    ELSE c2s' = c2s \o frames /\ UNCHANGED <<caughtUp, offered>>

\* mutant: a new connection starts from the next edit.
ResendNothing == <<>>
\* "Everything unacked goes again."
PendingPushes == PushFrames(outbox)

OnWelcome ==
    /\ Frame("welcome")
    /\ stage' = "on"
    /\ target' = Head(s2c).latest
    /\ UNCHANGED <<outbox, cursor, heal>>
    /\ SendThenCatchUp(PendingPushes)
    /\ Consume

\* mutant: one ack settles the whole outbox.
SettleAll(q) == <<>>
\* ack_front: an ack names a seq, and the outbox drops its oldest blob.
AckFront(q) == IF q = <<>> THEN q ELSE Tail(q)

OnAck ==
    /\ Frame("ack")
    /\ outbox' = AckFront(outbox)
    /\ UNCHANGED <<cursor, stage, target, heal>>
    /\ SendThenCatchUp(<<>>)
    /\ Consume

\* Update, Snapshot or the last SnapshotPart.
OnCovers ==
    /\ Frame("covers")
    /\ cursor' = Max({cursor, Head(s2c).seq})
    /\ UNCHANGED <<outbox, stage, target, heal>>
    /\ SendThenCatchUp(<<>>)
    /\ Consume

\* A session is over, and the loop around it goes on ("off") or is too.
EndSession(next) ==
    /\ stage' = next
    /\ c2s' = <<>>
    /\ s2c' = <<>>
    /\ serving' = FALSE
    /\ folding' = FALSE
    /\ batch' = {}

\* mutant: a refusal is never the end.
NeverFatal == FALSE
\* The pass client returns any error; the live one a refusal after its heal.
\* run_forever and run_live return it, and the command ends with it.
FatalRefusal == ~Live \/ heal = "concluded"

\* A push was refused; its blob stays in the outbox.
OnFull ==
    /\ Frame("full")
    /\ IF FatalRefusal
       THEN /\ EndSession("stopped")
            /\ UNCHANGED <<made, docs, lastSent, relay, bounds, offered, heal>>
       ELSE /\ CASE heal = "idle" /\ cursor > 0 ->
                      /\ heal' = "healing"
                      /\ offered' = TRUE
                      /\ c2s' = Append(c2s, CompactFrame(cursor))
                 [] heal = "idle" /\ cursor = 0 ->
                      /\ heal' = "concluded"
                      /\ UNCHANGED <<offered, c2s>>
                 [] OTHER -> UNCHANGED <<heal, offered, c2s>>
            /\ UNCHANGED stage
            /\ Consume
    /\ UNCHANGED <<outbox, cursor, target, caughtUp>>

\* mutant: only a Welcome re-sends.
HealResendNothing == <<>>
HealResend == IF heal = "healing" THEN PendingPushes ELSE <<>>

\* The relay took the snapshot: a heal re-sends what it was for.
OnCompacted ==
    /\ Frame("compacted")
    /\ heal' = IF heal = "healing" THEN "concluded" ELSE heal
    /\ UNCHANGED <<outbox, cursor, stage, target>>
    /\ SendThenCatchUp(HealResend)
    /\ Consume

\* The relay refused the snapshot: another device was faster.
OnStale ==
    /\ Frame("stale")
    /\ heal' = IF heal = "healing" THEN "concluded" ELSE heal
    /\ UNCHANGED <<outbox, cursor, stage, target, offered, caughtUp, c2s>>
    /\ Consume

\* The pass client is done once nothing is unacked and it has caught up.
Finish ==
    /\ ~Live
    /\ stage = "on"
    /\ outbox = <<>>
    /\ cursor >= target
    /\ EndSession("off")
    /\ UNCHANGED <<disk, target, heal, offered, caughtUp, lastSent, relay, bounds>>

\* The connection dies, or the process with it, between two scans.
Drop ==
    /\ stage \notin {"stopped", "off"}
    /\ ~folding
    /\ drops < MaxDrops
    /\ drops' = drops + 1
    /\ \E next \in {"stopped", "off"} : EndSession(next)
    /\ UNCHANGED <<disk, target, heal, offered, caughtUp, lastSent, relay, others, cast>>

\* The user starts the client again, if ever.
Restart ==
    /\ stage = "stopped"
    /\ stage' = "off"
    /\ UNCHANGED <<disk, batch, folding, target, heal, offered, caughtUp, wire, relay, bounds>>

-----------------------------------------------------------------------------
(* The relay                                                                *)

RelayReads(kind) == c2s # <<>> /\ Head(c2s).kind = kind

RelayHello ==
    /\ RelayReads("hello")
    /\ LET since == Head(c2s).since
       IN  /\ s2c' = Append(s2c, Welcome(top)) \o
                         (IF since < base THEN <<Covers(base)>> ELSE <<>>)
           /\ lastSent' = Max({since, base})
    /\ serving' = TRUE
    /\ c2s' = Tail(c2s)
    /\ UNCHANGED <<disk, process, relay, bounds>>

\* The size check, the append, and the ack or the refusal.
RelayPush ==
    /\ RelayReads("push")
    /\ IF top - base < Quota
       THEN /\ top' = top + 1
            /\ logged' = logged \cup Head(c2s).blob
            /\ s2c' = Append(s2c, AckFrame)
       ELSE /\ s2c' = Append(s2c, Full)
            /\ UNCHANGED <<top, logged>>
    /\ c2s' = Tail(c2s)
    /\ UNCHANGED <<disk, process, serving, lastSent, base, bounds>>

RelayCompact ==
    /\ RelayReads("compact")
    /\ LET upto == Head(c2s).upto
       IN  IF base < upto /\ upto <= top
           THEN base' = upto /\ s2c' = Append(s2c, Compacted)
           ELSE s2c' = Append(s2c, Stale) /\ UNCHANGED base
    /\ c2s' = Tail(c2s)
    /\ UNCHANGED <<disk, process, serving, lastSent, top, logged, bounds>>

\* The backlog, and then the broadcasts, this device's own pushes included.
RelayUpdate ==
    /\ serving
    /\ lastSent < top
    /\ lastSent' = lastSent + 1
    /\ s2c' = Append(s2c, Covers(lastSent + 1))
    /\ UNCHANGED <<disk, process, c2s, serving, relay, bounds>>

\* Another device's snapshot makes room in the log.
OtherCompacts ==
    /\ others < MaxOthers
    /\ others' = others + 1
    /\ \E upto \in (base + 1)..top : base' = upto
    /\ UNCHANGED <<disk, process, wire, top, logged, drops, cast>>

\* Another device's push takes a line.
OtherPushes ==
    /\ others < MaxOthers
    /\ others' = others + 1
    /\ top - base < Quota
    /\ top' = top + 1
    /\ UNCHANGED <<disk, process, wire, base, logged, drops, cast>>

-----------------------------------------------------------------------------
ClientStep ==
    \/ FoldDocs \/ QueueFold
    \/ OnWelcome \/ OnAck \/ OnCovers \/ OnFull \/ OnCompacted \/ OnStale \/ Finish

RelayStep == RelayHello \/ RelayPush \/ RelayCompact

Next ==
    \/ Edit
    \/ Connect
    \/ ClientStep
    \/ RelayStep
    \/ RelayUpdate
    \/ OtherCompacts
    \/ OtherPushes
    \/ Drop
    \/ Restart

\* A client that runs reconnects and reads, the relay answers; nobody has to
\* edit, compact, disconnect, or start a client that has stopped.
Fairness ==
    /\ WF_vars(Connect)
    /\ WF_vars(ClientStep)
    /\ WF_vars(RelayStep)
    /\ WF_vars(RelayUpdate)

Spec == Init /\ [][Next]_vars

FairSpec == Spec /\ Fairness

-----------------------------------------------------------------------------
(* Properties                                                               *)

\* Types; a queued blob is never empty and the cursor never ahead of the log.
TypeOK ==
    /\ docs <= made /\ made <= MaxEdits
    /\ \A i \in DOMAIN outbox : outbox[i] # {} /\ outbox[i] \subseteq 1..docs
    /\ cursor <= top /\ target <= top /\ base <= top /\ lastSent <= top
    /\ stage \in {"stopped", "off", "start", "hello", "on"}
    /\ batch \subseteq 1..docs
    /\ heal \in {"idle", "healing", "concluded"}
    /\ {folding, offered, caughtUp, serving} \subseteq BOOLEAN
    /\ logged \subseteq 1..docs

Unacked == UNION {outbox[i] : i \in DOMAIN outbox}

OnTheWire == UNION {f.blob : f \in {f \in Range(c2s) : f.kind = "push"}}

\* An edit the scan has folded is in the outbox or in the relay's log (or the
\* scan is still at it).  Nothing else would ever push it: the next scan finds
\* the documents equal to the files.
NothingLost == (1..docs) \ batch \subseteq Unacked \cup logged

\* "Acks arrive in push order on a connection - drop the oldest" (outbox.rs):
\* the n-th ack a pass client will read, before a refusal ends the session,
\* answers the n-th blob of its outbox.
AcksInOrder ==
    ~Live => \A k \in DOMAIN s2c :
        LET n == Cardinality({i \in 1..k : s2c[i].kind = "ack"})
        IN  s2c[k].kind = "ack" /\ (\A i \in 1..k : s2c[i].kind # "full") =>
                n <= Len(outbox) /\ outbox[n] \subseteq logged

AllLogged == 1..made \subseteq logged

\* Every edit of a pass client reaches the relay, whatever connections die on
\* the way, unless the log is full again and again, or the client, which returns
\* at the first refusal, is not started again for good.
Delivered ==
    Live \/ []<>(top - base >= Quota) \/ <>[](stage = "stopped") \/ <>[]AllLogged

\* Once the relay has taken the snapshot of a live client's heal, the refused
\* edit is logged, or refused again and the session over: it never waits in an
\* open session.  (It does after a heal that had nothing to offer, or that lost
\* to another device's compaction: then for the next edit or session.)
HealDelivers ==
    heal = "healing" /\ Compacted \in Range(s2c) ~>
        AllLogged \/ stage \in {"stopped", "off"}

\* outbox.rs: "Crash-safe outbox: sealed blobs waiting for a relay ack ... an
\* interrupted push is retried after restart."  The live client sends a blob
\* before the Welcome and again after it, and after a heal again, so an ack can
\* answer a blob that is no longer the oldest.  The blob it drops instead may
\* not be logged, and is gone with the connection.
PushRetriedUntilLogged == (1..docs) \ batch \subseteq Unacked \cup logged \cup OnTheWire
=============================================================================
