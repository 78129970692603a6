-------------------------------- MODULE Room --------------------------------
(***************************************************************************)
(* A note that several live clients have open at once, and who of them is  *)
(* there (crates/tacitus-sync live.rs, coedit.rs, presence.rs, MirrorDoc   *)
(* in docs.rs; the relay's half of it in main.rs).                         *)
(*                                                                         *)
(* A keystroke goes into the author's document at once and to the others   *)
(* as a frame that the relay neither logs nor acks and may lose.  A timer  *)
(* later pushes what the room's mirror lacks into the log: the author's,   *)
(* or that of a peer in the room that has seen it, if the author is gone.  *)
(* The log and its deliveries are those that Outbox and Fanout describe:   *)
(* in order, none lost.  The files are Merge's.                            *)
(*                                                                         *)
(* An operation on the text inserts, and then advances its author's clock, *)
(* or it only deletes, and does not.  It follows those its author had.     *)
(*                                                                         *)
(* A definition marked "mutant" is used by nothing: it is the slip that    *)
(* the definition after it could have, and a property notices.             *)
(***************************************************************************)
EXTENDS Naturals, Sequences, FiniteSets, SequencesExt

CONSTANTS
    Device,
    Casts,      \* the instances to explore, see RoomAssumption
    None

\* A cast says which ephemeral frames travel (none do on an old relay), whose
\* presence changes and whose sessions end, and
\* bounds the operations, the changes of presence, and the faults: sessions that
\* end and frames that a connection misses.
ASSUME RoomAssumption ==
    /\ Casts \subseteq [frames : {"none", "coedit", "presence"},
                       users : SUBSET Device, ops : Nat, states : Nat, faults : Nat]
    /\ None \notin [state : Nat, ts : Nat]

VARIABLES
    made,       \* how many operations there are
    doc,        \* the operations each device's document holds, on disk
    outbox, log, cursor,
    link,       \* "off": no process; "down": no connection; "up"
    open,       \* the device has the note open in a room
    mirror,     \* RoomCtx.mirror
    dirty,      \* RoomCtx.durable_dirty
    up,         \* ephemeral frames on the way to the relay
    air,        \* ... and from it
    stray,      \* ... in the sockets of connections that ended
    said,       \* what the host last told the client of what we do
    state, ts,  \* our own presence, and the wall clock of its last change
    dropped,    \* history: what the host said last was lost with a session
    peers,      \* PeerTracker
    faults, cast,
    slips       \* history: operations that a known gap may lose

room == <<open, mirror, dirty>>
durable == <<outbox, log, cursor>>
channel == <<up, air, stray>>
presence == <<said, state, ts, dropped, peers>>
vars == <<made, doc, durable, link, room, channel, presence, faults, cast, slips>>

Init ==
    /\ made = 0
    /\ doc = [d \in Device |-> {}]
    /\ outbox = [d \in Device |-> <<>>]
    /\ log = <<>>
    /\ cursor = [d \in Device |-> 0]
    /\ link = [d \in Device |-> "down"]
    /\ open = [d \in Device |-> FALSE]
    /\ mirror = [d \in Device |-> {}]
    /\ dirty = [d \in Device |-> FALSE]
    /\ up = [d \in Device |-> <<>>]
    /\ air = [d \in Device |-> <<>>]
    /\ stray = {}
    /\ said = [d \in Device |-> 0]
    /\ state = [d \in Device |-> 0]
    /\ dropped = {}
    /\ ts = [d \in Device |-> 0]
    /\ peers = [d \in Device |-> [p \in Device |-> None]]
    /\ faults = 0
    /\ cast \in Casts
    /\ slips = {}

-----------------------------------------------------------------------------
(* Documents and their state vectors                                       *)

Inserts(s) == {o \in s : o.inserts}
Deletes(s) == s \ Inserts(s)

\* An operation is integrated once all its author had seen is there.
Integrated(s) == {o \in s : \A n \in o.seen : \E p \in s : p.n = n}

\* The state vector counts integrated insertions: a deletion has no clock.
StateVector(s) == Inserts(Integrated(s))

\* mutant: a deletion is never sent.
InsertsSince(s, sv) == Inserts(s) \ sv
\* encode_state_as_update_v2: the insertions above the vector, every deletion.
UpdateSince(s, sv) == (Inserts(s) \ sv) \union Deletes(s)

\* diff_since: nothing when the vectors are equal.
DiffSince(s, sv) == IF StateVector(s) = sv THEN {} ELSE UpdateSince(s, sv)

Logged == UNION {log[i].ops : i \in DOMAIN log}
Queued == UNION {UNION Range(outbox[d]) : d \in Device}
Durable == Logged \union Queued

NewOp(d, inserts) ==
    [n |-> made + 1, by |-> d, inserts |-> inserts,
     seen |-> {o.n : o \in StateVector(doc[d])}]

Make == made < cast.ops /\ made' = made + 1

Slip(kind, s) == slips' = slips \union ({kind} \X s)

-----------------------------------------------------------------------------
(* The durable tier                                                        *)

\* mutant: what a flush pushed is not added to the mirror.
KeepMirror(s, diff) == s
Advance(s, diff) == s \union diff

\* Nothing is queued for an empty update.
Sent(update) == IF update = {} THEN <<>> ELSE <<update>>
PushTo(d, update) == outbox' = [outbox EXCEPT ![d] = @ \o Sent(update)]

\* An empty diff leaves out the deletions, and what is not integrated yet.
NothingToSend(d, now, diff) ==
    IF diff # {} THEN UNCHANGED slips
    ELSE slips' = slips \union ({"undone"} \X (Deletes(now) \ mirror[d]))
                       \union ({"early"} \X Inserts(now \ Integrated(now)))

\* flush_room_durable with the document holding "now".
FlushRoom(d, now) ==
    LET diff == DiffSince(now, StateVector(mirror[d]))
    IN  /\ PushTo(d, diff)
        /\ mirror' = [mirror EXCEPT ![d] = Advance(@, diff)]
        /\ dirty' = [dirty EXCEPT ![d] = FALSE]
        /\ NothingToSend(d, now, diff)

\* The timer durable_at, or a deletion or a huge paste that makes it due now.
FlushDurable(d) ==
    /\ link[d] = "up" /\ open[d] /\ dirty[d]
    /\ FlushRoom(d, doc[d])
    /\ UNCHANGED <<made, doc, log, cursor, link, open, channel, presence, faults, cast>>

\* The outbox empties into the log.
Push(d) ==
    /\ link[d] = "up" /\ outbox[d] # <<>>
    /\ log' = Append(log, [by |-> d, ops |-> Head(outbox[d])])
    /\ outbox' = [outbox EXCEPT ![d] = Tail(@)]
    /\ UNCHANGED <<made, doc, cursor, link, room, channel, presence, faults, cast, slips>>

\* mutant: a peer's checkpoint does not reach the room's mirror.
MirrorKept(d, update) == mirror[d]
Echoed(d, update) == IF open[d] THEN mirror[d] \union update ELSE mirror[d]

\* An Update: documents, then the room's mirror.  Our own entries pass.
Receive(d) ==
    /\ link[d] = "up" /\ cursor[d] < Len(log)
    /\ cursor' = [cursor EXCEPT ![d] = @ + 1]
    /\ LET entry == log[cursor[d] + 1]
           update == IF entry.by = d THEN {} ELSE entry.ops
       IN  /\ doc' = [doc EXCEPT ![d] = @ \union update]
           /\ mirror' = [mirror EXCEPT ![d] = Echoed(d, update)]
    /\ UNCHANGED <<made, outbox, log, link, open, dirty, channel, presence, faults, cast, slips>>

\* fold_and_push: an editor, a plugin or an agent wrote the file.
Fold(d) ==
    /\ link[d] = "up" /\ Make
    /\ LET update == {NewOp(d, TRUE)} \union Deletes(doc[d])
       IN  /\ doc' = [doc EXCEPT ![d] = @ \union update]
           /\ PushTo(d, update)
           /\ mirror' = [mirror EXCEPT ![d] = Echoed(d, update)]
    /\ UNCHANGED <<log, cursor, link, open, dirty, channel, presence, faults, cast, slips>>

-----------------------------------------------------------------------------
(* Ephemeral frames                                                        *)

Keystroke(o) == [kind |-> "coedit", op |-> o]
Presence(d, gone) ==
    [kind |-> "presence", from |-> d, ts |-> ts'[d], gone |-> gone, state |-> state'[d]]

Travels(kind) == cast.frames = kind

Fault == faults < cast.faults /\ faults' = faults + 1

Sender(frame) == IF frame.kind = "presence" THEN frame.from ELSE frame.op.by

\* The relay hands a frame to every connection but the ones that lag.  The
\* sender gets it back, sees its own device id and skips it: left out here.
FanOut(frame) ==
    LET live == {d \in Device \ {Sender(frame)} : link[d] = "up"}
    IN  \E missed \in SUBSET live :
            /\ IF missed = {} THEN UNCHANGED faults ELSE Fault
            /\ air' = [d \in Device |->
                          IF d \in live \ missed THEN Append(air[d], frame) ELSE air[d]]

Relay(d) ==
    /\ up[d] # <<>>
    /\ FanOut(Head(up[d]))
    /\ up' = [up EXCEPT ![d] = Tail(@)]
    /\ UNCHANGED <<made, doc, durable, link, room, stray, presence, cast, slips>>

\* A connection is gone, its task still reads what its socket held.
RelayStray ==
    /\ \E frame \in stray : FanOut(frame) /\ stray' = stray \ {frame}
    /\ UNCHANGED <<made, doc, durable, link, room, up, presence, cast, slips>>

Frame(d, kind) == link[d] = "up" /\ air[d] # <<>> /\ Head(air[d]).kind = kind
Consume(d) == air' = [air EXCEPT ![d] = Tail(@)]

\* mutant: only the author flushes.
NoDuty(d) == dirty[d]
\* mutant: whoever sees a keystroke has to flush it.
DutyAnywhere(d) == TRUE
\* Whoever has the note open and sees the keystroke will flush it as well.
WitnessDuty(d) == dirty[d] \/ open[d]

HearKeystroke(d) ==
    /\ Frame(d, "coedit")
    /\ LET o == Head(air[d]).op
       IN  /\ doc' = [doc EXCEPT ![d] = @ \union {o}]
           /\ dirty' = [dirty EXCEPT ![d] = WitnessDuty(d)]
    /\ Consume(d)
    /\ UNCHANGED <<made, durable, link, open, mirror, up, stray, presence, faults, cast, slips>>

-----------------------------------------------------------------------------
(* The room                                                                *)

\* The user types in the room, online; a frame may not fit.
Type(d, inserts) ==
    /\ link[d] = "up" /\ open[d] /\ Make
    /\ LET o == NewOp(d, inserts)
       IN  /\ doc' = [doc EXCEPT ![d] = @ \union {o}]
           /\ \/ /\ Travels("coedit")
                 /\ up' = [up EXCEPT ![d] = Append(@, Keystroke(o))]
              \/ UNCHANGED up
    /\ dirty' = [dirty EXCEPT ![d] = TRUE]
    /\ UNCHANGED <<durable, link, open, mirror, air, stray, presence, faults, cast, slips>>

\* Offline, a keystroke is flushed at once.
TypeOffline(d, inserts) ==
    /\ link[d] = "down" /\ open[d] /\ Make
    /\ LET now == doc[d] \union {NewOp(d, inserts)}
       IN  /\ doc' = [doc EXCEPT ![d] = now]
           /\ FlushRoom(d, now)
    /\ UNCHANGED <<log, cursor, link, open, channel, presence, faults, cast>>

\* LiveCmd::RoomEnter.  Online an open room is flushed; then the disk is folded
\* and the new mirror takes the whole document for what the log covers.
Enter(d, edited) ==
    /\ link[d] # "off" /\ cast.ops > 0
    /\ LET flushed == IF link[d] = "up" /\ open[d]
                      THEN DiffSince(doc[d], StateVector(mirror[d])) ELSE {}
           folded == IF edited THEN {NewOp(d, TRUE)} \union Deletes(doc[d]) ELSE {}
           now == doc[d] \union folded
       IN  /\ doc' = [doc EXCEPT ![d] = now]
           /\ outbox' = [outbox EXCEPT ![d] = @ \o Sent(flushed) \o Sent(folded)]
           /\ mirror' = [mirror EXCEPT ![d] = now]
           /\ Slip("adopted", now \ (Durable \union flushed \union folded))
    /\ IF edited THEN Make ELSE UNCHANGED made
    /\ open' = [open EXCEPT ![d] = TRUE]
    /\ dirty' = [dirty EXCEPT ![d] = FALSE]
    /\ UNCHANGED <<log, cursor, link, channel, presence, faults, cast>>

\* mutant: only a room known to be dirty is flushed on the way out.
LeaveUnmarked(d) == dirty[d]
NeedsFlush(d) == TRUE

CloseRoom(d) ==
    /\ open' = [open EXCEPT ![d] = FALSE]
    /\ IF open[d] /\ NeedsFlush(d)
       THEN LET diff == DiffSince(doc[d], StateVector(mirror[d]))
            IN  /\ PushTo(d, diff)
                /\ NothingToSend(d, doc[d], diff)
       ELSE UNCHANGED <<outbox, slips>>
    /\ mirror' = [mirror EXCEPT ![d] = {}]
    /\ dirty' = [dirty EXCEPT ![d] = FALSE]

Leave(d) ==
    /\ link[d] # "off" /\ open[d]
    /\ CloseRoom(d)
    /\ UNCHANGED <<made, doc, log, cursor, link, channel, presence, faults, cast>>

-----------------------------------------------------------------------------
(* Presence                                                                *)

\* The wall clock, in milliseconds, may stand still between two frames.
Clock(d) ==
    \E tick \in IF Travels("presence") /\ d \in cast.users THEN {0, 1} ELSE {0} :
        ts' = [ts EXCEPT ![d] = @ + tick]

Announce(d, gone) ==
    IF Travels("presence")
    THEN up' = [up EXCEPT ![d] = Append(@, Presence(d, gone))]
    ELSE UNCHANGED up

\* The host says what we do.
Say(d) ==
    /\ d \in cast.users /\ Travels("presence")
    /\ said[d] < cast.states
    /\ said' = [said EXCEPT ![d] = @ + 1]

\* A burst of commands ends, or one comes offline: its last word is remembered.
SetState(d) ==
    /\ link[d] # "off"
    /\ Say(d)
    /\ state' = [state EXCEPT ![d] = said'[d]]
    /\ dropped' = dropped \ {d}
    /\ Clock(d)
    /\ UNCHANGED <<made, doc, durable, link, room, channel, peers, faults, cast, slips>>

\* A debounced change, a reply to a hello and a heartbeat are the same frame,
\* and are seconds apart.
SendPresence(d) ==
    /\ link[d] = "up" /\ Travels("presence")
    /\ up[d] = <<>>
    /\ \A p \in Device : \A i \in DOMAIN air[p] : air[p][i].from # d
    /\ UNCHANGED <<said, state, ts, dropped>>
    /\ Announce(d, FALSE)
    /\ UNCHANGED <<made, doc, durable, link, room, air, stray, peers, faults, cast, slips>>

OlderThan(entry, f) == entry # None /\ f.ts < entry.ts

\* PeerTracker::observe.
HearPresence(d) ==
    /\ Frame(d, "presence")
    /\ LET f == Head(air[d])
       IN  peers' = IF OlderThan(peers[d][f.from], f) THEN peers
                    ELSE [peers EXCEPT ![d][f.from] =
                              IF f.gone THEN None ELSE [state |-> f.state, ts |-> f.ts]]
    /\ Consume(d)
    /\ UNCHANGED <<made, doc, durable, link, room, up, stray, said, state, ts, dropped, faults, cast, slips>>

\* mutant: nobody expires.
Immortal(d, p) == FALSE
\* Nothing from the peer for the TTL, three heartbeats long.
Silent(d, p) ==
    /\ link[p] # "up"
    /\ up[p] = <<>>
    /\ \A i \in DOMAIN air[d] : air[d][i].from # p

Sweep(d) ==
    /\ link[d] = "up" /\ Travels("presence")
    /\ \E p \in Device : peers[d][p] # None /\ Silent(d, p)
    /\ peers' = [peers EXCEPT ![d] =
                    [p \in Device |-> IF Silent(d, p) THEN None ELSE @[p]]]
    /\ UNCHANGED <<made, doc, durable, link, room, channel, said, state, ts, dropped, faults, cast, slips>>

-----------------------------------------------------------------------------
(* Sessions                                                                *)

\* The Welcome: an announcement that asks for answers.  The room survives.
Connect(d) ==
    /\ link[d] = "down"
    /\ link' = [link EXCEPT ![d] = "up"]
    /\ Clock(d)
    /\ UNCHANGED <<said, state, dropped>>
    /\ Announce(d, FALSE)
    /\ UNCHANGED <<made, doc, durable, room, air, stray, peers, faults, cast, slips>>

End(d, to) ==
    /\ d \in cast.users
    /\ Fault
    /\ link' = [link EXCEPT ![d] = to]
    /\ air' = [air EXCEPT ![d] = <<>>]
    /\ up' = [up EXCEPT ![d] = <<>>]

\* What a socket still held comes through later, or never.
LeftBehind(frames) == \E s \in SUBSET Range(frames) : stray' = stray \union s

Disconnect(d) ==
    /\ link[d] = "up"
    /\ End(d, "down")
    /\ LeftBehind(up[d])
    /\ UNCHANGED <<made, doc, durable, room, presence, cast, slips>>

\* A keystroke's frame cannot be sent: the session faults before the room is
\* marked dirty, and nothing but a later keystroke or the way out flushes it.
TypeAndFail(d, inserts) ==
    /\ link[d] = "up" /\ open[d] /\ Travels("coedit") /\ Make
    /\ LET o == NewOp(d, inserts)
       IN  /\ doc' = [doc EXCEPT ![d] = @ \union {o}]
           /\ Slip("unmarked", {o})
    /\ End(d, "down")
    /\ LeftBehind(up[d])
    /\ UNCHANGED <<durable, room, presence, cast>>

\* A frame of a room command cannot be sent: the session is over, and with it
\* what the host said earlier in the same burst.
BurstFails(d) ==
    /\ link[d] = "up"
    /\ Say(d)
    /\ dropped' = dropped \union {d}
    /\ End(d, "down")
    /\ LeftBehind(up[d])
    /\ UNCHANGED <<made, doc, durable, room, state, ts, peers, cast, slips>>

\* The process dies: documents, outbox and cursor are files, the rest is not.
Crash(d) ==
    /\ link[d] # "off"
    /\ End(d, "off")
    /\ LeftBehind(up[d])
    /\ open' = [open EXCEPT ![d] = FALSE]
    /\ mirror' = [mirror EXCEPT ![d] = {}]
    /\ dirty' = [dirty EXCEPT ![d] = FALSE]
    /\ peers' = [peers EXCEPT ![d] = [p \in Device |-> None]]
    /\ Slip("died", (IF open[d] THEN doc[d] \ mirror[d] ELSE {}) \
                    UNION {Integrated(doc[e]) \ mirror[e] :
                               e \in {e \in Device \ {d} : open[e]}})
    /\ UNCHANGED <<made, doc, durable, said, state, ts, dropped, cast>>

\* A clean shutdown: the room is flushed, then the goodbye is sent.
Quit(d) ==
    /\ link[d] # "off"
    /\ End(d, "off")
    /\ CloseRoom(d)
    /\ Clock(d)
    /\ UNCHANGED <<said, state, dropped>>
    /\ LeftBehind(IF link[d] = "up" /\ Travels("presence")
                  THEN Append(up[d], Presence(d, TRUE)) ELSE up[d])
    /\ peers' = [peers EXCEPT ![d] = [p \in Device |-> None]]
    /\ UNCHANGED <<made, doc, log, cursor, cast>>

\* A process starts with nothing said.
Start(d) ==
    /\ link[d] = "off"
    /\ link' = [link EXCEPT ![d] = "down"]
    /\ said' = [said EXCEPT ![d] = 0]
    /\ state' = [state EXCEPT ![d] = 0]
    /\ dropped' = dropped \ {d}
    /\ UNCHANGED <<made, doc, durable, room, channel, ts, peers, faults, cast, slips>>

-----------------------------------------------------------------------------
User(d) ==
    \/ \E inserts \in BOOLEAN :
          Type(d, inserts) \/ TypeOffline(d, inserts) \/ TypeAndFail(d, inserts)
    \/ \E edited \in BOOLEAN : Enter(d, edited)
    \/ Leave(d) \/ Fold(d) \/ SetState(d) \/ BurstFails(d)

Client(d) == FlushDurable(d) \/ Push(d) \/ HearKeystroke(d) \/ HearPresence(d)

Next ==
    \/ \E d \in Device :
          \/ User(d) \/ Client(d) \/ Receive(d) \/ Relay(d)
          \/ SendPresence(d) \/ Sweep(d)
          \/ Start(d) \/ Connect(d) \/ Disconnect(d) \/ Crash(d) \/ Quit(d)
    \/ RelayStray

\* Timers fire, sockets deliver and a client that lost its connection retries;
\* nobody has to type, to come back to the note or to start the program again.
Fairness ==
    /\ \A d \in Device :
          /\ WF_vars(Client(d))
          /\ WF_vars(Receive(d))
          /\ WF_vars(Relay(d))
          /\ WF_vars(SendPresence(d))
          /\ WF_vars(Sweep(d))
          /\ WF_vars(Connect(d))
    /\ WF_vars(RelayStray)

Spec == Init /\ [][Next]_vars /\ Fairness

-----------------------------------------------------------------------------
(* Properties                                                              *)

Ops == UNION {doc[d] : d \in Device}
Slipped(kinds) == {x[2] : x \in {y \in slips : y[1] \in kinds}}
AnySlip == {"undone", "early", "adopted", "unmarked", "died"}

\* Types; a mirror holds no more than the document, and exists in a room only.
TypeOK ==
    /\ Cardinality(Ops) = made
    /\ link \in [Device -> {"off", "down", "up"}]
    /\ \A d \in Device :
          /\ mirror[d] \subseteq doc[d]
          /\ dirty[d] => open[d]
          /\ ~open[d] => mirror[d] = {}
          /\ cursor[d] <= Len(log)
          /\ peers[d][d] = None
          /\ link[d] # "up" => up[d] = <<>> /\ air[d] = <<>>
    /\ Slipped(AnySlip) \subseteq Ops

\* What an open room will flush: on its timer, or, if a send failed before the
\* room was marked or the timer came too early, with the next keystroke or on
\* the way out.
Unflushed(d) ==
    {o \in doc[d] \ mirror[d] :
        open[d] /\ (dirty[d] \/ o \in Slipped({"unmarked", "early"}))}

\* "A lost ephemeral frame is repaired by the next durable diff" (coedit.rs):
\* what any device has seen typed is in the log, in an outbox, or unflushed in
\* an open room.  It is not if it only deletes and was flushed with no insertion
\* beside it; if the process died and no peer in the room had seen it, and all it
\* follows; or if a device already had it when it entered the room.
Covered ==
    Ops \subseteq Durable \union Slipped({"undone", "died", "adopted"})
                 \union UNION {Unflushed(d) : d \in Device}

\* "A mirror doc holding exactly what the log covers" (live.rs): no more, but
\* for what it adopted when the room was entered; no less, so that a flush does
\* not log again what a peer has.
MirrorExact ==
    \A d \in Device : open[d] =>
        LET reached == (UNION {log[i].ops : i \in 1..cursor[d]}) \union (UNION Range(outbox[d]))
        IN  /\ mirror[d] \subseteq Durable \union Slipped({"adopted"})
            /\ Inserts(reached) \subseteq mirror[d]

\* "Offline and third devices converge from the log alone" (SYNC.md): what was
\* not lost to one of the gaps comes to every device that stays connected.
RoomConverges ==
    <>[](\A d, e \in Device : link[d] = "up" /\ link[e] = "up" =>
            doc[e] \ (Slipped(AnySlip) \ Durable) \subseteq doc[d])

\* Who is shown as present: in the end each device that stays connected sees
\* the others that do, with what their hosts last said they do, and none of
\* those that are gone, whatever goodbyes and frames of older sessions came late.
\* What was said in a burst that failed is not shown: what was said before it is.
PeersSettle ==
    <>[](\A d, p \in Device : Travels("presence") /\ d # p /\ link[d] = "up" =>
            /\ link[p] = "up" => /\ peers[d][p] # None
                                /\ peers[d][p].state = IF p \in dropped THEN state[p] ELSE said[p]
            /\ link[p] = "off" => peers[d][p] = None)
=============================================================================
