---------------------------- MODULE OutboxProofs ----------------------------
(***************************************************************************)
(* What a scan has folded is in the outbox or in the relay's log, for the  *)
(* pass client with any edits and the live client with one (with two, see  *)
(* PushRetriedUntilLogged); the acks a pass client reads answer its oldest *)
(* blobs.  For any quota, casts and disconnects.                           *)
(***************************************************************************)
EXTENDS Outbox, FiniteSetTheorems, FunctionTheorems, SequenceTheorems, TLAPS

-----------------------------------------------------------------------------
(* The inductive invariant                                                 *)

Blobs == (SUBSET (1..docs)) \ {{}}
ToRelay ==
    [kind : {"hello"}, since : 0..top] \union [kind : {"push"}, blob : Blobs]
        \union [kind : {"compact"}, upto : 0..top]
ToClient ==
    [kind : {"welcome"}, latest : 0..top] \union [kind : {"covers"}, seq : 0..top]
        \union [kind : {"ack", "full", "compacted", "stale"}]

DiskTypes ==
    /\ made \in Nat /\ docs \in Nat /\ docs <= made /\ made <= MaxEdits
    /\ outbox \in Seq(Blobs)
    /\ batch \subseteq 1..docs
    /\ logged \subseteq 1..docs
LogTypes ==
    /\ top \in Nat
    /\ base \in 0..top /\ cursor \in 0..top /\ target \in 0..top /\ lastSent \in 0..top
WireTypes ==
    /\ c2s \in Seq(ToRelay)
    /\ s2c \in Seq(ToClient)
ProcessTypes ==
    /\ stage \in {"stopped", "off", "start", "hello", "on"}
    /\ heal \in {"idle", "healing", "concluded"}
    /\ folding \in BOOLEAN /\ offered \in BOOLEAN /\ caughtUp \in BOOLEAN /\ serving \in BOOLEAN
    /\ ~folding => batch = {}
    /\ stage \in {"stopped", "off"} => ~folding
    /\ cast \in Casts /\ others \in Nat /\ drops \in Nat

Types == DiskTypes /\ LogTypes /\ WireTypes /\ ProcessTypes

\* The answers to pushes among the first k frames of q.
IsAnswer(f) == f.kind \in {"ack", "full"}
Answers(q, k) == Cardinality({i \in 1..k : IsAnswer(q[i])})

\* A pass client pushes its outbox after the Welcome, and only then: what is on
\* the way to the relay is the end of the outbox, and what was answered before
\* it the beginning, in order.
Quiet == c2s = <<>> /\ s2c = <<>> /\ ~serving
Greeting ==
    \/ ~serving /\ s2c = <<>> /\ Len(c2s) = 1 /\ c2s[1].kind = "hello"
    \/ /\ serving /\ c2s = <<>> /\ s2c # <<>> /\ s2c[1].kind = "welcome"
       /\ \A k \in 2..Len(s2c) : s2c[k].kind = "covers"
Answering ==
    /\ \A k \in DOMAIN s2c : s2c[k].kind \in {"ack", "full", "covers"}
    /\ Answers(s2c, Len(s2c)) + Len(c2s) = Len(outbox)
    /\ \A j \in DOMAIN c2s :
          c2s[j].kind = "push" /\ c2s[j].blob = outbox[(Len(outbox) - Len(c2s)) + j]
    /\ \A k \in DOMAIN s2c : s2c[k].kind = "ack" => outbox[Answers(s2c, k)] \subseteq logged
PassInv ==
    /\ folding => stage = "start"
    /\ stage \in {"stopped", "off", "start"} => Quiet
    /\ stage = "hello" => Greeting
    /\ stage = "on" => Answering

\* With one edit every blob is that edit, so that any ack is about it.
SingleInv == \A k \in DOMAIN s2c : s2c[k].kind = "ack" => logged = {1}

OInv ==
    /\ Types
    /\ ~Live => PassInv
    /\ Live /\ MaxEdits <= 1 => SingleInv
    /\ (Live => MaxEdits <= 1) => NothingLost

-----------------------------------------------------------------------------
(* Frames and queues                                                       *)

LEMMA MaxOfTwo ==
    ASSUME NEW a \in Nat, NEW b \in Nat
    PROVE  Max({a, b}) = IF a >= b THEN a ELSE b
<1> DEFINE m == IF a >= b THEN a ELSE b
<1>1. m \in {a, b} /\ \A y \in {a, b} : m >= y
  OBVIOUS
<1>2. \A x \in {a, b} : (\A y \in {a, b} : x >= y) => x = m
  OBVIOUS
<1> QED BY <1>1, <1>2 DEF Max

\* What the kind of a frame says of it.
LEMMA ToRelayFacts ==
    ASSUME NEW f \in ToRelay
    PROVE  /\ f.kind \in {"hello", "push", "compact"}
           /\ f.kind = "hello" => f.since \in 0..top
           /\ f.kind = "push" => f.blob \in Blobs
           /\ f.kind = "compact" => f.upto \in 0..top
BY DEF ToRelay

LEMMA ToClientFacts ==
    ASSUME NEW f \in ToClient
    PROVE  /\ f.kind \in {"welcome", "covers", "ack", "full", "compacted", "stale"}
           /\ f.kind = "welcome" => f.latest \in 0..top
           /\ f.kind = "covers" => f.seq \in 0..top
BY DEF ToClient

LEMMA FrameTypes ==
    /\ \A n \in 0..top :
          /\ Hello(n) \in ToRelay /\ CompactFrame(n) \in ToRelay
          /\ Welcome(n) \in ToClient /\ Covers(n) \in ToClient
    /\ \A blob \in Blobs : PushFrame(blob) \in ToRelay
    /\ {AckFrame, Full, Compacted, Stale} \subseteq ToClient
<1>1. \A n \in 0..top : Hello(n) \in ToRelay /\ CompactFrame(n) \in ToRelay
  BY DEF Hello, CompactFrame, ToRelay
<1>2. \A n \in 0..top : Welcome(n) \in ToClient /\ Covers(n) \in ToClient
  BY DEF Welcome, Covers, ToClient
<1>3. \A blob \in Blobs : PushFrame(blob) \in ToRelay
  BY DEF PushFrame, ToRelay
<1>4. {AckFrame, Full, Compacted, Stale} \subseteq ToClient
  BY DEF AckFrame, Full, Compacted, Stale, ToClient
<1> QED BY <1>1, <1>2, <1>3, <1>4

\* Frames and blobs stay what they are as the documents and the log grow.
Grows ==
    /\ docs \in Nat /\ docs' \in Nat /\ docs <= docs'
    /\ top \in Nat /\ top' \in Nat /\ top <= top'

LEMMA BlobsGrow ==
    ASSUME Grows
    PROVE  1..docs \subseteq 1..docs' /\ Blobs \subseteq Blobs'
<1>1. 1..docs \subseteq 1..docs'
  BY DEF Grows
<1> QED BY <1>1 DEF Blobs

LEMMA FramesGrow ==
    ASSUME Grows
    PROVE  ToRelay \subseteq ToRelay' /\ ToClient \subseteq ToClient'
<1>1. 0..top \subseteq 0..top'
  BY DEF Grows
<1>2. Blobs \subseteq Blobs'
  BY BlobsGrow
<1>3. ToRelay \subseteq ToRelay'
  BY <1>1, <1>2 DEF ToRelay
<1>4. ToClient \subseteq ToClient'
  BY <1>1 DEF ToClient
<1> QED BY <1>3, <1>4

LEMMA QueuesGrow ==
    ASSUME Grows
    PROVE  /\ outbox' \in Seq(Blobs) => outbox' \in Seq(Blobs')
           /\ c2s' \in Seq(ToRelay) => c2s' \in Seq(ToRelay')
           /\ s2c' \in Seq(ToClient) => s2c' \in Seq(ToClient')
<1>1. outbox' \in Seq(Blobs) => outbox' \in Seq(Blobs')
  BY BlobsGrow, SeqMonotonic
<1>2. c2s' \in Seq(ToRelay) => c2s' \in Seq(ToRelay')
  BY FramesGrow, SeqMonotonic
<1>3. s2c' \in Seq(ToClient) => s2c' \in Seq(ToClient')
  BY FramesGrow, SeqMonotonic
<1> QED BY <1>1, <1>2, <1>3

\* A session pushes its outbox, blob by blob.
LEMMA PushFramesFacts ==
    ASSUME NEW q \in Seq(Blobs)
    PROVE  /\ PushFrames(q) \in Seq(ToRelay)
           /\ Len(PushFrames(q)) = Len(q)
           /\ \A i \in 1..Len(q) : PushFrames(q)[i] = PushFrame(q[i])
<1>1. /\ Len(q) \in Nat /\ DOMAIN q = 1..Len(q)
      /\ \A i \in 1..Len(q) : q[i] \in Blobs
  OBVIOUS
<1>2. PushFrames(q) = [i \in 1..Len(q) |-> PushFrame(q[i])]
  BY <1>1 DEF PushFrames
<1>3. \A i \in 1..Len(q) : PushFrame(q[i]) \in ToRelay
  BY <1>1, FrameTypes
<1>4. PushFrames(q) \in [1..Len(q) -> ToRelay]
  BY <1>2, <1>3
<1>5. PushFrames(q) \in Seq(ToRelay)
  BY <1>1, <1>4, SeqDef
<1>6. DOMAIN PushFrames(q) = 1..Len(q)
  BY <1>4
<1> QED BY <1>1, <1>2, <1>5, <1>6, LenProperties

-----------------------------------------------------------------------------
(* Types, action by action                                                 *)

LEMMA TypesInit == Init => Types
<1> SUFFICES ASSUME Init PROVE Types
  OBVIOUS
<1>1. made = 0 /\ docs = 0 /\ outbox = <<>> /\ batch = {} /\ logged = {} /\ cast \in Casts
  BY DEF Init
<1>2. MaxEdits \in Nat
  BY <1>1, OutboxAssumption DEF MaxEdits
<1>3. DiskTypes
  BY <1>1, <1>2 DEF DiskTypes
<1>4. LogTypes
  BY DEF LogTypes, Init
<1>5. WireTypes
  BY DEF WireTypes, Init
<1>6. ProcessTypes
  BY DEF ProcessTypes, Init
<1> QED BY <1>3, <1>4, <1>5, <1>6 DEF Types

\* What a step leaves of the documents, the outbox and the relay's log.
SameDisk == made' = made /\ docs' = docs /\ outbox' = outbox /\ batch' = batch /\ logged' = logged /\ cast' = cast
SameLog == top' = top /\ base' = base /\ cursor' = cursor /\ target' = target /\ lastSent' = lastSent
SameProcess ==
    /\ stage' = stage /\ heal' = heal /\ folding' = folding /\ offered' = offered
    /\ caughtUp' = caughtUp /\ serving' = serving
    /\ cast' = cast /\ others' = others /\ drops' = drops

LEMMA SameTypes ==
    /\ DiskTypes /\ SameDisk => DiskTypes'
    /\ LogTypes /\ SameLog => LogTypes'
    /\ ProcessTypes /\ SameProcess /\ batch' = batch => ProcessTypes'
<1>1. DiskTypes /\ SameDisk => DiskTypes'
  BY DEF DiskTypes, SameDisk, MaxEdits, Blobs
<1>2. LogTypes /\ SameLog => LogTypes'
  BY DEF LogTypes, SameLog
<1>3. ProcessTypes /\ SameProcess /\ batch' = batch => ProcessTypes'
  BY DEF ProcessTypes, SameProcess
<1> QED BY <1>1, <1>2, <1>3

LEMMA EditTypes == ASSUME Types, Edit PROVE Types'
<1>1. /\ made' = made + 1 /\ made < MaxEdits /\ MaxEdits' = MaxEdits
      /\ docs' = docs /\ outbox' = outbox /\ batch' = batch /\ logged' = logged
      /\ SameLog /\ SameProcess /\ c2s' = c2s /\ s2c' = s2c
  BY DEF Edit, SameLog, SameProcess, process, wire, relay, bounds, MaxEdits
<1>2. MaxEdits \in Nat
  BY OutboxAssumption DEF MaxEdits, Types, ProcessTypes
<1>3. DiskTypes'
  BY <1>1, <1>2 DEF DiskTypes, Types, Blobs
<1>4. LogTypes' /\ ProcessTypes'
  BY <1>1, SameTypes DEF Types
<1>5. Grows
  BY <1>1 DEF Grows, Types, DiskTypes, LogTypes, SameLog
<1>6. WireTypes'
  BY <1>1, <1>5, QueuesGrow DEF WireTypes, Types
<1> QED BY <1>3, <1>4, <1>6 DEF Types

LEMMA ConnectTypes == ASSUME Types, Connect PROVE Types'
<1>1. /\ SameDisk /\ top' = top /\ base' = base /\ cursor' = cursor /\ lastSent' = lastSent
      /\ target' = 0 /\ s2c' = s2c
      /\ c2s' = IF Live THEN <<Hello(cursor)>> ELSE <<>>
  BY DEF Connect, SameDisk, disk, relay, bounds
<1>2. DiskTypes'
  BY <1>1, SameTypes DEF Types
<1>3. LogTypes'
  BY <1>1 DEF Types, LogTypes
<1>4. ProcessTypes'
  BY DEF Types, ProcessTypes, Connect, bounds
<1>5. Grows
  BY <1>1 DEF Grows, Types, DiskTypes, LogTypes, SameDisk
<1>6. Hello(cursor) \in ToRelay
  BY FrameTypes DEF Types, LogTypes
<1>7. c2s' \in Seq(ToRelay)
  BY <1>1, <1>6
<1>8. WireTypes'
  BY <1>1, <1>5, <1>7, QueuesGrow DEF WireTypes, Types
<1> QED BY <1>2, <1>3, <1>4, <1>8 DEF Types

LEMMA FoldDocsTypes == ASSUME Types, FoldDocs PROVE Types'
<1>1. /\ made' = made /\ docs' = made /\ outbox' = outbox /\ logged' = logged /\ cast' = cast
      /\ batch' = (docs + 1)..made
      /\ SameLog /\ c2s' = c2s /\ s2c' = s2c
  BY DEF FoldDocs, SameLog, wire, relay, bounds
<1>2. /\ made \in Nat /\ docs \in Nat /\ docs <= made /\ made <= MaxEdits
      /\ logged \subseteq 1..docs /\ outbox \in Seq(Blobs) /\ MaxEdits' = MaxEdits
  BY <1>1 DEF Types, DiskTypes, MaxEdits
<1>3. Grows
  BY <1>1, <1>2 DEF Grows, Types, LogTypes, SameLog
<1>4. logged \subseteq 1..made /\ (docs + 1)..made \subseteq 1..made
  BY <1>2
<1>5. outbox' \in Seq(Blobs')
  BY <1>1, <1>2, <1>3, QueuesGrow
<1>6. DiskTypes'
  <2>1. docs' <= made' /\ made' <= MaxEdits' /\ made' \in Nat /\ docs' \in Nat
    BY <1>1, <1>2
  <2>2. batch' \subseteq 1..docs' /\ logged' \subseteq 1..docs'
    BY <1>1, <1>4
  <2> QED BY <1>5, <2>1, <2>2 DEF DiskTypes
<1>7. LogTypes'
  BY <1>1, SameTypes DEF Types
<1>8. ProcessTypes'
  BY DEF Types, ProcessTypes, FoldDocs, MayScan, Live, wire, bounds
<1>9. WireTypes'
  BY <1>1, <1>3, QueuesGrow DEF WireTypes, Types
<1> QED BY <1>6, <1>7, <1>8, <1>9 DEF Types

LEMMA QueueFoldTypes == ASSUME Types, QueueFold PROVE Types'
<1>1. /\ made' = made /\ docs' = docs /\ logged' = logged /\ cast' = cast /\ batch' = {}
      /\ SameLog /\ s2c' = s2c /\ outbox' = Queued(outbox, batch)
      /\ c2s' = IF Live
                THEN IF batch = {} THEN c2s ELSE Append(c2s, PushFrame(batch))
                ELSE <<Hello(cursor)>>
  BY DEF QueueFold, SameLog, relay, bounds
<1>2. Grows
  BY <1>1 DEF Grows, Types, DiskTypes, LogTypes, SameLog
<1>3. batch # {} => batch \in Blobs
  BY DEF Types, DiskTypes, Blobs
<1>4. outbox' \in Seq(Blobs)
  BY <1>1, <1>3, AppendProperties DEF Queued, Types, DiskTypes
<1>5. c2s' \in Seq(ToRelay)
  <2>1. Hello(cursor) \in ToRelay /\ (batch # {} => PushFrame(batch) \in ToRelay)
    BY <1>3, FrameTypes DEF Types, LogTypes
  <2>2. c2s \in Seq(ToRelay)
    BY DEF Types, WireTypes
  <2>3. <<Hello(cursor)>> \in Seq(ToRelay) /\ (batch # {} => Append(c2s, PushFrame(batch)) \in Seq(ToRelay))
    BY <2>1, <2>2
  <2> QED BY <1>1, <2>2, <2>3
<1>6. DiskTypes'
  <2>1. outbox' \in Seq(Blobs')
    BY <1>2, <1>4, QueuesGrow
  <2> QED BY <1>1, <2>1 DEF Types, DiskTypes, MaxEdits
<1>7. LogTypes'
  BY <1>1, SameTypes DEF Types
<1>8. ProcessTypes'
  BY DEF Types, ProcessTypes, QueueFold, bounds
<1>9. WireTypes'
  BY <1>1, <1>2, <1>5, QueuesGrow DEF WireTypes, Types
<1> QED BY <1>6, <1>7, <1>8, <1>9 DEF Types

\* The frame a client reads, or the relay.
LEMMA HeadOfClient ==
    ASSUME Types, NEW kind, Frame(kind)
    PROVE  /\ s2c # <<>> /\ Head(s2c) = s2c[1] /\ Head(s2c) \in ToClient /\ Head(s2c).kind = kind
           /\ Tail(s2c) \in Seq(ToClient)
           /\ ~folding /\ batch = {}
BY HeadTailProperties DEF Frame, Types, WireTypes, ProcessTypes

LEMMA HeadOfRelay ==
    ASSUME Types, NEW kind, RelayReads(kind)
    PROVE  /\ c2s # <<>> /\ Head(c2s) = c2s[1] /\ Head(c2s) \in ToRelay /\ Head(c2s).kind = kind
           /\ Tail(c2s) \in Seq(ToRelay)
BY HeadTailProperties DEF RelayReads, Types, WireTypes

LEMMA SendTypes ==
    ASSUME Types, cursor' \in 0..top, NEW frames \in Seq(ToRelay), SendThenCatchUp(frames)
    PROVE  /\ c2s' \in Seq(ToRelay)
           /\ caughtUp' \in BOOLEAN /\ offered' \in BOOLEAN
           /\ ~Live => c2s' = c2s \o frames
<1>1. c2s \in Seq(ToRelay) /\ caughtUp \in BOOLEAN /\ offered \in BOOLEAN
  BY DEF Types, WireTypes, ProcessTypes
<1>2. CompactFrame(cursor') \in ToRelay
  BY FrameTypes
<1>3. c2s \o frames \in Seq(ToRelay) /\ <<CompactFrame(cursor')>> \in Seq(ToRelay)
  BY <1>1, <1>2, ConcatProperties
<1>4. c2s \o frames \o <<CompactFrame(cursor')>> \in Seq(ToRelay)
  BY <1>3, ConcatProperties
<1> QED BY <1>1, <1>3, <1>4 DEF SendThenCatchUp

\* A frame the client took, and what it sent for it.
Took(frames) ==
    /\ made' = made /\ docs' = docs /\ batch' = batch /\ logged' = logged
    /\ folding' = folding /\ serving' = serving
    /\ top' = top /\ base' = base /\ lastSent' = lastSent
    /\ cast' = cast /\ others' = others /\ drops' = drops
    /\ s2c' = Tail(s2c)
    /\ frames \in Seq(ToRelay)
    /\ cursor' \in 0..top /\ target' \in 0..top
    /\ outbox' \in Seq(Blobs)
    /\ heal' \in {"idle", "healing", "concluded"}
    /\ stage' \in {"hello", "on"}

LEMMA TookTypes ==
    ASSUME Types, NEW kind, Frame(kind), NEW frames, Took(frames),
           c2s' \in Seq(ToRelay), caughtUp' \in BOOLEAN, offered' \in BOOLEAN
    PROVE  Types'
<1>1. Grows
  BY DEF Grows, Types, DiskTypes, LogTypes, Took
<1>2. DiskTypes'
  <2>1. outbox' \in Seq(Blobs')
    BY <1>1, QueuesGrow DEF Took
  <2> QED BY <2>1 DEF Types, DiskTypes, Took, MaxEdits
<1>3. LogTypes'
  BY DEF Types, LogTypes, Took
<1>4. ProcessTypes'
  BY DEF Types, ProcessTypes, Took, Frame
<1>5. WireTypes'
  BY <1>1, QueuesGrow, HeadOfClient DEF WireTypes, Took
<1> QED BY <1>2, <1>3, <1>4, <1>5 DEF Types

LEMMA AckFrontFacts ==
    ASSUME NEW S, NEW q \in Seq(S)
    PROVE  AckFront(q) \in Seq(S)
BY HeadTailProperties DEF AckFront

LEMMA NoFrames == <<>> \in Seq(ToRelay)
OBVIOUS

LEMMA OnWelcomeTypes == ASSUME Types, OnWelcome PROVE Types' /\ Took(PendingPushes)
<1>1. Frame("welcome") /\ SendThenCatchUp(PendingPushes)
  BY DEF OnWelcome
<1>2. Head(s2c).latest \in 0..top
  BY <1>1, HeadOfClient, ToClientFacts
<1>3. PendingPushes \in Seq(ToRelay)
  BY PushFramesFacts DEF PendingPushes, Types, DiskTypes
<1>4. outbox \in Seq(Blobs) /\ cursor \in 0..top /\ heal \in {"idle", "healing", "concluded"}
  BY DEF Types, DiskTypes, LogTypes, ProcessTypes
<1>5. Took(PendingPushes)
  BY <1>2, <1>3, <1>4 DEF Took, OnWelcome, Consume, relay, bounds
<1>6. c2s' \in Seq(ToRelay) /\ caughtUp' \in BOOLEAN /\ offered' \in BOOLEAN
  BY <1>1, <1>3, <1>5, SendTypes DEF Took
<1> QED BY <1>1, <1>5, <1>6, TookTypes

LEMMA OnAckTypes == ASSUME Types, OnAck PROVE Types' /\ Took(<<>>)
<1>1. Frame("ack") /\ SendThenCatchUp(<<>>)
  BY DEF OnAck
<1>2. /\ AckFront(outbox) \in Seq(Blobs) /\ cursor \in 0..top /\ target \in 0..top
      /\ heal \in {"idle", "healing", "concluded"}
  BY AckFrontFacts DEF Types, DiskTypes, LogTypes, ProcessTypes
<1>3. Took(<<>>)
  BY <1>2, NoFrames DEF Took, OnAck, Frame, Consume, relay, bounds
<1>4. c2s' \in Seq(ToRelay) /\ caughtUp' \in BOOLEAN /\ offered' \in BOOLEAN
  BY <1>1, <1>3, NoFrames, SendTypes DEF Took
<1> QED BY <1>1, <1>3, <1>4, TookTypes

LEMMA OnCoversTypes == ASSUME Types, OnCovers PROVE Types' /\ Took(<<>>)
<1>1. Frame("covers") /\ SendThenCatchUp(<<>>)
  BY DEF OnCovers
<1>2. /\ outbox \in Seq(Blobs) /\ cursor \in 0..top /\ target \in 0..top
      /\ heal \in {"idle", "healing", "concluded"} /\ top \in Nat
  BY DEF Types, DiskTypes, LogTypes, ProcessTypes
<1>3. Head(s2c).seq \in 0..top
  BY <1>1, HeadOfClient, ToClientFacts
<1>4. Max({cursor, Head(s2c).seq}) \in 0..top
  BY <1>2, <1>3, MaxOfTwo
<1>5. Took(<<>>)
  BY <1>2, <1>4, NoFrames DEF Took, OnCovers, Frame, Consume, relay, bounds
<1>6. c2s' \in Seq(ToRelay) /\ caughtUp' \in BOOLEAN /\ offered' \in BOOLEAN
  BY <1>1, <1>5, NoFrames, SendTypes DEF Took
<1> QED BY <1>1, <1>5, <1>6, TookTypes

LEMMA OnCompactedTypes == ASSUME Types, OnCompacted PROVE Types' /\ Took(HealResend)
<1>1. Frame("compacted") /\ SendThenCatchUp(HealResend)
  BY DEF OnCompacted
<1>2. /\ outbox \in Seq(Blobs) /\ cursor \in 0..top /\ target \in 0..top
      /\ heal \in {"idle", "healing", "concluded"}
  BY DEF Types, DiskTypes, LogTypes, ProcessTypes
<1>3. HealResend \in Seq(ToRelay)
  BY <1>2, NoFrames, PushFramesFacts DEF HealResend, PendingPushes
<1>4. Took(HealResend)
  BY <1>2, <1>3 DEF Took, OnCompacted, Frame, Consume, relay, bounds
<1>5. c2s' \in Seq(ToRelay) /\ caughtUp' \in BOOLEAN /\ offered' \in BOOLEAN
  BY <1>1, <1>3, <1>4, SendTypes DEF Took
<1> QED BY <1>1, <1>4, <1>5, TookTypes

LEMMA OnStaleTypes == ASSUME Types, OnStale PROVE Types' /\ Took(<<>>)
<1>1. Frame("stale")
  BY DEF OnStale
<1>2. /\ outbox \in Seq(Blobs) /\ cursor \in 0..top /\ target \in 0..top
      /\ heal \in {"idle", "healing", "concluded"}
      /\ c2s \in Seq(ToRelay) /\ caughtUp \in BOOLEAN /\ offered \in BOOLEAN
  BY DEF Types, DiskTypes, LogTypes, ProcessTypes, WireTypes
<1>3. Took(<<>>)
  BY <1>2, NoFrames DEF Took, OnStale, Frame, Consume, relay, bounds
<1>4. c2s' \in Seq(ToRelay) /\ caughtUp' \in BOOLEAN /\ offered' \in BOOLEAN
  BY <1>2 DEF OnStale
<1> QED BY <1>1, <1>3, <1>4, TookTypes

\* A session that ends leaves the disk and the relay's log.
Ended ==
    /\ \E next \in {"stopped", "off"} : EndSession(next)
    /\ made' = made /\ docs' = docs /\ outbox' = outbox /\ logged' = logged
    /\ SameLog /\ heal' = heal /\ offered' = offered /\ caughtUp' = caughtUp
    /\ cast' = cast /\ others' = others /\ drops' \in Nat

LEMMA EndedTypes == ASSUME Types, Ended PROVE Types'
<1>1. Grows
  BY DEF Grows, Types, DiskTypes, LogTypes, Ended, SameLog
<1>2. DiskTypes'
  BY DEF Types, DiskTypes, Ended, EndSession, MaxEdits, Blobs
<1>3. LogTypes'
  BY SameTypes DEF Types, Ended
<1>4. ProcessTypes'
  BY DEF Types, ProcessTypes, Ended, EndSession
<1>5. WireTypes'
  BY DEF WireTypes, Ended, EndSession
<1> QED BY <1>2, <1>3, <1>4, <1>5 DEF Types

LEMMA OnFullTypes ==
    ASSUME Types, OnFull
    PROVE  /\ Types'
           /\ \/ Ended
              \/ Took(<<>>) /\ Live /\ outbox' = outbox
<1>1. CASE FatalRefusal
  <2>1. Ended
    BY <1>1 DEF OnFull, Ended, SameLog, relay, bounds, Types, ProcessTypes
  <2> QED BY <2>1, EndedTypes
<1>2. CASE ~FatalRefusal
  <2>1. Frame("full")
    BY DEF OnFull
  <2>2. /\ outbox \in Seq(Blobs) /\ cursor \in 0..top /\ target \in 0..top
        /\ heal \in {"idle", "healing", "concluded"}
        /\ c2s \in Seq(ToRelay) /\ caughtUp \in BOOLEAN /\ offered \in BOOLEAN
    BY DEF Types, DiskTypes, LogTypes, ProcessTypes, WireTypes
  <2>3. /\ Consume /\ stage' = stage
        /\ outbox' = outbox /\ cursor' = cursor /\ target' = target /\ caughtUp' = caughtUp
        /\ \/ heal' = "healing" /\ offered' = TRUE /\ c2s' = Append(c2s, CompactFrame(cursor))
           \/ heal' \in {heal, "concluded"} /\ offered' = offered /\ c2s' = c2s
    BY <1>2, <2>2 DEF OnFull
  <2>4. Took(<<>>)
    BY <2>1, <2>2, <2>3, NoFrames DEF Took, Frame, Consume, relay, bounds
  <2>5. Append(c2s, CompactFrame(cursor)) \in Seq(ToRelay)
    BY <2>2, FrameTypes, AppendProperties
  <2>6. c2s' \in Seq(ToRelay) /\ caughtUp' \in BOOLEAN /\ offered' \in BOOLEAN
    BY <2>2, <2>3, <2>5
  <2>7. Live
    BY <1>2 DEF FatalRefusal
  <2> QED BY <2>1, <2>3, <2>4, <2>6, <2>7, TookTypes
<1> QED BY <1>1, <1>2

LEMMA FinishTypes == ASSUME Types, Finish PROVE Types' /\ Ended
<1>1. Ended
  BY DEF Finish, Ended, SameLog, disk, relay, bounds, Types, ProcessTypes
<1> QED BY <1>1, EndedTypes

LEMMA DropTypes == ASSUME Types, Drop PROVE Types' /\ Ended
<1>1. Ended
  BY DEF Drop, Ended, SameLog, disk, relay, Types, ProcessTypes
<1> QED BY <1>1, EndedTypes

LEMMA RestartTypes == ASSUME Types, Restart PROVE Types'
<1>1. /\ SameDisk /\ stage' = "off" /\ batch' = batch /\ folding' = folding /\ heal' = heal
      /\ offered' = offered /\ caughtUp' = caughtUp /\ serving' = serving
      /\ cast' = cast /\ others' = others /\ drops' = drops /\ stage = "stopped"
      /\ c2s' = c2s /\ s2c' = s2c /\ SameLog
  BY DEF Restart, SameDisk, SameLog, disk, wire, relay, bounds
<1>2. DiskTypes'
  BY <1>1, SameTypes DEF Types
<1>3. LogTypes'
  BY <1>1, SameTypes DEF Types
<1>4. ProcessTypes'
  BY <1>1 DEF Types, ProcessTypes
<1>5. Grows
  BY <1>1 DEF Grows, Types, DiskTypes, LogTypes, SameDisk, SameLog
<1>6. WireTypes'
  BY <1>1, <1>5, QueuesGrow DEF WireTypes, Types
<1> QED BY <1>2, <1>3, <1>4, <1>6 DEF Types

\* What a step of the relay, or of another device, leaves alone.
SameClient ==
    /\ made' = made /\ docs' = docs /\ outbox' = outbox /\ batch' = batch /\ cast' = cast
    /\ cursor' = cursor /\ target' = target
    /\ stage' = stage /\ heal' = heal /\ folding' = folding
    /\ offered' = offered /\ caughtUp' = caughtUp

LEMMA RelayTypes ==
    ASSUME Types, SameClient, serving' \in BOOLEAN, others' \in Nat, drops' \in Nat,
           logged' \subseteq 1..docs, top' \in Nat, top <= top', base' \in 0..top', lastSent' \in 0..top',
           c2s' \in Seq(ToRelay), s2c' \in Seq(ToClient')
    PROVE  Types'
<1>1. Grows
  BY DEF Grows, Types, DiskTypes, LogTypes, SameClient
<1>2. DiskTypes'
  BY DEF Types, DiskTypes, SameClient, MaxEdits, Blobs
<1>3. LogTypes'
  BY DEF Types, LogTypes, SameClient
<1>4. ProcessTypes'
  BY DEF Types, ProcessTypes, SameClient
<1>5. WireTypes'
  BY <1>1, QueuesGrow DEF WireTypes
<1> QED BY <1>2, <1>3, <1>4, <1>5 DEF Types

LEMMA RelayHelloTypes == ASSUME Types, RelayHello PROVE Types' /\ SameClient
<1>1. RelayReads("hello") /\ SameClient /\ serving' = TRUE
  BY DEF RelayHello, SameClient, disk, process, bounds
<1>2. /\ top' = top /\ base' = base /\ logged' = logged /\ others' = others /\ drops' = drops
      /\ s2c' = Append(s2c, Welcome(top)) \o (IF Head(c2s).since < base THEN <<Covers(base)>> ELSE <<>>)
      /\ lastSent' = Max({Head(c2s).since, base})
      /\ c2s' = Tail(c2s)
  BY DEF RelayHello, relay, bounds
<1>3. Head(c2s).since \in 0..top /\ Tail(c2s) \in Seq(ToRelay)
  BY <1>1, HeadOfRelay, ToRelayFacts
<1>4. top \in Nat /\ base \in 0..top /\ logged \subseteq 1..docs /\ s2c \in Seq(ToClient)
  BY DEF Types, DiskTypes, LogTypes, WireTypes
<1>5. Welcome(top) \in ToClient /\ Covers(base) \in ToClient
  BY <1>4, FrameTypes
<1>6. Append(s2c, Welcome(top)) \in Seq(ToClient) /\ <<Covers(base)>> \in Seq(ToClient) /\ <<>> \in Seq(ToClient)
  BY <1>4, <1>5, AppendProperties
<1>7. s2c' \in Seq(ToClient)
  BY <1>2, <1>6, ConcatProperties
<1>8. Grows
  BY <1>1, <1>2, <1>4 DEF Grows, SameClient, Types, DiskTypes
<1>9. lastSent' \in 0..top
  <2> DEFINE since == Head(c2s).since
  <2>1. since \in 0..top /\ since \in Nat /\ base \in 0..top /\ base \in Nat
    BY <1>3, <1>4
  <2> HIDE DEF since
  <2>2. Max({since, base}) \in 0..top
    BY <2>1, MaxOfTwo
  <2> QED BY <1>2, <2>2 DEF since
<1>10. s2c' \in Seq(ToClient') /\ others' \in Nat /\ drops' \in Nat
  BY <1>2, <1>7, <1>8, QueuesGrow DEF Types, ProcessTypes
<1> QED BY <1>1, <1>2, <1>3, <1>4, <1>9, <1>10, RelayTypes

\* An append to what the relay sends.
LEMMA Answered ==
    ASSUME Types, Grows, NEW f \in ToClient, s2c' = Append(s2c, f)
    PROVE  s2c' \in Seq(ToClient')
<1>1. Append(s2c, f) \in Seq(ToClient)
  BY AppendProperties DEF Types, WireTypes
<1> QED BY <1>1, QueuesGrow

LEMMA RelayPushTypes == ASSUME Types, RelayPush PROVE Types' /\ SameClient
<1>1. RelayReads("push") /\ SameClient /\ serving' = serving /\ others' = others /\ drops' = drops
  BY DEF RelayPush, SameClient, disk, process, bounds
<1>2. /\ top \in Nat /\ docs \in Nat /\ base \in 0..top /\ lastSent \in 0..top /\ logged \subseteq 1..docs
      /\ serving \in BOOLEAN /\ others \in Nat /\ drops \in Nat
  BY DEF Types, DiskTypes, LogTypes, ProcessTypes
<1>3. /\ base' = base /\ lastSent' = lastSent /\ c2s' = Tail(c2s)
      /\ \/ top' = top + 1 /\ logged' = logged \union Head(c2s).blob /\ s2c' = Append(s2c, AckFrame)
         \/ top' = top /\ logged' = logged /\ s2c' = Append(s2c, Full)
  BY DEF RelayPush
<1>4. Head(c2s).blob \subseteq 1..docs /\ Tail(c2s) \in Seq(ToRelay)
  BY <1>1, HeadOfRelay, ToRelayFacts DEF Blobs
<1>5. logged' \subseteq 1..docs
  BY <1>2, <1>3, <1>4
<1>6. top' \in Nat /\ top <= top' /\ base' \in 0..top' /\ lastSent' \in 0..top'
  <2>1. (top' = top + 1 \/ top' = top) /\ base' = base /\ lastSent' = lastSent
    BY <1>3
  <2> QED BY <1>2, <2>1
<1>7. Grows
  BY <1>1, <1>2, <1>6 DEF Grows, SameClient
<1>8. s2c' \in Seq(ToClient')
  BY <1>3, <1>7, Answered, FrameTypes
<1> QED BY <1>1, <1>2, <1>3, <1>4, <1>5, <1>6, <1>8, RelayTypes

LEMMA RelayCompactTypes == ASSUME Types, RelayCompact PROVE Types' /\ SameClient
<1>1. RelayReads("compact") /\ SameClient /\ serving' = serving /\ others' = others /\ drops' = drops
  BY DEF RelayCompact, SameClient, disk, process, bounds
<1>2. /\ top \in Nat /\ docs \in Nat /\ base \in 0..top /\ lastSent \in 0..top /\ logged \subseteq 1..docs
      /\ serving \in BOOLEAN /\ others \in Nat /\ drops \in Nat
  BY DEF Types, DiskTypes, LogTypes, ProcessTypes
<1>3. /\ top' = top /\ logged' = logged /\ lastSent' = lastSent /\ c2s' = Tail(c2s)
      /\ \/ base' = Head(c2s).upto /\ s2c' = Append(s2c, Compacted)
         \/ base' = base /\ s2c' = Append(s2c, Stale)
  BY DEF RelayCompact
<1>4. Head(c2s).upto \in 0..top /\ Tail(c2s) \in Seq(ToRelay)
  BY <1>1, HeadOfRelay, ToRelayFacts
<1>5. Grows
  BY <1>1, <1>2, <1>3 DEF Grows, SameClient
<1>6. s2c' \in Seq(ToClient')
  BY <1>3, <1>5, Answered, FrameTypes
<1>7. base' \in 0..top' /\ top' \in Nat /\ top <= top' /\ lastSent' \in 0..top'
  BY <1>2, <1>3, <1>4
<1> QED BY <1>1, <1>2, <1>3, <1>4, <1>6, <1>7, RelayTypes

LEMMA RelayUpdateTypes == ASSUME Types, RelayUpdate PROVE Types' /\ SameClient
<1>1. /\ SameClient /\ serving' = serving /\ others' = others /\ drops' = drops
      /\ top' = top /\ base' = base /\ logged' = logged /\ c2s' = c2s
      /\ lastSent < top /\ lastSent' = lastSent + 1 /\ s2c' = Append(s2c, Covers(lastSent + 1))
  BY DEF RelayUpdate, SameClient, disk, process, relay, bounds
<1>2. /\ top \in Nat /\ docs \in Nat /\ base \in 0..top /\ lastSent \in 0..top /\ logged \subseteq 1..docs
      /\ serving \in BOOLEAN /\ others \in Nat /\ drops \in Nat /\ c2s \in Seq(ToRelay)
  BY DEF Types, DiskTypes, LogTypes, ProcessTypes, WireTypes
<1>3. lastSent + 1 \in 0..top
  BY <1>1, <1>2
<1>4. Grows
  BY <1>1, <1>2 DEF Grows, SameClient
<1>5. s2c' \in Seq(ToClient')
  BY <1>1, <1>3, <1>4, Answered, FrameTypes
<1> QED BY <1>1, <1>2, <1>3, <1>5, RelayTypes

\* What another device does moves the log's ends.
Elsewhere ==
    /\ SameClient /\ serving' = serving /\ logged' = logged /\ c2s' = c2s /\ s2c' = s2c
    /\ drops' = drops /\ lastSent' = lastSent

LEMMA OtherTypes == ASSUME Types, OtherCompacts \/ OtherPushes PROVE Types' /\ Elsewhere
<1>1. Elsewhere /\ others' = others + 1
  BY DEF OtherCompacts, OtherPushes, Elsewhere, SameClient, disk, process, wire
<1>2. /\ top \in Nat /\ docs \in Nat /\ base \in 0..top /\ lastSent \in 0..top /\ logged \subseteq 1..docs
      /\ serving \in BOOLEAN /\ others \in Nat /\ drops \in Nat
      /\ c2s \in Seq(ToRelay) /\ s2c \in Seq(ToClient)
  BY DEF Types, DiskTypes, LogTypes, ProcessTypes, WireTypes
<1>3. \/ top' = top /\ base' \in (base + 1)..top
      \/ top' = top + 1 /\ base' = base
  BY DEF OtherCompacts, OtherPushes
<1>4. top' \in Nat /\ top <= top' /\ base' \in 0..top' /\ lastSent' \in 0..top'
  BY <1>1, <1>2, <1>3 DEF Elsewhere
<1>5. Grows
  BY <1>1, <1>2, <1>4 DEF Grows, Elsewhere, SameClient
<1>6. s2c' \in Seq(ToClient')
  BY <1>1, <1>2, <1>5, QueuesGrow DEF Elsewhere
<1> QED BY <1>1, <1>2, <1>4, <1>6, RelayTypes DEF Elsewhere

LEMMA SameAll ==
    ASSUME Types, UNCHANGED vars
    PROVE  Types' /\ Elsewhere
<1>1. /\ Elsewhere /\ others' = others /\ top' = top /\ base' = base
  BY DEF vars, disk, process, wire, relay, bounds, Elsewhere, SameClient
<1>2. Grows
  BY <1>1 DEF Grows, Types, DiskTypes, LogTypes, Elsewhere, SameClient
<1>3. s2c' \in Seq(ToClient')
  BY <1>1, <1>2, QueuesGrow DEF Elsewhere, Types, WireTypes
<1> QED BY <1>1, <1>3, RelayTypes DEF Elsewhere, Types, DiskTypes, LogTypes, ProcessTypes, WireTypes

LEMMA StepTypes == ASSUME Types, [Next]_vars PROVE Types'
<1>1. CASE Edit
  BY <1>1, EditTypes
<1>2. CASE Connect
  BY <1>2, ConnectTypes
<1>3. CASE FoldDocs
  BY <1>3, FoldDocsTypes
<1>4. CASE QueueFold
  BY <1>4, QueueFoldTypes
<1>5. CASE OnWelcome
  BY <1>5, OnWelcomeTypes
<1>6. CASE OnAck
  BY <1>6, OnAckTypes
<1>7. CASE OnCovers
  BY <1>7, OnCoversTypes
<1>8. CASE OnFull
  BY <1>8, OnFullTypes
<1>9. CASE OnCompacted
  BY <1>9, OnCompactedTypes
<1>10. CASE OnStale
  BY <1>10, OnStaleTypes
<1>11. CASE Finish
  BY <1>11, FinishTypes
<1>12. CASE RelayHello
  BY <1>12, RelayHelloTypes
<1>13. CASE RelayPush
  BY <1>13, RelayPushTypes
<1>14. CASE RelayCompact
  BY <1>14, RelayCompactTypes
<1>15. CASE RelayUpdate
  BY <1>15, RelayUpdateTypes
<1>16. CASE OtherCompacts \/ OtherPushes
  BY <1>16, OtherTypes
<1>17. CASE Drop
  BY <1>17, DropTypes
<1>18. CASE Restart
  BY <1>18, RestartTypes
<1>19. CASE UNCHANGED vars
  BY <1>19, SameAll
<1> QED BY <1>1, <1>2, <1>3, <1>4, <1>5, <1>6, <1>7, <1>8, <1>9, <1>10, <1>11, <1>12, <1>13,
            <1>14, <1>15, <1>16, <1>17, <1>18, <1>19 DEF Next, ClientStep, RelayStep

-----------------------------------------------------------------------------
(* Counting answers                                                        *)

LEMMA AnswersFacts ==
    ASSUME NEW q, NEW k \in Nat
    PROVE  /\ Answers(q, 0) = 0
           /\ Answers(q, k) \in Nat
           /\ Answers(q, k + 1) = Answers(q, k) + (IF IsAnswer(q[k + 1]) THEN 1 ELSE 0)
<1> DEFINE A == {i \in 1..k : IsAnswer(q[i])}
<1> DEFINE B == {i \in 1..(k + 1) : IsAnswer(q[i])}
<1>1. {i \in 1..0 : IsAnswer(q[i])} = {}
  OBVIOUS
<1>2. IsFiniteSet(A) /\ Cardinality(A) \in Nat
  <2>1. IsFiniteSet(1..k) /\ A \subseteq 1..k
    BY FS_Interval
  <2> QED BY <2>1, FS_Subset, FS_CardinalityType
<1>3. Cardinality(A \union {k + 1}) = Cardinality(A) + 1
  <2>1. k + 1 \notin A
    OBVIOUS
  <2> QED BY <1>2, <2>1, FS_AddElement
<1>4. 1..(k + 1) = (1..k) \union {k + 1}
  OBVIOUS
<1>5. B = IF IsAnswer(q[k + 1]) THEN A \union {k + 1} ELSE A
  BY <1>4
<1>6. Cardinality(B) = Cardinality(A) + (IF IsAnswer(q[k + 1]) THEN 1 ELSE 0)
  BY <1>2, <1>3, <1>5
<1> QED BY <1>1, <1>2, <1>6, FS_EmptySet DEF Answers

\* Only the kinds of the frames count.
LEMMA SamePrefix ==
    ASSUME NEW q, NEW r, NEW k \in Nat, \A i \in 1..k : q[i].kind = r[i].kind
    PROVE  Answers(q, k) = Answers(r, k)
<1>1. {i \in 1..k : IsAnswer(q[i])} = {i \in 1..k : IsAnswer(r[i])}
  BY DEF IsAnswer
<1> QED BY <1>1 DEF Answers

LEMMA NoAnswers ==
    ASSUME NEW q, NEW k \in Nat, \A i \in 1..k : ~IsAnswer(q[i])
    PROVE  Answers(q, k) = 0
<1>1. {i \in 1..k : IsAnswer(q[i])} = {}
  OBVIOUS
<1> QED BY <1>1, FS_EmptySet DEF Answers

LEMMA AnswersMonotonic ==
    ASSUME NEW q, NEW k \in Nat, NEW n \in Nat, k <= n
    PROVE  Answers(q, k) <= Answers(q, n)
<1> DEFINE A == {i \in 1..k : IsAnswer(q[i])}
<1> DEFINE B == {i \in 1..n : IsAnswer(q[i])}
<1>1. 1..k \subseteq 1..n
  OBVIOUS
<1>2. A \subseteq B /\ B \subseteq 1..n /\ IsFiniteSet(1..n)
  BY <1>1, FS_Interval
<1>3. IsFiniteSet(B)
  BY <1>2, FS_Subset
<1>4. Cardinality(A) <= Cardinality(B)
  BY <1>2, <1>3, FS_Subset
<1> QED BY <1>4 DEF Answers

\* Without its first frame a sequence has one answer less, or as many.
LEMMA AnswersOfTail ==
    ASSUME NEW S, NEW q \in Seq(S), q # <<>>, NEW k \in Nat, k < Len(q)
    PROVE  Answers(q, k + 1) = Answers(Tail(q), k) + (IF IsAnswer(q[1]) THEN 1 ELSE 0)
<1> DEFINE A == {i \in 1..k : IsAnswer(Tail(q)[i])}
<1> DEFINE B == {i \in 1..(k + 1) : IsAnswer(q[i])}
<1> DEFINE C == {i \in 2..(k + 1) : IsAnswer(q[i])}
<1>1. \A i \in 1..k : Tail(q)[i] = q[i + 1]
  BY HeadTailProperties
<1>2. IsFiniteSet(A)
  <2>1. IsFiniteSet(1..k) /\ A \subseteq 1..k
    BY FS_Interval
  <2> QED BY <2>1, FS_Subset
<1>3. ExistsBijection(A, C)
  <2> DEFINE f == [i \in A |-> i + 1]
  <2>1. \A i \in A : i + 1 \in C
    BY <1>1
  <2>2. \A i, j \in A : f[i] = f[j] => i = j
    OBVIOUS
  <2>3. \A c \in C : \E i \in A : f[i] = c
    <3>1. ASSUME NEW c \in C
          PROVE  c - 1 \in A /\ f[c - 1] = c
      <4>1. c \in 2..(k + 1) /\ IsAnswer(q[c])
        OBVIOUS
      <4>2. c - 1 \in 1..k /\ (c - 1) + 1 = c
        BY <4>1
      <4>3. Tail(q)[c - 1] = q[c]
        BY <1>1, <4>2
      <4> QED BY <4>1, <4>2, <4>3
    <3> QED BY <3>1
  <2>4. f \in [A -> C]
    BY <2>1
  <2>5. f \in Injection(A, C) /\ f \in Surjection(A, C)
    BY <2>2, <2>3, <2>4, Fun_IsInj, Fun_IsSurj
  <2> QED BY <2>5 DEF ExistsBijection, Bijection
<1>4. IsFiniteSet(C) /\ Cardinality(C) = Cardinality(A)
  BY <1>2, <1>3, FS_Bijection
<1>5. 1..(k + 1) = (2..(k + 1)) \union {1} /\ 1 \notin C
  OBVIOUS
<1>6. B = IF IsAnswer(q[1]) THEN C \union {1} ELSE C
  BY <1>5
<1>7. Cardinality(C \union {1}) = Cardinality(C) + 1 /\ Cardinality(C) \in Nat
  BY <1>4, <1>5, FS_AddElement, FS_CardinalityType
<1> HIDE DEF A, B, C
<1>8. Cardinality(B) = Cardinality(A) + (IF IsAnswer(q[1]) THEN 1 ELSE 0)
  BY <1>4, <1>6, <1>7
<1> QED BY <1>8 DEF Answers, A, B

-----------------------------------------------------------------------------
(* The pass client's connection                                            *)

\* Which frames it can find at its end of the wire.
LEMMA PassFrame ==
    ASSUME Types, PassInv, NEW kind, Frame(kind)
    PROVE  /\ kind = "welcome" =>
                 /\ stage = "hello" /\ c2s = <<>> /\ serving /\ ~folding
                 /\ \A i \in 1..Len(Tail(s2c)) : Tail(s2c)[i].kind = "covers"
           /\ kind # "welcome" =>
                 stage = "on" /\ Answering /\ ~folding /\ kind \in {"ack", "full", "covers"}
<1>1. /\ s2c \in Seq(ToClient) /\ s2c # <<>> /\ Head(s2c).kind = kind /\ Head(s2c) = s2c[1]
      /\ Len(s2c) \in Nat /\ 1 \in DOMAIN s2c /\ ~folding /\ stage \in {"hello", "on"}
  BY HeadOfClient DEF Types, WireTypes, Frame
<1>2. CASE stage = "hello"
  <2>1. Greeting
    BY <1>2 DEF PassInv
  <2>2. /\ serving /\ c2s = <<>> /\ s2c[1].kind = "welcome"
        /\ \A k \in 2..Len(s2c) : s2c[k].kind = "covers"
    BY <1>1, <2>1 DEF Greeting
  <2>3. /\ \A i \in 1..Len(Tail(s2c)) : Tail(s2c)[i] = s2c[i + 1]
        /\ Len(Tail(s2c)) = Len(s2c) - 1
    BY <1>1, HeadTailProperties
  <2>4. \A i \in 1..Len(Tail(s2c)) : i + 1 \in 2..Len(s2c)
    BY <1>1, <2>3
  <2>5. \A i \in 1..Len(Tail(s2c)) : Tail(s2c)[i].kind = "covers"
    BY <2>2, <2>3, <2>4
  <2> QED BY <1>1, <1>2, <2>2, <2>5
<1>3. CASE stage = "on"
  <2>1. Answering
    BY <1>3 DEF PassInv
  <2>2. s2c[1].kind \in {"ack", "full", "covers"}
    BY <1>1, <2>1 DEF Answering
  <2> QED BY <1>1, <1>3, <2>1, <2>2
<1> QED BY <1>1, <1>2, <1>3

\* Which it can find at the relay's.
LEMMA PassReads ==
    ASSUME Types, PassInv, ~Live, NEW kind, RelayReads(kind)
    PROVE  /\ kind \in {"hello", "push"}
           /\ kind = "hello" =>
                 stage = "hello" /\ ~serving /\ s2c = <<>> /\ Tail(c2s) = <<>> /\ ~folding
           /\ kind = "push" => stage = "on" /\ Answering /\ ~folding
<1>1. /\ c2s \in Seq(ToRelay) /\ c2s # <<>> /\ c2s[1].kind = kind /\ Len(c2s) \in Nat /\ 1 \in DOMAIN c2s
      /\ stage \in {"stopped", "off", "start", "hello", "on"} /\ folding \in BOOLEAN
  BY HeadOfRelay DEF Types, WireTypes, ProcessTypes, RelayReads
<1>2. stage \notin {"stopped", "off", "start"}
  BY <1>1 DEF PassInv, Quiet
<1>3. ~folding
  BY <1>2 DEF PassInv
<1>4. CASE stage = "hello"
  <2>1. Greeting
    BY <1>4 DEF PassInv
  <2>2. ~serving /\ s2c = <<>> /\ Len(c2s) = 1 /\ kind = "hello"
    BY <1>1, <2>1 DEF Greeting
  <2>3. Tail(c2s) \in Seq(ToRelay) /\ Len(Tail(c2s)) = 0
    BY <1>1, <2>2, HeadTailProperties
  <2>4. Tail(c2s) = <<>>
    BY <2>3, EmptySeq
  <2> QED BY <1>3, <1>4, <2>2, <2>4
<1>5. CASE stage = "on"
  <2>1. Answering
    BY <1>5 DEF PassInv
  <2>2. kind = "push"
    BY <1>1, <2>1 DEF Answering
  <2> QED BY <1>3, <1>5, <2>1, <2>2
<1> QED BY <1>1, <1>2, <1>4, <1>5

LEMMA PassEnds == ASSUME Ended PROVE PassInv'
BY DEF Ended, EndSession, PassInv, Quiet

LEMMA PassElsewhere == ASSUME PassInv, Elsewhere PROVE PassInv'
<1>1. /\ folding' = folding /\ stage' = stage /\ c2s' = c2s /\ s2c' = s2c /\ serving' = serving
      /\ outbox' = outbox /\ logged' = logged
  BY DEF Elsewhere, SameClient
<1> QED BY <1>1 DEF PassInv, Quiet, Greeting, Answering

LEMMA PassWelcome == ASSUME Types, PassInv, ~Live, OnWelcome PROVE PassInv'
<1>1. Frame("welcome") /\ Took(PendingPushes) /\ SendThenCatchUp(PendingPushes) /\ stage' = "on" /\ outbox' = outbox
  BY OnWelcomeTypes DEF OnWelcome
<1>2. /\ stage = "hello" /\ c2s = <<>> /\ ~folding
      /\ \A i \in 1..Len(Tail(s2c)) : Tail(s2c)[i].kind = "covers"
  BY <1>1, PassFrame
<1>3. /\ s2c' = Tail(s2c) /\ folding' = folding /\ s2c' \in Seq(ToClient) /\ outbox \in Seq(Blobs)
      /\ PendingPushes \in Seq(ToRelay) /\ cursor' \in 0..top
  BY <1>1, HeadOfClient DEF Took, Types, DiskTypes
<1>4. c2s' = PendingPushes
  <2>1. c2s' = c2s \o PendingPushes
    BY <1>1, <1>3, SendTypes
  <2> QED BY <1>2, <1>3, <2>1, ConcatEmptySeq
<1>5. /\ Len(c2s') = Len(outbox) /\ Len(outbox) \in Nat
      /\ \A j \in 1..Len(outbox) : c2s'[j].kind = "push" /\ c2s'[j].blob = outbox[j]
      /\ DOMAIN c2s' = 1..Len(outbox)
  <2>1. /\ Len(c2s') = Len(outbox) /\ Len(outbox) \in Nat
        /\ \A j \in 1..Len(outbox) : c2s'[j] = PushFrame(outbox[j])
        /\ c2s' \in Seq(ToRelay)
    BY <1>3, <1>4, PushFramesFacts DEF PendingPushes
  <2>2. \A blob : PushFrame(blob).kind = "push" /\ PushFrame(blob).blob = blob
    BY DEF PushFrame
  <2>3. DOMAIN c2s' = 1..Len(outbox)
    BY <2>1, LenProperties
  <2>4. \A j \in 1..Len(outbox) : c2s'[j].kind = "push" /\ c2s'[j].blob = outbox[j]
    BY <2>1, <2>2
  <2> QED BY <2>1, <2>3, <2>4
<1>6. DOMAIN s2c' = 1..Len(s2c') /\ Len(s2c') \in Nat
  BY <1>3
<1>7. Answers(s2c', Len(s2c')) = 0
  BY <1>2, <1>3, <1>6, NoAnswers DEF IsAnswer
<1>8. Answering'
  <2>1. \A k \in DOMAIN s2c' : s2c'[k].kind = "covers"
    BY <1>2, <1>3, <1>6
  <2>2. Answers(s2c', Len(s2c')) + Len(c2s') = Len(outbox')
    BY <1>1, <1>5, <1>7
  <2>3. \A j \in DOMAIN c2s' : (Len(outbox') - Len(c2s')) + j = j
    BY <1>1, <1>5
  <2> QED BY <1>1, <1>5, <2>1, <2>2, <2>3 DEF Answering
<1> QED BY <1>1, <1>2, <1>3, <1>8 DEF PassInv

\* An answer counts itself.
LEMMA AnswersItself ==
    ASSUME NEW q, NEW k \in Nat \ {0}, IsAnswer(q[k])
    PROVE  Answers(q, k) \in Nat /\ Answers(q, k) >= 1
<1>1. k - 1 \in Nat /\ (k - 1) + 1 = k
  OBVIOUS
<1>2. /\ Answers(q, k - 1) \in Nat
      /\ Answers(q, (k - 1) + 1) = Answers(q, k - 1) + (IF IsAnswer(q[(k - 1) + 1]) THEN 1 ELSE 0)
  BY <1>1, AnswersFacts
<1>3. Answers(q, k) = Answers(q, k - 1) + 1
  BY <1>1, <1>2
<1> QED BY <1>2, <1>3

\* What is left of what the relay sends, once the client has taken a frame.
LEMMA TailFacts ==
    ASSUME Types, s2c # <<>>, s2c' = Tail(s2c)
    PROVE  /\ Len(s2c) \in Nat \ {0} /\ Len(s2c') = Len(s2c) - 1
           /\ DOMAIN s2c = 1..Len(s2c) /\ DOMAIN s2c' = 1..(Len(s2c) - 1)
           /\ \A k \in 1..(Len(s2c) - 1) : s2c'[k] = s2c[k + 1]
           /\ \A k \in 0..(Len(s2c) - 1) :
                 Answers(s2c, k + 1) = Answers(s2c', k) + (IF IsAnswer(s2c[1]) THEN 1 ELSE 0)
<1>1. /\ Len(s2c) \in Nat \ {0} /\ Len(s2c') = Len(s2c) - 1 /\ s2c' \in Seq(ToClient)
      /\ DOMAIN s2c = 1..Len(s2c) /\ s2c \in Seq(ToClient)
      /\ \A k \in 1..(Len(s2c) - 1) : s2c'[k] = s2c[k + 1]
  BY HeadTailProperties DEF Types, WireTypes
<1>2. DOMAIN s2c' = 1..(Len(s2c) - 1)
  BY <1>1
<1>3. ASSUME NEW k \in 0..(Len(s2c) - 1)
      PROVE  Answers(s2c, k + 1) = Answers(s2c', k) + (IF IsAnswer(s2c[1]) THEN 1 ELSE 0)
  <2>1. k \in Nat /\ k < Len(s2c)
    BY <1>1
  <2> QED BY <1>1, <2>1, AnswersOfTail
<1> QED BY <1>1, <1>2, <1>3

\* An ack answers the oldest blob.
LEMMA AckedFirst ==
    ASSUME Types, PassInv, ~Live, OnAck
    PROVE  /\ Len(outbox) >= 1 /\ outbox # <<>> /\ outbox[1] \subseteq logged
           /\ Answers(s2c, 1) = 1
<1>1. Frame("ack")
  BY DEF OnAck
<1>2. Answering /\ s2c # <<>> /\ s2c[1].kind = "ack" /\ s2c \in Seq(ToClient) /\ outbox \in Seq(Blobs) /\ c2s \in Seq(ToRelay)
  BY <1>1, PassFrame, HeadOfClient DEF Types, WireTypes, DiskTypes
<1>3. Len(s2c) \in Nat /\ Len(s2c) >= 1 /\ 1 \in DOMAIN s2c /\ Len(outbox) \in Nat /\ Len(c2s) \in Nat
  BY <1>2
<1>4. Answers(s2c, 1) = 1
  <2>1. Answers(s2c, 0) = 0 /\ Answers(s2c, 0 + 1) = Answers(s2c, 0) + (IF IsAnswer(s2c[0 + 1]) THEN 1 ELSE 0)
    BY AnswersFacts
  <2>2. IsAnswer(s2c[1])
    BY <1>2 DEF IsAnswer
  <2> QED BY <2>1, <2>2
<1>5. Answers(s2c, Len(s2c)) \in Nat /\ Answers(s2c, Len(s2c)) >= 1
  BY <1>3, <1>4, AnswersFacts, AnswersMonotonic
<1>6. Len(outbox) >= 1
  <2>1. Answers(s2c, Len(s2c)) + Len(c2s) = Len(outbox)
    BY <1>2 DEF Answering
  <2> QED BY <1>3, <1>5, <2>1
<1>7. outbox[Answers(s2c, 1)] \subseteq logged
  BY <1>2, <1>3 DEF Answering
<1> QED BY <1>2, <1>4, <1>6, <1>7, EmptySeq

LEMMA PassAck == ASSUME Types, PassInv, ~Live, OnAck PROVE PassInv'
<1>1. Frame("ack") /\ Took(<<>>) /\ SendThenCatchUp(<<>>)
  BY OnAckTypes DEF OnAck
<1>2. stage = "on" /\ Answering /\ ~folding /\ s2c # <<>> /\ s2c[1].kind = "ack"
  BY <1>1, PassFrame, HeadOfClient
<1>3. /\ s2c' = Tail(s2c) /\ folding' = folding /\ logged' = logged /\ stage' = stage
      /\ outbox' = AckFront(outbox) /\ cursor' \in 0..top /\ outbox \in Seq(Blobs) /\ c2s \in Seq(ToRelay)
  BY <1>1 DEF Took, OnAck, Types, DiskTypes, WireTypes
<1>4. c2s' = c2s
  <2>1. c2s' = c2s \o <<>>
    BY <1>1, <1>3, SendTypes, NoFrames
  <2> QED BY <1>3, <2>1, ConcatEmptySeq
<1>5. /\ Len(s2c) \in Nat \ {0} /\ Len(s2c') = Len(s2c) - 1
      /\ DOMAIN s2c = 1..Len(s2c) /\ DOMAIN s2c' = 1..(Len(s2c) - 1)
      /\ \A k \in 1..(Len(s2c) - 1) : s2c'[k] = s2c[k + 1]
      /\ \A k \in 0..(Len(s2c) - 1) :
            Answers(s2c, k + 1) = Answers(s2c', k) + 1 /\ Answers(s2c', k) \in Nat
  <2>1. IsAnswer(s2c[1])
    BY <1>2 DEF IsAnswer
  <2>2. /\ Len(s2c) \in Nat \ {0} /\ Len(s2c') = Len(s2c) - 1
        /\ DOMAIN s2c = 1..Len(s2c) /\ DOMAIN s2c' = 1..(Len(s2c) - 1)
        /\ \A k \in 1..(Len(s2c) - 1) : s2c'[k] = s2c[k + 1]
        /\ \A k \in 0..(Len(s2c) - 1) :
              Answers(s2c, k + 1) = Answers(s2c', k) + (IF IsAnswer(s2c[1]) THEN 1 ELSE 0)
    BY <1>2, <1>3, TailFacts
  <2>3. \A k \in 0..(Len(s2c) - 1) : Answers(s2c', k) \in Nat
    BY <2>2, AnswersFacts
  <2> QED BY <2>1, <2>2, <2>3
<1>6. /\ Len(outbox) \in Nat \ {0} /\ Len(outbox') = Len(outbox) - 1 /\ Len(c2s) \in Nat
      /\ DOMAIN c2s = 1..Len(c2s)
      /\ \A j \in 1..(Len(outbox) - 1) : outbox'[j] = outbox[j + 1]
  <2>1. outbox' = Tail(outbox) /\ outbox # <<>>
    BY <1>3, AckedFirst DEF AckFront
  <2> QED BY <1>3, <2>1, HeadTailProperties
<1>7. Answers(s2c, Len(s2c)) + Len(c2s) = Len(outbox)
  BY <1>2 DEF Answering
<1>8. Answers(s2c, Len(s2c)) = Answers(s2c', Len(s2c')) + 1 /\ Answers(s2c', Len(s2c')) \in Nat
  <2>1. Len(s2c') \in 0..(Len(s2c) - 1) /\ Len(s2c') + 1 = Len(s2c)
    BY <1>5
  <2> QED BY <1>5, <2>1
<1>9. Answers(s2c', Len(s2c')) + Len(c2s') = Len(outbox')
  BY <1>4, <1>6, <1>7, <1>8
<1>10. ASSUME NEW j \in DOMAIN c2s'
       PROVE  c2s'[j].kind = "push" /\ c2s'[j].blob = outbox'[(Len(outbox') - Len(c2s')) + j]
  <2> DEFINE m == (Len(outbox') - Len(c2s')) + j
  <2>1. j \in 1..Len(c2s) /\ Len(c2s') = Len(c2s) /\ Len(c2s) <= Len(outbox) - 1
    BY <1>4, <1>6, <1>8, <1>9
  <2>2. m \in 1..(Len(outbox) - 1) /\ m + 1 = (Len(outbox) - Len(c2s)) + j
    BY <1>6, <2>1
  <2>3. outbox'[m] = outbox[(Len(outbox) - Len(c2s)) + j]
    BY <1>6, <2>2
  <2> QED BY <1>2, <1>4, <2>3 DEF Answering
<1>11. ASSUME NEW k \in DOMAIN s2c', s2c'[k].kind = "ack"
       PROVE  outbox'[Answers(s2c', k)] \subseteq logged'
  <2>1. k \in 1..(Len(s2c) - 1) /\ k + 1 \in DOMAIN s2c /\ s2c[k + 1].kind = "ack" /\ k \in Nat \ {0}
    BY <1>5, <1>11
  <2>2. outbox[Answers(s2c, k + 1)] \subseteq logged
    BY <1>2, <2>1 DEF Answering
  <2>3. Answers(s2c', k) \in Nat /\ Answers(s2c', k) >= 1
    BY <1>11, <2>1, AnswersItself DEF IsAnswer
  <2>4. Answers(s2c', k) <= Answers(s2c', Len(s2c'))
    BY <1>5, <2>1, AnswersMonotonic
  <2>5. Answers(s2c', k) \in 1..(Len(outbox) - 1)
    BY <1>4, <1>6, <1>8, <1>9, <2>3, <2>4
  <2>6. Answers(s2c, k + 1) = Answers(s2c', k) + 1
    BY <1>5, <2>1
  <2>7. outbox'[Answers(s2c', k)] = outbox[Answers(s2c, k + 1)]
    BY <1>6, <2>5, <2>6
  <2> QED BY <1>3, <2>2, <2>7
<1>12. \A k \in DOMAIN s2c' : s2c'[k].kind \in {"ack", "full", "covers"}
  <2>1. \A k \in DOMAIN s2c : s2c[k].kind \in {"ack", "full", "covers"}
    BY <1>2 DEF Answering
  <2>2. \A k \in DOMAIN s2c' : k + 1 \in DOMAIN s2c /\ s2c'[k] = s2c[k + 1]
    BY <1>5
  <2> QED BY <2>1, <2>2
<1>13. Answering'
  BY <1>9, <1>10, <1>11, <1>12 DEF Answering
<1> QED BY <1>2, <1>3, <1>13 DEF PassInv

LEMMA PassCovers == ASSUME Types, PassInv, ~Live, OnCovers PROVE PassInv'
<1>1. Frame("covers") /\ Took(<<>>) /\ SendThenCatchUp(<<>>)
  BY OnCoversTypes DEF OnCovers
<1>2. stage = "on" /\ Answering /\ ~folding /\ s2c # <<>> /\ s2c[1].kind = "covers"
  BY <1>1, PassFrame, HeadOfClient
<1>3. /\ s2c' = Tail(s2c) /\ folding' = folding /\ logged' = logged /\ stage' = stage
      /\ outbox' = outbox /\ cursor' \in 0..top /\ c2s \in Seq(ToRelay)
  BY <1>1 DEF Took, OnCovers, Types, WireTypes
<1>4. c2s' = c2s
  <2>1. c2s' = c2s \o <<>>
    BY <1>1, <1>3, SendTypes, NoFrames
  <2> QED BY <1>3, <2>1, ConcatEmptySeq
<1>5. /\ Len(s2c) \in Nat \ {0} /\ Len(s2c') = Len(s2c) - 1
      /\ DOMAIN s2c = 1..Len(s2c) /\ DOMAIN s2c' = 1..(Len(s2c) - 1)
      /\ \A k \in 1..(Len(s2c) - 1) : s2c'[k] = s2c[k + 1]
      /\ \A k \in 0..(Len(s2c) - 1) : Answers(s2c, k + 1) = Answers(s2c', k)
  <2>1. ~IsAnswer(s2c[1])
    BY <1>2 DEF IsAnswer
  <2>2. /\ Len(s2c) \in Nat \ {0} /\ Len(s2c') = Len(s2c) - 1
        /\ DOMAIN s2c = 1..Len(s2c) /\ DOMAIN s2c' = 1..(Len(s2c) - 1)
        /\ \A k \in 1..(Len(s2c) - 1) : s2c'[k] = s2c[k + 1]
        /\ \A k \in 0..(Len(s2c) - 1) :
              Answers(s2c, k + 1) = Answers(s2c', k) + (IF IsAnswer(s2c[1]) THEN 1 ELSE 0)
    BY <1>2, <1>3, TailFacts
  <2>3. \A k \in 0..(Len(s2c) - 1) : Answers(s2c', k) \in Nat
    BY <2>2, AnswersFacts
  <2> QED BY <2>1, <2>2, <2>3
<1>6. Answers(s2c', Len(s2c')) + Len(c2s') = Len(outbox')
  <2>1. Len(s2c') \in 0..(Len(s2c) - 1) /\ Len(s2c') + 1 = Len(s2c)
    BY <1>5
  <2>2. Answers(s2c, Len(s2c)) = Answers(s2c', Len(s2c'))
    BY <1>5, <2>1
  <2> QED BY <1>2, <1>3, <1>4, <2>2 DEF Answering
<1>7. \A k \in DOMAIN s2c' :
          k \in Nat \ {0} /\ k + 1 \in DOMAIN s2c /\ s2c'[k] = s2c[k + 1] /\ Answers(s2c', k) = Answers(s2c, k + 1)
  BY <1>5
<1>8. \A k \in DOMAIN s2c' : s2c'[k].kind \in {"ack", "full", "covers"}
  BY <1>2, <1>7 DEF Answering
<1>9. \A k \in DOMAIN s2c' : s2c'[k].kind = "ack" => outbox[Answers(s2c', k)] \subseteq logged
  BY <1>2, <1>7 DEF Answering
<1>10. Answering'
  BY <1>2, <1>3, <1>4, <1>6, <1>8, <1>9 DEF Answering
<1> QED BY <1>2, <1>3, <1>10 DEF PassInv

\* What a frame at the end adds.
LEMMA AppendFacts ==
    ASSUME Types, NEW f, f.kind \in {"ack", "full", "covers"}, s2c' = Append(s2c, f), s2c' \in Seq(ToClient')
    PROVE  /\ Len(s2c) \in Nat /\ Len(s2c') = Len(s2c) + 1
           /\ DOMAIN s2c = 1..Len(s2c) /\ DOMAIN s2c' = 1..(Len(s2c) + 1)
           /\ \A k \in 1..Len(s2c) : s2c'[k] = s2c[k]
           /\ s2c'[Len(s2c) + 1] = f
           /\ \A k \in 0..Len(s2c) : Answers(s2c', k) = Answers(s2c, k)
           /\ Answers(s2c', Len(s2c) + 1) = Answers(s2c, Len(s2c)) + (IF f.kind = "covers" THEN 0 ELSE 1)
<1>1. s2c \in Seq(ToClient)
  BY DEF Types, WireTypes
<1>2. /\ Len(s2c) \in Nat /\ Len(s2c') = Len(s2c) + 1
      /\ DOMAIN s2c = 1..Len(s2c) /\ DOMAIN s2c' = 1..(Len(s2c) + 1)
      /\ \A k \in 1..Len(s2c) : s2c'[k] = s2c[k]
      /\ s2c'[Len(s2c) + 1] = f
  BY <1>1
<1>3. ASSUME NEW k \in 0..Len(s2c)
      PROVE  Answers(s2c', k) = Answers(s2c, k)
  <2>1. k \in Nat /\ \A i \in 1..k : i \in 1..Len(s2c)
    BY <1>2
  <2>2. \A i \in 1..k : s2c'[i].kind = s2c[i].kind
    BY <1>2, <2>1
  <2> QED BY <2>1, <2>2, SamePrefix
<1>4. Answers(s2c', Len(s2c) + 1) = Answers(s2c', Len(s2c)) + (IF IsAnswer(f) THEN 1 ELSE 0)
  BY <1>2, AnswersFacts
<1>5. IsAnswer(f) <=> f.kind # "covers"
  BY DEF IsAnswer
<1>6. Answers(s2c', Len(s2c)) = Answers(s2c, Len(s2c))
  BY <1>2, <1>3
<1> QED BY <1>2, <1>3, <1>4, <1>5, <1>6

LEMMA OneOrTwo ==
    ASSUME NEW w, NEW c
    PROVE  Append(<<>>, w) \o <<>> = <<w>> /\ Append(<<>>, w) \o <<c>> = <<w, c>>
<1> DEFINE S == {w, c}
<1>1. <<w>> \in Seq(S) /\ c \in S /\ Append(<<>>, w) = <<w>>
  OBVIOUS
<1>2. <<w>> \o <<>> = <<w>>
  BY <1>1, ConcatEmptySeq
<1>3. <<w>> \o <<c>> = Append(<<w>>, c)
  BY <1>1, AppendIsConcat
<1>4. Append(<<w>>, c) = <<w, c>>
  <2>1. /\ Append(<<w>>, c) \in Seq(S) /\ Len(Append(<<w>>, c)) = 2
        /\ Append(<<w>>, c)[1] = w /\ Append(<<w>>, c)[2] = c
    BY <1>1, AppendProperties
  <2>2. <<w, c>> \in Seq(S) /\ Len(<<w, c>>) = 2 /\ <<w, c>>[1] = w /\ <<w, c>>[2] = c
    OBVIOUS
  <2>3. \A i \in 1..2 : Append(<<w>>, c)[i] = <<w, c>>[i]
    BY <2>1, <2>2
  <2> QED BY <2>1, <2>2, <2>3, SeqEqual
<1> QED BY <1>1, <1>2, <1>3, <1>4

LEMMA PassHello == ASSUME Types, PassInv, ~Live, RelayHello PROVE PassInv'
<1>1. RelayReads("hello") /\ SameClient /\ serving' = TRUE
  BY RelayHelloTypes DEF RelayHello
<1>2. stage = "hello" /\ s2c = <<>> /\ Tail(c2s) = <<>> /\ ~folding /\ stage' = stage /\ folding' = folding
  BY <1>1, PassReads DEF SameClient
<1>3. c2s' = <<>> /\ s2c' = Append(<<>>, Welcome(top)) \o (IF Head(c2s).since < base THEN <<Covers(base)>> ELSE <<>>)
  BY <1>2 DEF RelayHello
<1>4. s2c' = <<Welcome(top)>> \/ s2c' = <<Welcome(top), Covers(base)>>
  BY <1>3, OneOrTwo
<1>5. Welcome(top).kind = "welcome" /\ Covers(base).kind = "covers"
  BY DEF Welcome, Covers
<1>6. s2c' # <<>> /\ s2c'[1].kind = "welcome" /\ \A k \in 2..Len(s2c') : s2c'[k].kind = "covers"
  BY <1>4, <1>5
<1>7. Greeting'
  BY <1>1, <1>3, <1>6 DEF Greeting
<1> QED BY <1>2, <1>7 DEF PassInv

LEMMA PassUpdate == ASSUME Types, PassInv, RelayUpdate PROVE PassInv'
<1>1. /\ SameClient /\ serving /\ serving' = serving /\ c2s' = c2s /\ logged' = logged
      /\ s2c' = Append(s2c, Covers(lastSent + 1)) /\ s2c' \in Seq(ToClient')
      /\ Covers(lastSent + 1).kind = "covers"
  BY RelayUpdateTypes DEF RelayUpdate, relay, Types, WireTypes, Covers
<1>2. stage' = stage /\ folding' = folding /\ outbox' = outbox
  BY <1>1 DEF SameClient
<1>3. stage \in {"hello", "on"}
  BY <1>1 DEF PassInv, Quiet, Types, ProcessTypes
<1>4. /\ Len(s2c) \in Nat /\ Len(s2c') = Len(s2c) + 1
      /\ DOMAIN s2c = 1..Len(s2c) /\ DOMAIN s2c' = 1..(Len(s2c) + 1)
      /\ \A k \in 1..Len(s2c) : s2c'[k] = s2c[k]
      /\ s2c'[Len(s2c) + 1].kind = "covers"
      /\ \A k \in 0..Len(s2c) : Answers(s2c', k) = Answers(s2c, k)
      /\ Answers(s2c', Len(s2c) + 1) = Answers(s2c, Len(s2c)) + 0
      /\ Answers(s2c, Len(s2c)) \in Nat
  <2>1. Len(s2c) \in Nat
    BY DEF Types, WireTypes
  <2> DEFINE f == Covers(lastSent + 1)
  <2>2. f.kind = "covers" /\ s2c' = Append(s2c, f) /\ s2c' \in Seq(ToClient')
    BY <1>1
  <2> HIDE DEF f
  <2>3. /\ Len(s2c') = Len(s2c) + 1
        /\ DOMAIN s2c = 1..Len(s2c) /\ DOMAIN s2c' = 1..(Len(s2c) + 1)
        /\ \A k \in 1..Len(s2c) : s2c'[k] = s2c[k]
        /\ s2c'[Len(s2c) + 1] = f
        /\ \A k \in 0..Len(s2c) : Answers(s2c', k) = Answers(s2c, k)
        /\ Answers(s2c', Len(s2c) + 1) = Answers(s2c, Len(s2c)) + (IF f.kind = "covers" THEN 0 ELSE 1)
    BY <2>2, AppendFacts
  <2>4. Answers(s2c, Len(s2c)) \in Nat
    BY <2>1, AnswersFacts
  <2> QED BY <2>1, <2>2, <2>3, <2>4
<1>5. CASE stage = "hello"
  <2>1. Greeting
    BY <1>5 DEF PassInv
  <2>2. /\ serving /\ c2s = <<>> /\ s2c # <<>> /\ s2c[1].kind = "welcome"
        /\ \A k \in 2..Len(s2c) : s2c[k].kind = "covers"
    BY <1>1, <2>1 DEF Greeting
  <2>3. 1 \in 1..Len(s2c)
    BY <1>4, <2>2, EmptySeq DEF Types, WireTypes
  <2>4. s2c' # <<>> /\ s2c'[1].kind = "welcome"
    BY <1>4, <2>2, <2>3
  <2>5. \A k \in 2..Len(s2c') : s2c'[k].kind = "covers"
    <3>1. ASSUME NEW k \in 2..Len(s2c')
          PROVE  s2c'[k].kind = "covers"
      <4>1. (k \in 2..Len(s2c) /\ k \in 1..Len(s2c)) \/ k = Len(s2c) + 1
        BY <1>4
      <4> QED BY <1>4, <2>2, <4>1
    <3> QED BY <3>1
  <2>6. Greeting'
    BY <1>1, <2>2, <2>4, <2>5 DEF Greeting
  <2> QED BY <1>2, <1>5, <2>6 DEF PassInv
<1>6. CASE stage = "on"
  <2>1. Answering
    BY <1>6 DEF PassInv
  <2>2. Answers(s2c', Len(s2c')) + Len(c2s') = Len(outbox')
    BY <1>1, <1>2, <1>4, <2>1 DEF Answering
  <2>3. ASSUME NEW k \in DOMAIN s2c'
        PROVE  /\ s2c'[k].kind \in {"ack", "full", "covers"}
               /\ s2c'[k].kind = "ack" => outbox[Answers(s2c', k)] \subseteq logged
    <3>1. CASE k \in 1..Len(s2c)
      <4>1. k \in DOMAIN s2c /\ s2c'[k] = s2c[k] /\ Answers(s2c', k) = Answers(s2c, k)
        BY <1>4, <3>1
      <4> QED BY <2>1, <4>1 DEF Answering
    <3>2. CASE k = Len(s2c) + 1
      BY <1>4, <3>2
    <3> QED BY <1>4, <3>1, <3>2
  <2>4. Answering'
    BY <1>1, <1>2, <2>1, <2>2, <2>3 DEF Answering
  <2> QED BY <1>2, <1>6, <2>4 DEF PassInv
<1> QED BY <1>3, <1>5, <1>6

\* The relay answers the blob after those it answered.
LEMMA PassPush == ASSUME Types, PassInv, ~Live, RelayPush PROVE PassInv'
<1>1. RelayReads("push") /\ SameClient /\ s2c' \in Seq(ToClient') /\ serving' = serving
  BY RelayPushTypes DEF RelayPush, Types, WireTypes
<1>2. stage = "on" /\ Answering /\ ~folding /\ c2s # <<>> /\ c2s \in Seq(ToRelay) /\ outbox \in Seq(Blobs) /\ s2c \in Seq(ToClient)
  BY <1>1, PassReads, HeadOfRelay DEF Types, WireTypes, DiskTypes
<1>3. stage' = stage /\ folding' = folding /\ outbox' = outbox
  BY <1>1 DEF SameClient
<1>4. /\ c2s' = Tail(c2s)
      /\ \/ logged' = logged \union c2s[1].blob /\ s2c' = Append(s2c, AckFrame)
         \/ logged' = logged /\ s2c' = Append(s2c, Full)
  BY <1>2 DEF RelayPush
<1>5. PICK f \in {AckFrame, Full} :
          s2c' = Append(s2c, f) /\ logged \subseteq logged' /\ (f = AckFrame => c2s[1].blob \subseteq logged')
  <2>1. AckFrame # Full
    BY DEF AckFrame, Full
  <2> QED BY <1>4, <2>1
<1>6. f.kind \in {"ack", "full"} /\ (f.kind = "ack" => c2s[1].blob \subseteq logged')
  BY <1>5 DEF AckFrame, Full
<1> DEFINE n == Answers(s2c, Len(s2c))
<1>7. /\ Len(s2c) \in Nat /\ Len(s2c') = Len(s2c) + 1
      /\ DOMAIN s2c = 1..Len(s2c) /\ DOMAIN s2c' = 1..(Len(s2c) + 1)
      /\ \A k \in 1..Len(s2c) : s2c'[k] = s2c[k]
      /\ s2c'[Len(s2c) + 1] = f
      /\ \A k \in 0..Len(s2c) : Answers(s2c', k) = Answers(s2c, k)
      /\ Answers(s2c', Len(s2c) + 1) = n + 1
  <2>1. f.kind \in {"ack", "full", "covers"} /\ f.kind # "covers" /\ s2c' = Append(s2c, f)
    BY <1>5, <1>6
  <2>2. Answers(s2c', Len(s2c) + 1) = n + (IF f.kind = "covers" THEN 0 ELSE 1)
    BY <1>1, <2>1, AppendFacts
  <2>3. /\ Len(s2c) \in Nat /\ Len(s2c') = Len(s2c) + 1
        /\ DOMAIN s2c = 1..Len(s2c) /\ DOMAIN s2c' = 1..(Len(s2c) + 1)
        /\ \A k \in 1..Len(s2c) : s2c'[k] = s2c[k]
        /\ s2c'[Len(s2c) + 1] = f
        /\ \A k \in 0..Len(s2c) : Answers(s2c', k) = Answers(s2c, k)
    BY <1>1, <2>1, AppendFacts
  <2> QED BY <2>1, <2>2, <2>3
<1>8. /\ Len(c2s) \in Nat \ {0} /\ Len(c2s') = Len(c2s) - 1 /\ Len(outbox) \in Nat
      /\ DOMAIN c2s = 1..Len(c2s) /\ DOMAIN c2s' = 1..(Len(c2s) - 1)
      /\ \A j \in 1..(Len(c2s) - 1) : c2s'[j] = c2s[j + 1]
  <2>1. Len(c2s) \in Nat \ {0} /\ Len(c2s') = Len(c2s) - 1 /\ c2s' \in Seq(ToRelay)
        /\ \A j \in 1..(Len(c2s) - 1) : c2s'[j] = c2s[j + 1]
    BY <1>2, <1>4, HeadTailProperties
  <2> QED BY <1>2, <2>1, LenProperties
<1>9. n \in Nat /\ n + Len(c2s) = Len(outbox)
  BY <1>2, <1>7, AnswersFacts DEF Answering
<1>10. \A j \in 1..Len(c2s) : c2s[j].kind = "push" /\ c2s[j].blob = outbox[(Len(outbox) - Len(c2s)) + j]
  BY <1>2, <1>8 DEF Answering
<1> HIDE DEF n
<1>11. c2s[1].blob = outbox[n + 1]
  <2>1. Len(c2s) \in Nat /\ Len(c2s) >= 1 /\ Len(outbox) \in Nat
    BY <1>8
  <2>2. 1 \in 1..Len(c2s) /\ (Len(outbox) - Len(c2s)) + 1 = n + 1
    BY <1>9, <2>1
  <2> QED BY <1>10, <2>2
<1>12. Answers(s2c', Len(s2c')) + Len(c2s') = Len(outbox')
  BY <1>3, <1>7, <1>8, <1>9
<1>13. ASSUME NEW j \in DOMAIN c2s'
       PROVE  c2s'[j].kind = "push" /\ c2s'[j].blob = outbox'[(Len(outbox') - Len(c2s')) + j]
  <2>1. /\ j + 1 \in 1..Len(c2s) /\ c2s'[j] = c2s[j + 1]
        /\ (Len(outbox) - Len(c2s)) + (j + 1) = (Len(outbox) - Len(c2s')) + j
    BY <1>8
  <2> QED BY <1>3, <1>10, <2>1
<1>14. ASSUME NEW k \in DOMAIN s2c'
       PROVE  /\ s2c'[k].kind \in {"ack", "full", "covers"}
              /\ s2c'[k].kind = "ack" => outbox'[Answers(s2c', k)] \subseteq logged'
  <2>1. CASE k \in 1..Len(s2c)
    <3>1. k \in DOMAIN s2c /\ s2c'[k] = s2c[k] /\ Answers(s2c', k) = Answers(s2c, k)
      BY <1>7, <2>1
    <3>2. s2c[k].kind \in {"ack", "full", "covers"} /\ (s2c[k].kind = "ack" => outbox[Answers(s2c, k)] \subseteq logged)
      BY <1>2, <3>1 DEF Answering
    <3> QED BY <1>3, <1>5, <3>1, <3>2
  <2>2. CASE k = Len(s2c) + 1
    BY <1>3, <1>6, <1>7, <1>11, <2>2
  <2> QED BY <1>7, <2>1, <2>2
<1>15. Answering'
  BY <1>12, <1>13, <1>14 DEF Answering
<1> QED BY <1>2, <1>3, <1>15 DEF PassInv

LEMMA PassScans ==
    ASSUME Types, PassInv, ~Live, Connect \/ FoldDocs \/ QueueFold
    PROVE  PassInv'
<1>1. CASE Connect
  <2>1. stage = "off" /\ stage' = "start" /\ c2s' = <<>> /\ s2c' = s2c /\ serving' = serving
    BY <1>1 DEF Connect
  <2> QED BY <2>1 DEF PassInv, Quiet
<1>2. CASE FoldDocs
  <2>1. stage = "start" /\ stage' = stage /\ c2s' = c2s /\ s2c' = s2c /\ serving' = serving
    BY <1>2 DEF FoldDocs, MayScan, wire
  <2> QED BY <2>1 DEF PassInv, Quiet
<1>3. CASE QueueFold
  <2>1. folding /\ folding' = FALSE /\ s2c' = s2c /\ serving' = serving
    BY <1>3 DEF QueueFold
  <2>2. Quiet /\ stage = "start"
    BY <2>1 DEF PassInv
  <2>3. stage' = "hello"
    BY <1>3, <2>2 DEF QueueFold
  <2>4. c2s' = <<Hello(cursor)>>
    BY <1>3 DEF QueueFold
  <2>5. Greeting'
    BY <2>1, <2>2, <2>4 DEF Greeting, Quiet, Hello
  <2> QED BY <2>1, <2>3, <2>5 DEF PassInv
<1> QED BY <1>1, <1>2, <1>3

LEMMA StepPass == ASSUME Types, PassInv, ~Live, [Next]_vars PROVE PassInv'
<1>1. CASE Edit
  <2>1. /\ folding' = folding /\ stage' = stage /\ c2s' = c2s /\ s2c' = s2c /\ serving' = serving
        /\ outbox' = outbox /\ logged' = logged
    BY <1>1 DEF Edit, process, wire, relay
  <2> QED BY <2>1 DEF PassInv, Quiet, Greeting, Answering
<1>2. CASE Connect \/ FoldDocs \/ QueueFold
  BY <1>2, PassScans
<1>3. CASE OnWelcome
  BY <1>3, PassWelcome
<1>4. CASE OnAck
  BY <1>4, PassAck
<1>5. CASE OnCovers
  BY <1>5, PassCovers
<1>6. CASE OnFull
  BY <1>6, OnFullTypes, PassEnds
<1>7. CASE OnCompacted
  <2>1. Frame("compacted")
    BY <1>7 DEF OnCompacted
  <2> QED BY <2>1, PassFrame
<1>8. CASE OnStale
  <2>1. Frame("stale")
    BY <1>8 DEF OnStale
  <2> QED BY <2>1, PassFrame
<1>9. CASE Finish
  BY <1>9, FinishTypes, PassEnds
<1>10. CASE RelayHello
  BY <1>10, PassHello
<1>11. CASE RelayPush
  BY <1>11, PassPush
<1>12. CASE RelayCompact
  <2>1. RelayReads("compact")
    BY <1>12 DEF RelayCompact
  <2> QED BY <2>1, PassReads
<1>13. CASE RelayUpdate
  BY <1>13, PassUpdate
<1>14. CASE OtherCompacts \/ OtherPushes
  BY <1>14, OtherTypes, PassElsewhere
<1>15. CASE Drop
  BY <1>15, DropTypes, PassEnds
<1>16. CASE Restart
  <2>1. Quiet
    BY <1>16 DEF Restart, PassInv
  <2>2. /\ stage' = "off" /\ folding' = folding /\ c2s' = c2s /\ s2c' = s2c /\ serving' = serving
        /\ ~folding
    BY <1>16 DEF Restart, wire, Types, ProcessTypes
  <2> QED BY <2>1, <2>2 DEF PassInv, Quiet
<1>17. CASE UNCHANGED vars
  BY <1>17, SameAll, PassElsewhere
<1> QED BY <1>1, <1>2, <1>3, <1>4, <1>5, <1>6, <1>7, <1>8, <1>9, <1>10, <1>11, <1>12, <1>13,
            <1>14, <1>15, <1>16, <1>17 DEF Next, ClientStep, RelayStep

-----------------------------------------------------------------------------
(* Nothing is lost                                                         *)

Single == Live /\ MaxEdits <= 1

LEMMA SingleBlobs ==
    ASSUME Types, MaxEdits <= 1
    PROVE  1..docs \subseteq {1} /\ logged \subseteq {1} /\ \A blob \in Blobs : blob = {1}
<1>1. docs \in Nat /\ docs <= 1
  <2>1. MaxEdits \in Nat /\ docs \in Nat /\ made \in Nat /\ docs <= made /\ made <= MaxEdits
    BY OutboxAssumption DEF Types, DiskTypes, ProcessTypes, MaxEdits
  <2> QED BY <2>1
<1>2. 1..docs \subseteq {1}
  BY <1>1
<1> QED BY <1>2 DEF Types, DiskTypes, Blobs

\* What the client or the relay sends, reads or loses keeps the edit logged.
LEMMA SingleKept ==
    ASSUME Types, Types', SingleInv, MaxEdits <= 1, MaxEdits' = MaxEdits, logged \subseteq logged',
           \A k \in DOMAIN s2c' :
               s2c'[k].kind = "ack" => logged' = {1} \/ \E i \in DOMAIN s2c : s2c[i].kind = "ack"
    PROVE  SingleInv'
<1>1. logged' \subseteq {1}
  <2>1. /\ docs' \in Nat /\ made' \in Nat /\ docs' <= made' /\ made' <= MaxEdits'
        /\ logged' \subseteq 1..docs'
    BY DEF Types, DiskTypes
  <2>2. MaxEdits \in Nat
    BY OutboxAssumption DEF Types, ProcessTypes, MaxEdits
  <2>3. docs' <= 1
    BY <2>1, <2>2
  <2> QED BY <2>1, <2>3
<1> QED BY <1>1 DEF SingleInv

LEMMA SingleTakes ==
    ASSUME Types, NEW kind, Frame(kind), s2c' = Tail(s2c)
    PROVE  \A k \in DOMAIN s2c' :
               s2c'[k].kind = "ack" => \E i \in DOMAIN s2c : s2c[i].kind = "ack"
<1>1. s2c # <<>>
  BY HeadOfClient
<1>2. /\ Len(s2c) \in Nat \ {0} /\ DOMAIN s2c = 1..Len(s2c) /\ DOMAIN s2c' = 1..(Len(s2c) - 1)
      /\ \A k \in 1..(Len(s2c) - 1) : s2c'[k] = s2c[k + 1]
  BY <1>1, TailFacts
<1>3. \A k \in DOMAIN s2c' : k + 1 \in DOMAIN s2c /\ s2c'[k] = s2c[k + 1]
  BY <1>2
<1> QED BY <1>3

LEMMA SingleSends ==
    ASSUME Types, NEW f, s2c' = Append(s2c, f), f.kind = "ack" => logged' = {1}
    PROVE  \A k \in DOMAIN s2c' :
               s2c'[k].kind = "ack" => logged' = {1} \/ \E i \in DOMAIN s2c : s2c[i].kind = "ack"
<1>1. s2c \in Seq(ToClient)
  BY DEF Types, WireTypes
<1>2. /\ DOMAIN s2c' = 1..(Len(s2c) + 1) /\ Len(s2c) \in Nat /\ DOMAIN s2c = 1..Len(s2c)
      /\ \A k \in 1..Len(s2c) : s2c'[k] = s2c[k]
      /\ s2c'[Len(s2c) + 1] = f
  BY <1>1
<1>3. ASSUME NEW k \in DOMAIN s2c', s2c'[k].kind = "ack"
      PROVE  logged' = {1} \/ \E i \in DOMAIN s2c : s2c[i].kind = "ack"
  <2>1. CASE k \in 1..Len(s2c)
    BY <1>2, <1>3, <2>1
  <2>2. CASE k = Len(s2c) + 1
    BY <1>2, <1>3, <2>2
  <2> QED BY <1>2, <2>1, <2>2
<1> QED BY <1>3

\* The one edit is in every blob, so an ack says that it is logged.
LEMMA StepSingle == ASSUME Types, Live, MaxEdits <= 1, SingleInv, [Next]_vars PROVE SingleInv'
<1> DEFINE Kept ==
        \A k \in DOMAIN s2c' :
            s2c'[k].kind = "ack" => logged' = {1} \/ \E i \in DOMAIN s2c : s2c[i].kind = "ack"
<1>0. Types'
  BY StepTypes
<1>1. SUFFICES MaxEdits' = MaxEdits /\ logged \subseteq logged' /\ Kept
  BY <1>0, SingleKept
<1>2. CASE Edit \/ Connect \/ Restart \/ FoldDocs \/ QueueFold
  <2>1. cast' = cast /\ logged' = logged /\ s2c' = s2c
    BY <1>2 DEF Edit, Connect, Restart, FoldDocs, QueueFold, wire, relay, bounds
  <2> QED BY <2>1 DEF MaxEdits
<1>3. CASE OnWelcome \/ OnAck \/ OnCovers \/ OnCompacted \/ OnStale
  <2>1. PICK kind : Frame(kind)
    BY <1>3 DEF OnWelcome, OnAck, OnCovers, OnCompacted, OnStale
  <2>2. Consume
    BY <1>3 DEF OnWelcome, OnAck, OnCovers, OnCompacted, OnStale
  <2>3. cast' = cast /\ logged' = logged /\ s2c' = Tail(s2c)
    BY <2>2 DEF Consume, relay, bounds
  <2> QED BY <2>1, <2>3, SingleTakes DEF MaxEdits
<1>4. CASE OnFull
  <2>1. CASE Ended
    BY <2>1 DEF Ended, EndSession, MaxEdits
  <2>2. CASE Took(<<>>)
    <3>1. Frame("full") /\ cast' = cast /\ logged' = logged /\ s2c' = Tail(s2c)
      BY <1>4, <2>2 DEF OnFull, Took
    <3> QED BY <3>1, SingleTakes DEF MaxEdits
  <2> QED BY <1>4, <2>1, <2>2, OnFullTypes
<1>5. CASE Finish \/ Drop
  <2>1. Ended
    BY <1>5, FinishTypes, DropTypes
  <2> QED BY <2>1 DEF Ended, EndSession, MaxEdits
<1>6. CASE RelayHello
  <2>1. cast' = cast /\ logged' = logged
    BY <1>6 DEF RelayHello, relay, bounds
  <2>2. PICK more \in {<<>>, <<Covers(base)>>} : s2c' = Append(s2c, Welcome(top)) \o more
    BY <1>6 DEF RelayHello
  <2>3. s2c \in Seq(ToClient) /\ Welcome(top) \in ToClient /\ Covers(base) \in ToClient
    BY FrameTypes DEF Types, WireTypes, LogTypes
  <2> DEFINE q == Append(s2c, Welcome(top))
  <2>4. /\ q \in Seq(ToClient) /\ Len(q) = Len(s2c) + 1 /\ Len(s2c) \in Nat
        /\ \A k \in 1..Len(s2c) : q[k] = s2c[k]
        /\ q[Len(s2c) + 1] = Welcome(top) /\ DOMAIN s2c = 1..Len(s2c)
    BY <2>3, AppendProperties
  <2>5. more \in Seq(ToClient) /\ \A i \in 1..Len(more) : more[i] = Covers(base)
    <3>1. CASE more = <<>>
      BY <3>1
    <3>2. CASE more = <<Covers(base)>>
      BY <2>3, <3>2
    <3> QED BY <2>2, <3>1, <3>2
  <2> HIDE DEF q
  <2>6. /\ q \o more \in Seq(ToClient) /\ Len(q \o more) = Len(q) + Len(more) /\ Len(more) \in Nat
        /\ \A k \in 1..Len(q) + Len(more) : (q \o more)[k] = IF k <= Len(q) THEN q[k] ELSE more[k - Len(q)]
    BY <2>4, <2>5, ConcatProperties, LenProperties
  <2>7. ASSUME NEW k \in DOMAIN (q \o more)
        PROVE  \/ k \in DOMAIN s2c /\ (q \o more)[k] = s2c[k]
               \/ (q \o more)[k] \in {Welcome(top), Covers(base)}
    <3>1. k \in 1..Len(q) + Len(more)
      BY <2>6, LenProperties
    <3>2. CASE k \in 1..Len(s2c)
      BY <2>4, <2>6, <3>1, <3>2
    <3>3. CASE k = Len(s2c) + 1
      BY <2>4, <2>6, <3>1, <3>3
    <3>4. CASE k > Len(q)
      <4>1. k - Len(q) \in 1..Len(more) /\ (q \o more)[k] = more[k - Len(q)]
        BY <2>4, <2>6, <3>1, <3>4
      <4> QED BY <2>5, <4>1
    <3> QED BY <2>4, <2>6, <3>1, <3>2, <3>3, <3>4
  <2>8. Welcome(top).kind = "welcome" /\ Covers(base).kind = "covers"
    BY DEF Welcome, Covers
  <2>9. Kept
    BY <2>2, <2>7, <2>8 DEF q
  <2> QED BY <2>1, <2>9 DEF MaxEdits
<1>7. CASE RelayPush
  <2>1. RelayReads("push") /\ cast' = cast
    BY <1>7 DEF RelayPush, bounds
  <2>2. Head(c2s).blob = {1} /\ logged \subseteq {1}
    BY <2>1, HeadOfRelay, ToRelayFacts, SingleBlobs
  <2>3. \/ logged' = {1} /\ s2c' = Append(s2c, AckFrame)
        \/ logged' = logged /\ s2c' = Append(s2c, Full)
    BY <1>7, <2>2 DEF RelayPush
  <2>4. Full.kind # "ack"
    BY DEF Full
  <2> QED BY <2>1, <2>2, <2>3, <2>4, SingleSends DEF MaxEdits
<1>8. CASE RelayCompact
  <2>1. cast' = cast /\ logged' = logged /\ (s2c' = Append(s2c, Compacted) \/ s2c' = Append(s2c, Stale))
    BY <1>8 DEF RelayCompact, bounds
  <2>2. Compacted.kind # "ack" /\ Stale.kind # "ack"
    BY DEF Compacted, Stale
  <2> QED BY <2>1, <2>2, SingleSends DEF MaxEdits
<1>9. CASE RelayUpdate
  <2>1. cast' = cast /\ logged' = logged /\ s2c' = Append(s2c, Covers(lastSent + 1))
    BY <1>9 DEF RelayUpdate, relay, bounds
  <2>2. Covers(lastSent + 1).kind # "ack"
    BY DEF Covers
  <2> QED BY <2>1, <2>2, SingleSends DEF MaxEdits
<1>10. CASE OtherCompacts \/ OtherPushes \/ UNCHANGED vars
  <2>1. Elsewhere
    BY <1>10, OtherTypes, SameAll
  <2> QED BY <2>1 DEF Elsewhere, SameClient, MaxEdits
<1> QED BY <1>2, <1>3, <1>4, <1>5, <1>6, <1>7, <1>8, <1>9, <1>10 DEF Next, ClientStep, RelayStep

\* Folded edits stay where they are, unless a step queues or acks a blob.
LEMMA LostKept ==
    ASSUME NothingLost, docs' = docs, batch' = batch, outbox' = outbox, logged \subseteq logged'
    PROVE  NothingLost'
BY DEF NothingLost, Unacked

LEMMA LostTook ==
    ASSUME NothingLost, NEW frames, Took(frames), outbox' = outbox
    PROVE  NothingLost'
BY LostKept DEF Took

LEMMA LostEnded ==
    ASSUME NothingLost, Ended, batch = {}
    PROVE  NothingLost'
BY LostKept DEF Ended, EndSession

LEMMA LostFold == ASSUME Types, NothingLost, FoldDocs PROVE NothingLost'
<1>1. /\ docs' = made /\ batch' = (docs + 1)..made /\ outbox' = outbox /\ logged' = logged /\ batch = {}
      /\ docs \in Nat /\ made \in Nat /\ docs <= made
  BY DEF FoldDocs, relay, Types, DiskTypes, ProcessTypes
<1>2. (1..docs') \ batch' \subseteq 1..docs
  BY <1>1
<1>3. Unacked' = Unacked
  BY <1>1 DEF Unacked
<1> QED BY <1>1, <1>2, <1>3 DEF NothingLost

LEMMA LostQueue == ASSUME Types, NothingLost, QueueFold PROVE NothingLost'
<1>1. docs' = docs /\ batch' = {} /\ logged' = logged /\ outbox' = Queued(outbox, batch) /\ outbox \in Seq(Blobs)
  BY DEF QueueFold, relay, Types, DiskTypes
<1>2. Unacked \union batch \subseteq Unacked'
  <2>1. CASE batch = {}
    BY <1>1, <2>1 DEF Unacked, Queued
  <2>2. CASE batch # {}
    <3>1. outbox' = Append(outbox, batch)
      BY <1>1, <2>2 DEF Queued
    <3>2. /\ Len(outbox) \in Nat /\ DOMAIN outbox = 1..Len(outbox)
          /\ DOMAIN outbox' = 1..(Len(outbox) + 1)
          /\ \A i \in 1..Len(outbox) : outbox'[i] = outbox[i]
          /\ outbox'[Len(outbox) + 1] = batch
      BY <1>1, <3>1
    <3>3. \A i \in DOMAIN outbox : i \in DOMAIN outbox' /\ outbox'[i] = outbox[i]
      BY <3>2
    <3>4. Unacked \subseteq Unacked'
      BY <3>3 DEF Unacked
    <3>5. Len(outbox) + 1 \in DOMAIN outbox'
      BY <3>2
    <3>6. batch \subseteq Unacked'
      BY <3>2, <3>5 DEF Unacked
    <3> QED BY <3>4, <3>6
  <2> QED BY <2>1, <2>2
<1> QED BY <1>1, <1>2 DEF NothingLost

\* A pass client drops a blob that is logged; with one edit there is no other.
LEMMA LostAck ==
    ASSUME Types, NothingLost, OnAck, ~Live => PassInv, Live => MaxEdits <= 1 /\ SingleInv
    PROVE  NothingLost'
<1>1. /\ docs' = docs /\ batch' = batch /\ logged' = logged /\ outbox' = AckFront(outbox)
      /\ s2c # <<>> /\ s2c[1].kind = "ack" /\ s2c \in Seq(ToClient) /\ outbox \in Seq(Blobs)
  BY OnAckTypes, HeadOfClient DEF OnAck, Took, Types, WireTypes, DiskTypes
<1>2. CASE ~Live
  <2>1. outbox # <<>> /\ outbox[1] \subseteq logged /\ outbox' = Tail(outbox)
    BY <1>1, <1>2, AckedFirst DEF AckFront
  <2>2. /\ Len(outbox) \in Nat \ {0} /\ DOMAIN outbox = 1..Len(outbox)
        /\ DOMAIN outbox' = 1..(Len(outbox) - 1)
        /\ \A i \in 1..(Len(outbox) - 1) : outbox'[i] = outbox[i + 1]
    BY <1>1, <2>1
  <2>3. ASSUME NEW e \in Unacked
        PROVE  e \in Unacked' \union logged
    <3>1. PICK i \in DOMAIN outbox : e \in outbox[i]
      BY DEF Unacked
    <3>2. CASE i = 1
      BY <2>1, <3>1, <3>2
    <3>3. CASE i # 1
      <4>1. i - 1 \in DOMAIN outbox' /\ outbox'[i - 1] = outbox[i]
        BY <2>2, <3>3
      <4> QED BY <3>1, <4>1 DEF Unacked
    <3> QED BY <3>2, <3>3
  <2> QED BY <1>1, <2>3 DEF NothingLost
<1>3. CASE Live
  <2>1. 1 \in DOMAIN s2c
    BY <1>1
  <2>2. logged = {1} /\ 1..docs \subseteq {1}
    BY <1>1, <1>3, <2>1, SingleBlobs DEF SingleInv
  <2> QED BY <1>1, <2>2 DEF NothingLost
<1> QED BY <1>2, <1>3

LEMMA StepLost ==
    ASSUME Types, NothingLost, ~Live => PassInv, Live => MaxEdits <= 1 /\ SingleInv, [Next]_vars
    PROVE  NothingLost'
<1>1. CASE Edit \/ Connect \/ Restart
  <2>1. docs' = docs /\ batch' = batch /\ outbox' = outbox /\ logged' = logged
    BY <1>1 DEF Edit, Connect, Restart, process, disk, relay
  <2> QED BY <2>1, LostKept
<1>2. CASE FoldDocs
  BY <1>2, LostFold
<1>3. CASE QueueFold
  BY <1>3, LostQueue
<1>4. CASE OnAck
  BY <1>4, LostAck
<1>5. CASE OnWelcome
  BY <1>5, OnWelcomeTypes, LostTook DEF OnWelcome
<1>6. CASE OnCovers
  BY <1>6, OnCoversTypes, LostTook DEF OnCovers
<1>7. CASE OnCompacted
  BY <1>7, OnCompactedTypes, LostTook DEF OnCompacted
<1>8. CASE OnStale
  BY <1>8, OnStaleTypes, LostTook DEF OnStale
<1>9. CASE OnFull
  <2>1. batch = {}
    BY <1>9, HeadOfClient DEF OnFull
  <2> QED BY <1>9, <2>1, OnFullTypes, LostTook, LostEnded
<1>10. CASE Finish
  <2>1. batch = {}
    BY <1>10 DEF Finish, PassInv, Types, ProcessTypes
  <2> QED BY <1>10, <2>1, FinishTypes, LostEnded
<1>11. CASE Drop
  <2>1. batch = {}
    BY <1>11 DEF Drop, Types, ProcessTypes
  <2> QED BY <1>11, <2>1, DropTypes, LostEnded
<1>12. CASE RelayHello \/ RelayPush \/ RelayCompact \/ RelayUpdate
  <2>1. SameClient
    BY <1>12, RelayHelloTypes, RelayPushTypes, RelayCompactTypes, RelayUpdateTypes
  <2>2. logged \subseteq logged'
    BY <1>12 DEF RelayHello, RelayPush, RelayCompact, RelayUpdate, relay
  <2> QED BY <2>1, <2>2, LostKept DEF SameClient
<1>13. CASE OtherCompacts \/ OtherPushes \/ UNCHANGED vars
  <2>1. Elsewhere
    BY <1>13, OtherTypes, SameAll
  <2> QED BY <2>1, LostKept DEF Elsewhere, SameClient
<1> QED BY <1>1, <1>2, <1>3, <1>4, <1>5, <1>6, <1>7, <1>8, <1>9, <1>10, <1>11, <1>12, <1>13
        DEF Next, ClientStep, RelayStep

-----------------------------------------------------------------------------
(* The theorems                                                            *)

LEMMA InvInit == Init => OInv
<1> SUFFICES ASSUME Init PROVE OInv
  OBVIOUS
<1>1. Types
  BY TypesInit
<1>2. PassInv
  BY DEF Init, PassInv, Quiet
<1>3. SingleInv
  BY DEF Init, SingleInv
<1>4. NothingLost
  BY DEF Init, NothingLost
<1> QED BY <1>1, <1>2, <1>3, <1>4 DEF OInv

LEMMA InvStep == OInv /\ [Next]_vars => OInv'
<1> SUFFICES ASSUME OInv, [Next]_vars PROVE OInv'
  OBVIOUS
<1>1. Types /\ (~Live => PassInv) /\ (Live /\ MaxEdits <= 1 => SingleInv)
  BY DEF OInv
<1>2. cast' = cast
  BY DEF Next, ClientStep, RelayStep, vars, bounds, Edit, Connect, FoldDocs, QueueFold, OnWelcome,
         OnAck, OnCovers, OnFull, OnCompacted, OnStale, Finish, Drop, Restart, Consume, RelayHello, RelayPush,
         RelayCompact, RelayUpdate, OtherCompacts, OtherPushes
<1>3. (Live' <=> Live) /\ MaxEdits' = MaxEdits
  BY <1>2 DEF Live, MaxEdits
<1>4. Types'
  BY <1>1, StepTypes
<1>5. ~Live => PassInv'
  BY <1>1, StepPass
<1>6. Live /\ MaxEdits <= 1 => SingleInv'
  BY <1>1, StepSingle
<1>7. (Live => MaxEdits <= 1) => NothingLost'
  <2>1. SUFFICES ASSUME Live => MaxEdits <= 1 PROVE NothingLost'
    OBVIOUS
  <2>2. NothingLost /\ (Live => MaxEdits <= 1 /\ SingleInv)
    BY <1>1, <2>1 DEF OInv
  <2> QED BY <1>1, <2>2, StepLost
<1> QED BY <1>3, <1>4, <1>5, <1>6, <1>7 DEF OInv

LEMMA InvTypes == OInv => TypeOK
<1> SUFFICES ASSUME OInv PROVE TypeOK
  OBVIOUS
<1>1. DiskTypes /\ LogTypes /\ ProcessTypes
  BY DEF OInv, Types
<1>2. \A i \in DOMAIN outbox : outbox[i] # {} /\ outbox[i] \subseteq 1..docs
  BY <1>1 DEF DiskTypes, Blobs
<1>3. cursor <= top /\ target <= top /\ base <= top /\ lastSent <= top
  BY <1>1 DEF LogTypes
<1> QED BY <1>1, <1>2, <1>3 DEF TypeOK, DiskTypes, ProcessTypes

\* Until a refusal the answers are acks.
LEMMA InvAcks == OInv => AcksInOrder
<1> SUFFICES ASSUME OInv, ~Live, NEW k \in DOMAIN s2c,
                    s2c[k].kind = "ack", \A i \in 1..k : s2c[i].kind # "full"
             PROVE  LET n == Cardinality({i \in 1..k : s2c[i].kind = "ack"})
                    IN  n <= Len(outbox) /\ outbox[n] \subseteq logged
  BY DEF AcksInOrder
<1>1. PassInv /\ s2c \in Seq(ToClient) /\ c2s \in Seq(ToRelay) /\ outbox \in Seq(Blobs)
      /\ stage \in {"stopped", "off", "start", "hello", "on"}
  BY DEF OInv, Types, WireTypes, DiskTypes, ProcessTypes
<1>2. k \in 1..Len(s2c) /\ Len(s2c) \in Nat /\ Len(c2s) \in Nat /\ Len(outbox) \in Nat
  BY <1>1
<1>3. stage = "on"
  <2>1. s2c # <<>>
    BY <1>2
  <2>2. stage \notin {"stopped", "off", "start"}
    BY <1>1, <2>1 DEF PassInv, Quiet
  <2>3. ~Greeting
    <3>1. k = 1 \/ k \in 2..Len(s2c)
      BY <1>2
    <3> QED BY <2>1, <3>1 DEF Greeting
  <2> QED BY <1>1, <2>2, <2>3 DEF PassInv
<1>4. Answering
  BY <1>1, <1>3 DEF PassInv
<1>5. {i \in 1..k : s2c[i].kind = "ack"} = {i \in 1..k : IsAnswer(s2c[i])}
  BY DEF IsAnswer
<1>6. Cardinality({i \in 1..k : s2c[i].kind = "ack"}) = Answers(s2c, k)
  BY <1>5 DEF Answers
<1>7. Answers(s2c, k) <= Answers(s2c, Len(s2c)) /\ Answers(s2c, k) \in Nat /\ Answers(s2c, Len(s2c)) \in Nat
  BY <1>2, AnswersFacts, AnswersMonotonic
<1>8. Answers(s2c, Len(s2c)) + Len(c2s) = Len(outbox)
  BY <1>4 DEF Answering
<1>9. Answers(s2c, k) <= Len(outbox)
  BY <1>2, <1>7, <1>8
<1>10. outbox[Answers(s2c, k)] \subseteq logged
  BY <1>4 DEF Answering
<1> QED BY <1>6, <1>9, <1>10

\* The disk, the wire and the process fit each other in every reachable state.
THEOREM Invariance == Spec => []OInv
<1>1. Init => OInv
  BY InvInit
<1>2. OInv /\ [Next]_vars => OInv'
  BY InvStep
<1> QED BY <1>1, <1>2, PTL DEF Spec

\* Queued blobs are folded edits, none is empty, and neither the cursor nor
\* what the relay compacts or sends is ever ahead of its log.
THEOREM TypeCorrect == FairSpec => []TypeOK
BY Invariance, InvTypes, PTL DEF FairSpec

\* What a scan has folded is in the outbox or in the relay's log, whatever dies
\* or is refused and when: for the pass client, and for the live client of one
\* edit.  (With two, an ack can drop the wrong blob: PushRetriedUntilLogged.)
THEOREM Retried == FairSpec => []((Live => MaxEdits <= 1) => NothingLost)
<1>1. OInv => ((Live => MaxEdits <= 1) => NothingLost)
  BY DEF OInv
<1> QED BY <1>1, Invariance, PTL DEF FairSpec

\* outbox.rs "Acks arrive in push order on a connection - drop the oldest":
\* for the pass client the n-th ack is about the n-th blob of the outbox.
THEOREM AcksAnswerInOrder == FairSpec => []AcksInOrder
BY Invariance, InvAcks, PTL DEF FairSpec
=============================================================================
