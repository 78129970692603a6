--------------------------- MODULE BillingProofs ----------------------------
(***************************************************************************)
(* What Billing guarantees for any vaults, subscriptions and bounds, proved *)
(* with TLAPS: an answered event is in the file whatever crash follows, the *)
(* latest event decides however late, repeated and disordered they come,    *)
(* and a webhook never touches what the operator wrote for another vault.   *)
(***************************************************************************)
EXTENDS Billing, TLAPS

EntryType == [quota : {"pro", "comp"}, ts : Time \union {None}]
Paid == {VaultOf[s] : s \in Sub}

\* Where an entry and a tombstone can come from.
Made(ev, v, action, at) ==
    VaultIn(ev) = v /\ ActionFor(ev) = action /\ ev.created = at

\* Every entry is the operator's or an event's, every tombstone an event's, and
\* no vault has both.
Accounted(data) ==
    \A v \in Vault :
        /\ data.vaults[v] = None \/ data.removed[v] = None
        /\ data.vaults[v] # None =>
               \/ data.vaults[v].quota = "comp" /\ v \notin Paid
               \/ /\ data.vaults[v].quota = "pro"
                  /\ \E ev \in events : Made(ev, v, "upsert", data.vaults[v].ts)
        /\ data.removed[v] # None =>
               \E ev \in events : Made(ev, v, "remove", data.removed[v])

\* What a webhook is about to write is the file with its event applied.
TaskInv ==
    holder # None /\ "overtaken" \notin slips =>
        stored = ApplyEvent(file.data, holder) /\ stored # file.data

\* The file's guard for the event's vault has reached the event.
Reached(data, ev) ==
    /\ Guard(data, VaultIn(ev)) # None
    /\ Guard(data, VaultIn(ev)) >= ev.created

BInv == TypeOK /\ Accounted(file.data) /\ Accounted(stored) /\ TaskInv /\ AnsweredApplied

-----------------------------------------------------------------------------
(* Applying an event                                                        *)

\* An event names a vault that is paid for, at a time.
LEMMA EventFacts ==
    ASSUME NEW ev \in Event
    PROVE  /\ VaultIn(ev) \in Vault /\ VaultIn(ev) \in Paid
           /\ ev.created \in Time /\ ev.created \in Nat /\ ev.created # None
           /\ ActionFor(ev) \in {"ignore", "upsert", "remove"}
BY BillingAssumption DEF Event, VaultIn, Paid, ActionFor, Time

\* An entry is a record, so it is not None.
LEMMA EntryFacts ==
    /\ None \notin EntryType
    /\ \A t \in Time \union {None} : Entry("pro", t) \in EntryType /\ Entry("comp", t) \in EntryType
    /\ None \notin Time
<1>1. EntryType \subseteq [quota : {"pro", "comp"}, ts : Nat \union {None}]
  BY BillingAssumption DEF EntryType, Time
<1> QED
  BY <1>1, BillingAssumption DEF EntryType, Entry, Time

\* ApplyEvent changes the event's vault alone, and how.
LEMMA ApplyCases ==
    ASSUME NEW data \in Data, NEW ev \in Event
    PROVE  /\ ApplyEvent(data, ev) \in Data
           /\ \A v \in Vault \ {VaultIn(ev)} :
                 /\ ApplyEvent(data, ev).vaults[v] = data.vaults[v]
                 /\ ApplyEvent(data, ev).removed[v] = data.removed[v]
           /\ \/ ApplyEvent(data, ev) = data /\ ~Upserts(data, ev) /\ ~Removes(data, ev)
              \/ /\ Upserts(data, ev)
                 /\ ApplyEvent(data, ev).vaults[VaultIn(ev)] = Entry("pro", ev.created)
                 /\ ApplyEvent(data, ev).removed[VaultIn(ev)] = None
              \/ /\ Removes(data, ev)
                 /\ ApplyEvent(data, ev).vaults[VaultIn(ev)] = None
                 /\ ApplyEvent(data, ev).removed[VaultIn(ev)] = ev.created
<1> DEFINE v == VaultIn(ev)
           new == ApplyEvent(data, ev)
<1>1. v \in Vault /\ ev.created \in Time
  BY EventFacts
<1>2. Entry("pro", ev.created) \in EntryType
  BY <1>1, EntryFacts
<1>3. /\ data = [vaults |-> data.vaults, removed |-> data.removed]
      /\ data.vaults \in [Vault -> {None} \union EntryType]
      /\ data.removed \in [Vault -> Time \union {None}]
  BY DEF Data, EntryType
<1> HIDE DEF v
<1>4. ASSUME NEW e \in {None} \union EntryType, NEW r \in Time \union {None}
      PROVE  [vaults |-> [data.vaults EXCEPT ![v] = e],
              removed |-> [data.removed EXCEPT ![v] = r]] \in Data
  BY <1>1, <1>3 DEF Data, EntryType
<1>5. CASE Upserts(data, ev)
  <2>1. new = [vaults  |-> [data.vaults EXCEPT ![v] = Entry("pro", ev.created)],
               removed |-> [data.removed EXCEPT ![v] = None]]
    BY <1>5 DEF ApplyEvent, Upsert, v
  <2>2. new \in Data
    BY <1>2, <1>4, <2>1
  <2> QED BY <1>1, <1>3, <1>5, <2>1, <2>2 DEF v
<1>6. CASE ~Upserts(data, ev) /\ Removes(data, ev)
  <2>1. new = [vaults  |-> [data.vaults EXCEPT ![v] = None],
               removed |-> [data.removed EXCEPT ![v] = ev.created]]
    BY <1>6 DEF ApplyEvent, Remove, v
  <2>2. new \in Data
    BY <1>1, <1>4, <2>1
  <2> QED BY <1>1, <1>3, <1>6, <2>1, <2>2 DEF v
<1>7. CASE ~Upserts(data, ev) /\ ~Removes(data, ev)
  BY <1>7 DEF ApplyEvent, v
<1> QED
  BY <1>5, <1>6, <1>7

\* What ApplyEvent makes of an accounted file is accounted.
LEMMA ApplyAccounted ==
    ASSUME TypeOK, NEW data \in Data, Accounted(data), NEW ev \in events
    PROVE  Accounted(ApplyEvent(data, ev))
<1> DEFINE new == ApplyEvent(data, ev)
<1>0. ev \in Event /\ VaultIn(ev) \in Vault /\ ev.created \in Time
  BY EventFacts DEF TypeOK
<1>1. ASSUME NEW v \in Vault, v # VaultIn(ev)
      PROVE  new.vaults[v] = data.vaults[v] /\ new.removed[v] = data.removed[v]
  BY <1>0, <1>1, ApplyCases
<1>2. CASE new = data
  BY <1>2
<1>3. CASE /\ Upserts(data, ev) /\ new.vaults[VaultIn(ev)] = Entry("pro", ev.created)
           /\ new.removed[VaultIn(ev)] = None
  <2>1. Made(ev, VaultIn(ev), "upsert", new.vaults[VaultIn(ev)].ts)
    BY <1>3 DEF Made, Upserts, Entry
  <2>2. new.vaults[VaultIn(ev)].quota = "pro"
    BY <1>3 DEF Entry
  <2> HIDE DEF new
  <2>3. Accounted(new)
    BY <1>1, <1>3, <2>1, <2>2 DEF Accounted
  <2> QED BY <2>3 DEF new
<1>4. CASE /\ Removes(data, ev) /\ new.vaults[VaultIn(ev)] = None
           /\ new.removed[VaultIn(ev)] = ev.created
  <2>1. Made(ev, VaultIn(ev), "remove", new.removed[VaultIn(ev)])
    BY <1>4 DEF Made, Removes
  <2> HIDE DEF new
  <2>2. Accounted(new)
    BY <1>1, <1>4, <2>1 DEF Accounted
  <2> QED BY <2>2 DEF new
<1> QED
  BY <1>0, <1>2, <1>3, <1>4, ApplyCases

\* A guard of a paid vault is None or a time.
LEMMA GuardType ==
    ASSUME NEW data \in Data, Accounted(data), NEW v \in Paid, v \in Vault, TypeOK
    PROVE  Guard(data, v) \in Time \union {None}
<1>1. data.removed[v] \in Time \union {None}
  BY DEF Data
<1>2. CASE data.vaults[v] # None
  <2>1. PICK ev \in events : Made(ev, v, "upsert", data.vaults[v].ts)
    BY <1>2 DEF Accounted
  <2>2. ev.created \in Time
    BY EventFacts DEF TypeOK
  <2> QED BY <1>1, <2>1, <2>2 DEF Guard, Made
<1> QED
  BY <1>1, <1>2 DEF Guard

\* An answer without a write is right, but for a removal that is forgotten: the
\* guard has reached the event.
LEMMA NothingToDo ==
    ASSUME TypeOK, NEW data \in Data, Accounted(data), NEW ev \in events,
           ActionFor(ev) # "ignore", ~Forgotten(data, ev), ApplyEvent(data, ev) = data
    PROVE  Reached(data, ev)
<1> DEFINE v == VaultIn(ev)
<1>1. /\ ev \in Event /\ v \in Vault /\ v \in Paid /\ ev.created \in Nat /\ ev.created # None
      /\ ActionFor(ev) \in {"upsert", "remove"}
  BY EventFacts DEF TypeOK
<1>2. data.removed[v] \in Nat \union {None} /\ Guard(data, v) \in Nat \union {None}
  BY <1>1, GuardType DEF Data, Time
<1>3. None \notin Nat /\ Entry("pro", ev.created) # None /\ Entry("pro", ev.created).ts = ev.created
  BY <1>1, EntryFacts, BillingAssumption, EventFacts DEF Entry
<1>4. CASE Upserts(data, ev)
  <2>1. data.vaults[v] = Entry("pro", ev.created) /\ data.removed[v] = None
    BY <1>1, <1>4, ApplyCases DEF Upserts, Removes
  <2> QED BY <1>1, <1>3, <2>1 DEF Reached, Guard
<1>5. CASE Removes(data, ev)
  <2>1. data.removed[v] = ev.created
    BY <1>1, <1>5, ApplyCases DEF Upserts, Removes
  <2> QED BY <1>1, <2>1 DEF Reached, Guard
<1>6. CASE ~Upserts(data, ev) /\ ~Removes(data, ev)
  <2>1. CASE ~NewerThanEntry(data, ev)
    <3>1. data.vaults[v] # None /\ data.vaults[v].ts # None /\ ~(ev.created > data.vaults[v].ts)
      BY <2>1 DEF NewerThanEntry, Newer
    <3>2. Guard(data, v) = data.vaults[v].ts
      BY <1>1, <3>1 DEF Accounted, Guard
    <3> QED BY <1>1, <1>2, <3>1, <3>2 DEF Reached
  <2>2. CASE NewerThanEntry(data, ev)
    <3>1. data.removed[v] # None /\ ~(ev.created > data.removed[v])
      BY <1>1, <1>2, <1>6, <2>2 DEF Upserts, Removes, Newer, Forgotten
    <3> QED BY <1>1, <1>2, <3>1 DEF Reached, Guard
  <2> QED BY <2>1, <2>2
<1> QED
  BY <1>4, <1>5, <1>6

\* A change moves the guard of the event's vault to the event, and forward.
LEMMA ChangeReaches ==
    ASSUME TypeOK, NEW data \in Data, Accounted(data), NEW ev \in events,
           ApplyEvent(data, ev) # data
    PROVE  /\ Guard(ApplyEvent(data, ev), VaultIn(ev)) = ev.created
           /\ Guard(data, VaultIn(ev)) # None => Guard(data, VaultIn(ev)) < ev.created
<1> DEFINE v == VaultIn(ev)
           new == ApplyEvent(data, ev)
<1>1. /\ ev \in Event /\ v \in Vault /\ v \in Paid /\ ev.created \in Nat /\ ev.created # None
  BY EventFacts DEF TypeOK
<1>2. Entry("pro", ev.created) # None /\ Entry("pro", ev.created).ts = ev.created
  BY <1>1, EntryFacts, EventFacts DEF Entry
<1>3. data.vaults[v] = None \/ data.removed[v] = None
  BY <1>1 DEF Accounted
<1>4. CASE Upserts(data, ev) /\ new.vaults[v] = Entry("pro", ev.created) /\ new.removed[v] = None
  <2>1. Guard(new, v) = ev.created
    BY <1>2, <1>4 DEF Guard
  <2>2. Guard(data, v) # None => Guard(data, v) < ev.created
    <3>1. Guard(data, v) \in Nat \union {None}
      BY <1>1, GuardType DEF Time
    <3>2. Guard(data, v) # None => ev.created > Guard(data, v)
      BY <1>3, <1>4 DEF Guard, Upserts, NewerThanEntry, Newer
    <3> QED BY <1>1, <3>1, <3>2
  <2> QED BY <2>1, <2>2
<1>5. CASE Removes(data, ev) /\ new.vaults[v] = None /\ new.removed[v] = ev.created
  <2>1. Guard(new, v) = ev.created
    BY <1>1, <1>5 DEF Guard
  <2>2. Guard(data, v) # None => Guard(data, v) < ev.created
    <3>1. Guard(data, v) \in Nat \union {None}
      BY <1>1, GuardType DEF Time
    <3>2. Guard(data, v) # None => ev.created > Guard(data, v) \/ Guard(data, v) < ev.created
      BY <1>3, <1>5 DEF Guard, Removes, NewerThanEntry, Newer
    <3> QED BY <1>1, <3>1, <3>2
  <2> QED BY <2>1, <2>2
<1> QED
  BY <1>1, <1>4, <1>5, ApplyCases

-----------------------------------------------------------------------------
(* The induction                                                            *)

\* Accounts made from some events are made from more of them.
LEMMA MoreEvents ==
    ASSUME NEW data, Accounted(data), events \subseteq events', data' = data
    PROVE  Accounted(data)'
BY DEF Accounted, Made, VaultIn, ActionFor

LEMMA InitBInv == Init => BInv
<1> SUFFICES ASSUME Init PROVE BInv
  OBVIOUS
<1>1. Fresh \in Data /\ 1 \in Time /\ 0 \in 0..MaxFaults /\ 0 \in 0..MaxEdits
  BY BillingAssumption DEF Fresh, Data, Time
<1>2. TypeOK
  BY <1>1 DEF Init, TypeOK, Statuses, Fresh
<1>3. Accounted(file.data) /\ Accounted(stored)
  BY DEF Init, Accounted, Fresh
<1>4. TaskInv /\ AnsweredApplied
  BY DEF Init, TaskInv, AnsweredApplied
<1> QED
  BY <1>2, <1>3, <1>4 DEF BInv

\* The two events that share a vault, and those that do not, at a write.
LEMMA PersistReaches ==
    ASSUME BInv, NEW ev \in events, ActionFor(ev) # "ignore", holder # None,
           stored = ApplyEvent(file.data, holder), stored # file.data,
           ev = holder \/ Reached(file.data, ev)
    PROVE  Reached(stored, ev)
<1>1. /\ holder \in events /\ file.data \in Data /\ Accounted(file.data)
      /\ TypeOK /\ ev \in Event /\ holder \in Event
  BY DEF BInv, TypeOK
<1>2. /\ holder.created \in Nat /\ holder.created # None /\ ev.created \in Nat
      /\ VaultIn(ev) \in Vault /\ VaultIn(ev) \in Paid
  BY <1>1, EventFacts
<1>3. /\ Guard(stored, VaultIn(holder)) = holder.created
      /\ Guard(file.data, VaultIn(holder)) # None =>
             Guard(file.data, VaultIn(holder)) < holder.created
  BY <1>1, ChangeReaches
<1>4. CASE ev = holder
  BY <1>2, <1>3, <1>4 DEF Reached
<1>5. CASE ev # holder /\ VaultIn(ev) = VaultIn(holder)
  <2>1. Guard(file.data, VaultIn(ev)) \in Nat \union {None}
    BY <1>1, <1>2, GuardType DEF Time
  <2> QED BY <1>2, <1>3, <1>5, <2>1 DEF Reached
<1>6. CASE ev # holder /\ VaultIn(ev) # VaultIn(holder)
  <2>1. /\ stored.vaults[VaultIn(ev)] = file.data.vaults[VaultIn(ev)]
        /\ stored.removed[VaultIn(ev)] = file.data.removed[VaultIn(ev)]
    BY <1>1, <1>2, <1>6, ApplyCases
  <2>2. Guard(stored, VaultIn(ev)) = Guard(file.data, VaultIn(ev))
    BY <2>1 DEF Guard
  <2> QED BY <1>6, <2>2 DEF Reached
<1> QED
  BY <1>4, <1>5, <1>6

\* What a step that leaves the file and the answers alone keeps.
LEMMA SameFile ==
    ASSUME BInv, TypeOK', UNCHANGED <<file, task, slips>>, events \subseteq events',
           events' \ pending' \subseteq events \ pending
    PROVE  BInv'
<1>1. Accounted(file.data)' /\ Accounted(stored)'
  BY MoreEvents DEF BInv, task
<1>2. TaskInv'
  BY DEF BInv, TaskInv, task, ApplyEvent, Upserts, Removes, Upsert, Remove, ActionFor,
     NewerThanEntry, Newer, VaultIn
<1>3. AnsweredApplied'
  BY DEF BInv, AnsweredApplied, Guard, ActionFor, VaultIn
<1> QED
  BY <1>1, <1>2, <1>3 DEF BInv

\* The operator's saves: another vault's entry, or the same data.
LEMMA EditStep ==
    ASSUME BInv, TypeOK', UNCHANGED <<stripe, task>>, Accounted(file.data)',
           slips' = slips \union {s \in {"overtaken"} : holder # None},
           \A v \in Paid : /\ file'.data.vaults[v] = file.data.vaults[v]
                          /\ file'.data.removed[v] = file.data.removed[v]
    PROVE  BInv'
<1>1. Accounted(stored)'
  BY DEF BInv, task, stripe, Accounted, Made, VaultIn, ActionFor
<1>2. TaskInv'
  BY DEF TaskInv, task
<1>3. AnsweredApplied'
  <2> SUFFICES ASSUME slips' = {}, NEW ev \in events \ pending, ActionFor(ev) # "ignore"
               PROVE  /\ Guard(file'.data, VaultIn(ev)) # None
                      /\ Guard(file'.data, VaultIn(ev)) >= ev.created
    BY DEF AnsweredApplied, stripe, ActionFor, VaultIn, Guard
  <2>1. VaultIn(ev) \in Paid
    BY EventFacts DEF BInv, TypeOK
  <2>2. Guard(file'.data, VaultIn(ev)) = Guard(file.data, VaultIn(ev))
    BY <2>1 DEF Guard
  <2>3. slips = {}
    OBVIOUS
  <2> QED BY <2>2, <2>3 DEF BInv, AnsweredApplied
<1> QED
  BY <1>1, <1>2, <1>3 DEF BInv

\* Mending the file is a save of the same data.
LEMMA RepairedFile ==
    ASSUME NEW f \in [gen : Nat, ok : BOOLEAN, data : Data]
    PROVE  /\ [f EXCEPT !.gen = @ + 1, !.ok = TRUE] \in [gen : Nat, ok : BOOLEAN, data : Data]
           /\ [f EXCEPT !.gen = @ + 1, !.ok = TRUE].data = f.data
<1>1. f.gen + 1 \in Nat
  OBVIOUS
<1> QED
  BY <1>1

\* Every step preserves the invariant: one step per action.
LEMMA StepBInv == BInv /\ [Next]_vars => BInv'
<1> SUFFICES ASSUME BInv, [Next]_vars PROVE BInv'
  OBVIOUS
<1> USE BillingAssumption
<1>0. TypeOK
  BY DEF BInv
<1>1. CASE Tick
  <2>1. TypeOK'
    BY <1>0, <1>1 DEF TypeOK, Tick, Time, task, relay
  <2> QED BY <1>1, <2>1, SameFile DEF Tick
<1>2. ASSUME NEW s \in Sub, NEW kind \in Kinds, NEW to \in Statuses, Emit(s, kind, to)
      PROVE  BInv'
  <2> DEFINE ev == [sub |-> s, kind |-> kind, status |-> to, created |-> clock]
  <2>1. /\ ev \in Event /\ ev \notin events /\ events' = events \union {ev}
        /\ pending' = pending \union {ev} /\ status' = [status EXCEPT ![s] = to]
        /\ UNCHANGED <<clock, file, task, relay, faults, edits, slips>>
    BY <1>0, <1>2 DEF Emit, Event, TypeOK, Time
  <2> HIDE DEF ev
  <2>2. TypeOK'
    BY <1>0, <2>1 DEF TypeOK, task, relay
  <2> QED BY <2>1, <2>2, SameFile
<1>3. ASSUME NEW ev \in events, Load(ev)
      PROVE  BInv'
  <2>0. /\ ev \in pending /\ ev \in Event /\ file.data \in Data /\ Accounted(file.data)
        /\ UNCHANGED <<clock, status, events, file, relay, faults, edits>>
    BY <1>0, <1>3 DEF Load, BInv, TypeOK
  <2>1. CASE ApplyEvent(file.data, ev) = file.data
    <3>1. /\ pending' = pending \ {ev} /\ UNCHANGED task
          /\ slips' = slips \union {s \in {"forgotten"} : Forgotten(file.data, ev)}
      BY <1>3, <2>1 DEF Load
    <3>2. TypeOK'
      BY <1>0, <2>0, <3>1 DEF TypeOK, task, relay
    <3>3. Accounted(file.data)' /\ Accounted(stored)'
      BY <2>0, <3>1, MoreEvents DEF BInv, task
    <3>4. TaskInv'
      BY <2>0, <3>1 DEF BInv, TaskInv, task, ApplyEvent, Upserts, Removes, Upsert, Remove,
         ActionFor, NewerThanEntry, Newer, VaultIn
    <3>5. AnsweredApplied'
      <4> SUFFICES ASSUME slips' = {}, NEW other \in events \ pending', ActionFor(other) # "ignore"
                   PROVE  Reached(file.data, other)
        BY <2>0 DEF AnsweredApplied, Reached, Guard, ActionFor, VaultIn
      <4>1. CASE other = ev
        <5>1. ~Forgotten(file.data, ev)
          BY <3>1
        <5> QED BY <1>0, <2>0, <2>1, <4>1, <5>1, NothingToDo
      <4>2. CASE other # ev
        BY <3>1, <4>2 DEF BInv, AnsweredApplied, Reached
      <4> QED BY <4>1, <4>2
    <3> QED BY <3>2, <3>3, <3>4, <3>5 DEF BInv
  <2>2. CASE ApplyEvent(file.data, ev) # file.data
    <3>1. /\ holder' = ev /\ stored' = ApplyEvent(file.data, ev) /\ UNCHANGED <<pending, slips>>
      BY <1>3, <2>2 DEF Load
    <3>2. stored' \in Data
      BY <2>0, <3>1, ApplyCases
    <3>3. TypeOK'
      BY <1>0, <2>0, <3>1, <3>2 DEF TypeOK, relay
    <3>4. Accounted(ApplyEvent(file.data, ev))
      BY <1>0, <2>0, ApplyAccounted
    <3>5. Accounted(file.data)' /\ Accounted(stored)'
      BY <2>0, <3>1, <3>4 DEF Accounted, Made, VaultIn, ActionFor
    <3>6. TaskInv'
      BY <2>0, <2>2, <3>1 DEF TaskInv, ApplyEvent, Upserts, Removes, Upsert, Remove,
         ActionFor, NewerThanEntry, Newer, VaultIn
    <3>7. AnsweredApplied'
      BY <2>0, <3>1 DEF BInv, AnsweredApplied, Guard, ActionFor, VaultIn
    <3> QED BY <3>3, <3>5, <3>6, <3>7 DEF BInv
  <2> QED BY <2>1, <2>2
<1>4. CASE Persist
  <2>1. /\ holder # None /\ file' = [gen |-> file.gen + 1, ok |-> TRUE, data |-> stored]
        /\ pending' = pending \ {holder} /\ holder' = None /\ stored' = Fresh
        /\ UNCHANGED <<clock, status, events, relay, faults, edits, slips>>
    BY <1>4 DEF Persist
  <2>2. Fresh \in Data /\ file'.data = stored
    BY <2>1 DEF Fresh, Data
  <2>2a. \A v \in Vault : stored.vaults[v] = None \/ stored.removed[v] = None
    BY DEF BInv, Accounted
  <2>3. TypeOK'
    BY <1>0, <2>1, <2>2, <2>2a DEF TypeOK, relay
  <2>4. Accounted(file.data)' /\ Accounted(stored)'
    BY <2>1, <2>2 DEF BInv, Accounted, Fresh, Made, VaultIn, ActionFor
  <2>5. TaskInv'
    BY <2>1 DEF TaskInv
  <2>6. AnsweredApplied'
    <3> SUFFICES ASSUME slips = {}, NEW ev \in events \ pending', ActionFor(ev) # "ignore"
                 PROVE  Reached(stored, ev)
      BY <2>1, <2>2 DEF AnsweredApplied, Reached, Guard, ActionFor, VaultIn
    <3>1. stored = ApplyEvent(file.data, holder) /\ stored # file.data
      BY <2>1 DEF BInv, TaskInv
    <3>2. ev = holder \/ Reached(file.data, ev)
      BY <2>1 DEF BInv, AnsweredApplied, Reached
    <3> QED BY <2>1, <3>1, <3>2, PersistReaches
  <2> QED BY <2>3, <2>4, <2>5, <2>6 DEF BInv
<1>5. CASE Fail
  <2>1. /\ holder' = None /\ stored' = Fresh /\ faults < MaxFaults /\ faults' = faults + 1
        /\ UNCHANGED <<clock, status, events, pending, file, relay, edits, slips>>
    BY <1>5 DEF Fail, stripe
  <2>2. Fresh \in Data
    BY DEF Fresh, Data
  <2>3. TypeOK'
    BY <1>0, <2>1, <2>2 DEF TypeOK, relay
  <2>4. Accounted(file.data)' /\ Accounted(stored)'
    BY <2>1 DEF BInv, Accounted, Fresh, Made, VaultIn, ActionFor
  <2>5. TaskInv' /\ AnsweredApplied'
    BY <2>1 DEF BInv, TaskInv, AnsweredApplied, Guard, ActionFor, VaultIn
  <2> QED BY <2>3, <2>4, <2>5 DEF BInv
<1>6. ASSUME NEW ev \in events, Redeliver(ev)
      PROVE  BInv'
  <2>1. TypeOK'
    BY <1>0, <1>6 DEF TypeOK, Redeliver, task, relay
  <2> QED BY <1>6, <2>1, SameFile DEF Redeliver
<1>7. ASSUME NEW v \in Vault, Comp(v)
      PROVE  BInv'
  <2> DEFINE data == [file.data EXCEPT !.vaults[v] = Entry("comp", None)]
  <2>1. /\ v \notin Paid /\ file.data.vaults[v] = None
        /\ file' = [gen |-> file.gen + 1, ok |-> TRUE, data |-> data]
        /\ edits' = edits + 1 /\ edits < MaxEdits
        /\ slips' = slips \union {s \in {"overtaken"} : holder # None}
        /\ UNCHANGED <<stripe, task, relay, faults>>
    BY <1>7 DEF Comp, Edit, Paid
  <2>2. Entry("comp", None) \in EntryType /\ Entry("comp", None).quota = "comp"
    BY EntryFacts DEF Entry
  <2>3. /\ data = [vaults |-> [file.data.vaults EXCEPT ![v] = Entry("comp", None)],
                   removed |-> file.data.removed]
        /\ data \in Data
    BY <1>0, <2>2 DEF TypeOK, Data, EntryType
  <2>4. /\ data.vaults[v] = Entry("comp", None)
        /\ \A w \in Vault \ {v} : data.vaults[w] = file.data.vaults[w]
        /\ data.removed = file.data.removed
    BY <1>0, <2>3 DEF TypeOK, Data
  <2>5. data.removed[v] = None
    <3>1. CASE file.data.removed[v] = None
      BY <2>4, <3>1
    <3>2. CASE file.data.removed[v] # None
      <4>1. PICK ev \in events : VaultIn(ev) = v
        BY <3>2 DEF BInv, Accounted, Made
      <4> QED BY <1>0, <2>1, <4>1, EventFacts DEF TypeOK
    <3> QED BY <3>1, <3>2
  <2> HIDE DEF data
  <2>6. TypeOK'
    <3>1. file' \in [gen : Nat, ok : BOOLEAN, data : Data] /\ edits' \in 0..MaxEdits
      BY <1>0, <2>1, <2>3 DEF TypeOK
    <3>2. \A w \in Vault : data.vaults[w] = None \/ data.removed[w] = None
      BY <1>0, <2>4, <2>5 DEF TypeOK
    <3>3. file'.data = data
      BY <2>1
    <3> QED BY <1>0, <2>1, <3>1, <3>2, <3>3 DEF TypeOK, stripe, task, relay
  <2>7. Accounted(file.data)'
    <3>1. Accounted(data)
      BY <2>1, <2>2, <2>4, <2>5 DEF BInv, Accounted
    <3> QED BY <2>1, <3>1 DEF Accounted, stripe, Made, VaultIn, ActionFor
  <2>8. \A w \in Paid : /\ file'.data.vaults[w] = file.data.vaults[w]
                       /\ file'.data.removed[w] = file.data.removed[w]
    <3>1. Paid \subseteq Vault
      BY DEF Paid
    <3> QED BY <2>1, <2>4, <3>1
  <2> QED BY <2>1, <2>6, <2>7, <2>8, EditStep
<1>8. CASE Break \/ Repair
  <2>1. /\ file'.data = file.data /\ file' \in [gen : Nat, ok : BOOLEAN, data : Data]
        /\ edits' \in 0..MaxEdits
        /\ slips' = slips \union {s \in {"overtaken"} : holder # None}
        /\ UNCHANGED <<stripe, task, relay, faults>>
    <3>1. file \in [gen : Nat, ok : BOOLEAN, data : Data]
      BY <1>0 DEF TypeOK
    <3>2. CASE Break
      BY <1>0, <3>1, <3>2 DEF TypeOK, Break, Edit
    <3>3. CASE Repair
      BY <1>0, <3>1, <3>3, RepairedFile DEF TypeOK, Repair
    <3> QED BY <1>8, <3>2, <3>3
  <2>2. TypeOK'
    BY <1>0, <2>1 DEF TypeOK, stripe, task, relay
  <2>3. Accounted(file.data)'
    BY <2>1 DEF BInv, Accounted, stripe, Made, VaultIn, ActionFor
  <2> QED BY <2>1, <2>2, <2>3, EditStep
<1>9. CASE Stat
  <2>1. TypeOK'
    BY <1>0, <1>9 DEF TypeOK, Stat, stripe, task
  <2> QED BY <1>9, <2>1, SameFile DEF Stat, stripe
<1>10. CASE Reload
  <2>1. Quotas(file.data) \in [Vault -> {"default", "pro", "comp"}]
    BY <1>0 DEF TypeOK, Data, Quotas
  <2>2. TypeOK'
    BY <1>0, <1>10, <2>1 DEF TypeOK, Reload, stripe, task
  <2> QED BY <1>10, <2>2, SameFile DEF Reload, stripe
<1>11. CASE UNCHANGED vars
  <2>1. TypeOK'
    BY <1>0, <1>11 DEF TypeOK, vars, stripe, task, relay
  <2> QED BY <1>11, <2>1, SameFile DEF vars, stripe
<1>12. Customer => \E s \in Sub, kind \in Kinds, to \in Statuses : Emit(s, kind, to)
  BY DEF Customer, Checkout, Pay, Lapse, Invoice, Cancel, Kinds, Statuses
<1> QED
  BY <1>1, <1>2, <1>3, <1>4, <1>5, <1>6, <1>7, <1>8, <1>9, <1>10, <1>11, <1>12
     DEF Next, Webhook, Operator

-----------------------------------------------------------------------------
(* The theorems                                                             *)

\* BInv is an invariant.
THEOREM BillingInvariance == Spec => []BInv
<1>1. Init => BInv
  BY InitBInv
<1>2. BInv /\ [Next]_vars => BInv'
  BY StepBInv
<1> QED
  BY <1>1, <1>2, PTL DEF Spec

\* Every variable keeps its type, and no vault has both an entry and a
\* tombstone.
THEOREM BillingTypes == Spec => []TypeOK
<1>1. BInv => TypeOK
  BY DEF BInv
<1> QED
  BY <1>1, BillingInvariance, PTL

\* entitlements.rs answers 200 only for what the file has: whatever crash,
\* failed write or repeated delivery follows, an answered event or a newer one
\* is what the file shows.
THEOREM AnsweredIsDurable == Spec => []AnsweredApplied
<1>1. BInv => AnsweredApplied
  BY DEF BInv
<1> QED
  BY <1>1, BillingInvariance, PTL

\* The guard's source: the event that made the entry or the tombstone.
LEMMA GuardSource ==
    ASSUME BInv, NEW v \in Paid, v \in Vault, Guard(file.data, v) # None
    PROVE  \E ev \in Of(v) :
               /\ ev.created = Guard(file.data, v)
               /\ (file.data.vaults[v] # None) = (ActionFor(ev) = "upsert")
<1>1. CASE file.data.removed[v] # None
  <2>1. PICK ev \in events : Made(ev, v, "remove", file.data.removed[v])
    BY <1>1 DEF BInv, Accounted
  <2>2. file.data.vaults[v] = None
    BY <1>1 DEF BInv, Accounted
  <2> QED BY <1>1, <2>1, <2>2 DEF Made, Of, Guard
<1>2. CASE file.data.removed[v] = None
  <2>1. file.data.vaults[v] # None
    BY <1>2 DEF Guard
  <2>2. PICK ev \in events : Made(ev, v, "upsert", file.data.vaults[v].ts)
    BY <2>1 DEF BInv, Accounted
  <2> QED BY <1>2, <2>1, <2>2 DEF Made, Of, Guard
<1> QED
  BY <1>1, <1>2

\* However late, repeated and disordered the events came, the latest decides.
THEOREM LatestDecides == Spec => []LatestWins
<1>1. BInv => LatestWins
  <2> SUFFICES ASSUME BInv, pending = {}, slips = {}, NEW v \in Vault, NEW ev \in Latest(v),
                      Latest(v) = {ev}
               PROVE  (file.data.vaults[v] # None) = (ActionFor(ev) = "upsert")
    BY DEF LatestWins
  <2>1. ev \in events /\ VaultIn(ev) = v /\ ActionFor(ev) # "ignore" /\ events \subseteq Event
    BY DEF Latest, Of, BInv, TypeOK
  <2>2. v \in Paid
    BY <2>1, EventFacts
  <2>3. Guard(file.data, v) # None /\ Guard(file.data, v) >= ev.created
    BY <2>1 DEF BInv, AnsweredApplied
  <2>4. PICK source \in Of(v) :
            /\ source.created = Guard(file.data, v)
            /\ (file.data.vaults[v] # None) = (ActionFor(source) = "upsert")
    BY <2>2, <2>3, GuardSource
  <2>5. \A other \in Of(v) : other.created \in Nat
    BY <2>1, EventFacts DEF Of
  <2>6. \A other \in Of(v) : source.created >= other.created
    <3>1. \A other \in Of(v) : ev.created >= other.created
      BY DEF Latest
    <3>2. ev \in Of(v)
      BY DEF Latest
    <3> QED BY <2>3, <2>4, <2>5, <3>1, <3>2
  <2>7. source = ev
    BY <2>4, <2>6 DEF Latest
  <2> QED BY <2>4, <2>7
<1> QED
  BY <1>1, BillingInvariance, PTL

\* A webhook for one vault leaves the operator's entry of another alone.
THEOREM CompsKept == Spec => CompKept
<1> DEFINE Kept ==
        \A v \in Vault :
            file.data.vaults[v] # None /\ file.data.vaults[v].quota = "comp" /\ "overtaken" \notin slips
                => file'.data.vaults[v] = file.data.vaults[v]
<1>1. BInv /\ [Next]_vars => [Kept]_vars
  <2> SUFFICES ASSUME BInv, Next, NEW v \in Vault, file.data.vaults[v] # None,
                      file.data.vaults[v].quota = "comp", "overtaken" \notin slips
               PROVE  file'.data.vaults[v] = file.data.vaults[v]
    OBVIOUS
  <2>0. TypeOK /\ v \notin Paid
    BY DEF BInv, Accounted
  <2>1. CASE Persist
    <3>1. /\ file'.data = stored /\ stored = ApplyEvent(file.data, holder)
          /\ holder \in Event /\ file.data \in Data
      BY <2>0, <2>1 DEF BInv, TaskInv, TypeOK, Persist
    <3>2. v # VaultIn(holder)
      BY <2>0, <3>1, EventFacts
    <3> QED BY <3>1, <3>2, ApplyCases
  <2>2. ASSUME NEW w \in Vault, Comp(w)
        PROVE  file'.data.vaults[v] = file.data.vaults[v]
    <3>1. v # w
      BY <2>2 DEF Comp
    <3> QED BY <2>0, <2>2, <3>1 DEF Comp, Edit, TypeOK, Data
  <2>3. CASE Break
    BY <2>3 DEF Break, Edit
  <2>4. CASE Repair
    BY <2>0, <2>4, RepairedFile DEF Repair, TypeOK
  <2>5. CASE UNCHANGED file
    BY <2>5
  <2>6. CASE Customer \/ Tick \/ Stat \/ Reload \/ Fail
    BY <2>5, <2>6 DEF Customer, Checkout, Pay, Lapse, Invoice, Cancel, Emit, Tick, Stat,
       Reload, Fail
  <2>7. ASSUME NEW ev \in events, Load(ev) \/ Redeliver(ev)
        PROVE  file'.data.vaults[v] = file.data.vaults[v]
    BY <2>7 DEF Load, Redeliver
  <2> QED BY <2>1, <2>2, <2>3, <2>4, <2>6, <2>7 DEF Next, Webhook, Operator
<1> QED
  BY <1>1, BillingInvariance, PTL DEF Spec, CompKept
=============================================================================
