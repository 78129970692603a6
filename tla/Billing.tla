------------------------------ MODULE Billing -------------------------------
(***************************************************************************)
(* Who has Sync Pro.  Stripe's webhooks reach tacitus-billing late, twice  *)
(* and in any order; under a mutex it rewrites entitlements.json, which    *)
(* the operator edits by hand as well, and which the relay reads again     *)
(* whenever its (mtime, length) differ from those it has cached.           *)
(*                                                                         *)
(* A definition marked "mutant" is used by nothing: it is the slip that    *)
(* the definition after it could have, and a property notices.             *)
(***************************************************************************)
EXTENDS Naturals, FiniteSets

CONSTANTS
    Vault,
    Sub,         \* Stripe subscriptions
    VaultOf,     \* the vault_id in each subscription's metadata
    None,
    MaxClock,    \* bound: seconds that pass
    MaxEvents,   \* bound: events that Stripe makes
    MaxFaults,   \* bound: crashes, failed writes and answers that get lost
    MaxEdits     \* bound: the operator's edits

ASSUME BillingAssumption ==
    /\ VaultOf \in [Sub -> Vault]
    /\ {MaxClock, MaxEvents, MaxFaults, MaxEdits} \subseteq Nat
    /\ MaxClock > 0
    /\ None \notin Nat
    /\ None \notin [quota : {"pro", "comp"}, ts : Nat \union {None}]

VARIABLES
    clock,      \* unix seconds: events made in one second have the same time
    status,     \* Stripe: each subscription's
    events,     \* Stripe: all events made
    pending,    \* Stripe: events that no 200 has come back for
    file,       \* entitlements.json: gen 0 when missing, ok when it parses
    holder,     \* the webhook task that holds the store's mutex, or None
    stored,     \* the file that task has read and changed
    cache,      \* the relay: the key and the quotas it has
    key,        \* the relay: the key it has just read with stat, or None
    faults, edits,
    slips       \* history: what the guards do not cover

stripe == <<clock, status, events, pending>>
task == <<holder, stored>>
relay == <<cache, key>>
vars == <<stripe, file, task, relay, faults, edits, slips>>

Statuses == {"none", "incomplete", "active", "past_due", "canceled"}
Kinds == {"created", "updated", "deleted", "invoice"}
Event == [sub : Sub, kind : Kinds, status : Statuses, created : 1..MaxClock]

\* An entry's last_event_ts is None when the operator wrote it by hand.
Entry(quota, ts) == [quota |-> quota, ts |-> ts]
Fresh == [vaults |-> [v \in Vault |-> None], removed |-> [v \in Vault |-> None]]

VaultIn(ev) == VaultOf[ev.sub]

Init ==
    /\ clock = 1
    /\ status = [s \in Sub |-> "none"]
    /\ events = {} /\ pending = {}
    /\ file = [gen |-> 0, ok |-> TRUE, data |-> Fresh]
    /\ holder = None /\ stored = Fresh
    /\ cache = [key |-> 0, quotas |-> [v \in Vault |-> "default"]]
    /\ key = None
    /\ faults = 0 /\ edits = 0
    /\ slips = {}

-----------------------------------------------------------------------------
(* Stripe                                                                  *)

Tick ==
    /\ clock < MaxClock
    /\ clock' = clock + 1
    /\ UNCHANGED <<status, events, pending, file, task, relay, faults, edits, slips>>

\* An event is made when a subscription changes; an invoice is one as well.
Emit(s, kind, to) ==
    LET ev == [sub |-> s, kind |-> kind, status |-> to, created |-> clock]
    IN  /\ Cardinality(events) < MaxEvents
        /\ ev \notin events
        /\ status' = [status EXCEPT ![s] = to]
        /\ events' = events \union {ev}
        /\ pending' = pending \union {ev}
        /\ UNCHANGED <<clock, file, task, relay, faults, edits, slips>>

\* GET /billing/checkout leads to a subscription with the vault_id in it.
Checkout(s) ==
    /\ status[s] = "none"
    /\ \E to \in {"incomplete", "active"} : Emit(s, "created", to)

Pay(s) == status[s] \in {"incomplete", "past_due"} /\ Emit(s, "updated", "active")
Lapse(s) == status[s] = "active" /\ Emit(s, "updated", "past_due")
Invoice(s) == status[s] = "active" /\ Emit(s, "invoice", "active")
Cancel(s) == status[s] \in {"incomplete", "active", "past_due"} /\ Emit(s, "deleted", "canceled")

-----------------------------------------------------------------------------
(* The webhook                                                             *)

\* action_for: an allowlist upserts, whatever is unknown removes.
ActionFor(ev) ==
    IF ev.kind = "invoice" THEN "ignore"
    ELSE IF ev.kind # "deleted" /\ ev.status \in {"active", "past_due"} THEN "upsert"
    ELSE "remove"

Newer(ev, ts) == ts = None \/ ev.created > ts

NewerThanEntry(data, ev) ==
    data.vaults[VaultIn(ev)] = None \/ Newer(ev, data.vaults[VaultIn(ev)].ts)

\* mutant: the tombstone stays.
UpsertOnly(data, ev) == [data EXCEPT !.vaults[VaultIn(ev)] = Entry("pro", ev.created)]

Upsert(data, ev) ==
    [vaults  |-> [data.vaults EXCEPT ![VaultIn(ev)] = Entry("pro", ev.created)],
     removed |-> [data.removed EXCEPT ![VaultIn(ev)] = None]]

Remove(data, ev) ==
    [vaults  |-> [data.vaults EXCEPT ![VaultIn(ev)] = None],
     removed |-> [data.removed EXCEPT ![VaultIn(ev)] = ev.created]]

\* mutant: a removal leaves no tombstone.
UpsertsUnguarded(data, ev) == ActionFor(ev) = "upsert" /\ NewerThanEntry(data, ev)

Upserts(data, ev) ==
    /\ ActionFor(ev) = "upsert"
    /\ NewerThanEntry(data, ev)
    /\ Newer(ev, data.removed[VaultIn(ev)])

\* A removal counts as a change if there is an entry or an older tombstone;
\* without either the tombstone it makes is not persisted.
Removes(data, ev) ==
    /\ ActionFor(ev) = "remove"
    /\ NewerThanEntry(data, ev)
    /\ \/ data.vaults[VaultIn(ev)] # None
       \/ data.removed[VaultIn(ev)] # None /\ data.removed[VaultIn(ev)] < ev.created

\* A removal that nothing remembers.
Forgotten(data, ev) ==
    /\ ActionFor(ev) = "remove"
    /\ data.vaults[VaultIn(ev)] = None
    /\ data.removed[VaultIn(ev)] = None

ApplyEvent(data, ev) ==
    IF Upserts(data, ev) THEN Upsert(data, ev)
    ELSE IF Removes(data, ev) THEN Remove(data, ev)
    ELSE data

\* The mutex is taken and the file read: one that does not parse is left alone
\* (500, and Stripe sends the event again).  With nothing to change the
\* answer is 200 at once.
Load(ev) ==
    /\ holder = None
    /\ ev \in pending
    /\ file.ok
    /\ IF ApplyEvent(file.data, ev) = file.data
       THEN /\ pending' = pending \ {ev}
            /\ slips' = slips \union {s \in {"forgotten"} : Forgotten(file.data, ev)}
            /\ UNCHANGED task
       ELSE /\ holder' = ev
            /\ stored' = ApplyEvent(file.data, ev)
            /\ UNCHANGED <<pending, slips>>
    /\ UNCHANGED <<clock, status, events, file, relay, faults, edits>>

\* mutant: the copy read when the process started is changed and written.
PersistFresh ==
    /\ holder # None
    /\ file' = [gen |-> file.gen + 1, ok |-> TRUE, data |-> ApplyEvent(Fresh, holder)]
    /\ pending' = pending \ {holder}
    /\ holder' = None /\ stored' = Fresh
    /\ UNCHANGED <<clock, status, events, relay, faults, edits, slips>>

\* The rename publishes the new file, and the answer is 200.
Persist ==
    /\ holder # None
    /\ file' = [gen |-> file.gen + 1, ok |-> TRUE, data |-> stored]
    /\ pending' = pending \ {holder}
    /\ holder' = None /\ stored' = Fresh
    /\ UNCHANGED <<clock, status, events, relay, faults, edits, slips>>

\* mutant: the 200 goes out before the file is written.
FailAnswered ==
    /\ holder # None
    /\ faults < MaxFaults
    /\ faults' = faults + 1
    /\ pending' = pending \ {holder}
    /\ holder' = None /\ stored' = Fresh
    /\ UNCHANGED <<clock, status, events, file, relay, edits, slips>>

\* The process dies, or the write fails (500), before the rename.
Fail ==
    /\ holder # None
    /\ faults < MaxFaults
    /\ faults' = faults + 1
    /\ holder' = None /\ stored' = Fresh
    /\ UNCHANGED <<stripe, file, relay, edits, slips>>

\* The answer is lost, or comes too late: Stripe delivers the event again.
Redeliver(ev) ==
    /\ faults < MaxFaults
    /\ faults' = faults + 1
    /\ ev \in events \ pending
    /\ pending' = pending \union {ev}
    /\ UNCHANGED <<clock, status, events, file, task, relay, edits, slips>>

-----------------------------------------------------------------------------
(* The operator, with an editor, knows of no lock                          *)

Edit(data, ok) ==
    /\ edits < MaxEdits
    /\ edits' = edits + 1
    /\ file' = [gen |-> file.gen + 1, ok |-> ok, data |-> data]
    /\ slips' = slips \union {s \in {"overtaken"} : holder # None}
    /\ UNCHANGED <<stripe, task, relay, faults>>

\* A quota for a vault that nobody pays for.
Comp(v) ==
    /\ file.ok /\ file.data.vaults[v] = None
    /\ v \notin {VaultOf[s] : s \in Sub}
    /\ Edit([file.data EXCEPT !.vaults[v] = Entry("comp", None)], TRUE)

\* A slip of the hand, which somebody corrects in the end.
Break == file.ok /\ file.gen > 0 /\ Edit(file.data, FALSE)
Repair ==
    /\ ~file.ok
    /\ file' = [file EXCEPT !.gen = @ + 1, !.ok = TRUE]
    /\ slips' = slips \union {s \in {"overtaken"} : holder # None}
    /\ UNCHANGED <<stripe, task, relay, faults, edits>>

-----------------------------------------------------------------------------
(* The relay: quota_for, at every push and compaction                      *)

Quotas(data) ==
    [v \in Vault |-> IF data.vaults[v] = None THEN "default" ELSE data.vaults[v].quota]

\* mutant: the file is read once, when it first appears.
StatOnce ==
    /\ key = None /\ cache.key = 0
    /\ file.gen # cache.key
    /\ key' = file.gen
    /\ UNCHANGED <<stripe, file, task, cache, faults, edits, slips>>

Stat ==
    /\ key = None
    /\ file.gen # cache.key
    /\ key' = file.gen
    /\ UNCHANGED <<stripe, file, task, cache, faults, edits, slips>>

\* What is read now may be newer than the key: then the next key differs.
\* A file that does not parse leaves the last good set, and its key unstored.
Reload ==
    /\ key # None
    /\ cache' = IF file.ok THEN [key |-> key, quotas |-> Quotas(file.data)] ELSE cache
    /\ key' = None
    /\ UNCHANGED <<stripe, file, task, faults, edits, slips>>

-----------------------------------------------------------------------------

Customer == \E s \in Sub : Checkout(s) \/ Pay(s) \/ Lapse(s) \/ Invoice(s) \/ Cancel(s)
Webhook == Persist \/ Fail \/ \E ev \in events : Load(ev) \/ Redeliver(ev)
Operator == Break \/ Repair \/ \E v \in Vault : Comp(v)

Next == Tick \/ Customer \/ Webhook \/ Operator \/ Stat \/ Reload

\* Stripe delivers until it gets a 200, the operator mends what is broken, and
\* devices keep pushing.
Fairness ==
    /\ \A e \in Event : WF_vars(Load(e))
    /\ WF_vars(Persist) /\ WF_vars(Repair) /\ WF_vars(Stat) /\ WF_vars(Reload)

Spec == Init /\ [][Next]_vars /\ Fairness

-----------------------------------------------------------------------------
(* Properties                                                              *)

Time == 1..MaxClock
Data == [vaults  : [Vault -> {None} \union [quota : {"pro", "comp"}, ts : Time \union {None}]],
         removed : [Vault -> Time \union {None}]]

\* Each variable has its type; a vault has an entry that an event made or a
\* tombstone, never both.
TypeOK ==
    /\ clock \in Time
    /\ status \in [Sub -> Statuses]
    /\ events \subseteq Event /\ pending \subseteq events
    /\ file \in [gen : Nat, ok : BOOLEAN, data : Data]
    /\ holder \in events \union {None} /\ stored \in Data
    /\ cache \in [key : Nat, quotas : [Vault -> {"default", "pro", "comp"}]]
    /\ key \in Nat \union {None}
    /\ faults \in 0..MaxFaults /\ edits \in 0..MaxEdits
    /\ \A v \in Vault : file.data.vaults[v] = None \/ file.data.removed[v] = None

\* The time of the last event that the file knows to have been applied.
Guard(data, v) ==
    IF data.removed[v] # None THEN data.removed[v]
    ELSE IF data.vaults[v] # None THEN data.vaults[v].ts ELSE None

\* A 200 is only given for what is durable: whatever crash follows, the file
\* has applied the event or a newer one (entitlements.rs:195).
AnsweredApplied ==
    slips = {} =>
        \A ev \in events \ pending :
            ActionFor(ev) # "ignore" =>
                /\ Guard(file.data, VaultIn(ev)) # None
                /\ Guard(file.data, VaultIn(ev)) >= ev.created

Of(v) == {ev \in events : VaultIn(ev) = v /\ ActionFor(ev) # "ignore"}
Latest(v) == {ev \in Of(v) : \A other \in Of(v) : ev.created >= other.created}

\* However the events came, once all are answered a vault is entitled exactly
\* if its latest event says so; of events in one second nothing is said, and
\* of vaults whose removal was forgotten.
LatestWins ==
    pending = {} /\ slips = {} =>
        \A v \in Vault : \A ev \in Latest(v) :
            Latest(v) = {ev} =>
                (file.data.vaults[v] # None) = (ActionFor(ev) = "upsert")

\* A canceled subscription stays canceled: no event makes an entry that is
\* older than a removal which was answered before (entitlements.rs:28).
NoResurrection ==
    [][\A v \in Vault :
        file.data.vaults[v] = None /\ file'.data.vaults[v] # None
            => \A ev \in events \ pending :
                VaultIn(ev) = v /\ ActionFor(ev) = "remove"
                    => file'.data.vaults[v].ts >= ev.created]_vars

\* What the operator wrote for one vault no webhook for another takes away,
\* unless it was saved while a webhook held the file (entitlements.rs:4).
CompKept ==
    [][\A v \in Vault :
        file.data.vaults[v] # None /\ file.data.vaults[v].quota = "comp" /\ "overtaken" \notin slips
            => file'.data.vaults[v] = file.data.vaults[v]]_vars

\* Without a restart the relay comes to enforce what the file says, although
\* the file is replaced between its stat and its read (hub.rs:106).
Served == <>[](cache.quotas = Quotas(file.data) /\ pending = {})

=============================================================================
