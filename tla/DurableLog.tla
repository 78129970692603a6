----------------------------- MODULE DurableLog -----------------------------
(***************************************************************************)
(* What a vault's storage promises, with no files and no crashes: a sealed  *)
(* blob is written under the next sequence number and, once it is counted,  *)
(* stays until a compaction forgets a prefix.  Only what was never counted  *)
(* may vanish, or share its number.  VaultLog, which models                 *)
(* crates/tacitus-relay/src/log.rs step by step, implements this module.    *)
(***************************************************************************)
EXTENDS Naturals

CONSTANT Blob     \* the sealed payloads devices push

VARIABLES base,    \* every entry up to this seq lives in the snapshot only
          top,     \* the highest seq counted: acked, or found by a restart
          entries  \* the entries above base, [seq, blob]

vars == <<base, top, entries>>

Init ==
    /\ base = 0
    /\ top = 0
    /\ entries = {}

\* A blob is written under the next seq, and can be read from now on.
Write(b) ==
    /\ entries' = entries \cup {[seq |-> top + 1, blob |-> b]}
    /\ UNCHANGED <<base, top>>

\* The next seq is used up: its push was acked, or a restart found the entry.
Count ==
    /\ \E l \in entries : l.seq = top + 1
    /\ top' = top + 1
    /\ UNCHANGED <<base, entries>>

\* A crash takes what was written and not counted.
Vanish ==
    /\ entries' \subseteq entries
    /\ \A l \in entries \ entries' : l.seq > top
    /\ UNCHANGED <<base, top>>

\* A compaction up to seq u: the prefix is forgotten, seqs never renumber.
Compact(u) ==
    /\ base < u
    /\ u <= top
    /\ base' = u
    /\ entries' = {l \in entries : l.seq > u}
    /\ UNCHANGED top

Next ==
    \/ \E b \in Blob : Write(b)
    \/ Count
    \/ Vanish
    \/ \E u \in 1..top : Compact(u)

Spec == Init /\ [][Next]_vars
=============================================================================
