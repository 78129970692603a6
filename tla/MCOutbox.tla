------------------------------ MODULE MCOutbox ------------------------------
(* The instances of Outbox that TLC checks: the pass client, the live client. *)
EXTENDS Outbox

Cast(l, e, o) == [live |-> l, edits |-> e, others |-> o]

MCCasts == {Cast(FALSE, 4, 2), Cast(TRUE, 1, 5)}

MCLostCasts == {Cast(TRUE, 2, 0)}
=============================================================================
