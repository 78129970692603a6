------------------------------ MODULE MCFanout ------------------------------
(* The instances of Fanout that TLC checks. *)
EXTENDS Fanout

CONSTANTS p, q, r

Cast(online, pushers, droppers, blobs, cap) ==
    [online |-> online, pushers |-> pushers, droppers |-> droppers,
     blobs |-> blobs, cap |-> cap]

\* One pusher overruns a one-slot channel while a third device drops; and two
\* devices that both push and both drop.
MCCasts ==
    {Cast({p, q, r}, {p}, {r}, 2, 1), Cast({p, q}, {p, q}, {p, q}, 1, 2)}

MCGapCasts == {Cast({p, q}, {p, q}, {q}, 1, 2)}
=============================================================================
