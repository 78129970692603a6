------------------------------- MODULE MCRoom -------------------------------
(* Two live clients: one note that both open, and presence. *)
EXTENDS Room

CONSTANTS a, b

Cast(f, u, o, s, t) == [frames |-> f, users |-> u, ops |-> o, states |-> s, faults |-> t]

MCCasts ==
    {Cast("coedit", {a}, 2, 0, 1), Cast("none", {a, b}, 2, 0, 1),
     Cast("presence", {a}, 0, 1, 1), Cast("presence", {a}, 0, 0, 2)}
=============================================================================
