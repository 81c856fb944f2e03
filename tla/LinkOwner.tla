------------------------------ MODULE LinkOwner ------------------------------
(***************************************************************************)
(* What connected handles promise each other about the one link of a       *)
(* shared transport: it belongs to nobody or to one handle, which took it  *)
(* while it was free and gives it back; a link whose handle went away      *)
(* without a disconnect is an orphan, and stays one.  Once somebody else   *)
(* closes a connection, nothing is promised any more.                      *)
(***************************************************************************)
CONSTANTS Handles, Nobody, Orphan, Forfeit

VARIABLE owner

Init == owner = Nobody

Acquire(h) == owner = Nobody /\ owner' = h
Release(h) == owner = h /\ owner' = Nobody
Abandon(h) == owner = h /\ owner' = Orphan
Meddle     == owner' = Forfeit

Next == \/ \E h \in Handles : Acquire(h) \/ Release(h) \/ Abandon(h)
        \/ Meddle

Spec == Init /\ [][Next]_owner
=============================================================================
