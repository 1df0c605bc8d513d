---------------------------- MODULE MCMediaSlot ----------------------------
(* Model values for MediaSlot. *)
EXTENDS MediaSlot

CONSTANTS p1, p2

TwoPaths == {p1, p2}
=============================================================================
