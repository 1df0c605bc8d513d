--------------------------- MODULE MCLanDiscovery ---------------------------
(* Model values for LanDiscovery. *)
EXTENDS LanDiscovery

CONSTANT p1

OnePeer  == {p1}
=============================================================================
