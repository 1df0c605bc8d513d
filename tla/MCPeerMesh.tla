----------------------------- MODULE MCPeerMesh -----------------------------
(* Model values for PeerMesh. *)
EXTENDS PeerMesh

CONSTANTS p1, p2, k1, k2, a1, a2

OnePeer   == {p1}
OneKey    == {k1}
TwoKeys   == {k1, k2}
SecondKey == {k2}
TwoAddrs  == {a1, a2}
NoKeys    == {}
=============================================================================
