----------------------------- MODULE MCSoupRoom -----------------------------
(* A room of three peers, one of which can move its media between two        *)
(* transports and one of which only watches.                                 *)
EXTENDS SoupRoom, TLC

CONSTANTS p1, p2, p3

MCPeers == {p1, p2, p3}
MCTransports == {<<p1, 1>>, <<p1, 2>>, <<p2, 1>>, <<p3, 1>>}
MCReceivers == {<<p1, 1>>, <<p2, 1>>}
=============================================================================
