------------------------- MODULE MCServerConnections -------------------------
(* Three peers, so that one is in the queue when two workers are taken.    *)
EXTENDS ServerConnections

CONSTANTS p1, p2, p3, w1, w2

ThreePeers == {p1, p2, p3}
TwoWorkers == {w1, w2}
==============================================================================
