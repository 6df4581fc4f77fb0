-------------------------- MODULE MCSignalingServer --------------------------
(* Model values for SignalingServer.                                         *)
EXTENDS SignalingServer

CONSTANTS r1, r2, p1, p2, p3, p4, s1, s2, s3

TwoRooms == {r1, r2}
ThreePeers == {p1, p2, p3}
FourPeers == {p1, p2, p3, p4}
TwoSockets == {s1, s2}
ThreeSockets == {s1, s2, s3}
=============================================================================
