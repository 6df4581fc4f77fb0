\* A second create or join on one connection.
CONSTANTS
    r1 = r1  r2 = r2
    p1 = p1  p2 = p2  p3 = p3  p4 = p4
    s1 = s1  s2 = s2  s3 = s3
    Nil = Nil
    RoomIds <- TwoRooms
    PeerIds <- ThreePeers
    Sockets <- TwoSockets
    MaxPeers = 2
    Ttl = 1
    Rejoin = TRUE
SPECIFICATION Spec
INVARIANT PeersAreConnected
CHECK_DEADLOCK FALSE
