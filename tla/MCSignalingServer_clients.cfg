\* Clients that leave a room before they enter another, and the sweep timer.
CONSTANTS
    r1 = r1  r2 = r2
    p1 = p1  p2 = p2  p3 = p3  p4 = p4
    s1 = s1  s2 = s2  s3 = s3
    Nil = Nil
    RoomIds <- TwoRooms
    PeerIds <- FourPeers
    Sockets <- ThreeSockets
    MaxPeers = 3
    Ttl = 1
    Rejoin = FALSE
SPECIFICATION FairSpec
INVARIANTS TypeOK RegistryConsistent SocketDataIsSound PeersAreConnected BroadcastsReachThePeers EveryoneIsTold
PROPERTY IdleRoomsExpire
CHECK_DEADLOCK FALSE
