----------------------------- MODULE RoomManager -----------------------------
(***************************************************************************)
(* The signaling server's registry of rooms and peers (class RoomManager). *)
(* It knows nothing of the transport: a peer record keeps the id of the    *)
(* connection it was made for, and that is all.                            *)
(*                                                                         *)
(* Peer ids are UUIDs and room ids 16 random characters: an id is never    *)
(* handed out twice.  Time is the age of a room: how long ago, in units of *)
(* the environment's choosing, its lastActivityAt was set.                 *)
(***************************************************************************)
EXTENDS Naturals, FiniteSets

CONSTANTS RoomIds, PeerIds, Sockets,
          MaxPeers,     \* maxPeersPerRoom
          Ttl,          \* ttlMs, in units of time
          Nil           \* no room, no peer, no connection

ASSUME MaxPeersAssumption == MaxPeers \in Nat \ {0}
ASSUME TtlAssumption == Ttl \in Nat
ASSUME NilAssumption == Nil \notin RoomIds /\ Nil \notin PeerIds /\ Nil \notin Sockets

VARIABLES
    open,           \* keys of `rooms`
    members,        \* keys of room.peers
    age,            \* now - room.lastActivityAt, up to Ttl + 1
    peerToRoom,
    connectionId,   \* in the peer's record; Nil while the peer id is not given out
    usedRoomIds     \* room ids given out

registryVars == <<open, members, age, peerToRoom, connectionId, usedRoomIds>>

RegistryInit ==
    /\ open = {}
    /\ members = [r \in RoomIds |-> {}]
    /\ age = [r \in RoomIds |-> 0]
    /\ peerToRoom = [p \in PeerIds |-> Nil]
    /\ connectionId = [p \in PeerIds |-> Nil]
    /\ usedRoomIds = {}

Fresh(p) == connectionId[p] = Nil

Register(p, r, s) ==
    /\ members' = [members EXCEPT ![r] = @ \union {p}]
    /\ age' = [age EXCEPT ![r] = 0]
    /\ peerToRoom' = [peerToRoom EXCEPT ![p] = r]
    /\ connectionId' = [connectionId EXCEPT ![p] = s]

CreateRoom(s, r, p) ==
    /\ r \notin usedRoomIds /\ Fresh(p)
    /\ open' = open \union {r}
    /\ usedRoomIds' = usedRoomIds \union {r}
    /\ Register(p, r, s)

RoomFull(r) == Cardinality(members[r]) >= MaxPeers

JoinRoom(s, r, p) ==
    /\ r \in open /\ ~RoomFull(r) /\ Fresh(p)
    /\ Register(p, r, s)
    /\ UNCHANGED <<open, usedRoomIds>>

\* What leaveRoom takes out of peerToRoom, and whether the room loses its last
\* peer.  (Definitions marked "a slip" are mistakes the runs must catch; nothing
\* else refers to them.)
StillFiled(p) == peerToRoom                                         \* a slip
Unfiled(p) == [peerToRoom EXCEPT ![p] = Nil]
NeverClosed(r, p) == FALSE                                          \* a slip
RoomClosed(r, p) == members[r] = {p}

\* leaveRoom, for a peer that is in a room; for any other it returns null.
LeaveRoom(p) ==
    LET r == peerToRoom[p] IN
    /\ r # Nil
    /\ peerToRoom' = Unfiled(p)
    /\ members' = [members EXCEPT ![r] = @ \ {p}]
    /\ age' = [age EXCEPT ![r] = 0]
    /\ open' = IF RoomClosed(r, p) THEN open \ {r} ELSE open
    /\ UNCHANGED <<connectionId, usedRoomIds>>

Touch(r) ==
    /\ age' = [age EXCEPT ![r] = 0]
    /\ UNCHANGED <<open, members, peerToRoom, connectionId, usedRoomIds>>

Idle == {r \in open : age[r] > Ttl}

\* sweepIdleRooms: the idle rooms go, and their peers with them.
AllRooms == open                                                    \* a slip
RoomsLeft == open \ Idle

SweepIdleRooms ==
    /\ Idle # {}
    /\ open' = RoomsLeft
    /\ members' = [r \in RoomIds |-> IF r \in Idle THEN {} ELSE members[r]]
    /\ peerToRoom' = [p \in PeerIds |->
           IF peerToRoom[p] \in Idle THEN Nil ELSE peerToRoom[p]]
    /\ UNCHANGED <<age, connectionId, usedRoomIds>>

\* Time passes for every open room.
Tick ==
    /\ \E r \in open : age[r] <= Ttl
    /\ age' = [r \in RoomIds |-> IF r \in open /\ age[r] <= Ttl THEN age[r] + 1
                                 ELSE age[r]]
    /\ UNCHANGED <<open, members, peerToRoom, connectionId, usedRoomIds>>

-----------------------------------------------------------------------------
RegistryTypeOK ==
    /\ open \subseteq usedRoomIds /\ usedRoomIds \subseteq RoomIds
    /\ members \in [RoomIds -> SUBSET PeerIds]
    /\ age \in [RoomIds -> 0 .. Ttl + 1]
    /\ peerToRoom \in [PeerIds -> RoomIds \union {Nil}]
    /\ connectionId \in [PeerIds -> Sockets \union {Nil}]

\* The two maps of RoomManager agree: a peer is filed under exactly the open room
\* that lists it, a room is gone when its last peer is, and a peer has a record.
RegistryConsistent ==
    /\ \A p \in PeerIds, r \in RoomIds :
           peerToRoom[p] = r <=> r \in open /\ p \in members[r]
    /\ \A r \in RoomIds : r \in open <=> members[r] # {}
    /\ \A p \in PeerIds : peerToRoom[p] # Nil => connectionId[p] # Nil
=============================================================================
