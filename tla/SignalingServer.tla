--------------------------- MODULE SignalingServer ---------------------------
(***************************************************************************)
(* The signaling server: SignalingGateway on top of RoomManager, with the  *)
(* sweep timer of server.ts and the rooms that Socket.IO keeps for         *)
(* broadcasts.                                                             *)
(*                                                                         *)
(* An action is one event handler: Node runs it to its end.  A request     *)
(* that is refused (rate limit, validation, no such room or peer, room     *)
(* full) changes nothing here and is not an action.  Events to a client    *)
(* arrive in the order they were emitted; `told` is what a client knows    *)
(* when it has read all of them.                                           *)
(***************************************************************************)
EXTENDS RoomManager

CONSTANT Rejoin     \* may a client create or join while it is in a room?

ASSUME RejoinAssumption == Rejoin \in BOOLEAN

VARIABLES
    status,         \* of a connection: "new", "up", "gone"
    peerOf,         \* socket.data.peerId
    roomOf,         \* socket.data.roomId
    ioRoom,         \* the sockets Socket.IO has in its room r
    told            \* peers a client has been told of and not told they left

socketVars == <<status, peerOf, roomOf, ioRoom, told>>
vars == <<registryVars, socketVars>>

Init ==
    /\ RegistryInit
    /\ status = [s \in Sockets |-> "new"]
    /\ peerOf = [s \in Sockets |-> Nil]
    /\ roomOf = [s \in Sockets |-> Nil]
    /\ ioRoom = [r \in RoomIds |-> {}]
    /\ told = [s \in Sockets |-> {}]

OnConnection(s) ==
    /\ status[s] = "new"
    /\ status' = [status EXCEPT ![s] = "up"]
    /\ UNCHANGED <<registryVars, peerOf, roomOf, ioRoom, told>>

MayEnter(s) == status[s] = "up" /\ (peerOf[s] = Nil \/ Rejoin)

\* socket.data and Socket.IO's room for the new peer p of room r.
Enter(s, r, p) ==
    /\ peerOf' = [peerOf EXCEPT ![s] = p]
    /\ roomOf' = [roomOf EXCEPT ![s] = r]
    /\ ioRoom' = [ioRoom EXCEPT ![r] = @ \union {s}]
    /\ UNCHANGED status

OnCreateRoom(s) ==
    /\ MayEnter(s)
    /\ \E r \in RoomIds, p \in PeerIds :
           /\ CreateRoom(s, r, p)
           /\ Enter(s, r, p)
    /\ told' = [told EXCEPT ![s] = {}]

\* The ack lists the peers that were there before; they hear of the new one.
Listed(r, p) == members[r] \union {p}                               \* a slip
ListPeers(r, p) == members[r] \ {p}

OnJoinRoom(s) ==
    /\ MayEnter(s)
    /\ \E r \in RoomIds, p \in PeerIds :
           /\ JoinRoom(s, r, p)
           /\ Enter(s, r, p)
           /\ told' = [x \in Sockets |->
                  IF x = s THEN ListPeers(r, p)
                  ELSE IF x \in ioRoom[r] THEN told[x] \union {p} ELSE told[x]]

\* A signal reaches the connection in the target's record, and the room is not
\* idle any more.
OnRelaySignal(s) ==
    /\ status[s] = "up" /\ peerOf[s] # Nil
    /\ \E p \in PeerIds : roomOf[s] \in open /\ p \in members[roomOf[s]]
    /\ Touch(roomOf[s])
    /\ UNCHANGED socketVars

\* removeFromRoom, but for Socket.IO's rooms.  A peer whose room was swept is
\* unknown to the registry, and nobody is told that it left.
Known(s) == peerOf[s] # Nil /\ peerToRoom[peerOf[s]] # Nil

KeepRoomId(s) == peerOf' = [peerOf EXCEPT ![s] = Nil] /\ roomOf' = roomOf  \* a slip
KeepData(s) == UNCHANGED <<peerOf, roomOf>>                         \* a slip
ClearData(s) ==
    /\ peerOf' = [peerOf EXCEPT ![s] = Nil]
    /\ roomOf' = [roomOf EXCEPT ![s] = Nil]

RemoveFromRoom(s) ==
    /\ ClearData(s)
    /\ \/ /\ Known(s)
          /\ LeaveRoom(peerOf[s])
          /\ told' = [x \in Sockets |->
                 IF x = s THEN {}
                 ELSE IF x \in ioRoom[roomOf[s]] /\ ~RoomClosed(roomOf[s], peerOf[s])
                 THEN told[x] \ {peerOf[s]}
                 ELSE told[x]]
       \/ /\ ~Known(s)
          /\ told' = [told EXCEPT ![s] = {}]
          /\ UNCHANGED registryVars

\* socket.leave(roomId), which is not reached when the registry does not know the
\* peer.
StayInIoRoom(s) == ioRoom                                           \* a slip
LeaveIoRoom(s) ==
    IF Known(s) THEN [ioRoom EXCEPT ![roomOf[s]] = @ \ {s}] ELSE ioRoom

OnLeave(s) ==
    /\ status[s] = "up"
    /\ RemoveFromRoom(s)
    /\ ioRoom' = LeaveIoRoom(s)
    /\ UNCHANGED status

\* Socket.IO has taken a socket out of its rooms when it reports the disconnect.
OnDisconnect(s) ==
    /\ status[s] = "up"
    /\ status' = [status EXCEPT ![s] = "gone"]
    /\ RemoveFromRoom(s)
    /\ ioRoom' = [r \in RoomIds |-> ioRoom[r] \ {s}]

\* The sweep timer: whoever is in a swept room hears that it is closed.
Sweep ==
    /\ SweepIdleRooms
    /\ told' = [x \in Sockets |->
           IF \E r \in Idle : x \in ioRoom[r] THEN {} ELSE told[x]]
    /\ UNCHANGED <<status, peerOf, roomOf, ioRoom>>

TimePasses == Tick /\ UNCHANGED socketVars

Next ==
    \/ \E s \in Sockets :
           \/ OnConnection(s) \/ OnCreateRoom(s) \/ OnJoinRoom(s)
           \/ OnRelaySignal(s) \/ OnLeave(s) \/ OnDisconnect(s)
    \/ Sweep \/ TimePasses

Spec == Init /\ [][Next]_vars

\* The interval timer fires again and again, and time does not stop.
FairSpec == Spec /\ WF_vars(Sweep) /\ WF_vars(TimePasses)

-----------------------------------------------------------------------------
TypeOK ==
    /\ RegistryTypeOK
    /\ status \in [Sockets -> {"new", "up", "gone"}]
    /\ peerOf \in [Sockets -> PeerIds \union {Nil}]
    /\ roomOf \in [Sockets -> RoomIds \union {Nil}]
    /\ \A s \in Sockets : /\ peerOf[s] = Nil <=> roomOf[s] = Nil
                          /\ status[s] # "up" => peerOf[s] = Nil
    /\ ioRoom \in [RoomIds -> SUBSET Sockets]
    /\ told \in [Sockets -> SUBSET PeerIds]

\* RoomManager.ts: "A connected peer."  Whoever is listed in a room is reached
\* over a live connection that stands for this peer in this room, so a relayed
\* signal goes to the peer it names and nobody waits for one that is gone.
PeersAreConnected ==
    \A p \in PeerIds : peerToRoom[p] # Nil =>
        LET s == connectionId[p] IN
        status[s] = "up" /\ peerOf[s] = p /\ roomOf[s] = peerToRoom[p]

\* What a socket holds in socket.data is its own peer, filed under its room until
\* the room is swept.
SocketDataIsSound ==
    \A s \in Sockets : peerOf[s] # Nil =>
        /\ connectionId[peerOf[s]] = s
        /\ peerToRoom[peerOf[s]] = roomOf[s] \/ roomOf[s] \notin open

\* A broadcast to an open room reaches the sockets of its peers and no others.
BroadcastsReachThePeers ==
    \A r \in open : ioRoom[r] = {connectionId[p] : p \in members[r]}

\* Acks, peer-joined and peer-left events add up: a client that has read all its
\* events knows exactly the other peers of its room.
EveryoneIsTold ==
    \A s \in Sockets : roomOf[s] \in open =>
        told[s] = members[roomOf[s]] \ {peerOf[s]}

\* A room without signaling does not stay: it is closed, or somebody is active.
IdleRoomsExpire == \A r \in RoomIds : []<>(r \notin open \/ age[r] = 0)
=============================================================================
