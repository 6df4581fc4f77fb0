------------------------ MODULE SignalingServerProofs ------------------------
(***************************************************************************)
(* Theorems about module SignalingServer, for any number of rooms, peers   *)
(* and connections.                                                        *)
(*                                                                         *)
(* Types come first.  The two maps of the registry agree (Registry) on the *)
(* strength of types alone; what the sockets hold is sound (Sockets) given *)
(* that room ids are never handed out twice; and for clients that enter    *)
(* one room at a time, the registry holds connected peers only, on which   *)
(* broadcasts and the clients' knowledge of each other rest.               *)
(***************************************************************************)
EXTENDS SignalingServer, TLAPS

-----------------------------------------------------------------------------
(* Types                                                                   *)

SocketsTypeOK ==
    /\ status \in [Sockets -> {"new", "up", "gone"}]
    /\ peerOf \in [Sockets -> PeerIds \union {Nil}]
    /\ roomOf \in [Sockets -> RoomIds \union {Nil}]
    /\ ioRoom \in [RoomIds -> SUBSET Sockets]
    /\ told \in [Sockets -> SUBSET PeerIds]

SocketDataPaired ==
    \A s \in Sockets : /\ peerOf[s] = Nil <=> roomOf[s] = Nil
                       /\ status[s] # "up" => peerOf[s] = Nil

\* TypeOK, in the parts the proofs take one at a time.
LEMMA TypeParts == TypeOK <=> RegistryTypeOK /\ SocketsTypeOK /\ SocketDataPaired
BY DEF TypeOK, SocketsTypeOK, SocketDataPaired

\* The ages of rooms are in range, set back or counted on.
LEMMA AgeType ==
    ASSUME RegistryTypeOK
    PROVE  /\ \A r \in RoomIds : [age EXCEPT ![r] = 0] \in [RoomIds -> 0 .. Ttl + 1]
           /\ [r \in RoomIds |-> IF r \in open /\ age[r] <= Ttl THEN age[r] + 1
                                 ELSE age[r]] \in [RoomIds -> 0 .. Ttl + 1]
BY TtlAssumption DEF RegistryTypeOK

\* A peer registered in a room keeps the registry's types.
LEMMA RegisterType ==
    ASSUME RegistryTypeOK, NEW p \in PeerIds, NEW r \in RoomIds,
           NEW s \in Sockets, Register(p, r, s)
    PROVE  /\ members' \in [RoomIds -> SUBSET PeerIds]
           /\ age' \in [RoomIds -> 0 .. Ttl + 1]
           /\ peerToRoom' \in [PeerIds -> RoomIds \union {Nil}]
           /\ connectionId' \in [PeerIds -> Sockets \union {Nil}]
<1>1. age' \in [RoomIds -> 0 .. Ttl + 1]
  BY AgeType DEF Register
<1>2. members' \in [RoomIds -> SUBSET PeerIds]
  BY DEF Register, RegistryTypeOK
<1>3. /\ peerToRoom' \in [PeerIds -> RoomIds \union {Nil}]
      /\ connectionId' \in [PeerIds -> Sockets \union {Nil}]
  BY DEF Register, RegistryTypeOK
<1> QED BY <1>1, <1>2, <1>3

LEMMA CreateRoomType ==
    ASSUME RegistryTypeOK, NEW p \in PeerIds, NEW r \in RoomIds,
           NEW s \in Sockets, CreateRoom(s, r, p)
    PROVE  RegistryTypeOK'
<1>1. Register(p, r, s)
  BY DEF CreateRoom
<1>2. open' \subseteq usedRoomIds' /\ usedRoomIds' \subseteq RoomIds
  BY DEF CreateRoom, RegistryTypeOK
<1> QED BY <1>1, <1>2, RegisterType DEF RegistryTypeOK

LEMMA JoinRoomType ==
    ASSUME RegistryTypeOK, NEW p \in PeerIds, NEW r \in RoomIds,
           NEW s \in Sockets, JoinRoom(s, r, p)
    PROVE  RegistryTypeOK'
<1>1. Register(p, r, s)
  BY DEF JoinRoom
<1>2. open' \subseteq usedRoomIds' /\ usedRoomIds' \subseteq RoomIds
  BY DEF JoinRoom, RegistryTypeOK
<1> QED BY <1>1, <1>2, RegisterType DEF RegistryTypeOK

LEMMA LeaveRoomType ==
    ASSUME RegistryTypeOK, NEW p \in PeerIds, LeaveRoom(p)
    PROVE  RegistryTypeOK'
<1>1. peerToRoom[p] \in RoomIds
  BY DEF RegistryTypeOK, LeaveRoom
<1>2. age' \in [RoomIds -> 0 .. Ttl + 1]
  BY <1>1, AgeType DEF LeaveRoom
<1>3. members' \in [RoomIds -> SUBSET PeerIds]
  BY <1>1 DEF LeaveRoom, RegistryTypeOK
<1>4. peerToRoom' \in [PeerIds -> RoomIds \union {Nil}]
  BY DEF LeaveRoom, Unfiled, RegistryTypeOK
<1>5. /\ open' \subseteq usedRoomIds' /\ usedRoomIds' \subseteq RoomIds
      /\ connectionId' \in [PeerIds -> Sockets \union {Nil}]
  BY DEF LeaveRoom, RegistryTypeOK
<1> QED BY <1>2, <1>3, <1>4, <1>5 DEF RegistryTypeOK

LEMMA SweepType == RegistryTypeOK /\ SweepIdleRooms => RegistryTypeOK'
<1> SUFFICES ASSUME RegistryTypeOK, SweepIdleRooms PROVE RegistryTypeOK'
  OBVIOUS
<1>1. members' \in [RoomIds -> SUBSET PeerIds]
  BY DEF SweepIdleRooms, RegistryTypeOK
<1>2. peerToRoom' \in [PeerIds -> RoomIds \union {Nil}]
  BY DEF SweepIdleRooms, RegistryTypeOK
<1>3. /\ open' \subseteq usedRoomIds' /\ usedRoomIds' \subseteq RoomIds
      /\ connectionId' \in [PeerIds -> Sockets \union {Nil}]
      /\ age' \in [RoomIds -> 0 .. Ttl + 1]
  BY DEF SweepIdleRooms, RoomsLeft, RegistryTypeOK
<1> QED BY <1>1, <1>2, <1>3 DEF RegistryTypeOK

\* Every step but one that leaves the registry alone is one of its operations.
RegistryStep ==
    \/ \E s \in Sockets, r \in RoomIds, p \in PeerIds :
           CreateRoom(s, r, p) \/ JoinRoom(s, r, p)
    \/ \E p \in PeerIds : LeaveRoom(p)
    \/ \E r \in RoomIds : Touch(r)
    \/ SweepIdleRooms
    \/ Tick
    \/ UNCHANGED registryVars

LEMMA NextIsRegistryStep == TypeOK /\ [Next]_vars => RegistryStep
<1> SUFFICES ASSUME TypeOK, [Next]_vars PROVE RegistryStep
  OBVIOUS
<1>1. CASE UNCHANGED vars
  BY <1>1 DEF vars, RegistryStep
<1>2. ASSUME NEW s \in Sockets, OnConnection(s) PROVE RegistryStep
  BY <1>2 DEF OnConnection, RegistryStep
<1>3. ASSUME NEW s \in Sockets, OnCreateRoom(s) PROVE RegistryStep
  BY <1>3 DEF OnCreateRoom, RegistryStep
<1>4. ASSUME NEW s \in Sockets, OnJoinRoom(s) PROVE RegistryStep
  BY <1>4 DEF OnJoinRoom, RegistryStep
<1>5. ASSUME NEW s \in Sockets, OnRelaySignal(s) PROVE RegistryStep
  <2>1. roomOf[s] \in RoomIds
    BY <1>5 DEF OnRelaySignal, TypeOK, RegistryTypeOK
  <2> QED BY <1>5, <2>1 DEF OnRelaySignal, RegistryStep
<1>6. ASSUME NEW s \in Sockets, RemoveFromRoom(s) PROVE RegistryStep
  <2>1. CASE Known(s) /\ LeaveRoom(peerOf[s])
    <3>1. peerOf[s] \in PeerIds
      BY <2>1 DEF Known, TypeOK
    <3> QED BY <2>1, <3>1 DEF RegistryStep
  <2>2. CASE UNCHANGED registryVars
    BY <2>2 DEF RegistryStep
  <2> QED BY <1>6, <2>1, <2>2 DEF RemoveFromRoom
<1>7. CASE Sweep
  BY <1>7 DEF Sweep, RegistryStep
<1>8. CASE TimePasses
  BY <1>8 DEF TimePasses, RegistryStep
<1> QED
  BY <1>1, <1>2, <1>3, <1>4, <1>5, <1>6, <1>7, <1>8 DEF Next, OnLeave, OnDisconnect

LEMMA RegistryTypeNext == RegistryTypeOK /\ RegistryStep => RegistryTypeOK'
<1> SUFFICES ASSUME RegistryTypeOK, RegistryStep PROVE RegistryTypeOK'
  OBVIOUS
<1>1. ASSUME NEW r \in RoomIds, Touch(r) PROVE RegistryTypeOK'
  BY <1>1, AgeType DEF Touch, RegistryTypeOK
<1>2. CASE Tick
  BY <1>2, AgeType DEF Tick, RegistryTypeOK
<1>3. CASE UNCHANGED registryVars
  BY <1>3 DEF registryVars, RegistryTypeOK
<1> QED
  BY <1>1, <1>2, <1>3, CreateRoomType, JoinRoomType, LeaveRoomType, SweepType
  DEF RegistryStep

LEMMA TypeInit == Init => TypeOK
<1> SUFFICES ASSUME Init PROVE TypeOK
  OBVIOUS
<1>1. RegistryTypeOK
  BY TtlAssumption DEF Init, RegistryInit, RegistryTypeOK
<1>2. SocketsTypeOK
  BY DEF Init, SocketsTypeOK
<1>3. SocketDataPaired
  BY DEF Init, SocketDataPaired
<1> QED BY <1>1, <1>2, <1>3, TypeParts

LEMMA EnterType ==
    ASSUME SocketsTypeOK, SocketDataPaired,
           NEW s \in Sockets, NEW r \in RoomIds, NEW p \in PeerIds,
           status[s] = "up", Enter(s, r, p), told' \in [Sockets -> SUBSET PeerIds]
    PROVE  SocketsTypeOK' /\ SocketDataPaired'
<1>1. SocketsTypeOK'
  BY DEF Enter, SocketsTypeOK
<1>2. SocketDataPaired'
  BY NilAssumption DEF Enter, SocketsTypeOK, SocketDataPaired
<1> QED BY <1>1, <1>2

LEMMA RemoveType ==
    ASSUME SocketsTypeOK, SocketDataPaired, NEW s \in Sockets, RemoveFromRoom(s)
    PROVE  /\ peerOf' \in [Sockets -> PeerIds \union {Nil}]
           /\ roomOf' \in [Sockets -> RoomIds \union {Nil}]
           /\ told' \in [Sockets -> SUBSET PeerIds]
           /\ peerOf'[s] = Nil
           /\ \A x \in Sockets : /\ peerOf'[x] = Nil <=> roomOf'[x] = Nil
                                 /\ status[x] # "up" => peerOf'[x] = Nil
<1>1. ClearData(s)
  BY DEF RemoveFromRoom
<1>2. told' \in [Sockets -> SUBSET PeerIds]
  BY DEF RemoveFromRoom, SocketsTypeOK
<1> QED BY <1>1, <1>2 DEF ClearData, SocketsTypeOK, SocketDataPaired

LEMMA SocketsTypeNext ==
    TypeOK /\ [Next]_vars => SocketsTypeOK' /\ SocketDataPaired'
<1> SUFFICES ASSUME TypeOK, [Next]_vars PROVE SocketsTypeOK' /\ SocketDataPaired'
  OBVIOUS
<1> USE DEF SocketsTypeOK, SocketDataPaired
<1>0. RegistryTypeOK /\ SocketsTypeOK /\ SocketDataPaired
  BY TypeParts
<1>1. CASE UNCHANGED vars
  BY <1>0, <1>1 DEF vars, socketVars
<1>2. ASSUME NEW s \in Sockets, OnConnection(s)
      PROVE  SocketsTypeOK' /\ SocketDataPaired'
  BY <1>0, <1>2 DEF OnConnection
<1>3. ASSUME NEW s \in Sockets, OnCreateRoom(s)
      PROVE  SocketsTypeOK' /\ SocketDataPaired'
  <2>1. told' \in [Sockets -> SUBSET PeerIds]
    BY <1>0, <1>3 DEF OnCreateRoom
  <2>2. status[s] = "up"
    BY <1>3 DEF OnCreateRoom, MayEnter
  <2>3. PICK r \in RoomIds, p \in PeerIds : Enter(s, r, p)
    BY <1>3 DEF OnCreateRoom
  <2> QED BY <1>0, <2>1, <2>2, <2>3, EnterType
<1>4. ASSUME NEW s \in Sockets, OnJoinRoom(s)
      PROVE  SocketsTypeOK' /\ SocketDataPaired'
  <2>1. PICK r \in RoomIds, p \in PeerIds :
            /\ Enter(s, r, p)
            /\ told' = [x \in Sockets |->
                   IF x = s THEN ListPeers(r, p)
                   ELSE IF x \in ioRoom[r] THEN told[x] \union {p} ELSE told[x]]
    BY <1>4 DEF OnJoinRoom
  <2>2. status[s] = "up"
    BY <1>4 DEF OnJoinRoom, MayEnter
  <2>3. ListPeers(r, p) \subseteq PeerIds
    BY <1>0 DEF ListPeers, RegistryTypeOK
  <2>4. told' \in [Sockets -> SUBSET PeerIds]
    BY <1>0, <2>1, <2>3
  <2> QED BY <1>0, <2>1, <2>2, <2>4, EnterType
<1>5. ASSUME NEW s \in Sockets, OnRelaySignal(s)
      PROVE  SocketsTypeOK' /\ SocketDataPaired'
  BY <1>0, <1>5 DEF OnRelaySignal, socketVars
<1>6. ASSUME NEW s \in Sockets, OnLeave(s)
      PROVE  SocketsTypeOK' /\ SocketDataPaired'
  <2>1. ioRoom' \in [RoomIds -> SUBSET Sockets]
    BY <1>0, <1>6 DEF OnLeave, LeaveIoRoom
  <2> QED BY <1>0, <1>6, <2>1, RemoveType DEF OnLeave
<1>7. ASSUME NEW s \in Sockets, OnDisconnect(s)
      PROVE  SocketsTypeOK' /\ SocketDataPaired'
  <2>1. ioRoom' \in [RoomIds -> SUBSET Sockets]
    BY <1>0, <1>7 DEF OnDisconnect
  <2>2. status' = [status EXCEPT ![s] = "gone"] /\ RemoveFromRoom(s)
    BY <1>7 DEF OnDisconnect
  <2> QED BY <1>0, <2>1, <2>2, RemoveType
<1>8. CASE Sweep
  BY <1>0, <1>8 DEF Sweep
<1>9. CASE TimePasses
  BY <1>0, <1>9 DEF TimePasses, socketVars
<1> QED BY <1>1, <1>2, <1>3, <1>4, <1>5, <1>6, <1>7, <1>8, <1>9 DEF Next

LEMMA TypeNext == TypeOK /\ [Next]_vars => TypeOK'
<1> SUFFICES ASSUME TypeOK, [Next]_vars PROVE TypeOK'
  OBVIOUS
<1>1. RegistryTypeOK'
  BY NextIsRegistryStep, RegistryTypeNext, TypeParts
<1>2. SocketsTypeOK' /\ SocketDataPaired'
  BY SocketsTypeNext
<1> QED BY <1>1, <1>2 DEF TypeOK, SocketsTypeOK, SocketDataPaired

\* Every variable of the server keeps its type: an id in socket.data is a peer and
\* its room or neither, and no room's age runs past what the sweep looks at.
THEOREM TypeCorrect == Spec => []TypeOK
<1> QED BY TypeInit, TypeNext, PTL DEF Spec

-----------------------------------------------------------------------------
(* The registry's two maps                                                 *)

LEMMA RegisterConsistent ==
    ASSUME RegistryTypeOK, RegistryConsistent,
           NEW s \in Sockets, NEW r \in RoomIds, NEW p \in PeerIds,
           Register(p, r, s), Fresh(p),
           open' = open \union {r},
           r \in open \/ members[r] = {}
    PROVE  RegistryConsistent'
BY NilAssumption DEF RegistryTypeOK, RegistryConsistent, Register, Fresh

LEMMA ConsistentNext ==
    RegistryTypeOK /\ RegistryConsistent /\ RegistryStep => RegistryConsistent'
<1> SUFFICES ASSUME RegistryTypeOK, RegistryConsistent, RegistryStep
             PROVE  RegistryConsistent'
  OBVIOUS
<1>1. ASSUME NEW s \in Sockets, NEW r \in RoomIds, NEW p \in PeerIds,
             CreateRoom(s, r, p)
      PROVE  RegistryConsistent'
  <2>1. members[r] = {}
    BY <1>1 DEF CreateRoom, RegistryConsistent, RegistryTypeOK
  <2> QED BY <1>1, <2>1, RegisterConsistent DEF CreateRoom
<1>2. ASSUME NEW s \in Sockets, NEW r \in RoomIds, NEW p \in PeerIds,
             JoinRoom(s, r, p)
      PROVE  RegistryConsistent'
  <2>1. open' = open \union {r} /\ r \in open
    BY <1>2 DEF JoinRoom
  <2> QED BY <1>2, <2>1, RegisterConsistent DEF JoinRoom
<1>3. ASSUME NEW p \in PeerIds, LeaveRoom(p) PROVE RegistryConsistent'
  <2>1. PICK r \in RoomIds : r = peerToRoom[p] /\ r \in open /\ p \in members[r]
    BY <1>3 DEF LeaveRoom, RegistryTypeOK, RegistryConsistent
  <2> QED BY <1>3, <2>1, NilAssumption
          DEF LeaveRoom, Unfiled, RoomClosed, RegistryTypeOK, RegistryConsistent
<1>4. CASE SweepIdleRooms
  BY <1>4, NilAssumption
  DEF SweepIdleRooms, RoomsLeft, Idle, RegistryTypeOK, RegistryConsistent
<1>5. ASSUME NEW r \in RoomIds, Touch(r) PROVE RegistryConsistent'
  BY <1>5 DEF Touch, RegistryConsistent
<1>6. CASE Tick
  BY <1>6 DEF Tick, RegistryConsistent
<1>7. CASE UNCHANGED registryVars
  BY <1>7 DEF registryVars, RegistryConsistent
<1> QED BY <1>1, <1>2, <1>3, <1>4, <1>5, <1>6, <1>7 DEF RegistryStep

\* A peer is filed under exactly the open room that lists it, a room is gone when
\* its last peer is, and whoever is filed has a record: the two maps of
\* RoomManager agree after every handler and every sweep.
THEOREM RegistryMapsAgree == Spec => []RegistryConsistent
<1>1. Init => RegistryConsistent
  BY NilAssumption DEF Init, RegistryInit, RegistryConsistent
<1>2. TypeOK /\ RegistryConsistent /\ [Next]_vars => RegistryConsistent'
  BY NextIsRegistryStep, ConsistentNext, TypeParts
<1> QED BY <1>1, <1>2, TypeCorrect, PTL DEF Spec

-----------------------------------------------------------------------------
(* What the sockets hold                                                   *)

\* The handlers, one alternative each, as the proofs below take them apart.
Entering(s, r, p) ==
    /\ MayEnter(s) /\ Enter(s, r, p) /\ Register(p, r, s) /\ Fresh(p)
    /\ \/ CreateRoom(s, r, p) /\ told' = [told EXCEPT ![s] = {}]
       \/ /\ JoinRoom(s, r, p)
          /\ told' = [x \in Sockets |->
                 IF x = s THEN ListPeers(r, p)
                 ELSE IF x \in ioRoom[r] THEN told[x] \union {p} ELSE told[x]]

Unnoticed == UNCHANGED <<open, members, peerToRoom, connectionId, usedRoomIds,
                         peerOf, roomOf, ioRoom, told>>

LEMMA Handlers ==
    ASSUME Next
    PROVE  \/ \E s \in Sockets, r \in RoomIds, p \in PeerIds : Entering(s, r, p)
           \/ \E s \in Sockets : OnLeave(s) \/ OnDisconnect(s)
           \/ Sweep
           \/ /\ Unnoticed
              /\ \A x \in Sockets : status[x] = "up" => status'[x] = "up"
<1>1. ASSUME NEW s \in Sockets, OnCreateRoom(s)
      PROVE  \E r \in RoomIds, p \in PeerIds : Entering(s, r, p)
  BY <1>1 DEF OnCreateRoom, CreateRoom, Entering
<1>2. ASSUME NEW s \in Sockets, OnJoinRoom(s)
      PROVE  \E r \in RoomIds, p \in PeerIds : Entering(s, r, p)
  BY <1>2 DEF OnJoinRoom, JoinRoom, Entering
<1>3. ASSUME NEW s \in Sockets, OnConnection(s)
      PROVE  /\ Unnoticed
             /\ \A x \in Sockets : status[x] = "up" => status'[x] = "up"
  BY <1>3 DEF OnConnection, Unnoticed, registryVars
<1>4. ASSUME NEW s \in Sockets, OnRelaySignal(s) PROVE Unnoticed /\ status' = status
  BY <1>4 DEF OnRelaySignal, Touch, Unnoticed, socketVars
<1>5. CASE TimePasses
  BY <1>5 DEF TimePasses, Tick, Unnoticed, socketVars
<1> QED BY <1>1, <1>2, <1>3, <1>4, <1>5 DEF Next

\* A room a socket remembers was given out: no later room has its id.
RoomIdsAreOld == \A s \in Sockets : roomOf[s] # Nil => roomOf[s] \in usedRoomIds

SocketsInv == SocketDataIsSound /\ RoomIdsAreOld

LEMMA SoundEnter ==
    ASSUME TypeOK, SocketsInv,
           NEW s \in Sockets, NEW r \in RoomIds, NEW p \in PeerIds,
           Entering(s, r, p)
    PROVE  SocketsInv'
<1> USE NilAssumption DEF SocketsInv, SocketDataIsSound, RoomIdsAreOld
<1>1. /\ Enter(s, r, p) /\ Register(p, r, s) /\ Fresh(p)
      /\ open' = open \union {r} /\ usedRoomIds' = usedRoomIds \union {r}
      /\ r \in open \/ r \notin usedRoomIds
  BY DEF Entering, CreateRoom, JoinRoom, TypeOK, RegistryTypeOK
<1>2. connectionId'[p] = s /\ peerToRoom'[p] = r /\ peerOf'[s] = p /\ roomOf'[s] = r
  BY <1>1 DEF Register, Enter, TypeOK, RegistryTypeOK
<1>3. ASSUME NEW x \in Sockets, x # s, peerOf'[x] # Nil
      PROVE  /\ connectionId'[peerOf'[x]] = x
             /\ peerToRoom'[peerOf'[x]] = roomOf'[x] \/ roomOf'[x] \notin open'
  <2>1. peerOf'[x] = peerOf[x] /\ roomOf'[x] = roomOf[x]
    BY <1>1, <1>3 DEF Enter, TypeOK
  <2>2. peerOf[x] \in PeerIds /\ roomOf[x] # Nil
    BY <1>3, <2>1 DEF TypeOK
  <2>3. peerOf[x] # p
    BY <1>1, <2>2 DEF Fresh
  <2>4. /\ connectionId'[peerOf[x]] = connectionId[peerOf[x]]
        /\ peerToRoom'[peerOf[x]] = peerToRoom[peerOf[x]]
    BY <1>1, <2>2, <2>3 DEF Register, TypeOK, RegistryTypeOK
  <2>5. roomOf[x] \notin open => roomOf[x] # r \/ r \in open
    BY <1>1, <2>2
  <2> QED BY <1>1, <2>1, <2>2, <2>4, <2>5
<1>4. SocketDataIsSound'
  BY <1>2, <1>3
<1>5. RoomIdsAreOld'
  BY <1>1 DEF Enter, TypeOK
<1> QED BY <1>4, <1>5

LEMMA SoundRemove ==
    ASSUME TypeOK, SocketsInv, NEW s \in Sockets, RemoveFromRoom(s)
    PROVE  SocketsInv'
<1> USE NilAssumption DEF SocketsInv, SocketDataIsSound, RoomIdsAreOld
<1>1. /\ peerOf' = [peerOf EXCEPT ![s] = Nil] /\ roomOf' = [roomOf EXCEPT ![s] = Nil]
      /\ connectionId' = connectionId /\ usedRoomIds' = usedRoomIds
      /\ open' \subseteq open
  BY DEF RemoveFromRoom, ClearData, LeaveRoom, registryVars
<1>2. ASSUME NEW x \in Sockets, peerOf'[x] # Nil
      PROVE  peerToRoom'[peerOf[x]] = peerToRoom[peerOf[x]]
  <2>1. x # s /\ peerOf[x] \in PeerIds
    BY <1>1, <1>2 DEF TypeOK
  <2>2. peerOf[x] # peerOf[s]
    BY <2>1
  <2> QED BY <2>1, <2>2
          DEF RemoveFromRoom, LeaveRoom, Unfiled, registryVars, TypeOK, RegistryTypeOK
<1>3. SocketDataIsSound'
  BY <1>1, <1>2 DEF TypeOK
<1>4. RoomIdsAreOld'
  BY <1>1 DEF TypeOK
<1> QED BY <1>3, <1>4

LEMMA SoundNext == TypeOK /\ SocketsInv /\ [Next]_vars => SocketsInv'
<1> SUFFICES ASSUME TypeOK, SocketsInv, [Next]_vars PROVE SocketsInv'
  OBVIOUS
<1>1. CASE UNCHANGED vars
  BY <1>1 DEF vars, registryVars, socketVars, SocketsInv, SocketDataIsSound,
              RoomIdsAreOld
<1>2. CASE Sweep
  BY <1>2, NilAssumption
  DEF Sweep, SweepIdleRooms, RoomsLeft, Idle, SocketsInv, SocketDataIsSound,
      RoomIdsAreOld, TypeOK, RegistryTypeOK
<1>3. CASE Unnoticed
  BY <1>3 DEF Unnoticed, SocketsInv, SocketDataIsSound, RoomIdsAreOld
<1> QED BY <1>1, <1>2, <1>3, Handlers, SoundEnter, SoundRemove DEF OnLeave, OnDisconnect

LEMMA SoundAlways == Spec => []SocketsInv
<1>1. Init => SocketsInv
  BY DEF Init, SocketsInv, SocketDataIsSound, RoomIdsAreOld
<1> QED BY <1>1, SoundNext, TypeCorrect, PTL DEF Spec

\* What socket.data says of a connection is its own peer, filed under its room for
\* as long as the room exists, whatever clients create, join and leave.
THEOREM SocketDataSound == Spec => []SocketDataIsSound
<1>1. SocketsInv => SocketDataIsSound
  BY DEF SocketsInv
<1> QED BY <1>1, SoundAlways, PTL

-----------------------------------------------------------------------------
(* Clients that enter one room at a time                                   *)

\* No socket is in a Socket.IO room before the room's id is given out.
NobodyIsEarly == \A r \in RoomIds \ usedRoomIds : ioRoom[r] = {}

ReachInv ==
    /\ TypeOK /\ RegistryConsistent /\ SocketsInv
    /\ PeersAreConnected /\ BroadcastsReachThePeers /\ NobodyIsEarly

\* In an open room, socket.data, Socket.IO and the registry agree on who is there.
LEMMA WhoIsWhere ==
    ASSUME ReachInv, NEW r \in RoomIds, r \in open
    PROVE  /\ \A x \in Sockets : roomOf[x] = r <=> x \in ioRoom[r]
           /\ \A x \in Sockets : roomOf[x] = r =>
                  /\ peerOf[x] \in PeerIds /\ peerOf[x] \in members[r]
                  /\ connectionId[peerOf[x]] = x
           /\ \A p \in members[r] :
                  /\ p \in PeerIds /\ connectionId[p] \in Sockets
                  /\ peerOf[connectionId[p]] = p /\ roomOf[connectionId[p]] = r
<1>1. ASSUME NEW p \in members[r]
      PROVE  /\ p \in PeerIds /\ connectionId[p] \in Sockets
             /\ peerOf[connectionId[p]] = p /\ roomOf[connectionId[p]] = r
  <2>1. p \in PeerIds
    BY DEF ReachInv, TypeOK, RegistryTypeOK
  <2>2. peerToRoom[p] = r /\ r # Nil
    BY <2>1, NilAssumption DEF ReachInv, RegistryConsistent
  <2>3. connectionId[p] \in Sockets
    BY <2>1, <2>2 DEF ReachInv, RegistryConsistent, TypeOK, RegistryTypeOK
  <2> QED BY <2>1, <2>2, <2>3 DEF ReachInv, PeersAreConnected
<1>2. ASSUME NEW x \in Sockets, roomOf[x] = r
      PROVE  /\ peerOf[x] \in PeerIds /\ peerOf[x] \in members[r]
             /\ connectionId[peerOf[x]] = x
  <2>1. peerOf[x] \in PeerIds
    BY <1>2, NilAssumption DEF ReachInv, TypeOK
  <2>2. connectionId[peerOf[x]] = x /\ peerToRoom[peerOf[x]] = r
    BY <1>2, <2>1, NilAssumption DEF ReachInv, SocketsInv, SocketDataIsSound
  <2> QED BY <2>1, <2>2 DEF ReachInv, RegistryConsistent
<1>3. ioRoom[r] = {connectionId[p] : p \in members[r]}
  BY DEF ReachInv, BroadcastsReachThePeers
<1> QED BY <1>1, <1>2, <1>3

\* Who enters with ~Rejoin was nobody's peer.
LEMMA ReachEnter ==
    ASSUME ~Rejoin, ReachInv,
           NEW s \in Sockets, NEW r \in RoomIds, NEW p \in PeerIds,
           Entering(s, r, p)
    PROVE  PeersAreConnected' /\ BroadcastsReachThePeers' /\ NobodyIsEarly'
<1>1. /\ Enter(s, r, p) /\ Register(p, r, s) /\ Fresh(p)
      /\ open' = open \union {r} /\ usedRoomIds' = usedRoomIds \union {r}
      /\ r \in open \/ (r \notin usedRoomIds /\ members[r] = {} /\ ioRoom[r] = {})
  BY DEF Entering, CreateRoom, JoinRoom, ReachInv, TypeOK, RegistryTypeOK,
         RegistryConsistent, NobodyIsEarly
<1>2. status[s] = "up" /\ peerOf[s] = Nil
  BY DEF Entering, MayEnter
<1>3. /\ connectionId'[p] = s /\ peerToRoom'[p] = r
      /\ peerOf'[s] = p /\ roomOf'[s] = r /\ status' = status
  BY <1>1 DEF Register, Enter, ReachInv, TypeOK, RegistryTypeOK
<1>4. ASSUME NEW q \in PeerIds, q # p
      PROVE  connectionId'[q] = connectionId[q] /\ peerToRoom'[q] = peerToRoom[q]
  BY <1>1, <1>4 DEF Register, ReachInv, TypeOK, RegistryTypeOK
<1>5. PeersAreConnected'
  <2> SUFFICES ASSUME NEW q \in PeerIds, peerToRoom'[q] # Nil
               PROVE  LET x == connectionId'[q] IN
                      status'[x] = "up" /\ peerOf'[x] = q /\ roomOf'[x] = peerToRoom'[q]
    BY DEF PeersAreConnected
  <2>1. CASE q = p
    BY <1>2, <1>3, <2>1
  <2>2. CASE q # p
    <3>1. connectionId[q] \in Sockets
      BY <1>4, <2>2 DEF ReachInv, RegistryConsistent, TypeOK, RegistryTypeOK
    <3>2. /\ status[connectionId[q]] = "up" /\ peerOf[connectionId[q]] = q
          /\ roomOf[connectionId[q]] = peerToRoom[q]
      BY <1>4, <2>2 DEF ReachInv, PeersAreConnected
    <3>3. connectionId[q] # s
      BY <1>2, <3>2, NilAssumption
    <3> QED BY <1>1, <1>3, <1>4, <2>2, <3>1, <3>2, <3>3 DEF Enter, ReachInv, TypeOK
  <2> QED BY <2>1, <2>2
<1>6. BroadcastsReachThePeers'
  <2> SUFFICES ASSUME NEW t \in RoomIds, t \in open'
               PROVE  ioRoom'[t] = {connectionId'[q] : q \in members'[t]}
    BY <1>1 DEF BroadcastsReachThePeers, ReachInv, TypeOK, RegistryTypeOK
  <2>1. ASSUME NEW q \in members[t] PROVE q \in PeerIds /\ q # p
    <3>1. q \in PeerIds
      BY DEF ReachInv, TypeOK, RegistryTypeOK
    <3>2. t \in open
      BY DEF ReachInv, RegistryConsistent
    <3>3. connectionId[q] # Nil
      BY <3>1, <3>2, NilAssumption DEF ReachInv, RegistryConsistent
    <3> QED BY <1>1, <3>1, <3>3 DEF Fresh
  <2>2. ASSUME NEW q \in members[t] PROVE connectionId'[q] = connectionId[q]
    BY <1>4, <2>1
  <2>3. ioRoom[t] = {connectionId[q] : q \in members[t]}
    BY <1>1 DEF ReachInv, BroadcastsReachThePeers
  <2>4. /\ ioRoom'[t] = IF t = r THEN ioRoom[t] \union {s} ELSE ioRoom[t]
        /\ members'[t] = IF t = r THEN members[t] \union {p} ELSE members[t]
    BY <1>1 DEF Enter, Register, ReachInv, TypeOK, RegistryTypeOK
  <2> QED BY <1>3, <2>2, <2>3, <2>4
<1>7. NobodyIsEarly'
  BY <1>1 DEF Enter, NobodyIsEarly, ReachInv, TypeOK
<1> QED BY <1>5, <1>6, <1>7

\* Who leaves takes the one peer of its connection along.
LEMMA ReachRemove ==
    ASSUME ReachInv, NEW s \in Sockets, OnLeave(s) \/ OnDisconnect(s)
    PROVE  PeersAreConnected' /\ BroadcastsReachThePeers' /\ NobodyIsEarly'
<1>1. /\ RemoveFromRoom(s)
      /\ peerOf' = [peerOf EXCEPT ![s] = Nil] /\ roomOf' = [roomOf EXCEPT ![s] = Nil]
      /\ connectionId' = connectionId /\ usedRoomIds' = usedRoomIds
      /\ open' \subseteq open
      /\ \A x \in Sockets : x # s => status'[x] = status[x]
  BY DEF OnLeave, OnDisconnect, RemoveFromRoom, ClearData, LeaveRoom, registryVars,
         ReachInv, TypeOK
<1>2. Known(s) => /\ LeaveRoom(peerOf[s])
                  /\ peerOf[s] \in PeerIds /\ connectionId[peerOf[s]] = s
                  /\ roomOf[s] = peerToRoom[peerOf[s]]
  BY <1>1 DEF RemoveFromRoom, Known, ReachInv, PeersAreConnected, SocketsInv,
              SocketDataIsSound, TypeOK
<1>3. ~Known(s) => UNCHANGED registryVars
  BY <1>1 DEF RemoveFromRoom
<1>4. ASSUME NEW q \in PeerIds, peerToRoom[q] # Nil, q # peerOf[s]
      PROVE  connectionId[q] # s
  BY <1>4 DEF ReachInv, PeersAreConnected
<1>5. ASSUME NEW q \in PeerIds, peerToRoom'[q] # Nil
      PROVE  peerToRoom'[q] = peerToRoom[q] /\ q # peerOf[s]
  <2>1. CASE Known(s)
    BY <1>2, <1>5, <2>1 DEF LeaveRoom, Unfiled, ReachInv, TypeOK, RegistryTypeOK
  <2>2. CASE ~Known(s)
    <3>1. peerToRoom' = peerToRoom
      BY <1>3, <2>2 DEF registryVars
    <3> QED BY <1>5, <2>2, <3>1, NilAssumption DEF Known
  <2> QED BY <2>1, <2>2
<1>6. PeersAreConnected'
  <2> SUFFICES ASSUME NEW q \in PeerIds, peerToRoom'[q] # Nil
               PROVE  LET x == connectionId'[q] IN
                      status'[x] = "up" /\ peerOf'[x] = q /\ roomOf'[x] = peerToRoom'[q]
    BY DEF PeersAreConnected
  <2>1. peerToRoom[q] = peerToRoom'[q] /\ connectionId[q] # s
    BY <1>4, <1>5
  <2>2. connectionId[q] \in Sockets
    BY <2>1 DEF ReachInv, RegistryConsistent, TypeOK, RegistryTypeOK
  <2> QED BY <1>1, <2>1, <2>2 DEF ReachInv, PeersAreConnected, TypeOK
<1>7. BroadcastsReachThePeers'
  <2> SUFFICES ASSUME NEW t \in RoomIds, t \in open'
               PROVE  ioRoom'[t] = {connectionId[q] : q \in members'[t]}
    BY <1>1 DEF BroadcastsReachThePeers, ReachInv, TypeOK, RegistryTypeOK
  <2>1. t \in open /\ ioRoom[t] = {connectionId[q] : q \in members[t]}
    BY <1>1 DEF ReachInv, BroadcastsReachThePeers
  <2>2. s \in ioRoom[t] => Known(s) /\ roomOf[s] = t
    <3>1. s \in ioRoom[t] => roomOf[s] = t /\ peerOf[s] \in members[t]
      BY <2>1, WhoIsWhere
    <3> QED BY <3>1, <2>1, WhoIsWhere, NilAssumption
            DEF Known, ReachInv, RegistryConsistent
  <2>3. CASE Known(s) /\ roomOf[s] = t
    <3>1. members'[t] = members[t] \ {peerOf[s]}
      BY <1>2, <2>3 DEF LeaveRoom, ReachInv, TypeOK, RegistryTypeOK
    <3>2. ioRoom'[t] = ioRoom[t] \ {s}
      BY <2>3 DEF OnLeave, OnDisconnect, LeaveIoRoom, ReachInv, TypeOK
    <3>3. peerOf[s] \in members[t] /\ connectionId[peerOf[s]] = s
      BY <2>1, <2>3, WhoIsWhere
    <3>4. \A q \in members[t] : connectionId[q] = s => q = peerOf[s]
      BY <2>1, WhoIsWhere
    <3> QED BY <2>1, <3>1, <3>2, <3>3, <3>4
  <2>4. CASE ~(Known(s) /\ roomOf[s] = t)
    <3>1. members'[t] = members[t]
      BY <1>2, <1>3, <2>4 DEF LeaveRoom, registryVars, ReachInv, TypeOK, RegistryTypeOK
    <3>2. ioRoom'[t] = ioRoom[t]
      <4>1. s \notin ioRoom[t]
        BY <2>2, <2>4
      <4>2. CASE OnDisconnect(s)
        BY <4>1, <4>2 DEF OnDisconnect
      <4>3. CASE OnLeave(s)
        BY <2>4, <4>3 DEF OnLeave, LeaveIoRoom, ReachInv, TypeOK
      <4> QED BY <4>2, <4>3
    <3> QED BY <2>1, <3>1, <3>2
  <2> QED BY <2>3, <2>4
<1>8. NobodyIsEarly'
  BY <1>1 DEF OnLeave, OnDisconnect, LeaveIoRoom, NobodyIsEarly, ReachInv, TypeOK
<1> QED BY <1>6, <1>7, <1>8

LEMMA ReachNext == ~Rejoin /\ ReachInv /\ [Next]_vars => ReachInv'
<1> SUFFICES ASSUME ~Rejoin, ReachInv, [Next]_vars PROVE ReachInv'
  OBVIOUS
<1>1. TypeOK' /\ RegistryConsistent' /\ SocketsInv'
  BY TypeNext, NextIsRegistryStep, ConsistentNext, TypeParts, SoundNext DEF ReachInv
<1>2. PeersAreConnected' /\ BroadcastsReachThePeers' /\ NobodyIsEarly'
  <2>1. CASE UNCHANGED vars
    BY <2>1 DEF vars, registryVars, socketVars, ReachInv, PeersAreConnected,
                BroadcastsReachThePeers, NobodyIsEarly
  <2>2. CASE Sweep
    <3>1. PeersAreConnected'
      BY <2>2 DEF Sweep, SweepIdleRooms, ReachInv, PeersAreConnected
    <3>2. BroadcastsReachThePeers'
      BY <2>2 DEF Sweep, SweepIdleRooms, RoomsLeft, ReachInv,
                  BroadcastsReachThePeers, TypeOK, RegistryTypeOK
    <3>3. NobodyIsEarly'
      BY <2>2 DEF Sweep, SweepIdleRooms, ReachInv, NobodyIsEarly
    <3> QED BY <3>1, <3>2, <3>3
  <2>3. CASE /\ Unnoticed
             /\ \A x \in Sockets : status[x] = "up" => status'[x] = "up"
    <3>1. PeersAreConnected'
      <4> SUFFICES ASSUME NEW q \in PeerIds, peerToRoom[q] # Nil
                   PROVE  status'[connectionId[q]] = "up"
        BY <2>3 DEF Unnoticed, ReachInv, PeersAreConnected
      <4>1. connectionId[q] \in Sockets
        BY DEF ReachInv, RegistryConsistent, TypeOK, RegistryTypeOK
      <4> QED BY <2>3, <4>1 DEF ReachInv, PeersAreConnected
    <3> QED BY <2>3, <3>1
            DEF Unnoticed, ReachInv, BroadcastsReachThePeers, NobodyIsEarly
  <2> QED BY <2>1, <2>2, <2>3, Handlers, ReachEnter, ReachRemove
<1> QED BY <1>1, <1>2 DEF ReachInv

LEMMA ReachAlways == ASSUME ~Rejoin PROVE Spec => []ReachInv
<1>1. Init => ReachInv
  <2> SUFFICES ASSUME Init PROVE ReachInv
    OBVIOUS
  <2>1. TypeOK
    BY TypeInit
  <2>2. RegistryConsistent /\ SocketsInv
    BY NilAssumption DEF Init, RegistryInit, RegistryConsistent, SocketsInv,
                         SocketDataIsSound, RoomIdsAreOld
  <2>3. PeersAreConnected /\ BroadcastsReachThePeers /\ NobodyIsEarly
    BY DEF Init, RegistryInit, PeersAreConnected, BroadcastsReachThePeers,
           NobodyIsEarly
  <2> QED BY <2>1, <2>2, <2>3 DEF ReachInv
<1>2. ReachInv /\ [Next]_vars => ReachInv'
  BY ReachNext
<1> QED BY <1>1, <1>2, PTL DEF Spec

\* Where clients enter one room at a time, every peer in the registry is reached
\* over a live connection that stands for it: no ghost stays in a room.
THEOREM NoGhosts == ASSUME ~Rejoin PROVE Spec => []PeersAreConnected
<1>1. ReachInv => PeersAreConnected
  BY DEF ReachInv
<1> QED BY <1>1, ReachAlways, PTL

\* There a broadcast to an open room reaches the connections of its peers, all of
\* them and no other.
THEOREM BroadcastsReachAll == ASSUME ~Rejoin PROVE Spec => []BroadcastsReachThePeers
<1>1. ReachInv => BroadcastsReachThePeers
  BY DEF ReachInv
<1> QED BY <1>1, ReachAlways, PTL

-----------------------------------------------------------------------------
(* What the clients know of each other                                     *)

LEMMA ToldEnter ==
    ASSUME ReachInv, EveryoneIsTold,
           NEW s \in Sockets, NEW r \in RoomIds, NEW p \in PeerIds,
           Entering(s, r, p)
    PROVE  EveryoneIsTold'
<1>1. /\ Enter(s, r, p) /\ Register(p, r, s) /\ Fresh(p)
      /\ open' = open \union {r}
      /\ r \in open \/ (r \notin usedRoomIds /\ members[r] = {})
  BY DEF Entering, CreateRoom, JoinRoom, ReachInv, TypeOK, RegistryTypeOK,
         RegistryConsistent
<1>2. peerOf'[s] = p /\ roomOf'[s] = r
  BY <1>1 DEF Enter, ReachInv, TypeOK
<1>3. ASSUME NEW x \in Sockets, x # s
      PROVE  peerOf'[x] = peerOf[x] /\ roomOf'[x] = roomOf[x]
  BY <1>1, <1>3 DEF Enter, ReachInv, TypeOK
<1>4. \A t \in RoomIds : members'[t] = IF t = r THEN members[t] \union {p}
                                       ELSE members[t]
  BY <1>1 DEF Register, ReachInv, TypeOK, RegistryTypeOK
<1>5. told'[s] = members'[r] \ {p}
  BY <1>1, <1>4 DEF Entering, CreateRoom, ListPeers, ReachInv, TypeOK, RegistryTypeOK
<1>6. ASSUME NEW x \in Sockets, x # s, roomOf[x] \in open'
      PROVE  told'[x] = members'[roomOf[x]] \ {peerOf[x]}
  <2>1. roomOf[x] \in RoomIds
    BY <1>1, <1>6 DEF ReachInv, TypeOK, RegistryTypeOK
  <2>2. roomOf[x] \in open
    BY <1>1, <1>6, <2>1, NilAssumption DEF ReachInv, SocketsInv, RoomIdsAreOld
  <2>3. told[x] = members[roomOf[x]] \ {peerOf[x]}
    BY <2>2 DEF EveryoneIsTold
  <2>4. peerOf[x] \in PeerIds /\ peerOf[x] # p
    BY <1>1, <2>1, <2>2, WhoIsWhere, NilAssumption DEF Fresh
  <2>5. told'[x] = IF x \in ioRoom[r] /\ r \in open THEN told[x] \union {p}
                   ELSE told[x]
    BY <1>6 DEF Entering, CreateRoom, JoinRoom, ReachInv, TypeOK, RegistryTypeOK
  <2>6. x \in ioRoom[r] /\ r \in open <=> roomOf[x] = r
    BY <2>2, WhoIsWhere
  <2> QED BY <1>4, <2>1, <2>3, <2>4, <2>5, <2>6
<1> QED BY <1>2, <1>3, <1>5, <1>6 DEF EveryoneIsTold

LEMMA ToldRemove ==
    ASSUME ReachInv, EveryoneIsTold, NEW s \in Sockets, RemoveFromRoom(s)
    PROVE  EveryoneIsTold'
<1>1. roomOf'[s] = Nil /\ Nil \notin open'
  BY NilAssumption DEF RemoveFromRoom, ClearData, LeaveRoom, registryVars, ReachInv,
                       TypeOK, RegistryTypeOK
<1>2. ASSUME NEW x \in Sockets, x # s, roomOf'[x] \in open'
      PROVE  told'[x] = members'[roomOf'[x]] \ {peerOf'[x]}
  <2>1. peerOf'[x] = peerOf[x] /\ roomOf'[x] = roomOf[x] /\ roomOf[x] \in open
    BY <1>2 DEF RemoveFromRoom, ClearData, LeaveRoom, registryVars, ReachInv, TypeOK
  <2>2. roomOf[x] \in RoomIds /\ told[x] = members[roomOf[x]] \ {peerOf[x]}
    BY <2>1 DEF EveryoneIsTold, ReachInv, TypeOK, RegistryTypeOK
  <2>3. CASE Known(s) /\ LeaveRoom(peerOf[s])
    <3>1. peerOf[s] \in PeerIds /\ roomOf[s] = peerToRoom[peerOf[s]]
      BY <2>3 DEF Known, ReachInv, PeersAreConnected, SocketsInv, SocketDataIsSound,
                  TypeOK
    <3>2. roomOf[s] \in RoomIds /\ roomOf[s] \in open
      BY <2>3, <3>1 DEF Known, ReachInv, RegistryConsistent, TypeOK, RegistryTypeOK
    <3>3. members'[roomOf[x]] = IF roomOf[x] = roomOf[s]
                                THEN members[roomOf[x]] \ {peerOf[s]}
                                ELSE members[roomOf[x]]
      BY <2>2, <2>3, <3>1, <3>2 DEF LeaveRoom, ReachInv, TypeOK, RegistryTypeOK
    <3>4. told'[x] = IF x \in ioRoom[roomOf[s]] /\ ~RoomClosed(roomOf[s], peerOf[s])
                     THEN told[x] \ {peerOf[s]} ELSE told[x]
      BY <1>2, <2>3 DEF RemoveFromRoom
    <3>5. x \in ioRoom[roomOf[s]] <=> roomOf[x] = roomOf[s]
      BY <3>2, WhoIsWhere
    <3>6. x \in ioRoom[roomOf[s]] => ~RoomClosed(roomOf[s], peerOf[s])
      <4>1. connectionId[peerOf[s]] = s /\ s # x
        BY <1>2, <3>2, WhoIsWhere
      <4> QED BY <3>2, <3>5, <4>1, WhoIsWhere DEF RoomClosed
    <3> QED BY <2>1, <2>2, <3>3, <3>4, <3>5, <3>6
  <2>4. CASE ~Known(s)
    BY <1>2, <2>1, <2>2, <2>4 DEF RemoveFromRoom, registryVars, ReachInv, TypeOK
  <2> QED BY <2>3, <2>4 DEF RemoveFromRoom
<1> QED BY <1>1, <1>2 DEF EveryoneIsTold

LEMMA ToldNext ==
    ReachInv /\ EveryoneIsTold /\ [Next]_vars => EveryoneIsTold'
<1> SUFFICES ASSUME ReachInv, EveryoneIsTold, [Next]_vars PROVE EveryoneIsTold'
  OBVIOUS
<1>1. CASE UNCHANGED vars
  BY <1>1 DEF vars, registryVars, socketVars, EveryoneIsTold
<1>2. CASE Sweep
  <2> SUFFICES ASSUME NEW x \in Sockets, roomOf[x] \in open'
               PROVE  told'[x] = members'[roomOf[x]] \ {peerOf[x]}
    BY <1>2 DEF Sweep, EveryoneIsTold
  <2>1. roomOf[x] \in open /\ roomOf[x] \notin Idle /\ roomOf[x] \in RoomIds
    BY <1>2 DEF Sweep, SweepIdleRooms, RoomsLeft, ReachInv, TypeOK, RegistryTypeOK
  <2>2. ASSUME NEW r \in Idle PROVE x \notin ioRoom[r]
    <3>1. r \in open /\ r \in RoomIds /\ r # roomOf[x]
      BY <2>1 DEF Idle, ReachInv, TypeOK, RegistryTypeOK
    <3> QED BY <3>1, WhoIsWhere
  <2>3. told'[x] = told[x] /\ members'[roomOf[x]] = members[roomOf[x]]
    BY <1>2, <2>1, <2>2 DEF Sweep, SweepIdleRooms
  <2> QED BY <2>1, <2>3 DEF EveryoneIsTold
<1>3. CASE Unnoticed
  BY <1>3 DEF Unnoticed, EveryoneIsTold
<1> QED BY <1>1, <1>2, <1>3, Handlers, ToldEnter, ToldRemove DEF OnLeave, OnDisconnect

\* There, too, acks, peer-joined and peer-left events add up for every client to
\* exactly the other peers of its room.
THEOREM ClientsKnowTheirPeers == ASSUME ~Rejoin PROVE Spec => []EveryoneIsTold
<1>1. Init => EveryoneIsTold
  BY DEF Init, RegistryInit, EveryoneIsTold
<1> QED BY <1>1, ToldNext, ReachAlways, PTL DEF Spec
=============================================================================
