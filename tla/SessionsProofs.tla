--------------------------- MODULE SessionsProofs ---------------------------
(***************************************************************************)
(* Theorems about module Sessions, for any guests, joins and faults.       *)
(***************************************************************************)
EXTENDS Sessions, SequenceTheorems, TLAPS

\* Inboxes stay inboxes.
LEMMA InboxTold ==
    ASSUME NEW box \in [Clients -> Seq(Events)], NEW c \in Clients, NEW e \in Events
    PROVE  Told(box, c, e) \in [Clients -> Seq(Events)]
BY AppendProperties DEF Told

LEMMA InboxUnread ==
    ASSUME ServerOK, NEW c \in Clients
    PROVE  Unread(c) \in [Clients -> Seq(Events)]
<1>1. <<>> \in Seq(Events)
  BY EmptySeq
<1> QED BY <1>1 DEF Unread, ServerOK

LEMMA InboxRead ==
    ASSUME ServerOK, NEW c \in Clients, inbox[c] # <<>>
    PROVE  /\ Head(inbox[c]) \in Events
           /\ [inbox EXCEPT ![c] = Tail(@)] \in [Clients -> Seq(Events)]
BY HeadTailProperties DEF ServerOK

LEMMA EventTypes ==
    /\ \A t \in {"created", "refused", "closed"} : Event(t, None, None) \in Events
    /\ \A t \in {"welcome", "joined", "left"}, p \in PeerIds : Event(t, p, None) \in Events
    /\ \A t \in {"offer", "answer"}, p, q \in PeerIds : Event(t, p, q) \in Events
BY DEF Event, Events

LEMMA HostsAndGuests == Host \in Clients /\ Guests \subseteq Clients
BY DEF Clients

\* What the handlers of the server leave of its state.
LEMMA JoinType ==
    ASSUME TypeOK, NEW g \in Guests, Join(g), given[g] < MostJoins
    PROVE  /\ ServerOK' /\ UNCHANGED hostIn
           /\ \A h \in Guests : peer'[h] <= given'[h]
           /\ \A h \in Guests : given'[h] <= given[h] + (IF h = g THEN 1 ELSE 0)
<1> USE HostsAndGuests DEF TypeOK, ServerOK, JoinsOK
<1>1. CASE RoomOpen
  <2> DEFINE p == <<g, given[g] + 1>>
             box == Told(inbox, g, Event("welcome", p, None))
  <2>1. p \in PeerIds
    BY MostJoinsAssumption DEF PeerIds
  <2>2. box \in [Clients -> Seq(Events)]
    <3>1. Event("welcome", p, None) \in Events
      BY <2>1, EventTypes
    <3> QED BY <3>1, InboxTold
  <2>3. inbox' \in [Clients -> Seq(Events)]
    <3> HIDE DEF p, box
    <3>1. Event("joined", p, None) \in Events
      BY <2>1, EventTypes
    <3>2. Told(box, Host, Event("joined", p, None)) \in [Clients -> Seq(Events)]
      BY <2>2, <3>1, InboxTold
    <3>3. inbox' = IF hostIn THEN Told(box, Host, Event("joined", p, None)) ELSE box
      BY ONLY <1>1, Join(g) DEF Join, p, box
    <3> QED BY <2>2, <3>2, <3>3
  <2>4. /\ given' = [given EXCEPT ![g] = @ + 1]
        /\ peer' = [peer EXCEPT ![g] = given[g] + 1]
        /\ members' = members \union {p} /\ linked' = linked \union {p}
        /\ hostIn' = hostIn
    BY <1>1 DEF Join
  <2> HIDE DEF p, box
  <2>5. /\ peer' \in [Guests -> Nat] /\ given' \in [Guests -> Nat]
        /\ \A h \in Guests : peer'[h] <= given'[h]
        /\ \A h \in Guests : given'[h] <= given[h] + (IF h = g THEN 1 ELSE 0)
    BY <2>4
  <2> QED BY <2>1, <2>3, <2>4, <2>5
<1>2. CASE ~RoomOpen
  <2>1. inbox' \in [Clients -> Seq(Events)]
    <3>1. inbox' = Told(inbox, g, Event("refused", None, None))
      BY <1>2 DEF Join
    <3>2. Event("refused", None, None) \in Events
      BY EventTypes
    <3> QED BY <3>1, <3>2, InboxTold
  <2> QED BY <1>2, <2>1 DEF Join
<1> QED BY <1>1, <1>2

LEMMA LeaveType ==
    ASSUME TypeOK, NEW g \in Guests, NEW links \in SUBSET PeerIds,
           NEW box \in [Clients -> Seq(Events)], Leave(g, links, box)
    PROVE  /\ ServerOK' /\ UNCHANGED <<hostIn, given>>
           /\ \A h \in Guests : peer'[h] <= given'[h]
<1> USE HostsAndGuests DEF TypeOK, ServerOK, JoinsOK
<1>1. inbox' \in [Clients -> Seq(Events)]
  BY InboxTold, EventTypes DEF Leave
<1> QED BY <1>1 DEF Leave

LEMMA HostLeavesType ==
    ASSUME TypeOK, NEW box \in [Clients -> Seq(Events)], HostLeaves(box)
    PROVE  ServerOK' /\ UNCHANGED <<members, peer, given, linked>>
BY DEF HostLeaves, TypeOK, ServerOK

LEMMA SpendType ==
    ASSUME HistoryOK, NEW f \in Faults, Spend(f)
    PROVE  left' \in [Faults -> Nat] /\ tries' = tries
<1>1. left[f] \in Nat /\ left["all"] \in Nat /\ left[f] > 0 /\ left["all"] > 0
  BY DEF HistoryOK, Spend, Faults
<1>2. left' = [left EXCEPT ![f] = @ - 1, !["all"] = @ - 1] /\ tries' = tries
  BY DEF Spend
<1>3. \A x \in Faults : left'[x] \in Nat
  BY <1>1, <1>2 DEF HistoryOK, Faults
<1> QED BY <1>2, <1>3 DEF HistoryOK

LEMMA TryType ==
    ASSUME HistoryOK, NEW g \in Guests, Try(g)
    PROVE  /\ tries' \in [Guests -> Nat]
           /\ \A h \in Guests : tries'[h] = tries[h] - (IF h = g THEN 1 ELSE 0)
BY DEF HistoryOK, Try

\* Joins are neither made up nor gained.
LEMMA JoinsStep ==
    ASSUME TypeOK, NEW g \in Guests, NEW given2 \in Nat, NEW leaving2 \in Nat, NEW tries2 \in Nat,
           NEW joining2 \in {0, 1},
           \/ given2 + leaving2 + tries2 + joining2 <= given[g] + leaving[g] + tries[g] + Joining(g)
           \/ given2 <= given[g] /\ leaving2 <= leaving[g] /\ tries2 <= tries[g]
                 /\ joining2 <= Joining(g)
    PROVE  given2 + leaving2 + tries2 + joining2 <= MostJoins
<1>1. given[g] \in Nat /\ leaving[g] \in Nat /\ tries[g] \in Nat
  BY DEF TypeOK, ServerOK, GuestsOK, HistoryOK
<1>2. Joining(g) \in {0, 1}
  BY DEF Joining
<1>3. given[g] + leaving[g] + tries[g] + Joining(g) <= MostJoins
  BY DEF TypeOK, JoinsOK
<1> QED BY <1>1, <1>2, <1>3, MostJoinsAssumption

LEMMA JoiningType == \A g \in Guests : Joining(g) \in {0, 1} /\ Joining(g)' \in {0, 1}
BY DEF Joining

LEMMA JoinsSame ==
    ASSUME TypeOK, UNCHANGED <<peer, given, leaving, tries>>,
           \A g \in Guests : Joining(g)' <= Joining(g)
    PROVE  JoinsOK'
<1> SUFFICES ASSUME NEW g \in Guests
             PROVE  /\ peer'[g] <= given'[g]
                    /\ given'[g] + leaving'[g] + tries'[g] + Joining(g)' <= MostJoins
  BY DEF JoinsOK
<1>1. peer'[g] <= given'[g]
  BY DEF TypeOK, JoinsOK
<1>2. given[g] \in Nat /\ leaving[g] \in Nat /\ tries[g] \in Nat
  BY DEF TypeOK, ServerOK, GuestsOK, HistoryOK
<1>3. given[g] + leaving[g] + tries[g] + Joining(g)' <= MostJoins
  BY <1>2, JoiningType, JoinsStep
<1> QED BY <1>1, <1>3

LEMMA TypeInit == Init => TypeOK
<1> SUFFICES ASSUME Init PROVE TypeOK
  OBVIOUS
<1> USE HostsAndGuests
<1>1. ServerOK
  <2>1. inbox \in [Clients -> Seq(Events)]
    BY EmptySeq DEF Init
  <2> QED BY <2>1 DEF Init, ServerOK
<1>2. SessionsOK
  BY DEF Init, SessionsOK
<1>3. HostOK
  BY DEF Init, HostOK
<1>4. GuestsOK
  BY DEF Init, GuestsOK
<1>5. PICK s \in Scenarios : tries = s.tries /\ left = s.faults
  BY DEF Init
<1>6. tries \in [Guests -> 0 .. MostJoins] /\ left \in [Faults -> Nat]
  BY <1>5, ScenariosAssumption
<1>7. HistoryOK
  <2>1. tries \in [Guests -> Nat]
    BY <1>6, MostJoinsAssumption
  <2>2. overlapped \in BOOLEAN /\ hurried \in BOOLEAN
    BY DEF Init
  <2> QED BY <1>6, <2>1, <2>2 DEF HistoryOK
<1>8. JoinsOK
  <2> SUFFICES ASSUME NEW g \in Guests
               PROVE  /\ peer[g] <= given[g]
                      /\ given[g] + leaving[g] + tries[g] + Joining(g) <= MostJoins
    BY DEF JoinsOK
  <2>1. peer[g] = 0 /\ given[g] = 0 /\ leaving[g] = 0 /\ at[g] = "new"
    BY HostAssumption DEF Init
  <2> QED BY <1>6, <2>1, MostJoinsAssumption DEF Joining
<1> QED BY <1>1, <1>2, <1>3, <1>4, <1>7, <1>8 DEF TypeOK

-----------------------------------------------------------------------------
(* One lemma per part of the system.                                       *)

LEMMA ServerStep ==
    ASSUME TypeOK, Sweep PROVE TypeOK'
<1> USE HostsAndGuests DEF TypeOK
<1>1. inbox' \in [Clients -> Seq(Events)]
  <2>1. \A c \in Clients : Append(inbox[c], Event("closed", None, None)) \in Seq(Events)
    BY EventTypes, AppendProperties DEF ServerOK
  <2> QED BY <2>1 DEF Sweep, ServerOK
<1>2. /\ hostIn' = FALSE /\ members' = {} /\ Spend("sweep")
      /\ UNCHANGED <<peer, given, linked, session, host, guest, overlapped, hurried>>
  BY DEF Sweep
<1>3. HistoryOK' /\ tries' = tries
  BY <1>2, SpendType DEF Faults, HistoryOK
<1>4. JoinsOK'
  BY <1>2, <1>3, JoinsSame DEF session, guest, Joining, SessionsOK
<1> QED
  BY <1>1, <1>2, <1>3, <1>4 DEF session, host, guest, ServerOK, SessionsOK, HostOK, GuestsOK

LEMMA StartSteps ==
    ASSUME TypeOK PROVE
        /\ \A g \in Guests : Open(g) \/ KeyRefused(g) => TypeOK'
        /\ \A c \in Clients : FetchIce(c) \/ Connect(c) \/ ConnectFails(c) => TypeOK'
        /\ StartAgain => TypeOK'
<1> USE HostsAndGuests, HostAssumption DEF TypeOK, server, session, host, guest, history
<1>1. ASSUME NEW g \in Guests, Open(g) PROVE TypeOK'
  <2>1. HistoryOK' /\ \A h \in Guests : tries'[h] = tries[h] - (IF h = g THEN 1 ELSE 0)
    BY <1>1, TryType DEF Open, HistoryOK
  <2>2. ServerOK' /\ SessionsOK' /\ HostOK' /\ GuestsOK'
    BY <1>1 DEF Open, ServerOK, SessionsOK, HostOK, GuestsOK
  <2>3. /\ UNCHANGED <<peer, given, leaving>>
        /\ \A h \in Guests : Joining(h)' <= Joining(h) + (IF h = g THEN 1 ELSE 0)
    BY <1>1 DEF Open, SessionsOK, Joining
  <2>4. JoinsOK'
    <3> SUFFICES ASSUME NEW h \in Guests
                 PROVE  /\ peer'[h] <= given'[h]
                        /\ given'[h] + leaving'[h] + tries'[h] + Joining(h)' <= MostJoins
      BY DEF JoinsOK
    <3>1. /\ given'[h] \in Nat /\ leaving'[h] \in Nat /\ tries'[h] \in Nat
          /\ given[h] \in Nat /\ leaving[h] \in Nat /\ tries[h] \in Nat
      BY <2>1, <2>2 DEF ServerOK, GuestsOK, HistoryOK
    <3>2. /\ given'[h] = given[h] /\ leaving'[h] = leaving[h] /\ peer'[h] = peer[h]
          /\ tries'[h] + Joining(h)' <= tries[h] + Joining(h)
      BY <2>1, <2>3, <3>1, JoiningType
    <3>3. given'[h] + leaving'[h] + tries'[h] + Joining(h)'
              <= given[h] + leaving[h] + tries[h] + Joining(h)
      BY <3>1, <3>2, JoiningType
    <3>4. given'[h] + leaving'[h] + tries'[h] + Joining(h)' <= MostJoins
      BY <3>1, <3>3, JoiningType, JoinsStep
    <3> QED BY <3>2, <3>4 DEF JoinsOK
  <2> QED BY <2>1, <2>2, <2>4
<1>2. ASSUME NEW g \in Guests, KeyRefused(g) PROVE TypeOK'
  <2>1. error' \in [Guests -> BOOLEAN] /\ ServerOK' /\ SessionsOK' /\ HostOK' /\ HistoryOK'
    BY <1>2 DEF KeyRefused, ServerOK, SessionsOK, HostOK, GuestsOK, HistoryOK
  <2>2. GuestsOK'
    BY <1>2, <2>1 DEF KeyRefused, GuestsOK
  <2>3. JoinsOK'
    BY <1>2, JoinsSame DEF KeyRefused, Joining, SessionsOK
  <2> QED BY <2>1, <2>2, <2>3
<1>3. ASSUME NEW c \in Clients, FetchIce(c) PROVE TypeOK'
  <2>1. ServerOK' /\ SessionsOK' /\ HostOK' /\ GuestsOK' /\ HistoryOK'
    BY <1>3 DEF FetchIce, ServerOK, SessionsOK, HostOK, GuestsOK, HistoryOK
  <2>2. JoinsOK'
    BY <1>3, JoinsSame DEF FetchIce, Joining, SessionsOK
  <2> QED BY <2>1, <2>2
<1>4. ASSUME NEW c \in Clients, Connect(c) PROVE TypeOK'
  <2>1. /\ SessionsOK' /\ HostOK' /\ GuestsOK' /\ HistoryOK' /\ UNCHANGED <<leaving, tries>>
        /\ \A g \in Guests : Joining(g)' <= Joining(g) - (IF g = c THEN 1 ELSE 0)
    BY <1>4 DEF Connect, SessionsOK, HostOK, GuestsOK, HistoryOK, Joining
  <2>2. CASE c = Host
    <3>1. inbox' = Told(inbox, Host, Event("created", None, None))
          /\ hostIn' = TRUE /\ UNCHANGED <<members, peer, given, linked>>
      BY <1>4, <2>2 DEF Connect
    <3>2. Event("created", None, None) \in Events
      BY EventTypes
    <3>3. ServerOK'
      BY <3>1, <3>2, InboxTold DEF ServerOK
    <3>4. \A g \in Guests : Joining(g)' <= Joining(g)
      BY <2>1, <2>2, JoiningType
    <3>5. JoinsOK'
      BY <2>1, <3>1, <3>4, JoinsSame
    <3> QED BY <2>1, <3>3, <3>5
  <2>3. CASE c \in Guests
    <3>1. given[c] < MostJoins
      BY <1>4, <2>3, MostJoinsAssumption
         DEF Connect, JoinsOK, Joining, ServerOK, GuestsOK, HistoryOK
    <3>2. Join(c)
      BY <1>4, <2>3 DEF Connect
    <3>3. /\ ServerOK' /\ \A h \in Guests : peer'[h] <= given'[h]
          /\ \A h \in Guests : given'[h] <= given[h] + (IF h = c THEN 1 ELSE 0)
      BY <2>3, <3>1, <3>2, JoinType
    <3>4. JoinsOK'
      <4> SUFFICES ASSUME NEW h \in Guests
                   PROVE  given'[h] + leaving'[h] + tries'[h] + Joining(h)' <= MostJoins
        BY <3>3 DEF JoinsOK
      <4>1. /\ given'[h] \in Nat /\ leaving'[h] \in Nat /\ tries'[h] \in Nat
            /\ given[h] \in Nat /\ leaving[h] \in Nat /\ tries[h] \in Nat
        BY <2>1, <3>3 DEF ServerOK, GuestsOK, HistoryOK
      <4>2. /\ leaving'[h] = leaving[h] /\ tries'[h] = tries[h]
            /\ given'[h] + Joining(h)' <= given[h] + Joining(h)
        BY <2>1, <3>3, <4>1, JoiningType
      <4> QED BY <4>1, <4>2, JoiningType, JoinsStep
    <3> QED BY <2>1, <3>3, <3>4
  <2> QED BY <2>2, <2>3 DEF Clients
<1>5. ASSUME NEW c \in Clients, ConnectFails(c) PROVE TypeOK'
  <2>1. HistoryOK' /\ tries' = tries
    BY <1>5, SpendType DEF ConnectFails, HistoryOK, Faults
  <2>2. ServerOK' /\ SessionsOK' /\ HostOK' /\ GuestsOK'
    BY <1>5 DEF ConnectFails, ServerOK, SessionsOK, HostOK, GuestsOK
  <2>3. JoinsOK'
    BY <1>5, <2>1, JoinsSame DEF ConnectFails, Joining, SessionsOK
  <2> QED BY <2>1, <2>2, <2>3
<1>6. ASSUME StartAgain PROVE TypeOK'
  <2>1. ServerOK' /\ SessionsOK' /\ HostOK' /\ GuestsOK' /\ HistoryOK'
    BY <1>6 DEF StartAgain, ServerOK, SessionsOK, HostOK, GuestsOK, HistoryOK
  <2>2. JoinsOK'
    BY <1>6, JoinsSame DEF StartAgain, Joining, SessionsOK
  <2> QED BY <2>1, <2>2
<1> QED BY <1>1, <1>2, <1>3, <1>4, <1>5, <1>6

\* Slots come and go with the room.
LEMMA SlotTypes ==
    ASSUME HostOK, NEW p \in PeerIds
    PROVE  /\ AddPeer(p) => HostOK'
           /\ RemovePeer(p) => HostOK'
           /\ \A o \in PeerIds : RouteAnswer(p, o) => HostOK'
BY DEF HostOK, AddPeer, RemovePeer, RouteAnswer, Loose

LEMMA HostSteps ==
    ASSUME TypeOK PROVE
        /\ HostReads => TypeOK'
        /\ \A p \in PeerIds : Offer(p) \/ LooseEnd(p) => TypeOK'
<1> USE HostsAndGuests, HostAssumption DEF TypeOK, server, session, host, guest, history
<1>1. ASSUME HostReads PROVE TypeOK'
  <2> DEFINE e == Head(inbox[Host])
  <2>1. e \in Events /\ inbox' \in [Clients -> Seq(Events)]
    BY <1>1, InboxRead DEF HostReads
  <2>2. HostOK'
    <3>1. CASE UNCHANGED host
      BY <3>1 DEF HostOK
    <3>2. CASE e.type = "joined" /\ AddPeer(e.peer)
      BY <2>1, <3>2, SlotTypes DEF Events
    <3>3. CASE e.type = "left" /\ RemovePeer(e.peer)
      BY <2>1, <3>3, SlotTypes DEF Events
    <3>4. CASE e.type = "answer" /\ RouteAnswer(e.peer, e.offer)
      BY <2>1, <3>4, SlotTypes DEF Events
    <3> QED BY <1>1, <3>1, <3>2, <3>3, <3>4 DEF HostReads
  <2>3. /\ at' \in {at, [at EXCEPT ![Host] = "ready"]}
        /\ UNCHANGED <<hostIn, members, peer, given, linked, life, sock, guest, history>>
    BY <1>1 DEF HostReads
  <2>4. ServerOK' /\ SessionsOK' /\ GuestsOK' /\ HistoryOK'
    BY <2>1, <2>3 DEF ServerOK, SessionsOK, GuestsOK, HistoryOK
  <2>5. JoinsOK'
    BY <2>3, JoinsSame DEF Joining, SessionsOK
  <2> QED BY <2>2, <2>4, <2>5
<1>2. ASSUME NEW p \in PeerIds, Offer(p) PROVE TypeOK'
  <2>1. inbox' \in [Clients -> Seq(Events)]
    <3>1. GuestOf(p) \in Clients /\ Event("offer", p, p) \in Events
      BY EventTypes DEF PeerIds, GuestOf
    <3>2. Told(inbox, GuestOf(p), Event("offer", p, p)) \in [Clients -> Seq(Events)]
      BY <3>1, InboxTold DEF ServerOK
    <3> QED BY <1>2, <3>2 DEF Offer, ServerOK
  <2>2. ServerOK' /\ SessionsOK' /\ HostOK' /\ GuestsOK' /\ HistoryOK'
    BY <1>2, <2>1 DEF Offer, ServerOK, SessionsOK, HostOK, GuestsOK, HistoryOK
  <2>3. JoinsOK'
    BY <1>2, JoinsSame DEF Offer, Joining
  <2> QED BY <2>2, <2>3
<1>3. ASSUME NEW p \in PeerIds, LooseEnd(p) PROVE TypeOK'
  <2>1. ServerOK' /\ SessionsOK' /\ HostOK' /\ GuestsOK' /\ HistoryOK'
    BY <1>3 DEF LooseEnd, ServerOK, SessionsOK, HostOK, GuestsOK, HistoryOK
  <2>2. JoinsOK'
    BY <1>3, JoinsSame DEF LooseEnd, Joining
  <2> QED BY <2>1, <2>2
<1> QED BY <1>1, <1>2, <1>3

LEMMA GuestSteps ==
    ASSUME TypeOK, NEW g \in Guests,
           GuestReads(g) \/ Answer(g) \/ JoinTimesOut(g) \/ GuestNotices(g)
              \/ OldReceiverEnds(g) \/ AnswerRefused(g)
    PROVE  TypeOK'
<1> USE HostsAndGuests DEF TypeOK, server, session, host, guest, history
<1>1. ASSUME GuestReads(g) PROVE TypeOK'
  <2> DEFINE e == Head(inbox[g])
  <2>1. e \in Events /\ inbox' \in [Clients -> Seq(Events)]
    BY <1>1, InboxRead DEF GuestReads
  <2>2. UNCHANGED <<hostIn, members, peer, given, linked, session, host, history, leaving>>
    BY <1>1 DEF GuestReads, OnOffer
  <2>3. GuestsOK'
    <3>1. CASE UNCHANGED guest
      BY <3>1 DEF GuestsOK
    <3>2. CASE e.type = "offer" /\ OnOffer(g, e.peer)
      <4>1. e.peer \in PeerIds
        BY <2>1, <3>2 DEF Events
      <4> HIDE DEF e
      <4>2. offer' \in [Guests -> PeerIds \union {None}] /\ UNCHANGED <<leaving, tail, got, error>>
        BY <3>2, <4>1 DEF OnOffer, GuestsOK
      <4>3. conn' \in [Guests -> {"none", "answering", "stable", "unheard", "tangling", "tangled",
                                  "open", "lost", "closed"}]
        BY <3>2 DEF OnOffer, GuestsOK
      <4>4. \A h \in Guests : conn'[h] \notin {"none", "closed"} => offer'[h] \in PeerIds
        BY <3>2, <4>1 DEF OnOffer, GuestsOK
      <4> QED BY <4>2, <4>3, <4>4 DEF GuestsOK
    <3>3. CASE error' = [error EXCEPT ![g] = TRUE] /\ UNCHANGED <<offer, conn, leaving, tail, got>>
      BY <3>3 DEF GuestsOK
    <3> QED BY <1>1, <3>1, <3>2, <3>3 DEF GuestReads
  <2>4. ServerOK' /\ SessionsOK' /\ HostOK' /\ HistoryOK'
    BY <2>1, <2>2 DEF ServerOK, SessionsOK, HostOK, HistoryOK
  <2>5. JoinsOK'
    BY <2>2, JoinsSame DEF Joining
  <2> QED BY <2>3, <2>4, <2>5
<1>2. ASSUME Answer(g) PROVE TypeOK'
  <2>1. inbox' \in [Clients -> Seq(Events)]
    <3>1. CASE Self(g) \in members
      <4>1. Event("answer", Self(g), offer[g]) \in Events
        BY <1>2, <3>1, EventTypes DEF Answer, GuestsOK, ServerOK
      <4>2. Told(inbox, Host, Event("answer", Self(g), offer[g])) \in [Clients -> Seq(Events)]
        BY <4>1, InboxTold DEF ServerOK
      <4> QED BY <1>2, <4>2 DEF Answer, ServerOK
    <3>2. CASE Self(g) \notin members
      BY <1>2, <3>2 DEF Answer, ServerOK
    <3> QED BY <3>1, <3>2
  <2>2. ServerOK' /\ SessionsOK' /\ HostOK' /\ GuestsOK' /\ HistoryOK'
    BY <1>2, <2>1 DEF Answer, ServerOK, SessionsOK, HostOK, GuestsOK, HistoryOK
  <2>3. JoinsOK'
    BY <1>2, JoinsSame DEF Answer, Joining
  <2> QED BY <2>2, <2>3
<1>3. ASSUME JoinTimesOut(g) PROVE TypeOK'
  <2>1. PICK i \in DOMAIN inbox[g] :
            inbox' = [inbox EXCEPT ![g] = SubSeq(@, 1, i - 1) \o SubSeq(@, i + 1, Len(@))]
    BY <1>3 DEF JoinTimesOut
  <2>2. inbox[g] \in Seq(Events) /\ i \in 1 .. Len(inbox[g])
    BY <2>1, LenProperties DEF ServerOK
  <2>3. /\ SubSeq(inbox[g], 1, i - 1) \in Seq(Events)
        /\ SubSeq(inbox[g], i + 1, Len(inbox[g])) \in Seq(Events)
    BY <2>2, SubSeqProperties, ElementOfSeq, LenProperties
  <2>4. SubSeq(inbox[g], 1, i - 1) \o SubSeq(inbox[g], i + 1, Len(inbox[g])) \in Seq(Events)
    BY <2>3, ConcatProperties
  <2>5. inbox' \in [Clients -> Seq(Events)]
    BY <2>1, <2>4 DEF ServerOK
  <2>6. HistoryOK' /\ tries' = tries
    BY <1>3, SpendType DEF JoinTimesOut, HistoryOK, Faults
  <2>7. ServerOK' /\ SessionsOK' /\ HostOK' /\ GuestsOK'
    BY <1>3, <2>5 DEF JoinTimesOut, ServerOK, SessionsOK, HostOK, GuestsOK
  <2>8. JoinsOK'
    BY <1>3, <2>6, JoinsSame DEF JoinTimesOut, Joining
  <2> QED BY <2>6, <2>7, <2>8
<1>4. ASSUME GuestNotices(g) PROVE TypeOK'
  <2>1. ServerOK' /\ SessionsOK' /\ HostOK' /\ GuestsOK' /\ HistoryOK'
    BY <1>4 DEF GuestNotices, ServerOK, SessionsOK, HostOK, GuestsOK, HistoryOK
  <2>2. JoinsOK'
    BY <1>4, JoinsSame DEF GuestNotices, Joining
  <2> QED BY <2>1, <2>2
<1>5. ASSUME OldReceiverEnds(g) PROVE TypeOK'
  <2>1. error' \in [Guests -> BOOLEAN]
    BY <1>5 DEF OldReceiverEnds, GuestsOK
  <2>2. GuestsOK'
    BY <1>5, <2>1 DEF OldReceiverEnds, GuestsOK
  <2>3. ServerOK' /\ SessionsOK' /\ HostOK' /\ HistoryOK'
    BY <1>5 DEF OldReceiverEnds, ServerOK, SessionsOK, HostOK, HistoryOK
  <2>4. JoinsOK'
    BY <1>5, JoinsSame DEF OldReceiverEnds, Joining
  <2> QED BY <2>2, <2>3, <2>4
<1>6. ASSUME AnswerRefused(g) PROVE TypeOK'
  <2>1. HistoryOK' /\ tries' = tries
    BY <1>6, SpendType DEF AnswerRefused, HistoryOK, Faults
  <2>2. ServerOK' /\ SessionsOK' /\ HostOK' /\ GuestsOK'
    BY <1>6 DEF AnswerRefused, ServerOK, SessionsOK, HostOK, GuestsOK
  <2>3. JoinsOK'
    BY <1>6, <2>1, JoinsSame DEF AnswerRefused, Joining
  <2> QED BY <2>1, <2>2, <2>3
<1> QED BY <1>1, <1>2, <1>3, <1>4, <1>5, <1>6

LEMMA ConnectionSteps ==
    ASSUME TypeOK, NEW p \in PeerIds,
           ChannelOpens(p) \/ Ready(p) \/ Verified(p) \/ TransferFails(p)
              \/ TransferStalls(p) \/ OfferRefused(p) \/ Lose(p) \/ HostNotices(p)
    PROVE  TypeOK'
<1> USE DEF TypeOK, server, session, host, guest, history
<1>1. GuestOf(p) \in Guests
  BY DEF GuestOf, PeerIds
<1>2. HistoryOK' /\ tries' = tries
  <2>1. CASE UNCHANGED history
    BY <2>1 DEF HistoryOK
  <2>2. ASSUME NEW f \in Faults, Spend(f), UNCHANGED <<overlapped, hurried>>
        PROVE  HistoryOK' /\ tries' = tries
    BY <2>2, SpendType DEF HistoryOK
  <2> QED BY <2>1, <2>2 DEF ChannelOpens, Ready, Verified, TransferFails, TransferStalls,
     OfferRefused, Lose, HostNotices, Faults
<1>3. UNCHANGED <<server, session, leaving>>
  BY DEF ChannelOpens, Ready, Verified, TransferFails, TransferStalls, OfferRefused, Lose,
     HostNotices
<1>4. HostOK'
  BY DEF ChannelOpens, Ready, Verified, TransferFails, TransferStalls, OfferRefused, Lose,
     HostNotices, HostOK
<1>5. GuestsOK'
  <2>1. CASE UNCHANGED guest
    BY <2>1 DEF GuestsOK
  <2>2. CASE ChannelOpens(p) \/ Lose(p)
    BY <1>1, <2>2 DEF ChannelOpens, Lose, GuestsOK
  <2>3. CASE Verified(p)
    BY <1>1, <2>3 DEF Verified, GuestsOK
  <2>4. CASE TransferFails(p) \/ TransferStalls(p) \/ OfferRefused(p)
    BY <1>1, <2>4 DEF TransferFails, TransferStalls, OfferRefused, GuestsOK
  <2> QED BY <2>1, <2>2, <2>3, <2>4 DEF Ready, HostNotices
<1>6. ServerOK' /\ SessionsOK'
  BY <1>3 DEF ServerOK, SessionsOK
<1>7. JoinsOK'
  BY <1>2, <1>3, JoinsSame DEF Joining
<1> QED BY <1>2, <1>4, <1>5, <1>6, <1>7

LEMMA RetrySteps ==
    ASSUME TypeOK, NEW g \in Guests, Retry(g) \/ RetryOffline(g) \/ LeaveTimesOut(g)
    PROVE  TypeOK'
<1> USE HostsAndGuests DEF TypeOK, server, session, host, guest, history
<1>1. ASSUME Retry(g) PROVE TypeOK'
  <2>1. ServerOK' /\ UNCHANGED given /\ \A h \in Guests : peer'[h] <= given'[h]
    BY <1>1, LeaveType DEF Retry, ServerOK
  <2>2. HistoryOK' /\ \A h \in Guests : tries'[h] = tries[h] - (IF h = g THEN 1 ELSE 0)
    BY <1>1, TryType DEF Retry, HistoryOK
  <2>3. GuestsOK' /\ leaving' = [leaving EXCEPT ![g] = @ + 1]
    BY <1>1 DEF Retry, Abandon, GuestsOK
  <2>4. SessionsOK' /\ HostOK'
    BY <1>1 DEF Retry, SessionsOK, HostOK
  <2>5. JoinsOK'
    <3> SUFFICES ASSUME NEW h \in Guests
                 PROVE  given'[h] + leaving'[h] + tries'[h] + Joining(h)' <= MostJoins
      BY <2>1 DEF JoinsOK
    <3>1. /\ given'[h] \in Nat /\ leaving'[h] \in Nat /\ tries'[h] \in Nat
          /\ given[h] \in Nat /\ leaving[h] \in Nat /\ tries[h] \in Nat
      BY <2>1, <2>2, <2>3 DEF ServerOK, GuestsOK, HistoryOK
    <3>2. given'[h] = given[h] /\ Joining(h)' = Joining(h)
      BY <1>1, <2>1 DEF Retry, Joining
    <3>3. leaving'[h] + tries'[h] = leaving[h] + tries[h]
      BY <2>2, <2>3, <3>1 DEF GuestsOK
    <3>4. given'[h] + leaving'[h] + tries'[h] + Joining(h)'
              <= given[h] + leaving[h] + tries[h] + Joining(h)
      BY <3>1, <3>2, <3>3, JoiningType
    <3> QED BY <3>1, <3>4, JoiningType, JoinsStep
  <2> QED BY <2>1, <2>2, <2>3, <2>4, <2>5
<1>2. ASSUME RetryOffline(g) PROVE TypeOK'
  <2>1. ServerOK' /\ SessionsOK' /\ HostOK' /\ GuestsOK' /\ HistoryOK'
    BY <1>2 DEF RetryOffline, Abandon, ServerOK, SessionsOK, HostOK, GuestsOK, HistoryOK
  <2>2. JoinsOK'
    BY <1>2, JoinsSame DEF RetryOffline, Joining
  <2> QED BY <2>1, <2>2
<1>3. ASSUME LeaveTimesOut(g) PROVE TypeOK'
  <2>1. HistoryOK' /\ tries' = tries
    <3>1. CASE UNCHANGED <<tries, left, hurried>>
      BY <1>3, <3>1 DEF LeaveTimesOut, HistoryOK
    <3>2. CASE Spend("slow") /\ hurried' = TRUE
      BY <1>3, <3>2, SpendType DEF LeaveTimesOut, HistoryOK, Faults
    <3> QED BY <1>3, <3>1, <3>2 DEF LeaveTimesOut
  <2>2. GuestsOK' /\ leaving[g] > 0 /\ leaving' = [leaving EXCEPT ![g] = @ - 1]
    BY <1>3 DEF LeaveTimesOut, GuestsOK
  <2>3. SessionsOK' /\ HostOK' /\ at' = at
    BY <1>3 DEF LeaveTimesOut, SessionsOK, HostOK
  <2>4. given[g] < MostJoins
    <3>1. given[g] \in Nat /\ leaving[g] \in Nat /\ tries[g] \in Nat
      BY DEF ServerOK, GuestsOK, HistoryOK
    <3>2. given[g] + leaving[g] + tries[g] + Joining(g) <= MostJoins
      BY DEF JoinsOK
    <3> QED BY <2>2, <3>1, <3>2, JoiningType, MostJoinsAssumption
  <2>5. /\ ServerOK' /\ \A h \in Guests : peer'[h] <= given'[h]
        /\ \A h \in Guests : given'[h] <= given[h] + (IF h = g THEN 1 ELSE 0)
    BY <1>3, <2>4, JoinType DEF LeaveTimesOut
  <2>6. JoinsOK'
    <3> SUFFICES ASSUME NEW h \in Guests
                 PROVE  given'[h] + leaving'[h] + tries'[h] + Joining(h)' <= MostJoins
      BY <2>5 DEF JoinsOK
    <3>1. /\ given'[h] \in Nat /\ leaving'[h] \in Nat /\ tries'[h] \in Nat
          /\ given[h] \in Nat /\ leaving[h] \in Nat /\ tries[h] \in Nat
      BY <2>1, <2>2, <2>5 DEF ServerOK, GuestsOK, HistoryOK
    <3>2. tries'[h] = tries[h] /\ Joining(h)' = Joining(h)
      BY <2>1, <2>3 DEF Joining
    <3>3. given'[h] + leaving'[h] <= given[h] + leaving[h]
      BY <2>2, <2>5, <3>1 DEF GuestsOK
    <3>4. given'[h] + leaving'[h] + tries'[h] + Joining(h)'
              <= given[h] + leaving[h] + tries[h] + Joining(h)
      BY <3>1, <3>2, <3>3, JoiningType
    <3> QED BY <3>1, <3>4, JoiningType, JoinsStep
  <2> QED BY <2>1, <2>2, <2>3, <2>5, <2>6
<1> QED BY <1>1, <1>2, <1>3

\* What the server makes of a client that goes.
LEMMA GoesType ==
    ASSUME TypeOK, NEW c \in Clients
    PROVE  /\ Disconnect(c) => /\ ServerOK' /\ UNCHANGED given
                               /\ \A h \in Guests : peer'[h] <= given'[h]
           /\ (IF c = Host THEN HostLeaves(inbox) ELSE Leave(c, linked, inbox))
                  => /\ ServerOK' /\ UNCHANGED given
                     /\ \A h \in Guests : peer'[h] <= given'[h]
           /\ (IF c = Host THEN HostLeaves(Unread(c)) ELSE Leave(c, Unlinked(c), Unread(c)))
                  => /\ ServerOK' /\ UNCHANGED given
                     /\ \A h \in Guests : peer'[h] <= given'[h]
<1> USE DEF TypeOK
<1>1. inbox \in [Clients -> Seq(Events)] /\ Unread(c) \in [Clients -> Seq(Events)]
  BY InboxUnread DEF ServerOK
<1>2. Unlinked(c) \in SUBSET PeerIds /\ linked \in SUBSET PeerIds
  BY DEF Unlinked, ServerOK
<1>3. \A h \in Guests : peer[h] <= given[h]
  BY DEF JoinsOK
<1>4. ASSUME c = Host, NEW box \in [Clients -> Seq(Events)], HostLeaves(box)
      PROVE  ServerOK' /\ UNCHANGED given /\ \A h \in Guests : peer'[h] <= given'[h]
  BY <1>3, <1>4, HostLeavesType
<1>5. ASSUME c # Host, NEW box \in [Clients -> Seq(Events)], NEW links \in SUBSET PeerIds,
             Leave(c, links, box)
      PROVE  ServerOK' /\ UNCHANGED given /\ \A h \in Guests : peer'[h] <= given'[h]
  BY <1>5, LeaveType DEF Clients
<1>6. ASSUME UNCHANGED server
      PROVE  ServerOK' /\ UNCHANGED given /\ \A h \in Guests : peer'[h] <= given'[h]
  BY <1>3, <1>6 DEF server, ServerOK
<1> QED BY <1>1, <1>2, <1>4, <1>5, <1>6 DEF Disconnect

\* A step of a client that leaves.
LEMMA LeavesJoins ==
    ASSUME TypeOK, ServerOK', GuestsOK', UNCHANGED <<given, tries>>,
           \A h \in Guests : peer'[h] <= given'[h] /\ leaving'[h] <= leaving[h],
           \A h \in Guests : at'[h] = at[h]
    PROVE  JoinsOK'
<1> SUFFICES ASSUME NEW h \in Guests
             PROVE  given'[h] + leaving'[h] + tries'[h] + Joining(h)' <= MostJoins
  BY DEF JoinsOK
<1>1. /\ given[h] \in Nat /\ leaving'[h] \in Nat /\ tries[h] \in Nat /\ leaving[h] \in Nat
  BY DEF TypeOK, ServerOK, GuestsOK, HistoryOK
<1>2. given[h] + leaving'[h] + tries[h] + Joining(h)'
          <= given[h] + leaving[h] + tries[h] + Joining(h)
  BY <1>1, JoiningType DEF Joining
<1> QED BY <1>1, <1>2, JoiningType, JoinsStep

LEMMA DisposeSteps ==
    ASSUME TypeOK, NEW c \in Clients, Dispose(c) \/ DisposeEnds(c) \/ Reconnect(c)
    PROVE  TypeOK'
<1> USE HostsAndGuests, HostAssumption DEF TypeOK, server, session, host, guest, history
<1>1. ASSUME Dispose(c) PROVE TypeOK'
  <2>1. ServerOK' /\ UNCHANGED given /\ \A h \in Guests : peer'[h] <= given'[h]
    <3>1. CASE UNCHANGED server
      BY <3>1 DEF ServerOK, JoinsOK
    <3> QED BY <1>1, <3>1, GoesType DEF Dispose
  <2>2. SessionsOK'
    BY <1>1 DEF Dispose, Disconnect, SessionsOK
  <2>3. HostOK'
    <3>1. CASE CloseAll
      <4>1. \A p \in PeerIds : Loose(p) \in {"loose", "over"}
        BY DEF Loose
      <4> QED BY <3>1, <4>1 DEF CloseAll, HostOK
    <3>2. CASE UNCHANGED host
      BY <3>2 DEF HostOK
    <3> QED BY <1>1, <3>1, <3>2 DEF Dispose
  <2>4. GuestsOK'
    <3>1. CASE c = Host
      <4>1. error' \in [Guests -> BOOLEAN] /\ conn' = conn
        BY <1>1, <3>1 DEF Dispose, CancelAll
      <4> QED BY <1>1, <4>1 DEF Dispose, GuestsOK
    <3>2. CASE c # Host
      <4>1. conn' = [conn EXCEPT ![c] = "closed"] /\ error' = error
        BY <1>1, <3>2 DEF Dispose
      <4> QED BY <1>1, <4>1 DEF Dispose, GuestsOK
    <3> QED BY <3>1, <3>2
  <2>5. HistoryOK' /\ UNCHANGED <<at, leaving, tries>>
    BY <1>1 DEF Dispose, HistoryOK
  <2>6. JoinsOK'
    BY <2>1, <2>4, <2>5, LeavesJoins DEF GuestsOK
  <2> QED BY <2>1, <2>2, <2>3, <2>4, <2>5, <2>6
<1>2. ASSUME DisposeEnds(c) PROVE TypeOK'
  <2>1. ServerOK' /\ UNCHANGED given /\ \A h \in Guests : peer'[h] <= given'[h]
    BY <1>2, GoesType DEF DisposeEnds
  <2>2. SessionsOK'
    BY <1>2 DEF DisposeEnds, Disconnect, SessionsOK
  <2>3. /\ HostOK' /\ GuestsOK' /\ HistoryOK' /\ UNCHANGED <<at, leaving, tries>>
    BY <1>2 DEF DisposeEnds, HostOK, GuestsOK, HistoryOK
  <2>4. JoinsOK'
    BY <2>1, <2>3, LeavesJoins DEF GuestsOK
  <2> QED BY <2>1, <2>2, <2>3, <2>4
<1>3. ASSUME Reconnect(c) PROVE TypeOK'
  <2>1. ServerOK' /\ SessionsOK' /\ HostOK' /\ GuestsOK' /\ HistoryOK'
    BY <1>3 DEF Reconnect, ServerOK, SessionsOK, HostOK, GuestsOK, HistoryOK
  <2>2. JoinsOK'
    BY <1>3, JoinsSame DEF Reconnect, Joining
  <2> QED BY <2>1, <2>2
<1> QED BY <1>1, <1>2, <1>3

LEMMA CutOffType ==
    ASSUME TypeOK, NEW cut \in SUBSET Clients, \A c \in cut : sock[c] = "up", CutOff(cut)
    PROVE  /\ SessionsOK' /\ HostOK' /\ GuestsOK'
           /\ \A h \in Guests : at'[h] = at[h] /\ leaving'[h] <= leaving[h]
<1> USE HostsAndGuests, HostAssumption DEF TypeOK, CutOff
<1>1. /\ sock' \in [Clients -> {"none", "up", "down", "off"}]
      /\ life' \in [Clients -> {"live", "late", "leaving", "gone"}]
      /\ at' \in [Clients -> {"new", "ice", "connecting", "stuck", "in", "ready"}]
      /\ \A h \in Guests : at'[h] = at[h]
  BY DEF SessionsOK
<1>2. \A c \in Clients : sock'[c] = "off" <=> life'[c] = "gone"
  BY DEF SessionsOK
<1>3. /\ leaving' \in [Guests -> Nat] /\ \A h \in Guests : leaving'[h] <= leaving[h]
  BY DEF GuestsOK
<1>4. error' \in [Guests -> BOOLEAN]
  <2>1. \A g \in Guests : (error[g] \/
            (g \in cut /\ life[g] = "live" /\ (leaving[g] > 0 \/ Awaited(g)))) \in BOOLEAN
    OBVIOUS
  <2>2. error' = [g \in Guests |-> error[g] \/
            (g \in cut /\ life[g] = "live" /\ (leaving[g] > 0 \/ Awaited(g)))]
    OBVIOUS
  <2> QED BY ONLY <2>1, <2>2
<1>5. HostOK' /\ GuestsOK'
  BY <1>3, <1>4 DEF HostOK, GuestsOK, host
<1> QED BY <1>1, <1>2, <1>3, <1>5 DEF SessionsOK

LEMMA CutSteps ==
    ASSUME TypeOK, Restart \/ \E c \in Clients : Drop(c)
    PROVE  TypeOK'
<1> USE DEF TypeOK
<1>1. ASSUME NEW c \in Clients, Drop(c) PROVE TypeOK'
  <2>1. ServerOK' /\ UNCHANGED given /\ \A h \in Guests : peer'[h] <= given'[h]
    BY <1>1, GoesType DEF Drop
  <2>2. /\ SessionsOK' /\ HostOK' /\ GuestsOK'
        /\ \A h \in Guests : at'[h] = at[h] /\ leaving'[h] <= leaving[h]
    BY <1>1, CutOffType DEF Drop
  <2>3. HistoryOK' /\ tries' = tries
    BY <1>1, SpendType DEF Drop, HistoryOK, Faults
  <2>4. JoinsOK'
    BY <2>1, <2>2, <2>3, LeavesJoins
  <2> QED BY <2>1, <2>2, <2>3, <2>4
<1>2. ASSUME Restart PROVE TypeOK'
  <2>1. inbox' \in [Clients -> Seq(Events)]
    BY <1>2, EmptySeq DEF Restart
  <2>2. ServerOK' /\ UNCHANGED given /\ \A h \in Guests : peer'[h] <= given'[h]
    <3>1. /\ hostIn' = FALSE /\ members' = {} /\ linked' = {}
          /\ peer' = [g \in Guests |-> 0] /\ given' = given
      BY <1>2 DEF Restart
    <3>2. ServerOK'
      BY <2>1, <3>1 DEF ServerOK
    <3>3. \A h \in Guests : given[h] \in Nat
      BY DEF ServerOK
    <3> QED BY <3>1, <3>2, <3>3
  <2>3. /\ SessionsOK' /\ HostOK' /\ GuestsOK'
        /\ \A h \in Guests : at'[h] = at[h] /\ leaving'[h] <= leaving[h]
    BY <1>2, CutOffType DEF Restart
  <2>4. HistoryOK' /\ tries' = tries
    BY <1>2, SpendType DEF Restart, HistoryOK, Faults
  <2>5. JoinsOK'
    BY <2>2, <2>3, <2>4, LeavesJoins
  <2> QED BY <2>2, <2>3, <2>4, <2>5
<1> QED BY <1>1, <1>2

LEMMA TypeNext == TypeOK /\ [Next]_vars => TypeOK'
<1> SUFFICES ASSUME TypeOK, [Next]_vars PROVE TypeOK'
  OBVIOUS
<1>1. CASE Progress
  BY <1>1, StartSteps, HostSteps, GuestSteps, ConnectionSteps, RetrySteps, DisposeSteps
     DEF Progress
<1>2. CASE Otherwise
  BY <1>2, StartSteps, HostSteps, GuestSteps, ConnectionSteps, RetrySteps, DisposeSteps,
     CutSteps, ServerStep DEF Otherwise
<1>3. CASE UNCHANGED vars
  <2>1. UNCHANGED <<server, session, host, guest, history>>
    BY <1>3 DEF vars
  <2>2. ServerOK' /\ SessionsOK' /\ HostOK' /\ GuestsOK' /\ HistoryOK'
    BY <2>1 DEF server, session, host, guest, history, TypeOK, ServerOK, SessionsOK, HostOK,
                GuestsOK, HistoryOK
  <2>3. JoinsOK'
    BY <2>1, JoinsSame DEF server, session, guest, history, Joining
  <2> QED BY <2>2, <2>3 DEF TypeOK
<1> QED BY <1>1, <1>2, <1>3 DEF Next

\* Every variable stays in its type, and no guest joins oftener than it tried to.
THEOREM TypeCorrect == Spec => []TypeOK
BY TypeInit, TypeNext, PTL DEF Spec

-----------------------------------------------------------------------------
(* The page's list of recipients                                           *)

\* Only HostReads, dispose() and the connections' own steps touch a slot.
LEMMA ListStep ==
    ASSUME TypeOK, [Next]_vars, life'[Host] = "live"
    PROVE  /\ life[Host] = "live"
           /\ \/ \E p \in PeerIds : AddPeer(p) \/ (p \in Slots /\ RemovePeer(p)) \/ LooseEnd(p)
              \/ /\ listed' = listed
                 /\ \A p \in PeerIds : /\ p \in Slots' <=> p \in Slots
                                       /\ p \notin Slots => sender'[p] = sender[p]
<1> USE HostsAndGuests DEF TypeOK, server, session, host, guest, history
<1> DEFINE Same == /\ listed' = listed
                   /\ \A p \in PeerIds : /\ p \in Slots' <=> p \in Slots
                                         /\ p \notin Slots => sender'[p] = sender[p]
           Goal == /\ life[Host] = "live"
                   /\ \/ \E p \in PeerIds :
                             AddPeer(p) \/ (p \in Slots /\ RemovePeer(p)) \/ LooseEnd(p)
                      \/ Same
<1>1. ASSUME UNCHANGED <<life, host>> PROVE Goal
  BY <1>1 DEF Slots
<1>2. ASSUME HostReads PROVE Goal
  <2> DEFINE e == Head(inbox[Host])
  <2>1. e \in Events /\ life' = life
    BY <1>2, InboxRead DEF HostReads
  <2>2. CASE UNCHANGED host
    BY <2>1, <2>2 DEF Slots
  <2>3. CASE e.type = "joined" /\ AddPeer(e.peer)
    BY <2>1, <2>3 DEF Events
  <2>4. CASE e.peer \in Slots /\ RemovePeer(e.peer)
    BY <2>1, <2>4 DEF Slots
  <2>5. CASE e.type = "answer" /\ RouteAnswer(e.peer, e.offer)
    BY <2>1, <2>5 DEF RouteAnswer, Slots, HostOK
  <2> QED BY <1>2, <2>2, <2>3, <2>4, <2>5 DEF HostReads
<1>3. ASSUME NEW p \in PeerIds,
             Offer(p) \/ ChannelOpens(p) \/ Ready(p) \/ Verified(p) \/ TransferFails(p)
                \/ TransferStalls(p) \/ OfferRefused(p) \/ Lose(p) \/ HostNotices(p)
      PROVE  Goal
  BY <1>3 DEF Offer, ChannelOpens, Ready, Verified, TransferFails, TransferStalls,
     OfferRefused, Lose, HostNotices, Connected, Slots, HostOK
<1>4. ASSUME NEW p \in PeerIds, LooseEnd(p) PROVE Goal
  BY <1>4 DEF LooseEnd
<1>5. ASSUME NEW c \in Clients, Dispose(c) PROVE Goal
  <2>1. c # Host
    BY <1>5 DEF Dispose, SessionsOK
  <2>2. UNCHANGED host /\ life'[Host] = life[Host]
    BY <1>5, <2>1 DEF Dispose, SessionsOK
  <2> QED BY <2>2 DEF Slots
<1>6. ASSUME NEW c \in Clients, DisposeEnds(c) PROVE Goal
  <2>1. UNCHANGED host /\ life'[Host] = life[Host]
    BY <1>6 DEF DisposeEnds, SessionsOK
  <2> QED BY <2>1 DEF Slots
<1>7. ASSUME NEW cut, CutOff(cut) PROVE Goal
  <2>1. UNCHANGED host /\ life'[Host] = life[Host]
    BY <1>7 DEF CutOff, SessionsOK
  <2> QED BY <2>1 DEF Slots
<1>8. CASE Progress
  <2>1. ASSUME NEW c \in Clients, FetchIce(c) \/ Connect(c) PROVE Goal
    BY <2>1, <1>1 DEF FetchIce, Connect
  <2>2. ASSUME NEW g \in Guests, GuestReads(g) \/ Answer(g) \/ LeaveTimesOut(g) \/ GuestNotices(g)
        PROVE  Goal
    BY <2>2, <1>1 DEF GuestReads, Answer, LeaveTimesOut, GuestNotices
  <2> QED BY <1>2, <1>3, <1>6, <1>8, <2>1, <2>2 DEF Progress
<1>9. CASE Otherwise
  <2>1. ASSUME NEW c \in Clients, ConnectFails(c) \/ Reconnect(c) PROVE Goal
    BY <2>1, <1>1 DEF ConnectFails, Reconnect
  <2>2. ASSUME NEW g \in Guests,
               Open(g) \/ KeyRefused(g) \/ JoinTimesOut(g) \/ Retry(g) \/ RetryOffline(g)
                  \/ OldReceiverEnds(g) \/ AnswerRefused(g)
        PROVE  Goal
    BY <2>2, <1>1 DEF Open, KeyRefused, JoinTimesOut, Retry, RetryOffline, OldReceiverEnds,
       AnswerRefused
  <2>3. ASSUME StartAgain \/ Sweep PROVE Goal
    BY <2>3, <1>1 DEF StartAgain, Sweep
  <2>4. ASSUME Restart \/ \E c \in Clients : Drop(c) PROVE Goal
    BY <2>4, <1>7 DEF Restart, Drop
  <2> QED BY <1>3, <1>4, <1>5, <1>9, <2>1, <2>2, <2>3, <2>4 DEF Otherwise
<1>10. CASE UNCHANGED vars
  BY <1>10, <1>1 DEF vars
<1> QED BY <1>8, <1>9, <1>10 DEF Next

LEMMA PageNext == TypeOK /\ PageShowsTheSlots /\ [Next]_vars => PageShowsTheSlots'
<1> SUFFICES ASSUME TypeOK, PageShowsTheSlots, [Next]_vars, life'[Host] = "live"
             PROVE  /\ Slots' \subseteq listed'
                    /\ \A q \in listed' \ Slots' : sender'[q] = "astray"
  BY DEF PageShowsTheSlots
<1>1. /\ life[Host] = "live"
      /\ Slots \subseteq listed
      /\ \A q \in listed \ Slots : sender[q] = "astray"
  BY ListStep DEF PageShowsTheSlots
<1>2. listed \subseteq PeerIds /\ Slots \subseteq PeerIds /\ Slots' \subseteq PeerIds
  BY DEF TypeOK, HostOK, Slots
<1>3. ASSUME NEW p \in PeerIds, AddPeer(p) \/ (p \in Slots /\ RemovePeer(p)) \/ LooseEnd(p)
      PROVE  /\ Slots' \subseteq listed'
             /\ \A q \in listed' \ Slots' : sender'[q] = "astray"
  <2>1. CASE AddPeer(p)
    BY <1>1, <1>2, <2>1 DEF AddPeer, Slots, TypeOK, HostOK
  <2>2. CASE p \in Slots /\ RemovePeer(p)
    BY <1>1, <1>2, <2>2 DEF RemovePeer, Slots, TypeOK, HostOK
  <2>3. CASE LooseEnd(p)
    BY <1>1, <1>2, <2>3 DEF LooseEnd, Slots, TypeOK, HostOK
  <2> QED BY <1>3, <2>1, <2>2, <2>3
<1>4. CASE /\ listed' = listed
           /\ \A p \in PeerIds : /\ p \in Slots' <=> p \in Slots
                                 /\ p \notin Slots => sender'[p] = sender[p]
  BY <1>1, <1>2, <1>4
<1> QED BY <1>3, <1>4, ListStep

\* SenderSession and useSenderSession: the page lists every peer the session has a
\* connection for, and besides them only peers whose sender spoke after they left.
THEOREM PageShowsSlots == Spec => []PageShowsTheSlots
<1>1. Init => PageShowsTheSlots
  BY DEF Init, PageShowsTheSlots, Slots
<1> QED BY TypeInit, TypeNext, PageNext, <1>1, PTL DEF Spec

-----------------------------------------------------------------------------
(* Who is in the room: DisposedLeavesNothing is not inductive, for a        *)
(* session that was disposed of may still await its leave or its join.      *)
(* What keeps the room clean is that nobody is in it without a signaling    *)
(* connection, and nobody twice while retries do not overlap.               *)

HostThere ==
    hostIn => /\ life[Host] \in {"live", "late"} /\ sock[Host] = "up"
              /\ at[Host] \in {"in", "ready"}

GuestThere(g) ==
    /\ sock[g] # "up" => leaving[g] = 0
    /\ sock[g] \in {"up", "down"} => at[g] \notin {"new", "ice", "connecting"}
    /\ ~overlapped => leaving[g] <= 1
    /\ ~overlapped => \A p \in members :
           GuestOf(p) = g => p = Self(g) /\ leaving[g] = 0 /\ sock[g] = "up"

There == HostThere /\ \A g \in Guests : GuestThere(g)

LEMMA ThereInit == Init => There
BY HostsAndGuests DEF Init, There, HostThere, GuestThere

\* A step that touches none of this.
LEMMA ThereSame ==
    ASSUME There, UNCHANGED <<hostIn, members, peer, leaving, sock, life, at, overlapped>>
    PROVE  There'
BY DEF There, HostThere, GuestThere, Self

\* A guest leaves the room, or is taken out of it with its connection.
LEMMA ThereLeaves ==
    ASSUME TypeOK, There, NEW g \in Guests, members' = members \ {Self(g)},
           peer' = [peer EXCEPT ![g] = 0], overlapped' = overlapped,
           UNCHANGED hostIn, sock'[Host] = sock[Host], life'[Host] = life[Host],
           at'[Host] = at[Host], at'[g] = at[g], leaving'[g] <= leaving[g],
           leaving' \in [Guests -> Nat],
           \/ sock'[g] = sock[g]
           \/ leaving'[g] = 0 /\ (sock'[g] = "off" \/ (sock'[g] = "down" /\ sock[g] = "up")),
           \A h \in Guests \ {g} :
               sock'[h] = sock[h] /\ leaving'[h] = leaving[h] /\ at'[h] = at[h]
    PROVE  There'
<1> USE DEF TypeOK, ServerOK, SessionsOK, GuestsOK
<1>1. HostThere'
  BY DEF There, HostThere
<1>2. GuestThere(g)'
  <2>1. GuestThere(g)
    BY DEF There
  <2>2. sock'[g] # "up" => leaving'[g] = 0
    <3>1. leaving[g] \in Nat /\ leaving'[g] \in Nat
      OBVIOUS
    <3>2. sock[g] # "up" => leaving[g] = 0
      BY <2>1 DEF GuestThere
    <3> QED BY <3>1, <3>2
  <2>3. ~overlapped' => leaving'[g] <= 1
    <3>1. leaving[g] \in Nat /\ leaving'[g] \in Nat
      OBVIOUS
    <3>2. ~overlapped => leaving[g] <= 1
      BY <2>1 DEF GuestThere
    <3> QED BY <3>1, <3>2
  <2>4. ~overlapped' => \A p \in members' : GuestOf(p) # g
    <3>1. ~overlapped => \A p \in members : GuestOf(p) = g => p = Self(g)
      BY <2>1 DEF GuestThere
    <3> QED BY ONLY <3>1, members' = members \ {Self(g)}, overlapped' = overlapped
  <2>5. sock'[g] \in {"up", "down"} => at'[g] \notin {"new", "ice", "connecting"}
    BY <2>1 DEF GuestThere
  <2> QED BY <2>2, <2>3, <2>4, <2>5 DEF GuestThere
<1>3. ASSUME NEW h \in Guests \ {g} PROVE GuestThere(h)'
  <2>1. GuestThere(h) /\ peer'[h] = peer[h]
    BY DEF There
  <2> QED BY <2>1 DEF GuestThere, Self
<1> QED BY <1>1, <1>2, <1>3 DEF There

\* A guest that is nowhere in the room joins it.
LEMMA ThereJoins ==
    ASSUME TypeOK, There, NEW g \in Guests, Join(g), overlapped' = overlapped,
           sock'[Host] = sock[Host], life'[Host] = life[Host], at'[Host] = at[Host],
           ~overlapped => \A p \in members : GuestOf(p) # g,
           ~overlapped => leaving'[g] = 0, sock'[g] = "up",
           at'[g] \notin {"new", "ice", "connecting"},
           \A h \in Guests \ {g} :
               sock'[h] = sock[h] /\ leaving'[h] = leaving[h] /\ at'[h] = at[h]
    PROVE  There'
<1> USE DEF TypeOK, ServerOK
<1>1. /\ hostIn' = hostIn /\ \A h \in Guests \ {g} : peer'[h] = peer[h]
      /\ \/ members' = members
         \/ members' = members \union {<<g, given[g] + 1>>} /\ peer'[g] = given[g] + 1
  BY DEF Join
<1>2. HostThere'
  BY <1>1 DEF There, HostThere
<1>3. GuestThere(g)'
  BY <1>1 DEF GuestThere, GuestOf, Self
<1>4. ASSUME NEW h \in Guests \ {g} PROVE GuestThere(h)'
  <2>1. GuestThere(h)
    BY DEF There
  <2>2. \A p \in members' : GuestOf(p) = h => p \in members
    BY <1>1 DEF GuestOf
  <2> QED BY <1>1, <2>1, <2>2 DEF GuestThere, Self
<1> QED BY <1>2, <1>3, <1>4 DEF There

LEMMA ThereConnects ==
    ASSUME TypeOK, There, NEW c \in Clients, Connect(c)
    PROVE  There'
<1> USE HostsAndGuests, HostAssumption DEF TypeOK, SessionsOK
<1>1. /\ life' = life /\ leaving' = leaving /\ overlapped' = overlapped
      /\ sock' = [sock EXCEPT ![c] = "up"] /\ at' = [at EXCEPT ![c] = "in"]
      /\ at[c] = "connecting" /\ life[c] \in {"live", "late"}
  BY DEF Connect, guest, history
<1>2. CASE c = Host
  <2>1. /\ UNCHANGED <<members, peer>>
        /\ \A h \in Guests : sock'[h] = sock[h] /\ at'[h] = at[h]
    BY <1>1, <1>2 DEF Connect
  <2>2. HostThere'
    BY <1>1, <1>2 DEF HostThere
  <2>3. \A h \in Guests : GuestThere(h)'
    BY <1>1, <2>1 DEF There, GuestThere, Self
  <2> QED BY <2>2, <2>3 DEF There
<1>3. CASE c \in Guests
  <2>1. Join(c) /\ c # Host
    BY <1>3 DEF Connect
  <2>2. /\ leaving[c] = 0
        /\ ~overlapped => \A p \in members : GuestOf(p) # c
    BY <1>1, <1>3 DEF There, GuestThere
  <2>3. sock'[Host] = sock[Host] /\ at'[Host] = at[Host]
    BY <1>1, <2>1
  <2>4. \A h \in Guests \ {c} : sock'[h] = sock[h] /\ at'[h] = at[h]
    BY <1>1
  <2>5. sock'[c] = "up" /\ at'[c] = "in"
    BY <1>1
  <2> QED BY <1>1, <1>3, <2>1, <2>2, <2>3, <2>4, <2>5, ThereJoins
<1> QED BY <1>2, <1>3 DEF Clients

LEMMA ThereRetries ==
    ASSUME TypeOK, There, NEW g \in Guests, Retry(g) \/ LeaveTimesOut(g)
    PROVE  There'
<1> USE HostsAndGuests, HostAssumption DEF TypeOK, ServerOK, SessionsOK, GuestsOK, HistoryOK,
                                           session
<1>1. CASE Retry(g)
  <2>1. /\ sock[g] = "up" /\ leaving' = [leaving EXCEPT ![g] = @ + 1]
        /\ overlapped' = (overlapped \/ leaving[g] > 0 \/ Awaited(g))
        /\ UNCHANGED <<at, life, sock>>
        /\ peer' = [peer EXCEPT ![g] = 0] /\ members' = members \ {Self(g)}
        /\ hostIn' = hostIn
    BY <1>1 DEF Retry, Leave
  <2>2. HostThere'
    BY <2>1 DEF There, HostThere
  <2>3. ~overlapped' => ~overlapped /\ leaving[g] = 0
    <3>1. leaving[g] \in Nat
      OBVIOUS
    <3>2. overlapped' = (overlapped \/ leaving[g] > 0 \/ Awaited(g))
      BY <2>1
    <3>3. ~overlapped' => ~overlapped /\ ~(leaving[g] > 0)
      BY ONLY <3>2, Zenon
    <3> QED BY <3>1, <3>3
  <2>4. GuestThere(g)'
    <3>1. GuestThere(g)
      BY DEF There
    <3>2. ~overlapped' => \A p \in members' : GuestOf(p) # g
      BY <2>1, <2>3, <3>1 DEF GuestThere
    <3>3. ~overlapped' => leaving'[g] <= 1
      BY <2>1, <2>3
    <3> QED BY <2>1, <3>1, <3>2, <3>3 DEF GuestThere
  <2>5. ASSUME NEW h \in Guests \ {g} PROVE GuestThere(h)'
    BY <2>1, <2>3 DEF There, GuestThere, Self
  <2> QED BY <2>2, <2>4, <2>5 DEF There
<1>2. CASE LeaveTimesOut(g)
  <2>1. /\ leaving[g] > 0 /\ leaving' = [leaving EXCEPT ![g] = @ - 1]
        /\ Join(g) /\ UNCHANGED <<at, life, sock, overlapped>>
    BY <1>2 DEF LeaveTimesOut
  <2>2. GuestThere(g) /\ leaving[g] \in Nat
    BY DEF There
  <2>3. /\ sock[g] = "up" /\ at[g] \notin {"new", "ice", "connecting"}
        /\ ~overlapped => leaving'[g] = 0 /\ \A p \in members : GuestOf(p) # g
    BY <2>1, <2>2 DEF GuestThere
  <2>4. \A h \in Guests \ {g} : leaving'[h] = leaving[h]
    BY <2>1
  <2> QED BY <2>1, <2>3, <2>4, ThereJoins
<1> QED BY <1>1, <1>2

\* The host's going takes nobody else with it.
LEMMA ThereWithoutHost ==
    ASSUME There, hostIn' = FALSE, UNCHANGED <<members, peer, overlapped>>,
           \A h \in Guests : sock'[h] = sock[h] /\ leaving'[h] = leaving[h] /\ at'[h] = at[h]
    PROVE  There'
BY DEF There, HostThere, GuestThere, Self

LEMMA ThereDisposed ==
    ASSUME TypeOK, There, NEW c \in Clients, Dispose(c) \/ DisposeEnds(c)
    PROVE  There'
<1> USE HostsAndGuests, HostAssumption DEF TypeOK, SessionsOK, GuestsOK
<1>1. /\ UNCHANGED <<at, leaving, overlapped>> /\ sock' \in {sock, [sock EXCEPT ![c] = "off"]}
      /\ \A d \in Clients \ {c} : life'[d] = life[d]
  <2>1. CASE Dispose(c)
    BY <2>1 DEF Dispose, Disconnect, history
  <2>2. CASE DisposeEnds(c)
    BY <2>2 DEF DisposeEnds, Disconnect, guest, history
  <2> QED BY <2>1, <2>2
<1>2. CASE c = Host
  <2>1. \A h \in Guests : sock'[h] = sock[h]
    BY <1>1, <1>2
  <2>2. CASE HostLeaves(inbox) \/ HostLeaves(Unread(Host))
    BY <1>1, <2>1, <2>2, ThereWithoutHost DEF HostLeaves
  <2>3. CASE UNCHANGED server
    <3>1. hostIn = FALSE
      <4>1. hostIn \in BOOLEAN
        BY DEF ServerOK
      <4> QED BY <4>1, <1>2, <2>3
               DEF Dispose, DisposeEnds, Disconnect, There, HostThere, HostLeaves, server
    <3> QED BY <1>1, <2>1, <2>3, <3>1, ThereWithoutHost DEF server
  <2> QED BY <1>2, <2>2, <2>3 DEF Dispose, DisposeEnds, Disconnect
<1>3. CASE c \in Guests
  <2>1. c # Host /\ GuestThere(c)
    BY <1>3 DEF There
  <2>2. sock'[Host] = sock[Host] /\ life'[Host] = life[Host]
    BY <1>1, <2>1
  <2>3. \A h \in Guests \ {c} : sock'[h] = sock[h]
    BY <1>1
  <2>4. sock'[c] = sock[c] \/ (sock'[c] = "off" /\ leaving[c] = 0)
    BY <1>1, <1>3, <2>1 DEF Dispose, DisposeEnds, Disconnect, GuestThere
  <2>5. CASE \E links, box : Leave(c, links, box)
    <3>1. members' = members \ {Self(c)} /\ peer' = [peer EXCEPT ![c] = 0] /\ hostIn' = hostIn
      BY <2>5 DEF Leave
    <3>2. /\ leaving' \in [Guests -> Nat] /\ leaving'[c] <= leaving[c]
          /\ sock'[c] = sock[c] \/ (sock'[c] = "off" /\ leaving'[c] = 0)
          /\ at'[Host] = at[Host] /\ at'[c] = at[c] /\ overlapped' = overlapped
          /\ \A h \in Guests \ {c} :
                 sock'[h] = sock[h] /\ leaving'[h] = leaving[h] /\ at'[h] = at[h]
      BY <1>1, <1>3, <2>3, <2>4
    <3> QED BY <1>3, <2>2, <3>1, <3>2, ThereLeaves
  <2>6. CASE UNCHANGED server /\ (sock[c] # "up" \/ sock' = sock)
    <3>1. HostThere'
      BY <1>1, <2>2, <2>6 DEF There, HostThere, server
    <3>2. GuestThere(c)'
      BY <1>1, <2>1, <2>4, <2>6 DEF GuestThere, Self, server
    <3>3. \A h \in Guests \ {c} : GuestThere(h)'
      BY <1>1, <2>3, <2>6 DEF There, GuestThere, Self, server
    <3> QED BY <3>1, <3>2, <3>3 DEF There
  <2> QED BY <2>1, <2>5, <2>6 DEF Dispose, DisposeEnds, Disconnect
<1> QED BY <1>2, <1>3 DEF Clients

LEMMA ThereCut ==
    ASSUME TypeOK, There, Restart \/ \E c \in Clients : Drop(c)
    PROVE  There'
<1> USE HostsAndGuests, HostAssumption DEF TypeOK, SessionsOK, GuestsOK
<1>1. ASSUME NEW c \in Clients, Drop(c), c = Host PROVE There'
  <2>1. \A h \in Guests : sock'[h] = sock[h] /\ leaving'[h] = leaving[h] /\ at'[h] = at[h]
    BY <1>1 DEF Drop, CutOff
  <2> QED BY <1>1, <2>1, ThereWithoutHost DEF Drop, HostLeaves
<1>2. ASSUME NEW c \in Guests, Drop(c) PROVE There'
  <2>1. /\ members' = members \ {Self(c)} /\ peer' = [peer EXCEPT ![c] = 0]
        /\ hostIn' = hostIn /\ overlapped' = overlapped
    BY <1>2 DEF Drop, Leave
  <2>2. /\ leaving' = [g \in Guests |-> IF g \in {c} THEN 0 ELSE leaving[g]]
        /\ sock' = [d \in Clients |-> IF d \notin {c} THEN sock[d]
                                      ELSE IF life[d] = "leaving" THEN "off" ELSE "down"]
        /\ life' = [d \in Clients |->
                        IF d \in {c} /\ life[d] = "leaving" THEN "gone" ELSE life[d]]
        /\ at' = [at EXCEPT ![Host] = IF Host \in {c} /\ @ = "in" THEN "stuck" ELSE @]
    BY <1>2 DEF Drop, CutOff
  <2>3. /\ leaving' \in [Guests -> Nat] /\ leaving'[c] <= leaving[c] /\ leaving'[c] = 0
        /\ sock'[c] = "off" \/ (sock'[c] = "down" /\ sock[c] = "up")
        /\ sock'[Host] = sock[Host] /\ life'[Host] = life[Host]
        /\ at'[Host] = at[Host] /\ at'[c] = at[c]
        /\ \A h \in Guests \ {c} :
               sock'[h] = sock[h] /\ leaving'[h] = leaving[h] /\ at'[h] = at[h]
    BY <1>2, <2>2 DEF Drop
  <2> QED BY <2>1, <2>3, ThereLeaves
<1>3. ASSUME Restart PROVE There'
  <2>1. /\ hostIn' = FALSE /\ members' = {} /\ overlapped' = overlapped
    BY <1>3 DEF Restart
  <2>2. \A g \in Guests : /\ sock'[g] # "up" /\ at'[g] = at[g]
                          /\ sock'[g] = "down" => sock[g] \in {"up", "down"}
                          /\ leaving'[g] = 0 \/ (leaving'[g] = leaving[g] /\ sock[g] # "up")
    BY <1>3 DEF Restart, CutOff
  <2>3. \A g \in Guests : GuestThere(g)'
    BY <2>1, <2>2 DEF There, GuestThere
  <2> QED BY <2>1, <2>3 DEF There, HostThere
<1> QED BY <1>1, <1>2, <1>3 DEF Clients

\* The steps before the room, of which a session makes each once.
LEMMA ThereStarts ==
    ASSUME TypeOK, There, NEW c \in Clients,
           FetchIce(c) \/ ConnectFails(c) \/ Reconnect(c) \/ StartAgain
              \/ (c \in Guests /\ (Open(c) \/ KeyRefused(c)))
    PROVE  There'
<1> USE HostsAndGuests, HostAssumption DEF TypeOK, SessionsOK
<1>1. UNCHANGED <<hostIn, members, peer, leaving, life, overlapped>>
  BY DEF FetchIce, ConnectFails, Reconnect, StartAgain, Open, KeyRefused, server, guest,
         history
<1>2. ASSUME FetchIce(c) \/ ConnectFails(c) \/ (c \in Guests /\ (Open(c) \/ KeyRefused(c)))
      PROVE  /\ sock' \in {sock, [sock EXCEPT ![c] = "down"]}
             /\ \A d \in Clients : d # c => at'[d] = at[d]
             /\ at[c] \in {"new", "ice", "connecting"}
  BY <1>2 DEF FetchIce, ConnectFails, Open, KeyRefused
<1>3. CASE FetchIce(c) \/ ConnectFails(c) \/ (c \in Guests /\ (Open(c) \/ KeyRefused(c)))
  <2>1. HostThere'
    BY <1>1, <1>2, <1>3 DEF There, HostThere
  <2>2. ASSUME NEW h \in Guests PROVE GuestThere(h)'
    <3>1. GuestThere(h)
      BY DEF There
    <3>2. CASE h # c
      BY <1>1, <1>2, <1>3, <3>1, <3>2 DEF GuestThere, Self
    <3>3. CASE h = c
      <4>1. sock[c] \notin {"up", "down"}
        BY <1>2, <1>3, <3>1, <3>3 DEF GuestThere
      <4>2. sock'[c] = sock[c] \/ (sock'[c] = "down" /\ at'[c] = "stuck")
        BY <1>3, <3>3 DEF FetchIce, ConnectFails, Open, KeyRefused
      <4> QED BY <1>1, <3>1, <3>3, <4>1, <4>2 DEF GuestThere, Self
    <3> QED BY <3>2, <3>3
  <2> QED BY <2>1, <2>2 DEF There
<1>4. CASE Reconnect(c)
  <2>1. sock[c] = "down" /\ sock' = [sock EXCEPT ![c] = "up"] /\ at' = at
    BY <1>4 DEF Reconnect
  <2>2. HostThere'
    BY <1>1, <2>1 DEF There, HostThere
  <2>3. ASSUME NEW h \in Guests PROVE GuestThere(h)'
    BY <1>1, <2>1 DEF There, GuestThere, Self
  <2> QED BY <2>2, <2>3 DEF There
<1>5. CASE StartAgain
  <2>1. /\ at[Host] = "stuck" /\ ~hostIn
        /\ \A h \in Guests : at'[h] = at[h] /\ sock'[h] = sock[h]
    BY <1>5 DEF StartAgain, There, HostThere
  <2>2. HostThere'
    BY <1>1, <2>1 DEF HostThere
  <2>3. \A h \in Guests : GuestThere(h)'
    BY <1>1, <2>1 DEF There, GuestThere, Self
  <2> QED BY <2>2, <2>3 DEF There
<1> QED BY <1>3, <1>4, <1>5

LEMMA ThereNext == TypeOK /\ There /\ [Next]_vars => There'
<1> SUFFICES ASSUME TypeOK, There, [Next]_vars PROVE There'
  OBVIOUS
<1> USE HostsAndGuests DEF server, session, guest, history
<1>1. ASSUME NEW c \in Clients, FetchIce(c) \/ Connect(c) \/ ConnectFails(c) \/ Reconnect(c)
      PROVE  There'
  BY <1>1, ThereStarts, ThereConnects
<1>2. ASSUME NEW c \in Clients, Dispose(c) \/ DisposeEnds(c) \/ Drop(c) PROVE There'
  BY <1>2, ThereDisposed, ThereCut
<1>3. ASSUME NEW g \in Guests,
             Open(g) \/ KeyRefused(g) \/ Retry(g) \/ LeaveTimesOut(g)
      PROVE  There'
  BY <1>3, ThereStarts, ThereRetries
<1>4. ASSUME NEW g \in Guests,
             GuestReads(g) \/ Answer(g) \/ GuestNotices(g) \/ JoinTimesOut(g)
                \/ RetryOffline(g) \/ OldReceiverEnds(g) \/ AnswerRefused(g)
      PROVE  There'
  <2>1. UNCHANGED <<hostIn, members, peer, leaving, sock, life, at, overlapped>>
    BY <1>4 DEF GuestReads, OnOffer, Answer, GuestNotices, JoinTimesOut, RetryOffline, Abandon,
                OldReceiverEnds, AnswerRefused
  <2> QED BY <2>1, ThereSame
<1>5. ASSUME NEW p \in PeerIds,
             Offer(p) \/ ChannelOpens(p) \/ Ready(p) \/ Verified(p) \/ TransferFails(p)
                \/ TransferStalls(p) \/ OfferRefused(p) \/ Lose(p) \/ HostNotices(p) \/ LooseEnd(p)
      PROVE  There'
  <2>1. UNCHANGED <<hostIn, members, peer, leaving, sock, life, at, overlapped>>
    BY <1>5 DEF Offer, ChannelOpens, Ready, Verified, TransferFails, TransferStalls,
       OfferRefused, Lose, HostNotices,
                LooseEnd
  <2> QED BY <2>1, ThereSame
<1>6. CASE HostReads
  <2>1. /\ UNCHANGED <<hostIn, members, peer, leaving, sock, life, overlapped>>
        /\ at' \in {at, [at EXCEPT ![Host] = "ready"]}
    BY <1>6 DEF HostReads
  <2> QED BY <2>1, HostAssumption
          DEF There, HostThere, GuestThere, Self, TypeOK, SessionsOK
<1>7. CASE Sweep
  BY <1>7 DEF Sweep, There, HostThere, GuestThere
<1>8. CASE StartAgain \/ Restart
  BY <1>8, ThereStarts, ThereCut
<1>9. CASE UNCHANGED vars
  BY <1>9, ThereSame DEF vars
<1>10. CASE Progress
  BY <1>10, <1>1, <1>2, <1>3, <1>4, <1>5, <1>6 DEF Progress
<1>11. CASE Otherwise
  BY <1>11, <1>1, <1>2, <1>3, <1>4, <1>5, <1>7, <1>8 DEF Otherwise
<1> QED BY <1>9, <1>10, <1>11 DEF Next

\* A session that was disposed of leaves nobody in the room, with retries and requests
\* of its own still under way.
THEOREM NobodyIsLeftBehind == Spec => []DisposedLeavesNothing
<1>1. TypeOK /\ There => DisposedLeavesNothing
  <2> SUFFICES ASSUME TypeOK, There PROVE DisposedLeavesNothing
    OBVIOUS
  <2>1. life[Host] = "gone" => ~hostIn
    BY DEF There, HostThere
  <2>2. ASSUME ~overlapped, NEW p \in members PROVE life[GuestOf(p)] # "gone"
    <3>1. GuestOf(p) \in Guests
      BY DEF TypeOK, ServerOK, PeerIds, GuestOf
    <3>2. sock[GuestOf(p)] = "up"
      BY <2>2, <3>1 DEF There, GuestThere
    <3> QED BY <3>1, <3>2, HostsAndGuests DEF TypeOK, SessionsOK
  <2> QED BY <2>1, <2>2 DEF DisposedLeavesNothing
<1> QED BY TypeInit, TypeNext, ThereInit, ThereNext, <1>1, PTL DEF Spec

-----------------------------------------------------------------------------
(* The host's connections follow the room.  What the server has told the     *)
(* host and the host has not read makes up the difference, told in the order *)
(* it happened; and the ids of the room are never used twice.                *)

\* An inbox tells of a peer's coming or going.
Tells(box, type, p) == \E i \in DOMAIN box : box[i].type = type /\ box[i].peer = p

TellsInOrder(box) == \A i, j \in DOMAIN box :
    box[i].type = "joined" /\ box[j].type = "left" /\ box[i].peer = box[j].peer => i < j

LEMMA TellsAppended ==
    ASSUME NEW box \in Seq(Events), NEW e \in Events, NEW type, NEW p
    PROVE  Tells(Append(box, e), type, p) <=>
               Tells(box, type, p) \/ (e.type = type /\ e.peer = p)
<1>1. /\ DOMAIN box = 1 .. Len(box) /\ DOMAIN Append(box, e) = 1 .. Len(box) + 1
      /\ Len(box) \in Nat
  OBVIOUS
<1>2. /\ \A i \in 1 .. Len(box) : Append(box, e)[i] = box[i]
      /\ Append(box, e)[Len(box) + 1] = e
  OBVIOUS
<1> QED BY <1>1, <1>2 DEF Tells

LEMMA TellsRead ==
    ASSUME NEW box \in Seq(Events), box # <<>>, NEW type, NEW p
    PROVE  Tells(box, type, p) <=>
               Tells(Tail(box), type, p) \/ (Head(box).type = type /\ Head(box).peer = p)
<1>1. /\ DOMAIN box = 1 .. Len(box) /\ DOMAIN Tail(box) = 1 .. Len(box) - 1
      /\ Len(box) \in Nat /\ Len(box) > 0
  OBVIOUS
<1>2. /\ \A i \in 1 .. Len(box) - 1 : Tail(box)[i] = box[i + 1]
      /\ Head(box) = box[1]
  OBVIOUS
<1>3. \A i \in 2 .. Len(box) : i - 1 \in 1 .. Len(box) - 1 /\ Tail(box)[i - 1] = box[i]
  BY <1>1, <1>2
<1>4. \A i \in 1 .. Len(box) - 1 : i + 1 \in 1 .. Len(box)
  BY <1>1
<1>5. ASSUME NEW i \in 1 .. Len(box), box[i].type = type, box[i].peer = p, i # 1
      PROVE  Tells(Tail(box), type, p)
  <2>1. i \in 2 .. Len(box)
    BY <1>1, <1>5
  <2> QED BY <1>1, <1>3, <1>5, <2>1 DEF Tells
<1>6. Tells(box, type, p) =>
          Tells(Tail(box), type, p) \/ (Head(box).type = type /\ Head(box).peer = p)
  BY <1>1, <1>2, <1>5 DEF Tells
<1>7. Tells(Tail(box), type, p) => Tells(box, type, p)
  BY <1>1, <1>2, <1>4 DEF Tells
<1>8. Head(box).type = type /\ Head(box).peer = p => Tells(box, type, p)
  BY <1>1, <1>2 DEF Tells
<1> QED BY <1>6, <1>7, <1>8

LEMMA TellsNothing == \A type, p : ~Tells(<<>>, type, p)
BY DEF Tells

LEMMA OrderAppended ==
    ASSUME NEW box \in Seq(Events), NEW e \in Events, TellsInOrder(box),
           e.type = "joined" => ~Tells(box, "left", e.peer)
    PROVE  TellsInOrder(Append(box, e))
<1>1. /\ DOMAIN box = 1 .. Len(box) /\ DOMAIN Append(box, e) = 1 .. Len(box) + 1
      /\ Len(box) \in Nat
  OBVIOUS
<1>2. /\ \A i \in 1 .. Len(box) : Append(box, e)[i] = box[i]
      /\ Append(box, e)[Len(box) + 1] = e
  OBVIOUS
<1> SUFFICES ASSUME NEW i \in 1 .. Len(box) + 1, NEW j \in 1 .. Len(box) + 1,
                    Append(box, e)[i].type = "joined", Append(box, e)[j].type = "left",
                    Append(box, e)[i].peer = Append(box, e)[j].peer
             PROVE  i < j
  BY <1>1 DEF TellsInOrder
<1>3. CASE i \in 1 .. Len(box) /\ j \in 1 .. Len(box)
  BY <1>1, <1>2, <1>3 DEF TellsInOrder
<1>4. CASE i \in 1 .. Len(box) /\ j = Len(box) + 1
  BY <1>1, <1>4
<1>5. CASE i = Len(box) + 1 /\ j \in 1 .. Len(box)
  BY <1>1, <1>2, <1>5 DEF Tells
<1>6. CASE i = Len(box) + 1 /\ j = Len(box) + 1
  BY <1>2, <1>6
<1> QED BY <1>1, <1>3, <1>4, <1>5, <1>6

LEMMA OrderRead ==
    ASSUME NEW box \in Seq(Events), box # <<>>, TellsInOrder(box)
    PROVE  /\ TellsInOrder(Tail(box))
           /\ Head(box).type = "left" => ~Tells(Tail(box), "joined", Head(box).peer)
<1>1. /\ DOMAIN box = 1 .. Len(box) /\ DOMAIN Tail(box) = 1 .. Len(box) - 1
      /\ Len(box) \in Nat /\ Len(box) > 0
  OBVIOUS
<1>2. /\ \A i \in 1 .. Len(box) - 1 : i + 1 \in 1 .. Len(box) /\ Tail(box)[i] = box[i + 1]
      /\ Head(box) = box[1] /\ 1 \in 1 .. Len(box)
  OBVIOUS
<1>3. TellsInOrder(Tail(box))
  <2> SUFFICES ASSUME NEW i \in 1 .. Len(box) - 1, NEW j \in 1 .. Len(box) - 1,
                      Tail(box)[i].type = "joined", Tail(box)[j].type = "left",
                      Tail(box)[i].peer = Tail(box)[j].peer
               PROVE  i < j
    BY <1>1 DEF TellsInOrder
  <2>1. i + 1 < j + 1
    BY <1>1, <1>2 DEF TellsInOrder
  <2> QED BY <2>1
<1>4. ASSUME Head(box).type = "left", NEW i \in 1 .. Len(box) - 1,
             Tail(box)[i].type = "joined", Tail(box)[i].peer = Head(box).peer
      PROVE  FALSE
  <2>1. i + 1 < 1
    BY <1>1, <1>2, <1>4 DEF TellsInOrder
  <2> QED BY <2>1
<1> QED BY <1>1, <1>3, <1>4 DEF Tells


\* What the host has not read yet.
Box == inbox[Host]
Heard(p) == Tells(Box, "joined", p) \/ Tells(Box, "left", p)
Known(p) == p[2] <= given[p[1]]

KnownOnes == \A p \in PeerIds : p \in members \/ end[p] # "none" \/ Heard(p) => Known(p)

Beginning == at[Host] # "ready" =>
    /\ \A g \in Guests : at[g] = "new"
    /\ \A p \in PeerIds : p \notin members /\ end[p] = "none" /\ ~Heard(p)

MadeUp(p) ==
    IF p \in members THEN /\ ~Tells(Box, "left", p)
                          /\ p \in Slots \/ Tells(Box, "joined", p)
                     ELSE p \in Slots \/ Tells(Box, "joined", p) => Tells(Box, "left", p)

Hosting == hostIn /\ life[Host] = "live"

Following ==
    /\ TellsInOrder(Box) /\ KnownOnes /\ Beginning
    /\ Hosting => \A p \in PeerIds : MadeUp(p)

LEMMA BoxType == TypeOK => Box \in Seq(Events) /\ (TypeOK' => Box' \in Seq(Events))
BY HostsAndGuests DEF TypeOK, ServerOK, Box

\* Sessions start once, and a guest's after the host's.
LEMMA AtStep ==
    ASSUME TypeOK, [Next]_vars, at'[Host] # "ready"
    PROVE  /\ at[Host] # "ready"
           /\ \A g \in Guests : at[g] = "new" => at'[g] = "new"
<1> DEFINE Goal == /\ at[Host] # "ready"
                   /\ \A g \in Guests : at[g] = "new" => at'[g] = "new"
<1> USE HostsAndGuests, HostAssumption DEF TypeOK, SessionsOK
<1>1. CASE UNCHANGED at
  BY <1>1
<1>2. ASSUME NEW c \in Clients,
             FetchIce(c) \/ Connect(c) \/ ConnectFails(c) \/ (c \in Guests /\ KeyRefused(c))
      PROVE  Goal
  BY <1>2 DEF FetchIce, Connect, ConnectFails, KeyRefused
<1>3. ASSUME NEW g \in Guests, Open(g) PROVE Goal
  BY <1>3 DEF Open
<1>4. CASE StartAgain
  BY <1>4 DEF StartAgain
<1>5. CASE HostReads
  BY <1>5 DEF HostReads
<1>6. ASSUME NEW cut, CutOff(cut) PROVE Goal
  BY <1>6 DEF CutOff
<1>7. ASSUME NEW c \in Clients, DisposeEnds(c) \/ Dispose(c) \/ Reconnect(c) PROVE at' = at
  BY <1>7 DEF DisposeEnds, Dispose, Reconnect
<1>8. ASSUME NEW g \in Guests,
             GuestReads(g) \/ Answer(g) \/ LeaveTimesOut(g) \/ GuestNotices(g)
               \/ JoinTimesOut(g) \/ Retry(g) \/ RetryOffline(g) \/ OldReceiverEnds(g)
               \/ AnswerRefused(g)
      PROVE  at' = at
  BY <1>8 DEF GuestReads, Answer, LeaveTimesOut, GuestNotices, JoinTimesOut, Retry, RetryOffline,
              OldReceiverEnds, AnswerRefused, session
<1>9. ASSUME NEW p \in PeerIds,
             Offer(p) \/ Ready(p) \/ Verified(p) \/ ChannelOpens(p) \/ LooseEnd(p)
               \/ TransferFails(p) \/ TransferStalls(p) \/ OfferRefused(p) \/ Lose(p)
               \/ HostNotices(p)
      PROVE  at' = at
  BY <1>9 DEF Offer, Ready, Verified, ChannelOpens, LooseEnd, TransferFails, TransferStalls,
     OfferRefused, Lose, HostNotices, session
<1>10. CASE Sweep
  BY <1>10 DEF Sweep, session
<1>11. CASE Restart \/ \E c \in Clients : Drop(c)
  BY <1>6, <1>11 DEF Restart, Drop
<1>12. CASE UNCHANGED vars
  BY <1>12 DEF vars, session
<1>13. CASE Progress
  BY <1>1, <1>2, <1>5, <1>7, <1>8, <1>9, <1>13 DEF Progress
<1>14. CASE Otherwise
  BY <1>1, <1>2, <1>3, <1>4, <1>7, <1>8, <1>9, <1>10, <1>11, <1>14 DEF Otherwise
<1> QED BY <1>12, <1>13, <1>14 DEF Next

\* What a step does to the room, as the host learns of it.
SameSlots == \A p \in PeerIds : /\ p \in Slots' <=> p \in Slots
                                /\ end'[p] = "none" <=> end[p] = "none"

Quiet ==
    /\ UNCHANGED <<hostIn, members, given>> /\ SameSlots
    /\ life'[Host] = "live" => life[Host] = "live"
    /\ \/ Box' = Box
       \/ \E e \in Events : e.type = "answer" /\ Box' = Append(Box, e)

Ends ==
    /\ ~Hosting' /\ members' \in {members, {}} /\ given' = given
    /\ \A p \in PeerIds : end'[p] = "none" <=> end[p] = "none"
    /\ Box' \in {Box, <<>>}

Comes(g) == LET p == <<g, given[g] + 1>> IN
    /\ at[g] # "new" /\ p \in PeerIds
    /\ UNCHANGED hostIn /\ SameSlots /\ life'[Host] = life[Host]
    /\ given' = [given EXCEPT ![g] = @ + 1]
    /\ members' = members \union {p}
    /\ Box' = IF hostIn THEN Append(Box, Event("joined", p, None)) ELSE Box

Goes(g) ==
    /\ UNCHANGED <<hostIn, given>> /\ SameSlots /\ life'[Host] = life[Host]
    /\ Self(g) \in members
    /\ members' = members \ {Self(g)}
    /\ Box' = IF hostIn THEN Append(Box, Event("left", Self(g), None)) ELSE Box

HostComes ==
    /\ at[Host] # "ready"
    /\ UNCHANGED <<members, given>> /\ SameSlots
    /\ \E e \in Events : e.type = "created" /\ Box' = Append(Box, e)

LEMMA SlotsSame ==
    ASSUME end' = end PROVE SameSlots
BY DEF Slots, SameSlots

LEMMA JoinComes ==
    ASSUME TypeOK, NEW g \in Guests, Join(g), at[g] # "new", given[g] < MostJoins, end' = end,
           life'[Host] = life[Host]
    PROVE  Comes(g) \/ Quiet
<1> USE HostsAndGuests, HostAssumption DEF TypeOK, ServerOK
<1>1. CASE RoomOpen
  <2> DEFINE p == <<g, given[g] + 1>>
             box == Told(inbox, g, Event("welcome", p, None))
  <2>1. p \in PeerIds
    BY MostJoinsAssumption DEF PeerIds
  <2>2. /\ given' = [given EXCEPT ![g] = @ + 1]
        /\ members' = members \union {p} /\ hostIn' = hostIn
        /\ inbox' = IF hostIn THEN Told(box, Host, Event("joined", p, None)) ELSE box
    BY <1>1 DEF Join
  <2>3. /\ box[Host] = inbox[Host] /\ box \in [Clients -> Seq(Events)]
    <3>1. Event("welcome", p, None) \in Events
      BY <2>1, EventTypes
    <3> QED BY <3>1, InboxTold DEF Told
  <2>4. Box' = IF hostIn THEN Append(Box, Event("joined", p, None)) ELSE Box
    <3> HIDE DEF box, p
    <3> QED BY <2>2, <2>3 DEF Told, Box
  <2> QED BY <2>1, <2>2, <2>4, SlotsSame DEF Comes
<1>2. CASE ~RoomOpen
  <2>1. Box' = Box /\ UNCHANGED <<hostIn, members, given>>
    BY <1>2 DEF Join, Told, Box
  <2> QED BY <2>1, SlotsSame DEF Quiet
<1> QED BY <1>1, <1>2

LEMMA LeaveGoes ==
    ASSUME TypeOK, NEW g \in Guests, NEW links, NEW box \in [Clients -> Seq(Events)],
           Leave(g, links, box), box[Host] = inbox[Host], end' = end, life'[Host] = life[Host]
    PROVE  Goes(g) \/ Quiet
<1> USE HostsAndGuests, HostAssumption DEF TypeOK, ServerOK
<1>1. /\ members' = members \ {Self(g)} /\ UNCHANGED <<hostIn, given>>
      /\ Box' = IF Self(g) \in members /\ hostIn
                THEN Append(Box, Event("left", Self(g), None)) ELSE Box
  BY DEF Leave, Told, Box
<1>2. CASE Self(g) \in members
  BY <1>1, <1>2, SlotsSame DEF Goes
<1>3. CASE Self(g) \notin members
  <2>1. members' = members /\ Box' = Box
    BY <1>1, <1>3
  <2> QED BY <1>1, <2>1, SlotsSame DEF Quiet
<1> QED BY <1>2, <1>3

\* All that a step of the system can be, to the host's connections.
RoomStep == Quiet \/ Ends \/ (\E g \in Guests : Comes(g) \/ Goes(g)) \/ HostComes \/ HostReads

\* Nothing the host learns of.
LEMMA RoomQuiet ==
    ASSUME TypeOK, [Next]_vars, UNCHANGED <<hostIn, members, given>>, Box' = Box,
           SameSlots
    PROVE  RoomStep
BY ListStep DEF RoomStep, Quiet

LEMMA RoomStarts ==
    ASSUME TypeOK, [Next]_vars, NEW c \in Clients,
           FetchIce(c) \/ ConnectFails(c) \/ Reconnect(c) \/ StartAgain
             \/ (c \in Guests /\ (Open(c) \/ KeyRefused(c) \/ RetryOffline(c)
                                    \/ GuestNotices(c) \/ OldReceiverEnds(c)
                                    \/ AnswerRefused(c)))
    PROVE  RoomStep
<1>1. UNCHANGED server /\ UNCHANGED host
  BY DEF FetchIce, ConnectFails, Reconnect, StartAgain, Open, KeyRefused, RetryOffline,
         GuestNotices, OldReceiverEnds, AnswerRefused
<1> QED BY <1>1, RoomQuiet, SlotsSame DEF server, host, Box

LEMMA RoomEnds ==
    ASSUME TypeOK, [Next]_vars, NEW p \in PeerIds,
           LooseEnd(p) \/ Ready(p) \/ Verified(p) \/ TransferFails(p) \/ TransferStalls(p)
             \/ OfferRefused(p) \/ Offer(p)
             \/ ChannelOpens(p) \/ Lose(p) \/ HostNotices(p)
    PROVE  RoomStep
<1> USE HostAssumption, HostsAndGuests DEF TypeOK, HostOK, ServerOK
<1>1. CASE LooseEnd(p) \/ Ready(p) \/ Verified(p) \/ TransferFails(p) \/ TransferStalls(p)
  <2>1. UNCHANGED server /\ end' = end
    BY <1>1 DEF LooseEnd, Ready, Verified, TransferFails, TransferStalls
  <2> QED BY <2>1, RoomQuiet, SlotsSame DEF server, Box
<1>2. CASE OfferRefused(p) \/ ChannelOpens(p) \/ Lose(p) \/ HostNotices(p)
  <2>1. UNCHANGED server
    BY <1>2 DEF OfferRefused, ChannelOpens, Lose, HostNotices
  <2>2. /\ end[p] \notin {"none", "closed"}
        /\ \E e \in {"unheard", "open", "failed"} : end' = [end EXCEPT ![p] = e]
    BY <1>2 DEF OfferRefused, ChannelOpens, Lose, HostNotices
  <2>3. SameSlots
    BY <2>2 DEF SameSlots, Slots
  <2> QED BY <2>1, <2>3, RoomQuiet DEF server, Box
<1>3. CASE Offer(p)
  <2>1. end[p] = "starting" /\ end' = [end EXCEPT ![p] = "offered"]
    BY <1>3 DEF Offer
  <2>2. SameSlots
    BY <2>1 DEF SameSlots, Slots
  <2>3. GuestOf(p) # Host
    BY DEF PeerIds, GuestOf
  <2>4. Box' = Box /\ UNCHANGED <<hostIn, members, given>>
    BY <1>3, <2>3 DEF Offer, Told, Box
  <2> QED BY <2>2, <2>4, RoomQuiet
<1> QED BY <1>1, <1>2, <1>3

LEMMA RoomTalks ==
    ASSUME TypeOK, [Next]_vars, NEW g \in Guests,
           GuestReads(g) \/ JoinTimesOut(g) \/ Answer(g)
    PROVE  RoomStep
<1> USE HostAssumption, HostsAndGuests DEF TypeOK, ServerOK, GuestsOK
<1>1. UNCHANGED <<hostIn, members, given>> /\ end' = end
  BY DEF GuestReads, JoinTimesOut, Answer, host
<1>2. CASE GuestReads(g) \/ JoinTimesOut(g)
  <2>1. Box' = Box
    BY <1>2 DEF GuestReads, JoinTimesOut, Box
  <2> QED BY <1>1, <2>1, SlotsSame, RoomQuiet
<1>3. CASE Answer(g)
  <2> DEFINE e == Event("answer", Self(g), offer[g])
  <2>1. Box' = IF sock[g] = "up" /\ Self(g) \in members /\ hostIn THEN Append(Box, e) ELSE Box
    BY <1>3 DEF Answer, Told, Box
  <2>2. Self(g) \in members => e \in Events /\ e.type = "answer"
    <3>1. offer[g] \in PeerIds
      BY <1>3 DEF Answer
    <3> QED BY <3>1, EventTypes DEF Event
  <2> HIDE DEF e
  <2>3. Box' = Box \/ \E x \in Events : x.type = "answer" /\ Box' = Append(Box, x)
    BY <2>1, <2>2
  <2>4. life'[Host] = "live" => life[Host] = "live"
    BY ListStep
  <2> QED BY <1>1, <2>3, <2>4, SlotsSame DEF RoomStep, Quiet
<1> QED BY <1>2, <1>3

LEMMA RoomJoins ==
    ASSUME TypeOK, There, [Next]_vars, NEW g \in Guests,
           Connect(g) \/ LeaveTimesOut(g) \/ Retry(g)
    PROVE  RoomStep
<1> USE HostAssumption, HostsAndGuests
        DEF TypeOK, HostOK, ServerOK, GuestsOK, SessionsOK, HistoryOK
<1>1. end' = end /\ life'[Host] = life[Host]
  BY DEF Connect, LeaveTimesOut, Retry, host, session
<1>2. CASE Connect(g)
  <2>1. Join(g) /\ at[g] = "connecting"
    BY <1>2 DEF Connect
  <2>2. given[g] < MostJoins
    BY <2>1, MostJoinsAssumption DEF JoinsOK, Joining
  <2> QED BY <1>1, <2>1, <2>2, JoinComes DEF RoomStep
<1>3. CASE LeaveTimesOut(g)
  <2>1. Join(g) /\ leaving[g] > 0
    BY <1>3 DEF LeaveTimesOut
  <2>2. given[g] < MostJoins
    <3>1. given[g] \in Nat /\ leaving[g] \in Nat /\ tries[g] \in Nat /\ Joining(g) \in {0, 1}
      BY JoiningType
    <3>2. given[g] + leaving[g] + tries[g] + Joining(g) <= MostJoins
      BY DEF JoinsOK
    <3> QED BY ONLY <2>1, <3>1, <3>2, MostJoinsAssumption
  <2>3. at[g] # "new"
    <3>1. GuestThere(g)
      BY DEF There
    <3>2. sock[g] = "up"
      BY <2>1, <3>1 DEF GuestThere
    <3> QED BY <3>1, <3>2 DEF GuestThere
  <2> QED BY <1>1, <2>1, <2>2, <2>3, JoinComes DEF RoomStep
<1>4. CASE Retry(g)
  <2>1. Leave(g, linked, inbox)
    BY <1>4 DEF Retry
  <2> QED BY <1>1, <2>1, LeaveGoes DEF RoomStep
<1> QED BY <1>2, <1>3, <1>4

LEMMA RoomLeaves ==
    ASSUME TypeOK, [Next]_vars, NEW c \in Clients, Dispose(c) \/ DisposeEnds(c) \/ Drop(c)
    PROVE  RoomStep
<1> USE HostAssumption, HostsAndGuests
        DEF TypeOK, HostOK, ServerOK, SessionsOK
<1>1. CASE c = Host
  <2>1. ~Hosting'
    BY <1>1 DEF Dispose, DisposeEnds, Drop, HostLeaves, Hosting
  <2>2. \A p \in PeerIds : end'[p] = "none" <=> end[p] = "none"
    BY <1>1 DEF Dispose, DisposeEnds, Drop, CutOff, CloseAll, Slots, host
  <2>3. UNCHANGED server \/ HostLeaves(inbox) \/ HostLeaves(Unread(Host))
    BY <1>1 DEF Dispose, DisposeEnds, Drop, Disconnect
  <2>4. members' = members /\ given' = given /\ Box' \in {Box, <<>>}
    BY <2>3 DEF HostLeaves, server, Unread, Box
  <2> QED BY <2>1, <2>2, <2>4 DEF RoomStep, Ends
<1>2. CASE c \in Guests
  <2>1. c # Host
    BY <1>2
  <2>2. end' = end /\ life'[Host] = life[Host]
    BY <1>2, <2>1 DEF Dispose, DisposeEnds, Drop, CutOff, host
  <2>3. UNCHANGED server \/ Leave(c, linked, inbox) \/ Leave(c, Unlinked(c), Unread(c))
    BY <2>1 DEF Dispose, DisposeEnds, Drop, Disconnect
  <2>4. CASE UNCHANGED server
    BY <2>2, <2>4, RoomQuiet, SlotsSame DEF server, Box
  <2>5. CASE Leave(c, linked, inbox)
    BY <1>2, <2>2, <2>5, LeaveGoes DEF RoomStep
  <2>6. CASE Leave(c, Unlinked(c), Unread(c))
    <3>1. Unread(c) \in [Clients -> Seq(Events)] /\ Unread(c)[Host] = inbox[Host]
      BY <2>1, InboxUnread DEF Unread
    <3> QED BY <1>2, <2>2, <2>6, <3>1, LeaveGoes DEF RoomStep
  <2> QED BY <2>3, <2>4, <2>5, <2>6
<1> QED BY <1>1, <1>2 DEF Clients

LEMMA RoomNext == TypeOK /\ There /\ [Next]_vars => RoomStep
<1> SUFFICES ASSUME TypeOK, There, [Next]_vars PROVE RoomStep
  OBVIOUS
<1> USE HostAssumption, HostsAndGuests
<1>1. ASSUME Connect(Host) PROVE RoomStep
  <2> DEFINE e == Event("created", None, None)
  <2>1. Box' = Append(Box, e) /\ at[Host] = "connecting"
        /\ UNCHANGED <<members, given>> /\ end' = end
    BY <1>1 DEF Connect, Told, Box, TypeOK, ServerOK, host
  <2>2. e \in Events /\ e.type = "created"
    BY EventTypes DEF Event
  <2> HIDE DEF e
  <2>3. HostComes
    BY <2>1, <2>2, SlotsSame DEF HostComes
  <2> QED BY <2>3 DEF RoomStep
<1>2. CASE Sweep \/ Restart
  <2>1. /\ hostIn' = FALSE /\ members' = {} /\ given' = given /\ end' = end
        /\ Box' \in {Box, <<>>}
    BY <1>2 DEF Sweep, Restart, CutOff, host, Box
  <2> QED BY <2>1 DEF RoomStep, Ends, Hosting
<1>3. CASE UNCHANGED vars
  BY <1>3, RoomQuiet, SlotsSame DEF vars, server, host, Box
<1>4. CASE HostReads
  BY <1>4 DEF RoomStep
<1>5. CASE Progress
  <2>1. ASSUME NEW c \in Clients, FetchIce(c) \/ Connect(c) \/ DisposeEnds(c) PROVE RoomStep
    BY <2>1, <1>1, RoomStarts, RoomJoins, RoomLeaves DEF Clients
  <2>2. ASSUME NEW g \in Guests, GuestReads(g) \/ Answer(g) \/ LeaveTimesOut(g) \/ GuestNotices(g)
        PROVE RoomStep
    BY <2>2, RoomStarts, RoomJoins, RoomTalks
  <2>3. ASSUME NEW p \in PeerIds, Offer(p) \/ Ready(p) \/ Verified(p) \/ ChannelOpens(p)
        PROVE RoomStep
    BY <2>3, RoomEnds
  <2> QED BY <1>4, <1>5, <2>1, <2>2, <2>3 DEF Progress
<1>6. CASE Otherwise
  <2>1. ASSUME NEW c \in Clients, ConnectFails(c) \/ Dispose(c) \/ Drop(c) \/ Reconnect(c)
        PROVE RoomStep
    BY <2>1, RoomStarts, RoomLeaves
  <2>2. ASSUME NEW g \in Guests,
               Open(g) \/ KeyRefused(g) \/ JoinTimesOut(g) \/ Retry(g) \/ RetryOffline(g)
                  \/ OldReceiverEnds(g) \/ AnswerRefused(g)
        PROVE RoomStep
    BY <2>2, RoomStarts, RoomJoins, RoomTalks
  <2>3. ASSUME NEW p \in PeerIds,
               LooseEnd(p) \/ TransferFails(p) \/ TransferStalls(p) \/ OfferRefused(p)
                 \/ Lose(p) \/ HostNotices(p) \/ ChannelOpens(p)
        PROVE RoomStep
    BY <2>3, RoomEnds
  <2>4. StartAgain => RoomStep
    BY RoomStarts
  <2> QED BY <1>2, <1>6, <2>1, <2>2, <2>3, <2>4 DEF Otherwise
<1> QED BY <1>3, <1>5, <1>6 DEF Next

LEMMA FollowingInit == Init => Following
<1> SUFFICES ASSUME Init PROVE Following
  OBVIOUS
<1>1. Box = <<>> /\ \A type, p : ~Tells(Box, type, p)
  BY HostsAndGuests, TellsNothing DEF Init, Box
<1>2. TellsInOrder(Box)
  BY <1>1 DEF TellsInOrder
<1>3. KnownOnes /\ Beginning
  BY <1>1, HostAssumption, HostsAndGuests DEF Init, KnownOnes, Beginning, Heard
<1> QED BY <1>2, <1>3 DEF Init, Following, Hosting

LEMMA FollowingQuiet ==
    ASSUME TypeOK, TypeOK', Following, Quiet, [Next]_vars
    PROVE  Following'
<1>1. Box \in Seq(Events) /\ SameSlots /\ UNCHANGED <<hostIn, members, given>>
  BY BoxType DEF Quiet
<1>2. /\ TellsInOrder(Box')
      /\ \A type \in {"joined", "left"}, p \in PeerIds :
             Tells(Box', type, p) <=> Tells(Box, type, p)
  <2>1. CASE Box' = Box
    BY <2>1 DEF Following
  <2>2. ASSUME NEW e \in Events, e.type = "answer", Box' = Append(Box, e)
        PROVE  <1>2!1 /\ <1>2!2
    BY <1>1, <2>2, TellsAppended, OrderAppended DEF Following
  <2> QED BY <2>1, <2>2 DEF Quiet
<1>3. \A p \in PeerIds : Heard(p)' <=> Heard(p)
  BY <1>2 DEF Heard
<1>4. KnownOnes'
  BY <1>1, <1>3 DEF Following, KnownOnes, Known, SameSlots
<1>5. Beginning'
  BY <1>1, <1>3, AtStep DEF Following, Beginning, SameSlots
<1>6. Hosting' => Hosting
  BY DEF Hosting, Quiet
<1>7. Hosting' => \A p \in PeerIds : MadeUp(p)'
  BY <1>1, <1>2, <1>6 DEF Following, MadeUp, SameSlots
<1> QED BY <1>2, <1>4, <1>5, <1>7 DEF Following

LEMMA FollowingEnds ==
    ASSUME TypeOK, TypeOK', Following, Ends, [Next]_vars
    PROVE  Following'
<1>1. /\ TellsInOrder(Box')
      /\ \A p \in PeerIds : Heard(p)' => Heard(p)
  <2>1. CASE Box' = Box
    BY <2>1 DEF Following, Heard
  <2>2. CASE Box' = <<>>
    BY <2>2, TellsNothing DEF TellsInOrder, Heard
  <2> QED BY <2>1, <2>2 DEF Ends
<1>2. KnownOnes'
  BY <1>1 DEF Following, KnownOnes, Known, Ends
<1>3. Beginning'
  BY <1>1, AtStep DEF Following, Beginning, Ends
<1> QED BY <1>1, <1>2, <1>3 DEF Following, Ends

\* A new peer has a new id, so nothing in the box tells of it.
LEMMA FollowingComes ==
    ASSUME TypeOK, TypeOK', Following, NEW g \in Guests, Comes(g), [Next]_vars
    PROVE  Following'
<1>0. PICK q \in PeerIds : q = <<g, given[g] + 1>>
  BY DEF Comes
<1> DEFINE e == Event("joined", q, None)
<1>1. /\ at[g] # "new" /\ q \in PeerIds
      /\ hostIn' = hostIn /\ SameSlots /\ life'[Host] = life[Host]
      /\ given' = [given EXCEPT ![g] = @ + 1]
      /\ members' = members \union {q}
      /\ Box' = IF hostIn THEN Append(Box, e) ELSE Box
  BY <1>0 DEF Comes
<1>2. Box \in Seq(Events) /\ e \in Events /\ e.type = "joined" /\ e.peer = q
  BY <1>1, BoxType, EventTypes DEF Event
<1>3. \A p \in PeerIds : p[1] \in Guests /\ p[2] \in Nat /\ given[p[1]] \in Nat
  BY MostJoinsAssumption DEF PeerIds, TypeOK, ServerOK
<1>4. ~Known(q) /\ Known(q)' /\ \A p \in PeerIds : Known(p) => Known(p)'
  <2>1. ~Known(q) /\ Known(q)'
    BY <1>0, <1>1, <1>3 DEF Known, TypeOK, ServerOK
  <2>2. \A p \in PeerIds : given'[p[1]] >= given[p[1]]
    BY <1>1, <1>3 DEF TypeOK, ServerOK
  <2> QED BY <1>3, <1>1, <2>1, <2>2 DEF Known, TypeOK, ServerOK
<1> HIDE DEF e
<1>5. q \notin members /\ q \notin Slots /\ ~Heard(q)
  BY <1>1, <1>4 DEF Following, KnownOnes, Slots
<1>6. \A type, p : Tells(Box', type, p) <=>
                       Tells(Box, type, p) \/ (hostIn /\ type = "joined" /\ p = q)
  BY <1>1, <1>2, TellsAppended
<1>7. TellsInOrder(Box')
  BY <1>1, <1>2, <1>5, OrderAppended DEF Following, Heard
<1>8. KnownOnes'
  BY <1>1, <1>4, <1>6 DEF Following, KnownOnes, Heard, SameSlots
<1>9. Beginning'
  BY <1>1, AtStep DEF Following, Beginning
<1>10. ASSUME Hosting', NEW p \in PeerIds PROVE MadeUp(p)'
  <2>1. Hosting
    BY <1>1, <1>10 DEF Hosting
  <2>2. MadeUp(p) /\ hostIn
    BY <2>1 DEF Following, Hosting
  <2>3. p \in Slots' <=> p \in Slots
    BY <1>1 DEF SameSlots
  <2>4. CASE p = q
    <3>1. p \in members' /\ Tells(Box', "joined", p) /\ ~Tells(Box', "left", p)
      BY <1>1, <1>5, <1>6, <2>2, <2>4 DEF Heard
    <3> QED BY <3>1 DEF MadeUp
  <2>5. CASE p # q
    BY <1>1, <1>6, <2>2, <2>3, <2>5 DEF MadeUp
  <2> QED BY <2>4, <2>5
<1> QED BY <1>7, <1>8, <1>9, <1>10 DEF Following

LEMMA FollowingGoes ==
    ASSUME TypeOK, TypeOK', Following, NEW g \in Guests, Goes(g), [Next]_vars
    PROVE  Following'
<1> DEFINE q == Self(g)
           e == Event("left", q, None)
<1>1. /\ UNCHANGED <<hostIn, given>> /\ SameSlots /\ life'[Host] = life[Host]
      /\ q \in members /\ q \in PeerIds /\ members' = members \ {q}
      /\ Box' = IF hostIn THEN Append(Box, e) ELSE Box
  BY DEF Goes, TypeOK, ServerOK
<1>2. Box \in Seq(Events) /\ e \in Events /\ e.type = "left" /\ e.peer = q
  BY <1>1, BoxType, EventTypes DEF Event
<1> HIDE DEF q, e
<1>3. \A type, p : Tells(Box', type, p) <=>
                       Tells(Box, type, p) \/ (hostIn /\ type = "left" /\ p = q)
  BY <1>1, <1>2, TellsAppended
<1>4. TellsInOrder(Box')
  BY <1>1, <1>2, OrderAppended DEF Following
<1>5. KnownOnes'
  BY <1>1, <1>3 DEF Following, KnownOnes, Known, Heard, SameSlots
<1>6. Beginning'
  BY <1>1, AtStep DEF Following, Beginning
<1>7. ASSUME Hosting', NEW p \in PeerIds PROVE MadeUp(p)'
  <2>1. MadeUp(p) /\ hostIn
    BY <1>1, <1>7 DEF Following, Hosting
  <2> QED BY <1>1, <1>3, <2>1 DEF MadeUp, SameSlots
<1> QED BY <1>4, <1>5, <1>6, <1>7 DEF Following

\* The host's own coming finds an empty room and no connections.
LEMMA FollowingHostComes ==
    ASSUME TypeOK, TypeOK', Following, HostComes, [Next]_vars
    PROVE  Following'
<1>1. PICK e \in Events : e.type = "created" /\ Box' = Append(Box, e)
  BY DEF HostComes
<1>2. Box \in Seq(Events) /\ SameSlots /\ UNCHANGED <<members, given>>
  BY BoxType DEF HostComes
<1>3. \A p : /\ Tells(Box', "joined", p) <=> Tells(Box, "joined", p)
             /\ Tells(Box', "left", p) <=> Tells(Box, "left", p)
  BY <1>1, <1>2, TellsAppended
<1>4. TellsInOrder(Box')
  BY <1>1, <1>2, OrderAppended DEF Following
<1>5. \A p \in PeerIds : p \notin members' /\ end'[p] = "none" /\ ~Heard(p)'
  BY <1>2, <1>3 DEF Following, Beginning, Heard, SameSlots, HostComes
<1>6. Beginning'
  BY <1>5, AtStep DEF Following, Beginning
<1>7. \A p \in PeerIds : MadeUp(p)'
  BY <1>5 DEF MadeUp, Slots, Heard
<1> QED BY <1>4, <1>5, <1>6, <1>7 DEF Following, KnownOnes

\* The host reads of a peer's coming before it reads of its going, so what it has
\* made of both is what the rest of the box is to be added to.
LEMMA FollowingReads ==
    ASSUME TypeOK, TypeOK', Following, HostReads, [Next]_vars
    PROVE  Following'
<1> DEFINE H == Head(Box)
<1>0. PICK e \in Events : e = H
  BY HostsAndGuests, InboxRead DEF HostReads, TypeOK, Box
<1>1. /\ UNCHANGED <<hostIn, members, given, life>> /\ Box # <<>> /\ Box' = Tail(Box)
      /\ \A g \in Guests : at'[g] = at[g]
      /\ at[Host] = "ready" => at'[Host] = "ready"
  BY HostsAndGuests, HostAssumption DEF HostReads, Box, TypeOK, ServerOK, SessionsOK
<1>2. Box \in Seq(Events)
  BY BoxType
<1>3. \A type, p : Tells(Box, type, p) <=>
                       Tells(Box', type, p) \/ (e.type = type /\ e.peer = p)
  BY <1>0, <1>1, <1>2, TellsRead
<1>4. TellsInOrder(Box') /\ (e.type = "left" => ~Tells(Box', "joined", e.peer))
  BY <1>0, <1>1, <1>2, OrderRead DEF Following
<1>5. \/ /\ e.type = "joined" /\ life[Host] = "live" /\ e.peer \in PeerIds
         /\ end' = [end EXCEPT ![e.peer] = "starting"]
      \/ /\ e.type = "left" /\ e.peer \in Slots /\ e.peer \in PeerIds
         /\ end' = [end EXCEPT ![e.peer] = "closed"]
      \/ /\ e.type = "joined" => life[Host] # "live"
         /\ e.type = "left" => e.peer \notin Slots
         /\ SameSlots
  <2>1. \/ e.type = "joined" /\ life[Host] = "live" /\ AddPeer(e.peer)
        \/ e.type = "left" /\ e.peer \in Slots /\ RemovePeer(e.peer)
        \/ e.type = "answer" /\ RouteAnswer(e.peer, e.offer)
        \/ /\ e.type = "joined" => life[Host] # "live"
           /\ e.type = "left" => e.peer \notin Slots
           /\ UNCHANGED host
    BY <1>0 DEF HostReads, Box
  <2>2. e.type \in {"joined", "left", "answer"} => e.peer \in PeerIds
    BY <1>0 DEF Events
  <2>3. RouteAnswer(e.peer, e.offer) => SameSlots
    BY DEF RouteAnswer, SameSlots, Slots, TypeOK, HostOK
  <2>4. UNCHANGED host => SameSlots
    BY SlotsSame DEF host
  <2> QED BY <2>1, <2>2, <2>3, <2>4 DEF AddPeer, RemovePeer
<1>6. \A p \in PeerIds : Heard(p)' => Heard(p)
  BY <1>3 DEF Heard
<1>7. \A p \in PeerIds : end'[p] # "none" /\ end[p] = "none" => p = e.peer /\ e.type = "joined"
  BY <1>5 DEF SameSlots, TypeOK, HostOK, Slots
<1>8. KnownOnes'
  BY <1>1, <1>3, <1>6, <1>7 DEF Following, KnownOnes, Heard, Known
<1>9. Beginning'
  BY <1>1, <1>3, <1>6, <1>7, AtStep DEF Following, Beginning, Heard
<1>10. ASSUME Hosting', NEW p \in PeerIds PROVE MadeUp(p)'
  <2>1. Hosting /\ MadeUp(p) /\ life[Host] = "live"
    BY <1>1, <1>10 DEF Following, Hosting
  <2>2. CASE e.peer # p
    <3>1. p \in Slots' <=> p \in Slots
      BY <1>5, <2>2 DEF SameSlots, Slots, TypeOK, HostOK
    <3> QED BY <1>1, <1>3, <2>1, <2>2, <3>1 DEF MadeUp
  <2>3. CASE e.peer = p /\ e.type = "joined"
    <3>1. p \in Slots'
      BY <1>5, <2>1, <2>3 DEF Slots, TypeOK, HostOK
    <3>2. Tells(Box', "left", p) <=> Tells(Box, "left", p)
      BY <1>3, <2>3
    <3>3. Tells(Box, "joined", p)
      BY <1>3, <2>3
    <3> QED BY <1>1, <2>1, <3>1, <3>2, <3>3 DEF MadeUp
  <2>4. CASE e.peer = p /\ e.type = "left"
    <3>1. p \notin members
      BY <1>3, <2>1, <2>4 DEF MadeUp
    <3>2. p \notin Slots'
      BY <1>5, <2>4 DEF Slots, SameSlots, TypeOK, HostOK
    <3> QED BY <1>1, <1>4, <2>4, <3>1, <3>2 DEF MadeUp
  <2>5. CASE e.type \notin {"joined", "left"}
    <3>1. SameSlots
      BY <1>5, <2>5
    <3> QED BY <1>1, <1>3, <2>1, <2>5, <3>1 DEF MadeUp, SameSlots
  <2> QED BY <2>2, <2>3, <2>4, <2>5
<1> QED BY <1>4, <1>8, <1>9, <1>10 DEF Following

LEMMA FollowingNext == TypeOK /\ There /\ Following /\ [Next]_vars => Following'
<1> SUFFICES ASSUME TypeOK, There, Following, [Next]_vars PROVE Following'
  OBVIOUS
<1>1. RoomStep /\ TypeOK'
  BY RoomNext, TypeNext
<1> QED BY <1>1, FollowingQuiet, FollowingEnds, FollowingComes, FollowingGoes,
           FollowingHostComes, FollowingReads DEF RoomStep

\* SenderSession's map of peers is the server's list of the room's guests as soon as
\* the host has read what it was told, whatever was dropped, retried or swept before.
THEOREM SlotsAreTheRoom == Spec => []SlotsFollowTheRoom
<1>1. TypeOK /\ Following => SlotsFollowTheRoom
  <2> SUFFICES ASSUME TypeOK, Following, hostIn, life[Host] = "live", inbox[Host] = <<>>
               PROVE  Slots = members
    BY DEF SlotsFollowTheRoom
  <2>1. \A type, p : ~Tells(Box, type, p)
    BY TellsNothing DEF Box
  <2>2. \A p \in PeerIds : p \in Slots <=> p \in members
    BY <2>1 DEF Following, Hosting, MadeUp
  <2>3. Slots \subseteq PeerIds /\ members \subseteq PeerIds
    BY DEF Slots, TypeOK, ServerOK
  <2> QED BY <2>2, <2>3
<1> QED BY TypeInit, TypeNext, ThereInit, ThereNext, FollowingInit, FollowingNext, <1>1,
           PTL DEF Spec

-----------------------------------------------------------------------------
(* An offer a guest has not answered yet is the one of the peer it is now,   *)
(* or the guest is no peer; so an answer names the peer whose offer it is    *)
(* for.  A guest takes a new peer id when nothing is on its way to it.       *)

\* Everything in an inbox is one of S.
AllIn(box, S) == \A i \in DOMAIN box : box[i] \in S

LEMMA AllAppended ==
    ASSUME NEW box \in Seq(Events), NEW e \in Events, NEW S, AllIn(box, S), e \in S
    PROVE  AllIn(Append(box, e), S)
<1>1. /\ DOMAIN box = 1 .. Len(box) /\ DOMAIN Append(box, e) = 1 .. Len(box) + 1
      /\ Len(box) \in Nat
  OBVIOUS
<1>2. /\ \A i \in 1 .. Len(box) : Append(box, e)[i] = box[i]
      /\ Append(box, e)[Len(box) + 1] = e
  OBVIOUS
<1> QED BY <1>1, <1>2 DEF AllIn

LEMMA AllRead ==
    ASSUME NEW box \in Seq(Events), box # <<>>, NEW S, AllIn(box, S)
    PROVE  Head(box) \in S /\ AllIn(Tail(box), S)
<1>1. /\ DOMAIN box = 1 .. Len(box) /\ DOMAIN Tail(box) = 1 .. Len(box) - 1
      /\ Len(box) \in Nat /\ Len(box) > 0
  OBVIOUS
<1>2. /\ \A i \in 1 .. Len(box) - 1 : i + 1 \in 1 .. Len(box) /\ Tail(box)[i] = box[i + 1]
      /\ Head(box) = box[1] /\ 1 \in 1 .. Len(box)
  OBVIOUS
<1> QED BY <1>1, <1>2 DEF AllIn

LEMMA AllCut ==
    ASSUME NEW box \in Seq(Events), NEW S, AllIn(box, S), NEW i \in DOMAIN box
    PROVE  AllIn(SubSeq(box, 1, i - 1) \o SubSeq(box, i + 1, Len(box)), S)
<1> DEFINE b1 == SubSeq(box, 1, i - 1)
           b2 == SubSeq(box, i + 1, Len(box))
<1>1. /\ DOMAIN box = 1 .. Len(box) /\ Len(box) \in Nat /\ i \in 1 .. Len(box)
  OBVIOUS
<1>2. /\ b1 \in Seq(Events) /\ Len(b1) = i - 1 /\ \A j \in 1 .. i - 1 : b1[j] = box[j]
  BY <1>1, SubSeqProperties
<1>3. /\ b2 \in Seq(Events) /\ Len(b2) = Len(box) - i
      /\ \A j \in 1 .. Len(box) - i : b2[j] = box[j + i]
  BY <1>1, SubSeqProperties
<1> HIDE DEF b1, b2
<1>4. \A j \in DOMAIN (b1 \o b2) : \/ j \in 1 .. Len(b1) /\ (b1 \o b2)[j] = b1[j]
                                   \/ /\ j - Len(b1) \in 1 .. Len(b2)
                                      /\ (b1 \o b2)[j] = b2[j - Len(b1)]
  BY <1>2, <1>3, ConcatProperties
<1>5. \A j \in 1 .. Len(b1) : b1[j] \in S
  <2>1. \A j \in 1 .. i - 1 : j \in DOMAIN box
    BY <1>1
  <2> QED BY <1>2, <2>1 DEF AllIn
<1>6. \A j \in 1 .. Len(b2) : b2[j] \in S
  <2>1. \A j \in 1 .. Len(box) - i : j + i \in DOMAIN box
    BY <1>1
  <2> QED BY <1>3, <2>1 DEF AllIn
<1>7. AllIn(b1 \o b2, S)
  BY <1>4, <1>5, <1>6 DEF AllIn
<1> QED BY <1>7 DEF b1, b2

LEMMA AllNothing == \A S : AllIn(<<>>, S)
BY DEF AllIn

TrueAnswers == {e \in Events : e.type = "answer" => e.offer = e.peer}
OwnOffers(p) == {e \in Events : e.type = "offer" => e.peer = p}
Undone == {"answering", "tangling"}
Outside == {"new", "ice", "connecting"}

GuestMatches(g) ==
    /\ peer[g] # 0 => AllIn(inbox[g], OwnOffers(Self(g)))
    /\ peer[g] # 0 /\ conn[g] \in Undone => offer[g] = Self(g)
    /\ at[g] \in Outside => inbox[g] = <<>> /\ conn[g] \in {"none", "closed"} /\ peer[g] = 0

HostMatches ==
    /\ \A p \in PeerIds : end[p] # "crossed"
    /\ AllIn(inbox[Host], TrueAnswers)

AllMatch == HostMatches /\ \A g \in Guests : GuestMatches(g)

Matching == ~overlapped /\ ~hurried => AllMatch

LEMMA MatchingInit == Init => Matching
<1> SUFFICES ASSUME Init PROVE Matching
  OBVIOUS
<1>1. \A c \in Clients : inbox[c] = <<>>
  BY DEF Init
<1> QED BY <1>1, HostsAndGuests, HostAssumption, AllNothing
        DEF Init, Matching, AllMatch, HostMatches, GuestMatches

\* Most steps leave a guest with what it had, or with less.
Kept(g) ==
    /\ peer'[g] \in {peer[g], 0} /\ inbox'[g] \in {inbox[g], <<>>}
    /\ conn'[g] \in Undone => conn[g] \in Undone /\ offer'[g] = offer[g]
    /\ at'[g] \in Outside =>
           /\ at[g] \in Outside
           /\ conn[g] \in {"none", "closed"} => conn'[g] \in {"none", "closed"}

LEMMA KeptMatches ==
    ASSUME NEW g \in Guests, GuestMatches(g), Kept(g)
    PROVE  GuestMatches(g)'
<1>1. peer'[g] # 0 => peer'[g] = peer[g] /\ Self(g)' = Self(g)
  BY DEF Kept, Self
<1>2. peer'[g] # 0 => AllIn(inbox'[g], OwnOffers(Self(g)))
  BY <1>1, AllNothing DEF Kept, GuestMatches
<1>3. peer'[g] # 0 => AllIn(inbox'[g], OwnOffers(Self(g))')
  BY <1>1, <1>2 DEF OwnOffers
<1>4. peer'[g] # 0 /\ conn'[g] \in Undone => offer'[g] = Self(g)'
  BY <1>1 DEF Kept, GuestMatches
<1>5. at'[g] \in Outside => inbox'[g] = <<>> /\ conn'[g] \in {"none", "closed"} /\ peer'[g] = 0
  BY DEF Kept, GuestMatches
<1>6. Undone' = Undone /\ Outside' = Outside
  BY DEF Undone, Outside
<1> QED BY <1>3, <1>4, <1>5, <1>6 DEF GuestMatches

\* The host's box grows by what is no answer.
LEMMA BoxMatches ==
    ASSUME TypeOK, HostMatches, NEW e \in Events, e.type # "answer",
           inbox'[Host] \in {inbox[Host], <<>>, Append(inbox[Host], e)}
    PROVE  AllIn(inbox'[Host], TrueAnswers)
<1>1. e \in TrueAnswers
  BY DEF TrueAnswers
<1>2. AllIn(inbox[Host], TrueAnswers) /\ inbox[Host] \in Seq(Events)
  BY HostsAndGuests DEF HostMatches, TypeOK, ServerOK
<1> QED BY <1>1, <1>2, AllAppended, AllNothing

LEMMA JoinMatches ==
    ASSUME TypeOK, HostMatches, NEW g \in Guests, Join(g), Settled(g), given[g] < MostJoins,
           \A h \in Guests : GuestMatches(h),
           UNCHANGED <<conn, offer>>, at'[g] \notin Outside, at' = [at EXCEPT ![g] = at'[g]]
    PROVE  AllIn(inbox'[Host], TrueAnswers) /\ \A h \in Guests : GuestMatches(h)'
<1> USE HostsAndGuests, HostAssumption DEF TypeOK, ServerOK
<1>1. PICK p \in PeerIds : p = <<g, given[g] + 1>>
  <2>1. <<g, given[g] + 1>> \in PeerIds
    BY MostJoinsAssumption DEF PeerIds
  <2> QED BY <2>1
<1> DEFINE w == Event("welcome", p, None)
           r == Event("refused", None, None)
           j == Event("joined", p, None)
<1>2. /\ w \in Events /\ r \in Events /\ j \in Events
      /\ w.type = "welcome" /\ r.type = "refused" /\ j.type = "joined"
  BY EventTypes DEF Event
<1>3. inbox[g] = <<>> /\ conn[g] \notin Undone
  BY DEF Settled, Undone
<1>4. /\ inbox'[g] \in {Append(<<>>, w), Append(<<>>, r)}
      /\ inbox'[Host] \in {inbox[Host], Append(inbox[Host], j)}
      /\ \A h \in Guests \ {g} : peer'[h] = peer[h] /\ inbox'[h] = inbox[h]
  <2> HIDE DEF w, r, j
  <2>1. CASE RoomOpen
    <3>1. inbox' = LET box == Told(inbox, g, w) IN IF hostIn THEN Told(box, Host, j) ELSE box
      BY <1>1, <2>1 DEF Join, w, j
    <3>2. peer' = [peer EXCEPT ![g] = given[g] + 1]
      BY <2>1 DEF Join
    <3> QED BY <1>3, <3>1, <3>2 DEF Told
  <2>2. CASE ~RoomOpen
    <3>1. inbox' = Told(inbox, g, r) /\ peer' = peer
      BY <2>2 DEF Join, r
    <3> QED BY <1>3, <3>1 DEF Told
  <2> QED BY <2>1, <2>2
<1> HIDE DEF w, r, j
<1>5. AllIn(inbox'[Host], TrueAnswers)
  BY <1>2, <1>4, BoxMatches
<1>6. GuestMatches(g)'
  <2>1. \A q : w \in OwnOffers(q) /\ r \in OwnOffers(q)
    BY <1>2 DEF OwnOffers
  <2>2. \A q : AllIn(inbox'[g], OwnOffers(q))
    <3> TAKE q
    <3>1. AllIn(<<>>, OwnOffers(q)) /\ <<>> \in Seq(Events)
      BY AllNothing, EmptySeq
    <3>2. AllIn(Append(<<>>, w), OwnOffers(q)) /\ AllIn(Append(<<>>, r), OwnOffers(q))
      BY <1>2, <2>1, <3>1, AllAppended
    <3> QED BY <1>4, <3>2
  <2>3. AllIn(inbox'[g], OwnOffers(Self(g))')
    BY <2>2 DEF OwnOffers
  <2> QED BY <1>3, <2>3 DEF GuestMatches
<1>7. ASSUME NEW h \in Guests \ {g} PROVE GuestMatches(h)'
  <2>1. Kept(h)
    BY <1>4, <1>7 DEF Kept, SessionsOK
  <2> QED BY <2>1, KeptMatches
<1> QED BY <1>5, <1>6, <1>7

MatchStep == AllMatch => AllMatch'

\* A step after which everyone has what it had, or less, or news that is no answer.
LEMMA MatchKept ==
    ASSUME TypeOK, NEW e \in Events, e.type # "answer",
           inbox'[Host] \in {inbox[Host], <<>>, Append(inbox[Host], e)},
           \A p \in PeerIds : end'[p] = "crossed" => end[p] = "crossed",
           \A g \in Guests : Kept(g)
    PROVE  MatchStep
<1> SUFFICES ASSUME HostMatches, \A g \in Guests : GuestMatches(g)
             PROVE  HostMatches' /\ \A g \in Guests : GuestMatches(g)'
  BY DEF MatchStep, AllMatch
<1>1. AllIn(inbox'[Host], TrueAnswers)
  BY BoxMatches
<1>2. HostMatches'
  <2>1. TrueAnswers' = TrueAnswers
    BY DEF TrueAnswers
  <2>2. \A p \in PeerIds : end'[p] # "crossed"
    BY DEF HostMatches
  <2> QED BY <1>1, <2>1, <2>2 DEF HostMatches
<1> QED BY <1>2, KeptMatches

LEMMA MatchStill ==
    ASSUME TypeOK, UNCHANGED inbox, UNCHANGED peer,
           \A p \in PeerIds : end'[p] = "crossed" => end[p] = "crossed",
           \A g \in Guests : Kept(g)
    PROVE  MatchStep
<1>1. Event("created", None, None) \in Events /\ Event("created", None, None).type # "answer"
  BY EventTypes DEF Event
<1> QED BY <1>1, MatchKept

LEMMA MatchStarts ==
    ASSUME TypeOK, NEW c \in Clients,
           FetchIce(c) \/ ConnectFails(c) \/ Reconnect(c) \/ StartAgain
             \/ (c \in Guests /\ (Open(c) \/ KeyRefused(c) \/ RetryOffline(c)
                                    \/ GuestNotices(c) \/ OldReceiverEnds(c)
                                    \/ AnswerRefused(c)))
    PROVE  MatchStep
<1> USE HostsAndGuests, HostAssumption DEF TypeOK, SessionsOK, GuestsOK
<1>1. UNCHANGED server /\ UNCHANGED host
  BY DEF FetchIce, ConnectFails, Reconnect, StartAgain, Open, KeyRefused, RetryOffline,
         GuestNotices, OldReceiverEnds, AnswerRefused
<1>2. ASSUME NEW g \in Guests PROVE Kept(g)
  <2>1. at'[g] \in Outside => at[g] \in Outside
    BY DEF FetchIce, ConnectFails, Reconnect, StartAgain, Open, KeyRefused, RetryOffline,
           GuestNotices, OldReceiverEnds, AnswerRefused, session, Outside
  <2>2. \/ conn'[g] = conn[g] /\ offer'[g] = offer[g]
        \/ conn'[g] = "none"
        \/ conn[g] = "open" /\ conn'[g] = "lost"
        \/ conn[g] \in Undone /\ conn'[g] \in {"unheard", "tangled"}
    BY DEF FetchIce, ConnectFails, Reconnect, StartAgain, Open, KeyRefused, RetryOffline,
           GuestNotices, OldReceiverEnds, AnswerRefused, guest, Abandon, Undone
  <2> QED BY <1>1, <2>1, <2>2 DEF Kept, Undone, server
<1> QED BY <1>1, <1>2, MatchStill DEF server, host

LEMMA MatchEnds ==
    ASSUME TypeOK, NEW p \in PeerIds,
           LooseEnd(p) \/ Ready(p) \/ Verified(p) \/ TransferFails(p) \/ TransferStalls(p)
             \/ OfferRefused(p) \/ ChannelOpens(p) \/ Lose(p) \/ HostNotices(p)
    PROVE  MatchStep
<1> USE HostsAndGuests, HostAssumption DEF TypeOK, SessionsOK, GuestsOK, HostOK
<1>1. UNCHANGED server /\ UNCHANGED session /\ UNCHANGED offer
  BY DEF LooseEnd, Ready, Verified, TransferFails, TransferStalls, OfferRefused, ChannelOpens,
     Lose, HostNotices, guest
<1>2. end' = end \/ \E e \in {"unheard", "open", "failed"} : end' = [end EXCEPT ![p] = e]
  BY DEF LooseEnd, Ready, Verified, TransferFails, TransferStalls, OfferRefused, ChannelOpens,
     Lose, HostNotices
<1>3. \/ conn' = conn
      \/ /\ conn[GuestOf(p)] \in {"stable", "tangled", "open"}
         /\ \E e \in {"open", "lost"} : conn' = [conn EXCEPT ![GuestOf(p)] = e]
  BY DEF LooseEnd, Ready, Verified, TransferFails, TransferStalls, OfferRefused, ChannelOpens,
     Lose, HostNotices, guest
<1>4. ASSUME NEW g \in Guests PROVE Kept(g)
  <2>1. conn'[g] = conn[g] \/ (conn'[g] \in {"open", "lost"} /\ conn[g] \notin {"none", "closed"})
    BY <1>3
  <2> QED BY <1>1, <2>1 DEF Kept, Undone, server, session
<1>5. \A q \in PeerIds : end'[q] = "crossed" => end[q] = "crossed"
  BY <1>2
<1> QED BY <1>1, <1>4, <1>5, MatchStill DEF server

\* Leaving takes the peer id, and maybe the inbox.
LEMMA MatchLeave ==
    ASSUME TypeOK, NEW c \in Guests, NEW links, NEW box \in [Clients -> Seq(Events)],
           Leave(c, links, box),
           box[Host] = inbox[Host], \A g \in Guests : box[g] \in {inbox[g], <<>>}
    PROVE  /\ \A g \in Guests : peer'[g] \in {peer[g], 0} /\ inbox'[g] \in {inbox[g], <<>>}
           /\ \E e \in Events : /\ e.type # "answer"
                                /\ inbox'[Host] \in {inbox[Host], Append(inbox[Host], e)}
<1> USE HostsAndGuests, HostAssumption DEF TypeOK, ServerOK
<1>1. CASE Self(c) \in members /\ hostIn
  <2>1. PICK e \in Events : e = Event("left", Self(c), None)
    BY <1>1, EventTypes
  <2>2. e.type # "answer"
    BY <2>1 DEF Event
  <2>3. inbox' = Told(box, Host, e) /\ peer' = [peer EXCEPT ![c] = 0]
    BY <1>1, <2>1 DEF Leave
  <2> QED BY <2>2, <2>3 DEF Told
<1>2. CASE ~(Self(c) \in members /\ hostIn)
  <2>1. inbox' = box /\ peer' = [peer EXCEPT ![c] = 0]
    BY <1>2 DEF Leave
  <2>2. Event("created", None, None) \in Events /\ Event("created", None, None).type # "answer"
    BY EventTypes DEF Event
  <2> QED BY <2>1, <2>2
<1> QED BY <1>1, <1>2

LEMMA MatchLeaves ==
    ASSUME TypeOK, NEW c \in Clients,
           Dispose(c) \/ DisposeEnds(c) \/ Drop(c) \/ (c \in Guests /\ Retry(c))
    PROVE  MatchStep
<1> USE HostsAndGuests, HostAssumption DEF TypeOK, ServerOK, SessionsOK, GuestsOK, HostOK
<1>1. /\ \A g \in Guests : offer'[g] = offer[g] \/ conn'[g] = "none"
      /\ \A g \in Guests : at'[g] = at[g]
      /\ \A g \in Guests : conn'[g] \in {conn[g], "none", "closed"}
      /\ \A p \in PeerIds : end'[p] = "crossed" => end[p] = "crossed"
  BY DEF Dispose, DisposeEnds, Drop, Retry, CutOff, CloseAll, CancelAll, Abandon, guest, host,
         session
<1>2. \/ UNCHANGED server
      \/ c = Host /\ HostLeaves(inbox)
      \/ c = Host /\ HostLeaves(Unread(Host))
      \/ c \in Guests /\ Leave(c, linked, inbox)
      \/ c \in Guests /\ Leave(c, Unlinked(c), Unread(c))
  BY DEF Dispose, DisposeEnds, Drop, Retry, Disconnect, Clients
<1>3. /\ \A g \in Guests : peer'[g] \in {peer[g], 0} /\ inbox'[g] \in {inbox[g], <<>>}
      /\ \E e \in Events : /\ e.type # "answer"
                           /\ inbox'[Host] \in {inbox[Host], <<>>, Append(inbox[Host], e)}
  <2>1. Event("created", None, None) \in Events /\ Event("created", None, None).type # "answer"
    BY EventTypes DEF Event
  <2>2. CASE UNCHANGED server
    BY <2>1, <2>2 DEF server
  <2>3. CASE c = Host /\ (HostLeaves(inbox) \/ HostLeaves(Unread(Host)))
    BY <2>1, <2>3 DEF HostLeaves, Unread
  <2>4. CASE c \in Guests /\ Leave(c, linked, inbox)
    BY <2>4, MatchLeave
  <2>5. CASE c \in Guests /\ Leave(c, Unlinked(c), Unread(c))
    <3>1. Unread(c) \in [Clients -> Seq(Events)]
      BY InboxUnread
    <3>2. Unread(c)[Host] = inbox[Host] /\ \A g \in Guests : Unread(c)[g] \in {inbox[g], <<>>}
      BY <2>5 DEF Unread
    <3> QED BY <2>5, <3>1, <3>2, MatchLeave
  <2> QED BY <1>2, <2>2, <2>3, <2>4, <2>5
<1>4. \A g \in Guests : Kept(g)
  BY <1>1, <1>3 DEF Kept, Undone
<1> QED BY <1>1, <1>3, <1>4, MatchKept

\* The host relays its offer to the peer a guest is, which is inside.
LEMMA MatchOffers ==
    ASSUME TypeOK, There, ~overlapped, NEW p \in PeerIds, Offer(p)
    PROVE  MatchStep
<1> USE HostsAndGuests, HostAssumption DEF TypeOK, ServerOK, SessionsOK, HostOK
<1> DEFINE g == GuestOf(p)
<1>1. g \in Guests /\ g # Host
  BY DEF PeerIds, GuestOf
<1>2. /\ UNCHANGED <<peer, at, conn, offer>>
      /\ \A q \in PeerIds : end'[q] = "crossed" => end[q] = "crossed"
  BY DEF Offer, session, guest
<1>3. CASE UNCHANGED inbox
  <2>1. \A h \in Guests : Kept(h)
    BY <1>2, <1>3 DEF Kept
  <2> QED BY <1>2, <1>3, <2>1, MatchStill
<1>4. CASE p \in members /\ inbox' = Told(inbox, g, Event("offer", p, p))
  <2> SUFFICES ASSUME HostMatches, \A h \in Guests : GuestMatches(h)
               PROVE  HostMatches' /\ \A h \in Guests : GuestMatches(h)'
    BY DEF MatchStep, AllMatch
  <2>1. p = Self(g) /\ sock[g] = "up"
    BY <1>1, <1>4 DEF There, GuestThere
  <2>2. at[g] \notin Outside
    BY <1>1, <2>1 DEF There, GuestThere, Outside
  <2>3. PICK e \in Events : e = Event("offer", p, p)
    BY EventTypes
  <2> HIDE DEF g
  <2>4. /\ inbox'[g] = Append(inbox[g], e) /\ inbox'[Host] = inbox[Host]
        /\ \A h \in Guests \ {g} : inbox'[h] = inbox[h]
    BY <1>1, <1>4, <2>3 DEF Told
  <2>5. HostMatches'
    BY <1>2, <2>4 DEF HostMatches, TrueAnswers
  <2>6. GuestMatches(g)'
    <3>1. e \in OwnOffers(Self(g))
      BY <2>1, <2>3 DEF OwnOffers, Event
    <3>2. inbox[g] \in Seq(Events)
      BY <1>1
    <3>3. peer[g] # 0 => AllIn(inbox'[g], OwnOffers(Self(g)))
      BY <1>1, <2>4, <3>1, <3>2, AllAppended DEF GuestMatches
    <3>4. Self(g)' = Self(g) /\ OwnOffers(Self(g))' = OwnOffers(Self(g))
      BY <1>2 DEF Self, OwnOffers
    <3>5. peer[g] # 0 /\ conn[g] \in Undone => offer[g] = Self(g)
      BY <1>1 DEF GuestMatches
    <3> QED BY <1>2, <2>2, <3>3, <3>4, <3>5 DEF GuestMatches, Undone, Outside
  <2>7. ASSUME NEW h \in Guests \ {g} PROVE GuestMatches(h)'
    <3>1. Kept(h)
      BY <1>2, <2>4 DEF Kept
    <3> QED BY <3>1, KeptMatches
  <2> QED BY <1>1, <2>5, <2>6, <2>7
<1> QED BY <1>3, <1>4 DEF Offer

\* A guest that is in the room answers the offer of the peer it is.
LEMMA MatchAnswers ==
    ASSUME TypeOK, NEW g \in Guests, Answer(g)
    PROVE  MatchStep
<1> USE HostsAndGuests, HostAssumption DEF TypeOK, ServerOK, SessionsOK, HostOK, GuestsOK
<1> SUFFICES ASSUME HostMatches, \A h \in Guests : GuestMatches(h)
             PROVE  HostMatches' /\ \A h \in Guests : GuestMatches(h)'
  BY DEF MatchStep, AllMatch
<1>1. /\ UNCHANGED <<peer, at, offer, end>> /\ \A h \in Guests : inbox'[h] = inbox[h]
      /\ conn[g] \in Undone /\ conn'[g] \notin Undone
      /\ conn[g] \notin {"none", "closed"}
      /\ \A h \in Guests \ {g} : conn'[h] = conn[h]
  BY DEF Answer, Told, session, host, Undone
<1>2. \A h \in Guests : Kept(h)
  BY <1>1 DEF Kept
<1>3. AllIn(inbox'[Host], TrueAnswers)
  <2>1. CASE inbox' = inbox
    BY <2>1 DEF HostMatches
  <2>2. CASE Self(g) \in members /\ inbox' = Told(inbox, Host, Event("answer", Self(g), offer[g]))
    <3>1. peer[g] # 0 /\ Self(g) \in PeerIds
      BY <2>2 DEF PeerIds, Self
    <3>2. offer[g] = Self(g)
      BY <1>1, <3>1 DEF GuestMatches
    <3>3. PICK e \in Events : e = Event("answer", Self(g), offer[g])
      BY <3>1, <3>2, EventTypes
    <3>4. e \in TrueAnswers
      BY <3>2, <3>3 DEF TrueAnswers, Event
    <3>5. inbox'[Host] = Append(inbox[Host], e)
      BY <2>2, <3>3 DEF Told
    <3>6. AllIn(inbox[Host], TrueAnswers) /\ inbox[Host] \in Seq(Events)
      BY DEF HostMatches
    <3> QED BY <3>4, <3>5, <3>6, AllAppended
  <2> QED BY <2>1, <2>2 DEF Answer
<1>4. HostMatches'
  <2>1. TrueAnswers' = TrueAnswers
    BY DEF TrueAnswers
  <2> QED BY <1>1, <1>3, <2>1 DEF HostMatches
<1> QED BY <1>2, <1>4, KeptMatches

LEMMA MatchReads ==
    ASSUME TypeOK, NEW g \in Guests, GuestReads(g) \/ JoinTimesOut(g)
    PROVE  MatchStep
<1> USE HostsAndGuests, HostAssumption DEF TypeOK, ServerOK, SessionsOK, HostOK, GuestsOK
<1> SUFFICES ASSUME HostMatches, \A h \in Guests : GuestMatches(h)
             PROVE  HostMatches' /\ \A h \in Guests : GuestMatches(h)'
  BY DEF MatchStep, AllMatch
<1>1. /\ UNCHANGED <<peer, at, end>> /\ inbox'[Host] = inbox[Host]
      /\ inbox[g] # <<>>
      /\ \A h \in Guests \ {g} : /\ inbox'[h] = inbox[h] /\ conn'[h] = conn[h]
                                 /\ offer'[h] = offer[h]
  <2>1. inbox[g] # <<>>
    BY DEF GuestReads, JoinTimesOut, Awaited
  <2> QED BY <2>1 DEF GuestReads, JoinTimesOut, OnOffer, guest, session, host
<1>2. HostMatches'
  BY <1>1 DEF HostMatches, TrueAnswers
<1>3. at[g] \notin Outside /\ inbox[g] \in Seq(Events)
  BY <1>1 DEF GuestMatches
<1>4. Self(g)' = Self(g) /\ OwnOffers(Self(g))' = OwnOffers(Self(g))
  BY <1>1 DEF Self, OwnOffers
<1>5. /\ peer[g] # 0 => AllIn(inbox[g], OwnOffers(Self(g)))
      /\ peer[g] # 0 /\ conn[g] \in Undone => offer[g] = Self(g)
  BY DEF GuestMatches
<1>6. /\ peer[g] # 0 => AllIn(inbox'[g], OwnOffers(Self(g)))
      /\ peer[g] # 0 /\ conn'[g] \in Undone => offer'[g] = Self(g)
  <2>1. CASE GuestReads(g)
    <3> DEFINE e == Head(inbox[g])
    <3>1. peer[g] # 0 => e \in OwnOffers(Self(g)) /\ AllIn(Tail(inbox[g]), OwnOffers(Self(g)))
      BY <1>1, <1>3, <1>5, AllRead
    <3>2. inbox'[g] = Tail(inbox[g])
      BY <2>1 DEF GuestReads
    <3>3. (e.type = "offer" /\ OnOffer(g, e.peer)) \/ (conn'[g] = conn[g] /\ offer'[g] = offer[g])
      BY <2>1 DEF GuestReads, guest
    <3>4. peer[g] # 0 /\ e.type = "offer" => e.peer = Self(g)
      BY <3>1 DEF OwnOffers
    <3>5. OnOffer(g, e.peer) => conn'[g] = "closed" \/ offer'[g] = e.peer
      BY DEF OnOffer
    <3> QED BY <1>5, <3>1, <3>2, <3>3, <3>4, <3>5 DEF Undone
  <2>2. CASE JoinTimesOut(g)
    <3>1. PICK i \in DOMAIN inbox[g] :
              inbox'[g] = SubSeq(inbox[g], 1, i - 1) \o SubSeq(inbox[g], i + 1, Len(inbox[g]))
      BY <2>2 DEF JoinTimesOut
    <3>2. conn' = conn /\ offer' = offer
      BY <2>2 DEF JoinTimesOut
    <3> QED BY <1>3, <1>5, <3>1, <3>2, AllCut
  <2> QED BY <2>1, <2>2
<1>7. GuestMatches(g)'
  BY <1>1, <1>3, <1>4, <1>6 DEF GuestMatches, Undone, Outside
<1>8. ASSUME NEW h \in Guests \ {g} PROVE GuestMatches(h)'
  <2>1. Kept(h)
    BY <1>1 DEF Kept
  <2> QED BY <2>1, KeptMatches
<1> QED BY <1>2, <1>7, <1>8

LEMMA MatchHostReads ==
    ASSUME TypeOK, HostReads
    PROVE  MatchStep
<1> USE HostsAndGuests, HostAssumption DEF TypeOK, ServerOK, SessionsOK, HostOK, GuestsOK
<1> SUFFICES ASSUME HostMatches, \A h \in Guests : GuestMatches(h)
             PROVE  HostMatches' /\ \A h \in Guests : GuestMatches(h)'
  BY DEF MatchStep, AllMatch
<1> DEFINE e == Head(inbox[Host])
<1>1. /\ UNCHANGED <<peer, conn, offer>> /\ inbox[Host] # <<>>
      /\ inbox'[Host] = Tail(inbox[Host])
      /\ \A h \in Guests : inbox'[h] = inbox[h] /\ at'[h] = at[h]
  BY DEF HostReads, guest
<1>2. e \in TrueAnswers /\ AllIn(Tail(inbox[Host]), TrueAnswers)
  BY <1>1, AllRead DEF HostMatches
<1>3. \A p \in PeerIds : end'[p] # "crossed"
  <2>1. CASE UNCHANGED host
    BY <2>1 DEF host, HostMatches
  <2>2. CASE AddPeer(e.peer) \/ RemovePeer(e.peer)
    BY <2>2 DEF AddPeer, RemovePeer, HostMatches
  <2>3. CASE e.type = "answer" /\ RouteAnswer(e.peer, e.offer)
    <3>1. e.offer = e.peer
      BY <1>2, <2>3 DEF TrueAnswers
    <3> QED BY <2>3, <3>1 DEF RouteAnswer, HostMatches
  <2> QED BY <2>1, <2>2, <2>3 DEF HostReads
<1>4. HostMatches'
  <2>1. TrueAnswers' = TrueAnswers
    BY DEF TrueAnswers
  <2> QED BY <1>1, <1>2, <1>3, <2>1 DEF HostMatches
<1>5. \A h \in Guests : Kept(h)
  BY <1>1 DEF Kept
<1> QED BY <1>4, <1>5, KeptMatches

LEMMA MatchJoins ==
    ASSUME TypeOK, There, NEW g \in Guests, Connect(g) \/ (LeaveTimesOut(g) /\ ~hurried')
    PROVE  MatchStep
<1> USE HostsAndGuests, HostAssumption DEF TypeOK, ServerOK, SessionsOK, HostOK, GuestsOK, HistoryOK
<1> SUFFICES ASSUME HostMatches, \A h \in Guests : GuestMatches(h)
             PROVE  HostMatches' /\ \A h \in Guests : GuestMatches(h)'
  BY DEF MatchStep, AllMatch
<1>1. Join(g) /\ UNCHANGED <<conn, offer, end>>
  BY DEF Connect, LeaveTimesOut, guest, host
<1>2. Settled(g)
  <2>1. CASE Connect(g)
    <3>1. GuestMatches(g) /\ at[g] \in Outside
      BY <2>1 DEF Connect, Outside
    <3> QED BY <3>1 DEF GuestMatches, Settled
  <2>2. CASE LeaveTimesOut(g) /\ ~hurried'
    BY <2>2 DEF LeaveTimesOut
  <2> QED BY <2>1, <2>2
<1>3. at'[g] \notin Outside /\ at' = [at EXCEPT ![g] = at'[g]]
  <2>1. CASE Connect(g)
    BY <2>1 DEF Connect, Outside
  <2>2. CASE LeaveTimesOut(g)
    <3>1. GuestThere(g) /\ leaving[g] > 0 /\ at' = at
      BY <2>2 DEF There, LeaveTimesOut, session
    <3>2. sock[g] = "up"
      BY <3>1 DEF GuestThere
    <3>3. at[g] \notin Outside
      BY <3>1, <3>2 DEF GuestThere, Outside
    <3> QED BY <3>1, <3>3
  <2> QED BY <2>1, <2>2
<1>4. given[g] < MostJoins
  <2>1. given[g] \in Nat /\ leaving[g] \in Nat /\ tries[g] \in Nat /\ Joining(g) \in {0, 1}
    BY JoiningType
  <2>2. given[g] + leaving[g] + tries[g] + Joining(g) <= MostJoins
    BY DEF JoinsOK
  <2>3. leaving[g] > 0 \/ Joining(g) = 1
    BY DEF Connect, LeaveTimesOut, Joining
  <2> QED BY ONLY <2>1, <2>2, <2>3, MostJoinsAssumption
<1>5. AllIn(inbox'[Host], TrueAnswers) /\ \A h \in Guests : GuestMatches(h)'
  BY <1>1, <1>2, <1>3, <1>4, JoinMatches
<1>6. TrueAnswers' = TrueAnswers
  BY DEF TrueAnswers
<1> QED BY <1>1, <1>5, <1>6 DEF HostMatches

LEMMA MatchHostComes ==
    ASSUME TypeOK, Connect(Host)
    PROVE  MatchStep
<1> USE HostsAndGuests, HostAssumption DEF TypeOK, ServerOK, SessionsOK
<1>1. PICK e \in Events : e = Event("created", None, None)
  BY EventTypes
<1>2. /\ e.type # "answer"
      /\ inbox' = Told(inbox, Host, e) /\ UNCHANGED <<peer, conn, offer, end>>
      /\ at' = [at EXCEPT ![Host] = "in"]
  BY <1>1 DEF Event, Connect, guest, host
<1>3. \A g \in Guests : Kept(g)
  BY <1>2 DEF Kept, Told
<1> QED BY <1>2, <1>3, MatchKept DEF Told

\* Whom a room closes on has an inbox that tells it so.
LEMMA MatchSweeps ==
    ASSUME TypeOK, There, ~overlapped, Sweep
    PROVE  MatchStep
<1> USE HostsAndGuests, HostAssumption DEF TypeOK, ServerOK, SessionsOK
<1> SUFFICES ASSUME HostMatches, \A h \in Guests : GuestMatches(h)
             PROVE  HostMatches' /\ \A h \in Guests : GuestMatches(h)'
  BY DEF MatchStep, AllMatch
<1>1. PICK e \in Events : e = Event("closed", None, None)
  BY EventTypes
<1>2. /\ UNCHANGED <<peer, conn, offer, end, at>> /\ inbox'[Host] = inbox[Host]
      /\ \A g \in Guests : \/ inbox'[g] = inbox[g]
                           \/ Self(g) \in members /\ inbox'[g] = Append(inbox[g], e)
  BY <1>1 DEF Sweep, guest, host, session
<1>3. HostMatches'
  <2>1. TrueAnswers' = TrueAnswers
    BY DEF TrueAnswers
  <2> QED BY <1>2, <2>1 DEF HostMatches
<1>4. ASSUME NEW g \in Guests PROVE GuestMatches(g)'
  <2>1. CASE inbox'[g] = inbox[g]
    <3>1. Kept(g)
      BY <1>2, <2>1 DEF Kept
    <3> QED BY <3>1, KeptMatches
  <2>2. CASE Self(g) \in members /\ inbox'[g] = Append(inbox[g], e)
    <3>1. at[g] \notin Outside
      BY <2>2 DEF There, GuestThere, Outside, GuestOf, Self
    <3>2. e \in OwnOffers(Self(g)) /\ inbox[g] \in Seq(Events)
      BY <1>1 DEF OwnOffers, Event
    <3>3. peer[g] # 0 => AllIn(inbox'[g], OwnOffers(Self(g)))
      BY <2>2, <3>2, AllAppended DEF GuestMatches
    <3>4. Self(g)' = Self(g) /\ OwnOffers(Self(g))' = OwnOffers(Self(g))
      BY <1>2 DEF Self, OwnOffers
    <3>5. peer[g] # 0 /\ conn[g] \in Undone => offer[g] = Self(g)
      BY DEF GuestMatches
    <3> QED BY <1>2, <3>1, <3>3, <3>4, <3>5 DEF GuestMatches, Undone, Outside
  <2> QED BY <1>2, <2>1, <2>2
<1> QED BY <1>3, <1>4

LEMMA MatchRestarts ==
    ASSUME TypeOK, Restart
    PROVE  MatchStep
<1> USE HostsAndGuests, HostAssumption DEF TypeOK, ServerOK, SessionsOK
<1>1. PICK e \in Events : e = Event("created", None, None)
  BY EventTypes
<1>2. /\ e.type # "answer" /\ UNCHANGED <<conn, offer, end>>
      /\ \A c \in Clients : inbox'[c] = <<>>
      /\ \A g \in Guests : peer'[g] = 0 /\ at'[g] = at[g]
  BY <1>1 DEF Event, Restart, CutOff, host
<1>3. \A g \in Guests : Kept(g)
  BY <1>2 DEF Kept
<1> QED BY <1>2, <1>3, MatchKept

\* What spoils a run stays.
LEMMA Calm ==
    ASSUME TypeOK, [Next]_vars
    PROVE  (~overlapped' => ~overlapped) /\ (~hurried' => ~hurried)
<1> DEFINE Stay == (~overlapped' => ~overlapped) /\ (~hurried' => ~hurried)
<1>1. ASSUME NEW c \in Clients,
             FetchIce(c) \/ ConnectFails(c) \/ Reconnect(c) \/ Connect(c)
               \/ Dispose(c) \/ DisposeEnds(c) \/ Drop(c)
      PROVE  Stay
  BY <1>1 DEF FetchIce, ConnectFails, Reconnect, Connect, Dispose, DisposeEnds, Drop, history
<1>2. ASSUME NEW g \in Guests,
             Open(g) \/ KeyRefused(g) \/ RetryOffline(g) \/ GuestNotices(g)
               \/ OldReceiverEnds(g) \/ AnswerRefused(g) \/ GuestReads(g) \/ JoinTimesOut(g)
               \/ Answer(g)
      PROVE  Stay
  BY <1>2 DEF Open, KeyRefused, RetryOffline, GuestNotices, OldReceiverEnds, AnswerRefused,
     GuestReads, JoinTimesOut, Answer, history
<1>3. ASSUME NEW g \in Guests, Retry(g) PROVE Stay
  BY <1>3 DEF Retry, TypeOK, HistoryOK
<1>4. ASSUME NEW g \in Guests, LeaveTimesOut(g) PROVE Stay
  BY <1>4 DEF LeaveTimesOut
<1>5. ASSUME NEW p \in PeerIds,
             LooseEnd(p) \/ Ready(p) \/ Verified(p) \/ TransferFails(p) \/ TransferStalls(p)
               \/ OfferRefused(p) \/ ChannelOpens(p) \/ Lose(p) \/ HostNotices(p) \/ Offer(p)
      PROVE  Stay
  BY <1>5 DEF LooseEnd, Ready, Verified, TransferFails, TransferStalls, OfferRefused,
     ChannelOpens, Lose, HostNotices, Offer, history
<1>6. ASSUME StartAgain \/ HostReads \/ Sweep \/ Restart PROVE Stay
  BY <1>6 DEF StartAgain, HostReads, Sweep, Restart, history
<1>7. CASE UNCHANGED vars
  BY <1>7 DEF vars, history
<1>8. CASE Progress
  BY <1>1, <1>2, <1>4, <1>5, <1>6, <1>8 DEF Progress
<1>9. CASE Otherwise
  BY <1>1, <1>2, <1>3, <1>5, <1>6, <1>9 DEF Otherwise
<1> QED BY <1>7, <1>8, <1>9 DEF Next

LEMMA MatchingNext == TypeOK /\ There /\ Matching /\ [Next]_vars => Matching'
<1> SUFFICES ASSUME TypeOK, There, Matching, [Next]_vars PROVE Matching'
  OBVIOUS
<1>1. overlapped \in BOOLEAN /\ hurried \in BOOLEAN
  BY DEF TypeOK, HistoryOK
<1>2. /\ ~overlapped' => ~overlapped
      /\ ~hurried' => ~hurried
  BY Calm
<1>3. ASSUME ~overlapped, ~hurried' PROVE MatchStep
  <2>1. ASSUME NEW c \in Clients,
               FetchIce(c) \/ ConnectFails(c) \/ Reconnect(c) \/ Connect(c)
                 \/ Dispose(c) \/ DisposeEnds(c) \/ Drop(c)
        PROVE  MatchStep
    BY <1>3, <2>1, MatchStarts, MatchLeaves, MatchJoins, MatchHostComes DEF Clients
  <2>2. ASSUME NEW g \in Guests,
               Open(g) \/ KeyRefused(g) \/ RetryOffline(g) \/ GuestNotices(g)
                 \/ OldReceiverEnds(g) \/ AnswerRefused(g) \/ Retry(g) \/ LeaveTimesOut(g)
                 \/ GuestReads(g) \/ JoinTimesOut(g) \/ Answer(g)
        PROVE  MatchStep
    BY <1>3, <2>2, MatchStarts, MatchLeaves, MatchJoins, MatchReads, MatchAnswers, HostsAndGuests
  <2>3. ASSUME NEW p \in PeerIds,
               LooseEnd(p) \/ Ready(p) \/ Verified(p) \/ TransferFails(p)
                 \/ TransferStalls(p) \/ OfferRefused(p) \/ ChannelOpens(p) \/ Lose(p)
                 \/ HostNotices(p) \/ Offer(p)
        PROVE  MatchStep
    BY <1>3, <2>3, MatchEnds, MatchOffers
  <2>4. ASSUME StartAgain \/ HostReads \/ Sweep \/ Restart PROVE MatchStep
    BY <1>3, <2>4, MatchStarts, MatchHostReads, MatchSweeps, MatchRestarts, HostsAndGuests
  <2>5. ASSUME UNCHANGED vars PROVE MatchStep
    <3>1. \A g \in Guests : Kept(g)
      BY <2>5 DEF vars, server, session, guest, Kept
    <3> QED BY <2>5, <3>1, MatchStill DEF vars, server, host
  <2>6. CASE Progress
    BY <2>1, <2>2, <2>3, <2>4, <2>6 DEF Progress
  <2>7. CASE Otherwise
    BY <2>1, <2>2, <2>3, <2>4, <2>7 DEF Otherwise
  <2> QED BY <2>5, <2>6, <2>7 DEF Next
<1> QED BY <1>2, <1>3 DEF Matching, MatchStep

\* SenderSession.routeSignal, which cannot tell what offer an answer is for: it is for
\* the slot's own, with retries, drops and timeouts of joins, as long as retries of a
\* guest do not overlap and none joins while signals of its last peer are on their way.
THEOREM AnswersAreMatched == Spec => []AnswersMatch
<1>1. Matching => AnswersMatch
  BY DEF Matching, AllMatch, HostMatches, AnswersMatch
<1> QED BY TypeInit, TypeNext, ThereInit, ThereNext, MatchingInit, MatchingNext, <1>1,
           PTL DEF Spec
=============================================================================
