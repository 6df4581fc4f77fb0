------------------------------ MODULE Sessions ------------------------------
(***************************************************************************)
(* One room from its first page to its last: a SenderSession, the          *)
(* ReceiverSessions of its guests, their SignalingClients, the hooks and   *)
(* pages that own them, and the server between them.                       *)
(*                                                                         *)
(* The server is what SignalingServer promises: it handles a request when  *)
(* it is made, in order; what it tells a client waits in the client's      *)
(* inbox, and a connection that drops loses it.  A guest's n-th join makes *)
(* it peer <<g, n>> of the room; ids are not used twice.  A signal is the  *)
(* offer or the answer of a connection, named by the peer the host made it *)
(* for; candidates and ICE restarts are in module Negotiation, frames in   *)
(* module Transfer.                                                        *)
(*                                                                         *)
(* The server never answers `leave` (it takes the payload for the ack), so *)
(* every leave lasts the ten seconds of its timeout.  Ten seconds are      *)
(* longer than what is on its way needs, unless the fault "slow" happens.  *)
(***************************************************************************)
EXTENDS Naturals, Sequences

CONSTANTS
    Guests,         \* the ReceiverSessions that open the link
    Host,
    MostJoins,      \* the bound on a guest's joins
    Scenarios,      \* how often each guest may try to join, and each fault happen
    None

Clients == Guests \union {Host}
PeerIds == Guests \X (1 .. MostJoins)
Faults == {"drop", "restart", "unreachable", "slow", "sweep", "lost", "refused", "ended",
           "all"}

ASSUME HostAssumption == Host \notin Guests
ASSUME MostJoinsAssumption == MostJoins \in Nat
ASSUME ScenariosAssumption ==
    Scenarios \subseteq [tries : [Guests -> 0 .. MostJoins], faults : [Faults -> Nat]]
ASSUME NoneAssumption == None \notin PeerIds

VARIABLES
    \* the server
    hostIn,         \* the host is in the room
    members,        \* the guests' peers in the room
    peer,           \* socket.data of a guest: which of its peers, or 0
    given,          \* how many peer ids a guest has had
    linked,         \* peers whose record names a connection that is up
    inbox,          \* what the server has sent and a client has not read
    \* every session
    at,             \* where start() stands
    life,           \* "live", or how far dispose() is; "late": disposed too early
    sock,           \* the signaling socket
    \* the host
    end,            \* its connection for a peer; a slot unless "none", "closed"
    sender,         \* the FileSender of a slot
    listed,         \* the recipients on the page
    \* the guests
    offer,          \* the offer on a guest's connection
    conn,           \* its connection
    leaving,        \* how many retry() await their leave
    tail,           \* tasks of a receiver before the retry still run
    got, error,     \* the page: this attempt's file is saved, an error is shown
    \* bookkeeping
    tries, left,    \* what is left of the scenario's joins and faults
    overlapped,     \* a retry began while another one was under way
    hurried         \* a leave timed out while signals were on their way

server == <<hostIn, members, peer, given, linked, inbox>>
session == <<at, life, sock>>
host == <<end, sender, listed>>
guest == <<offer, conn, leaving, tail, got, error>>
history == <<tries, left, overlapped, hurried>>
vars == <<server, session, host, guest, history>>

GuestOf(p) == p[1]
Self(g) == <<g, peer[g]>>
Slots == {p \in PeerIds : end[p] \notin {"none", "closed"}}
RoomOpen == hostIn \/ members # {}
Connected(p) ==
    end[p] = "open" /\ conn[GuestOf(p)] = "open" /\ offer[GuestOf(p)] = p

Event(type, p, o) == [type |-> type, peer |-> p, offer |-> o]
Acks == {"created", "welcome", "refused"}
Events == [type : {"created", "refused", "closed"}, peer : {None}, offer : {None}]
          \union [type : {"welcome", "joined", "left"}, peer : PeerIds, offer : {None}]
          \union [type : {"offer", "answer"}, peer : PeerIds, offer : PeerIds]
Told(box, c, e) == [box EXCEPT ![c] = Append(@, e)]
Awaited(g) == \E i \in DOMAIN inbox[g] : inbox[g][i].type \in Acks

Spend(f) ==
    /\ left[f] > 0 /\ left["all"] > 0
    /\ left' = [left EXCEPT ![f] = @ - 1, !["all"] = @ - 1]
    /\ UNCHANGED tries

Try(g) == tries[g] > 0 /\ tries' = [tries EXCEPT ![g] = @ - 1]

Init ==
    /\ hostIn = FALSE /\ members = {} /\ linked = {}
    /\ peer = [g \in Guests |-> 0] /\ given = [g \in Guests |-> 0]
    /\ inbox = [c \in Clients |-> <<>>]
    /\ at = [c \in Clients |-> IF c = Host THEN "ice" ELSE "new"]
    /\ life = [c \in Clients |-> "live"] /\ sock = [c \in Clients |-> "none"]
    /\ end = [p \in PeerIds |-> "none"] /\ sender = [p \in PeerIds |-> "none"]
    /\ listed = {}
    /\ offer = [g \in Guests |-> None] /\ conn = [g \in Guests |-> "none"]
    /\ leaving = [g \in Guests |-> 0] /\ tail = [g \in Guests |-> FALSE]
    /\ got = [g \in Guests |-> FALSE] /\ error = [g \in Guests |-> FALSE]
    /\ \E s \in Scenarios : tries = s.tries /\ left = s.faults
    /\ overlapped = FALSE /\ hurried = FALSE

-----------------------------------------------------------------------------
(* The server                                                              *)

\* JOIN_ROOM.  A guest that is in the room already leaves a ghost behind.
Join(g) ==
    LET p == <<g, given[g] + 1>> IN
    IF RoomOpen
    THEN /\ given' = [given EXCEPT ![g] = @ + 1]
         /\ peer' = [peer EXCEPT ![g] = given[g] + 1]
         /\ members' = members \union {p} /\ linked' = linked \union {p}
         /\ inbox' = LET box == Told(inbox, g, Event("welcome", p, None)) IN
                     IF hostIn THEN Told(box, Host, Event("joined", p, None)) ELSE box
         /\ UNCHANGED hostIn
    ELSE /\ inbox' = Told(inbox, g, Event("refused", None, None))
         /\ UNCHANGED <<hostIn, members, peer, given, linked>>

\* LEAVE_ROOM, and what follows a disconnect; `links` are the connections left.
Leave(g, links, box) ==
    /\ peer' = [peer EXCEPT ![g] = 0]
    /\ members' = members \ {Self(g)}
    /\ linked' = links
    /\ inbox' = IF Self(g) \in members /\ hostIn
                THEN Told(box, Host, Event("left", Self(g), None)) ELSE box
    /\ UNCHANGED <<hostIn, given>>

Unlinked(g) == {p \in linked : GuestOf(p) # g}
Unread(c) == [inbox EXCEPT ![c] = <<>>]

HostLeaves(box) ==
    /\ hostIn' = FALSE /\ inbox' = box
    /\ UNCHANGED <<members, peer, given, linked>>

\* The room was idle for its time to live, whatever its peers send each other.
\* The host has no listener for room-closed.
Sweep ==
    /\ RoomOpen /\ Spend("sweep")
    /\ hostIn' = FALSE /\ members' = {}
    /\ inbox' = [c \in Clients |->
           IF c # Host /\ Self(c) \in members /\ Self(c) \in linked
           THEN Append(inbox[c], Event("closed", None, None)) ELSE inbox[c]]
    /\ UNCHANGED <<peer, given, linked, session, host, guest, overlapped, hurried>>

-----------------------------------------------------------------------------
(* start() of both sessions, up to the room                                *)

\* The link is on the host's page; somebody opens it.
Open(g) ==
    /\ at[g] = "new" /\ at[Host] = "ready" /\ life[Host] # "late"
    /\ Try(g)
    /\ at' = [at EXCEPT ![g] = "ice"]
    /\ UNCHANGED <<server, life, sock, host, guest, left, overlapped, hurried>>

\* fetchIceConfiguration falls back to the page's own servers when it fails.
FetchIce(c) ==
    /\ at[c] = "ice"
    /\ at' = [at EXCEPT ![c] = "connecting"]
    /\ UNCHANGED <<server, life, sock, host, guest, history>>

\* A guest whose link has no valid key is told.
KeyRefused(g) ==
    /\ at[g] = "ice"
    /\ at' = [at EXCEPT ![g] = "stuck"]
    /\ error' = [error EXCEPT ![g] = life[g] = "live"]
    /\ UNCHANGED <<server, life, sock, host, offer, conn, leaving, tail, got, history>>

Connect(c) ==
    /\ at[c] = "connecting" /\ life[c] \in {"live", "late"}
    /\ sock' = [sock EXCEPT ![c] = "up"]
    /\ at' = [at EXCEPT ![c] = "in"]
    /\ IF c = Host
       THEN /\ hostIn' = TRUE
            /\ inbox' = Told(inbox, Host, Event("created", None, None))
            /\ UNCHANGED <<members, peer, given, linked>>
       ELSE Join(c)
    /\ UNCHANGED <<life, host, guest, history>>

\* connect() rejects, the socket goes on trying.  Nothing catches it on a guest's
\* page; the host's shows an error and lets the user start again.
ConnectFails(c) ==
    /\ at[c] = "connecting" /\ life[c] \in {"live", "late"} /\ Spend("unreachable")
    /\ sock' = [sock EXCEPT ![c] = "down"]
    /\ at' = [at EXCEPT ![c] = "stuck"]
    /\ UNCHANGED <<server, life, host, guest, overlapped, hurried>>

\* useSenderSession.start after a failure: dispose, and a new session.
StartAgain ==
    /\ at[Host] = "stuck" /\ life[Host] = "live"
    /\ at' = [at EXCEPT ![Host] = "ice"] /\ sock' = [sock EXCEPT ![Host] = "none"]
    /\ UNCHANGED <<server, life, host, guest, history>>

-----------------------------------------------------------------------------
(* The host                                                                *)

AddPeer(p) ==
    /\ end' = [end EXCEPT ![p] = "starting"]
    /\ listed' = listed \union {p}
    /\ UNCHANGED sender

\* A FileSender that is disposed of while it works goes on.
Loose(p) == IF sender[p] \in {"waiting", "sending"} THEN "loose" ELSE "over"

\* removePeer, with the page's reaction to peer-left.  (Definitions marked "a slip"
\* are mistakes the runs must catch; nothing else refers to them.)
KeepSending(p) ==                                                   \* a slip
    IF sender[p] = "sending" THEN UNCHANGED host
    ELSE /\ end' = [end EXCEPT ![p] = "closed"]
         /\ sender' = [sender EXCEPT ![p] = Loose(p)]
         /\ listed' = listed \ {p}
KeepListed(p) ==                                                    \* a slip
    /\ end' = [end EXCEPT ![p] = "closed"]
    /\ sender' = [sender EXCEPT ![p] = Loose(p)]
    /\ UNCHANGED listed
RemovePeer(p) ==
    /\ end' = [end EXCEPT ![p] = "closed"]
    /\ sender' = [sender EXCEPT ![p] = Loose(p)]
    /\ listed' = listed \ {p}

\* routeSignal: an answer is for the slot of the peer it comes from, and only a
\* connection that has offered and was not answered takes it.
RouteAnswer(p, o) ==
    /\ end' = [end EXCEPT ![p] =
           IF @ \notin {"offered", "unheard"} THEN @
           ELSE IF o = p THEN "answered" ELSE "crossed"]
    /\ UNCHANGED <<sender, listed>>

HostReads ==
    /\ inbox[Host] # <<>>
    /\ LET e == Head(inbox[Host]) IN
       /\ IF e.type = "created" THEN at' = [at EXCEPT ![Host] = "ready"]
          ELSE UNCHANGED at
       /\ CASE e.type = "joined" /\ life[Host] = "live" -> AddPeer(e.peer)
            [] e.type = "left" /\ e.peer \in Slots -> RemovePeer(e.peer)
            [] e.type = "answer" -> RouteAnswer(e.peer, e.offer)
            [] OTHER -> UNCHANGED host
    /\ inbox' = [inbox EXCEPT ![Host] = Tail(@)]
    /\ UNCHANGED <<hostIn, members, peer, given, linked, life, sock, guest, history>>

\* PeerConnection.start has its offer, and relays it to a peer of the room.
Offer(p) ==
    /\ end[p] = "starting"
    /\ end' = [end EXCEPT ![p] = "offered"]
    /\ inbox' = IF hostIn /\ p \in members /\ p \in linked
                THEN Told(inbox, GuestOf(p), Event("offer", p, p)) ELSE inbox
    /\ UNCHANGED <<hostIn, members, peer, given, linked, session, sender, listed,
                   guest, history>>

\* The offer comes to nothing: the server's rate limit refuses to relay it, and nobody
\* looks at what relay() returns; or it cannot be made, and nobody catches that.
OfferRefused(p) ==
    /\ end[p] = "starting" /\ Spend("refused")
    /\ end' = [end EXCEPT ![p] = "unheard"]
    /\ UNCHANGED <<server, session, sender, listed, guest, overlapped, hurried>>

\* A sender's event after its peer was removed lists the peer again.
LooseEnd(p) ==
    /\ sender[p] = "loose"
    /\ sender' = [sender EXCEPT ![p] = "astray"]
    /\ listed' = IF life[Host] = "live" THEN listed \union {p} ELSE listed
    /\ UNCHANGED <<server, session, end, guest, history>>

-----------------------------------------------------------------------------
(* The guests                                                              *)

\* onSignal: an offer on a connection that has one already tangles the two.
OnOffer(g, p) ==
    /\ offer' = [offer EXCEPT ![g] = IF conn[g] = "closed" THEN @ ELSE p]
    /\ conn' = [conn EXCEPT ![g] = CASE @ = "none" -> "answering"
                                     [] @ = "closed" -> "closed"
                                     [] OTHER -> "tangling"]
    /\ UNCHANGED <<leaving, tail, got, error>>

GuestReads(g) ==
    /\ inbox[g] # <<>>
    /\ LET e == Head(inbox[g]) IN
       IF life[g] # "live" THEN UNCHANGED guest
       ELSE CASE e.type = "offer" -> OnOffer(g, e.peer)
              [] e.type \in {"refused", "closed"} ->
                     /\ error' = [error EXCEPT ![g] = TRUE]
                     /\ UNCHANGED <<offer, conn, leaving, tail, got>>
              [] OTHER -> UNCHANGED guest
    /\ inbox' = [inbox EXCEPT ![g] = Tail(@)]
    /\ UNCHANGED <<hostIn, members, peer, given, linked, session, host, history>>

\* The answer is ready.  It is relayed in the name of the peer the guest is now.
Answer(g) ==
    /\ conn[g] \in {"answering", "tangling"}
    /\ conn' = [conn EXCEPT ![g] = IF @ = "answering" THEN "stable" ELSE "tangled"]
    /\ inbox' = IF sock[g] = "up" /\ Self(g) \in members /\ hostIn
                THEN Told(inbox, Host, Event("answer", Self(g), offer[g])) ELSE inbox
    /\ UNCHANGED <<hostIn, members, peer, given, linked, session, host,
                   offer, leaving, tail, got, error, history>>

\* So does the answer, or the guest cannot take the offer.
AnswerRefused(g) ==
    /\ conn[g] \in {"answering", "tangling"} /\ Spend("refused")
    /\ conn' = [conn EXCEPT ![g] = IF @ = "answering" THEN "unheard" ELSE "tangled"]
    /\ UNCHANGED <<server, session, host, offer, leaving, tail, got, error,
                   overlapped, hurried>>

\* request() gives up on a join that the server has accepted.
JoinTimesOut(g) ==
    /\ Awaited(g) /\ life[g] = "live" /\ Spend("slow")
    /\ \E i \in DOMAIN inbox[g] :
           /\ inbox[g][i].type \in Acks
           /\ \A j \in 1 .. i - 1 : inbox[g][j].type \notin Acks
           /\ inbox' = [inbox EXCEPT ![g] =
                            SubSeq(@, 1, i - 1) \o SubSeq(@, i + 1, Len(@))]
    /\ error' = [error EXCEPT ![g] = TRUE]
    /\ UNCHANGED <<hostIn, members, peer, given, linked, session, host,
                   offer, conn, leaving, tail, got, overlapped, hurried>>

-----------------------------------------------------------------------------
(* A connection of its own                                                 *)

\* The channel opens: startSending, attachReceiver.
ChannelOpens(p) ==
    /\ end[p] = "answered" /\ conn[GuestOf(p)] \in {"stable", "tangled"}
    /\ offer[GuestOf(p)] = p
    /\ end' = [end EXCEPT ![p] = "open"]
    /\ conn' = [conn EXCEPT ![GuestOf(p)] = "open"]
    /\ sender' = [sender EXCEPT ![p] = "waiting"]
    /\ UNCHANGED <<server, session, listed, offer, leaving, tail, got, error, history>>

Ready(p) ==
    /\ Connected(p) /\ sender[p] = "waiting"
    /\ sender' = [sender EXCEPT ![p] = "sending"]
    /\ UNCHANGED <<server, session, end, listed, guest, history>>

Verified(p) ==
    /\ Connected(p) /\ sender[p] = "sending"
    /\ sender' = [sender EXCEPT ![p] = "done"]
    /\ got' = [got EXCEPT ![GuestOf(p)] = TRUE]
    /\ UNCHANGED <<server, session, end, listed, offer, conn, leaving, tail, error,
                   history>>

\* A transfer fails: what the sender cannot read it tells nobody, what the receiver
\* finds it tells the sender or not.
TransferFails(p) ==
    /\ Connected(p) /\ sender[p] \in {"waiting", "sending"} /\ Spend("ended")
    /\ \/ sender' = [sender EXCEPT ![p] = "failed"] /\ UNCHANGED error
       \/ /\ sender' \in {sender, [sender EXCEPT ![p] = "failed"]}
          /\ error' = [error EXCEPT ![GuestOf(p)] = TRUE]
    /\ UNCHANGED <<server, session, end, listed, offer, conn, leaving, tail, got,
                   overlapped, hurried>>

\* Everything is sent, and neither end ever hears of the other again: a put, the
\* assembly or the hash failed after `complete`, a resend loop died, or the guest's key
\* opens no chunk and it asks for them for ever.
TransferStalls(p) ==
    /\ Connected(p) /\ sender[p] = "sending" /\ Spend("ended")
    /\ sender' = [sender EXCEPT ![p] = "stalled"]
    /\ UNCHANGED <<server, session, end, listed, guest, overlapped, hurried>>

\* The network between two ends is gone for good, or never found: their candidates
\* may have been refused too.
Lose(p) ==
    /\ end[p] \in {"answered", "open"} /\ offer[GuestOf(p)] = p
    /\ conn[GuestOf(p)] \in {"stable", "open"} /\ Spend("lost")
    /\ end' = [end EXCEPT ![p] = "failed"]
    /\ conn' = [conn EXCEPT ![GuestOf(p)] = "lost"]
    /\ UNCHANGED <<server, session, sender, listed, offer, leaving, tail, got, error,
                   overlapped, hurried>>

\* An end notices that the other one has closed the connection.
HostNotices(p) ==
    /\ end[p] = "open" /\ ~Connected(p)
    /\ end' = [end EXCEPT ![p] = "failed"]
    /\ UNCHANGED <<server, session, sender, listed, guest, history>>

GuestNotices(g) ==
    /\ conn[g] = "open" /\ ~Connected(offer[g])
    /\ conn' = [conn EXCEPT ![g] = "lost"]
    /\ UNCHANGED <<server, session, host, offer, leaving, tail, got, error, history>>

-----------------------------------------------------------------------------
(* Retry                                                                   *)

\* The connection is closed and forgotten.
KeepsTheClosedOne(g) ==                                             \* a slip
    /\ conn' = [conn EXCEPT ![g] = IF @ = "none" THEN @ ELSE "closed"]
    /\ got' = [got EXCEPT ![g] = FALSE]
    /\ tail' = [tail EXCEPT ![g] = @ \/ (conn[g] = "open")]
    /\ UNCHANGED offer
Abandon(g) ==
    /\ conn' = [conn EXCEPT ![g] = "none"]
    /\ offer' = [offer EXCEPT ![g] = None]
    /\ got' = [got EXCEPT ![g] = FALSE]
    /\ tail' = [tail EXCEPT ![g] = @ \/ (conn[g] = "open")]

\* The page offers it with an error.
Retry(g) ==
    /\ life[g] = "live" /\ error[g] /\ sock[g] = "up"
    /\ Try(g)
    /\ Abandon(g)
    /\ error' = [error EXCEPT ![g] = FALSE]
    /\ leaving' = [leaving EXCEPT ![g] = @ + 1]
    /\ overlapped' = (overlapped \/ leaving[g] > 0 \/ Awaited(g))
    /\ Leave(g, linked, inbox)
    /\ UNCHANGED <<session, host, left, hurried>>

\* Without a signaling connection leave and join end at once, with another error.
RetryOffline(g) ==
    /\ life[g] = "live" /\ error[g] /\ sock[g] # "up"
    /\ Abandon(g)
    /\ UNCHANGED <<server, session, host, error, leaving, history>>

\* The leave's ten seconds are over, and with them all that was on its way.
AtOnce(g) == TRUE                                                   \* a slip
Settled(g) == inbox[g] = <<>> /\ conn[g] \notin {"answering", "tangling"}

LeaveTimesOut(g) ==
    /\ leaving[g] > 0
    /\ \/ Settled(g) /\ UNCHANGED <<tries, left, hurried>>
       \/ ~Settled(g) /\ Spend("slow") /\ hurried' = TRUE
    /\ leaving' = [leaving EXCEPT ![g] = @ - 1]
    /\ Join(g)
    /\ UNCHANGED <<session, host, offer, conn, tail, got, error, overlapped>>

\* The receiver before the retry, of which only the messages were unsubscribed,
\* comes to its own end.
OldReceiverEnds(g) ==
    /\ tail[g]
    /\ tail' = [tail EXCEPT ![g] = FALSE]
    /\ error' \in {error, [error EXCEPT ![g] = life[g] = "live"]}
    /\ UNCHANGED <<server, session, host, offer, conn, leaving, got, history>>

-----------------------------------------------------------------------------
(* dispose(), dropped and restored signaling connections                   *)

\* signaling.disconnect(), which the server notices.
StayConnected(c) == UNCHANGED <<server, sock>>                      \* a slip
Disconnect(c) ==
    /\ sock' = [sock EXCEPT ![c] = "off"]
    /\ IF sock[c] # "up" THEN UNCHANGED server
       ELSE IF c = Host THEN HostLeaves(Unread(c))
       ELSE Leave(c, Unlinked(c), Unread(c))

CloseAll ==
    /\ end' = [p \in PeerIds |-> IF p \in Slots THEN "closed" ELSE end[p]]
    /\ sender' = [p \in PeerIds |-> IF p \in Slots THEN Loose(p) ELSE sender[p]]
    /\ listed' = {}

\* cancel() before the host's page goes: the frame arrives before the channel closes,
\* or not.
Cancelled(g) == \E p \in PeerIds : GuestOf(p) = g /\ Connected(p) /\ sender[p] # "done"
CancelAll ==
    /\ error' \in {e \in [Guests -> BOOLEAN] :
                     \A g \in Guests : e[g] = error[g] \/ (Cancelled(g) /\ e[g])}
    /\ UNCHANGED conn

\* The page goes.  Before there is a socket, leave() and disconnect() do nothing,
\* and start() goes on.
Dispose(c) ==
    /\ life[c] = "live" /\ at[c] # "new"
    /\ life' = [life EXCEPT ![c] = IF at[c] = "ice" THEN "late"
                                   ELSE IF sock[c] = "up" THEN "leaving" ELSE "gone"]
    /\ \/ at[c] = "ice" /\ UNCHANGED <<server, sock>>
       \/ at[c] # "ice" /\ sock[c] # "up" /\ Disconnect(c)
       \/ /\ sock[c] = "up" /\ UNCHANGED sock
          /\ IF c = Host THEN HostLeaves(inbox) ELSE Leave(c, linked, inbox)
    /\ IF c = Host THEN CloseAll /\ CancelAll
       ELSE conn' = [conn EXCEPT ![c] = "closed"] /\ UNCHANGED <<host, error>>
    /\ UNCHANGED <<at, offer, leaving, tail, got, history>>

\* Its leave has timed out, as those before it have.
DisposeEnds(c) ==
    /\ life[c] = "leaving" /\ (c # Host => leaving[c] = 0)
    /\ life' = [life EXCEPT ![c] = "gone"] /\ Disconnect(c)
    /\ UNCHANGED <<at, host, guest, history>>

\* These connections are cut: requests under way fail at once, and what awaited them
\* goes on.
CutOff(cut) ==
    /\ sock' = [c \in Clients |-> IF c \notin cut THEN sock[c]
                                  ELSE IF life[c] = "leaving" THEN "off" ELSE "down"]
    /\ life' = [c \in Clients |->
           IF c \in cut /\ life[c] = "leaving" THEN "gone" ELSE life[c]]
    /\ at' = [at EXCEPT ![Host] = IF Host \in cut /\ @ = "in" THEN "stuck" ELSE @]
    /\ leaving' = [g \in Guests |-> IF g \in cut THEN 0 ELSE leaving[g]]
    /\ error' = [g \in Guests |-> error[g] \/
           (g \in cut /\ life[g] = "live" /\ (leaving[g] > 0 \/ Awaited(g)))]
    /\ UNCHANGED <<host, offer, conn, tail, got>>

Drop(c) ==
    /\ sock[c] = "up" /\ Spend("drop")
    /\ CutOff({c})
    /\ IF c = Host THEN HostLeaves(Unread(c)) ELSE Leave(c, Unlinked(c), Unread(c))
    /\ UNCHANGED <<overlapped, hurried>>

\* The server is stopped and another one takes its place, with no rooms.
Restart ==
    /\ Spend("restart")
    /\ CutOff({c \in Clients : sock[c] = "up"})
    /\ hostIn' = FALSE /\ members' = {} /\ linked' = {}
    /\ peer' = [g \in Guests |-> 0]
    /\ inbox' = [c \in Clients |-> <<>>]
    /\ UNCHANGED <<given, overlapped, hurried>>

\* The socket is up again, and in no room.
Reconnect(c) ==
    /\ sock[c] = "down" /\ sock' = [sock EXCEPT ![c] = "up"]
    /\ UNCHANGED <<server, at, life, host, guest, history>>

-----------------------------------------------------------------------------
\* What goes on by itself: awaits end, events are delivered, timers fire, and ICE
\* connects two ends that have each other's descriptions.
Progress ==
    \/ \E c \in Clients : FetchIce(c) \/ Connect(c) \/ DisposeEnds(c)
    \/ \E g \in Guests :
           GuestReads(g) \/ Answer(g) \/ LeaveTimesOut(g) \/ GuestNotices(g)
    \/ \E p \in PeerIds :
           \/ Offer(p) \/ Ready(p) \/ Verified(p)
           \/ conn[GuestOf(p)] = "stable" /\ ChannelOpens(p)
    \/ HostReads

\* What users, faults, and connections nobody can count on may do.
Otherwise ==
    \/ \E c \in Clients : ConnectFails(c) \/ Dispose(c) \/ Drop(c) \/ Reconnect(c)
    \/ \E g \in Guests :
           \/ Open(g) \/ KeyRefused(g) \/ JoinTimesOut(g) \/ Retry(g) \/ RetryOffline(g)
           \/ AnswerRefused(g) \/ OldReceiverEnds(g)
    \/ \E p \in PeerIds :
           \/ OfferRefused(p) \/ LooseEnd(p) \/ TransferFails(p) \/ TransferStalls(p)
           \/ Lose(p) \/ HostNotices(p)
           \/ conn[GuestOf(p)] = "tangled" /\ ChannelOpens(p)
    \/ StartAgain \/ Sweep \/ Restart

Next == Progress \/ Otherwise

Spec == Init /\ [][Next]_vars

\* None of these steps can be repeated for ever, so one fairness condition for all
\* of them is enough.
FairSpec == Spec /\ WF_vars(Progress)

-----------------------------------------------------------------------------
ServerOK ==
    /\ hostIn \in BOOLEAN
    /\ members \subseteq PeerIds /\ linked \subseteq PeerIds
    /\ peer \in [Guests -> Nat] /\ given \in [Guests -> Nat]
    /\ inbox \in [Clients -> Seq(Events)]

SessionsOK ==
    /\ at \in [Clients -> {"new", "ice", "connecting", "stuck", "in", "ready"}]
    /\ life \in [Clients -> {"live", "late", "leaving", "gone"}]
    /\ sock \in [Clients -> {"none", "up", "down", "off"}]
    /\ \A c \in Clients : sock[c] = "off" <=> life[c] = "gone"

HostOK ==
    /\ end \in [PeerIds -> {"none", "starting", "offered", "unheard", "answered",
                            "crossed", "open", "failed", "closed"}]
    /\ sender \in [PeerIds -> {"none", "waiting", "sending", "done", "failed",
                               "stalled", "loose", "astray", "over"}]
    /\ listed \subseteq PeerIds

GuestsOK ==
    /\ offer \in [Guests -> PeerIds \union {None}]
    /\ conn \in [Guests -> {"none", "answering", "stable", "unheard", "tangling",
                            "tangled", "open", "lost", "closed"}]
    /\ \A g \in Guests : conn[g] \notin {"none", "closed"} => offer[g] \in PeerIds
    /\ leaving \in [Guests -> Nat]
    /\ tail \in [Guests -> BOOLEAN]
    /\ got \in [Guests -> BOOLEAN] /\ error \in [Guests -> BOOLEAN]

HistoryOK ==
    /\ tries \in [Guests -> Nat] /\ left \in [Faults -> Nat]
    /\ overlapped \in BOOLEAN /\ hurried \in BOOLEAN

\* A join that was tried is under way, or has had its peer id, or came to nothing.
Joining(g) == IF at[g] \in {"ice", "connecting"} THEN 1 ELSE 0

JoinsOK == \A g \in Guests :
    /\ peer[g] <= given[g]
    /\ given[g] + leaving[g] + tries[g] + Joining(g) <= MostJoins

TypeOK == ServerOK /\ SessionsOK /\ HostOK /\ GuestsOK /\ HistoryOK /\ JoinsOK

\* SenderSession's map of peers follows the room: once the host has read what the
\* server told it, it has a connection for exactly the guests that are there.
SlotsFollowTheRoom ==
    hostIn /\ life[Host] = "live" /\ inbox[Host] = <<>> => Slots = members

\* An answer names no offer; it is taken for an answer to the slot's own.  That is
\* what it is, while retries do not overlap and none runs ahead of old signals.
AnswersMatch ==
    ~overlapped /\ ~hurried => \A p \in PeerIds : end[p] # "crossed"

\* A session that was disposed of leaves nobody in the room, with retries and
\* requests of its own still under way; overlapping retries leave ghosts, and a
\* session disposed of before it had a socket joins later.
DisposedLeavesNothing ==
    /\ life[Host] = "gone" => ~hostIn
    /\ ~overlapped => \A p \in members : life[GuestOf(p)] # "gone"

\* The page lists every slot; whoever else it lists has left while its sender was
\* at work.
PageShowsTheSlots ==
    life[Host] = "live" =>
        /\ Slots \subseteq listed
        /\ \A p \in listed \ Slots : sender[p] = "astray"

\* A guest that is waiting gets the file or sees an error, which lets it retry; unless
\* something happened that its page does not tell it of, and nothing else can leave it
\* waiting.
Waiting(g) == at[g] # "new" /\ life[g] = "live" /\ ~got[g] /\ ~error[g]

Stranded(g) ==
    \/ at[g] = "stuck"                              \* connect() was rejected
    \/ ~hostIn                                      \* nobody is told to retry
    \/ at[g] = "in" /\ leaving[g] = 0 /\ Self(g) \notin members
    \/ conn[g] \in {"unheard", "lost", "tangled"}
    \/ /\ Self(g) \in PeerIds
       /\ end[Self(g)] = "unheard" \/ sender[Self(g)] \in {"failed", "stalled"}
    \/ overlapped \/ hurried

ServedOrTold == []<>(\A g \in Guests : ~Waiting(g) \/ Stranded(g))

\* README.md, once the channel is open: "From here on, the signaling server is out
\* of the loop."  The host closes an open channel when it is disposed of only.
OutOfTheLoop ==
    [][\A p \in PeerIds : Connected(p) /\ end'[p] = "closed" => life'[Host] # "live"]_vars
=============================================================================
