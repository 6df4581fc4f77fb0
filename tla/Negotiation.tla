----------------------------- MODULE Negotiation -----------------------------
(***************************************************************************)
(* Two PeerConnections negotiate through the signaling server: the host's, *)
(* the only one that makes offers, and a guest's, which answers.  Both     *)
(* sessions restart ICE when their connection is reported disconnected.    *)
(*                                                                         *)
(* A description stands for the ICE credentials it carries: an offer is    *)
(* its number, an answer the number of the offer it was made for, and a    *)
(* candidate the number of the description it belongs to.  Signals from    *)
(* one peer to the other arrive in order.                                  *)
(*                                                                         *)
(* An RTCPeerConnection runs the operations asked of it one after the      *)
(* other (its operations chain).  The code after an await asks for the     *)
(* next one as soon as the awaited one is over; what an end has asked for  *)
(* and not got yet is `chain`.  Connections that are closed are left out.  *)
(***************************************************************************)
EXTENDS Naturals, Sequences, SequencesExt

CONSTANTS
    MaxAttempts,    \* ICE_RESTART_MAX_ATTEMPTS
    Drops,          \* how often the connection drops
    Noticing,       \* which ends may be told of a drop: a set of sets of ends
    Flaps,          \* may a connection come back without a restart, or be
                    \* reported lost again before one is through?
    StaleTimers     \* most restart timers the guest's connection before a retry
                    \* may have left running

Ends == {"host", "guest"}

ASSUME MaxAttemptsAssumption == MaxAttempts \in Nat
ASSUME DropsAssumption == Drops \in Nat
ASSUME NoticingAssumption == Noticing \subseteq SUBSET Ends
ASSUME FlapsAssumption == Flaps \in BOOLEAN
ASSUME StaleTimersAssumption == StaleTimers \in Nat /\ StaleTimers <= Drops

VARIABLES
    state,          \* pc.signalingState: "stable", or "offered" by the host
    local,          \* the local description in force, 0 for none
    remote,         \* the remote one
    offers,         \* offers made so far, the last of which is the newest
    remoteSet,      \* remoteDescriptionSet
    pending,        \* pendingCandidates
    added,          \* the candidate of the remote description was added
    gathered,       \* the candidate of the local one was signalled
    chain,          \* operations asked for
    wire,           \* signals on their way to an end
    ice,            \* the connection as the session was last told
    attempts,       \* restartAttempts
    timers,         \* restart timers that are running
    lost,           \* the offer whose connection is lost, 0 for none
    drops,          \* drops so far
    overlapped,     \* an offer was made while another one had no answer yet
    gaveUp          \* an end was told of a drop, was out of attempts, and had not
                    \* been connected since the last one

descriptions == <<state, local, remote, offers>>
candidates == <<remoteSet, pending, added, gathered>>
recovery == <<attempts, timers, lost, drops, overlapped, gaveUp>>
vars == <<descriptions, candidates, chain, wire, ice, recovery>>

Other(e) == IF e = "host" THEN "guest" ELSE "host"
Signal(kind, n) == [kind |-> kind, n |-> n]
Op(kind, n) == [kind |-> kind, n |-> n]

Init ==
    /\ state = [e \in Ends |-> "stable"]
    /\ local = [e \in Ends |-> 0] /\ remote = [e \in Ends |-> 0]
    /\ offers = 0
    /\ remoteSet = [e \in Ends |-> FALSE]
    /\ pending = [e \in Ends |-> <<>>]
    /\ added = [e \in Ends |-> FALSE] /\ gathered = [e \in Ends |-> TRUE]
    /\ chain = [e \in Ends |-> IF e = "host" THEN <<Op("createOffer", 0)>> ELSE <<>>]
    /\ wire = [e \in Ends |-> <<>>]
    /\ ice = [e \in Ends |-> "new"]
    /\ attempts = [e \in Ends |-> 0]
    /\ drops \in 0 .. StaleTimers     \* drops of the connection before
    /\ timers = [e \in Ends |-> IF e = "guest" THEN drops ELSE 0]
    /\ lost = 0 /\ overlapped = FALSE /\ gaveUp = FALSE

-----------------------------------------------------------------------------
(* The operations chain: e's next operation is over, and the code that     *)
(* awaited it asks for `more` and signals `out` to the other end.          *)

Done(e, kind) == chain[e] # <<>> /\ Head(chain[e]).kind = kind
Arg(e) == Head(chain[e]).n

Continue(e, more, out) ==
    /\ chain' = [chain EXCEPT ![e] = Tail(@) \o more]
    /\ wire' = [wire EXCEPT ![Other(e)] = @ \o out]

OfferCreated ==
    /\ Done("host", "createOffer")
    /\ offers' = offers + 1
    /\ Continue("host", <<Op("setLocal", offers + 1)>>, <<>>)
    /\ UNCHANGED <<state, local, remote, candidates, ice, recovery>>

\* setLocalDescription refuses all but the newest offer.
OfferSet ==
    /\ Done("host", "setLocal")
    /\ \/ /\ Arg("host") = offers
          /\ state' = [state EXCEPT !["host"] = "offered"]
          /\ local' = [local EXCEPT !["host"] = offers]
          /\ gathered' = [gathered EXCEPT !["host"] = FALSE]
          /\ Continue("host", <<>>, <<Signal("offer", offers)>>)
       \/ /\ Arg("host") # offers
          /\ Continue("host", <<>>, <<>>)
          /\ UNCHANGED <<state, local, gathered>>
    /\ overlapped' = (overlapped \/ state["host"] = "offered" \/ Arg("host") # offers)
    /\ UNCHANGED <<remote, offers, remoteSet, pending, added, ice, attempts, timers,
                   lost, drops, gaveUp>>

\* The remote description is set: flushCandidates, and then an offer's answer.  The code
\* awaits one candidate before it asks for the next, and then for the answer; here all
\* are asked for at once, so what another signal asks for in between comes after them.
\* (Definitions marked "a slip" are mistakes the runs must catch; nothing else
\* refers to them.)
DropThem(e) == <<>>                                                 \* a slip
Flushed(e) == [i \in DOMAIN pending[e] |-> Op("add", pending[e][i])]
AnswerOnce(e) ==                                                    \* a slip
    IF e = "guest" /\ ~remoteSet[e] THEN <<Op("createAnswer", 0)>> ELSE <<>>
ThenAnswer(e) == IF e = "guest" THEN <<Op("createAnswer", 0)>> ELSE <<>>

RemoteSet(e) ==
    /\ Done(e, "setRemote")
    /\ remote' = [remote EXCEPT ![e] = Arg(e)]
    /\ added' = [added EXCEPT ![e] = @ /\ remote[e] = Arg(e)]
    /\ state' = [state EXCEPT ![e] = IF e = "host" THEN "stable" ELSE "offered"]
    /\ remoteSet' = [remoteSet EXCEPT ![e] = TRUE]
    /\ pending' = [pending EXCEPT ![e] = <<>>]
    /\ Continue(e, Flushed(e) \o ThenAnswer(e), <<>>)
    /\ UNCHANGED <<local, offers, gathered, ice, recovery>>

\* Without an offer of its own there is nothing to answer: nobody catches the
\* rejection.
OfferTaken == RemoteSet("guest")
AnswerTaken == state["host"] = "offered" /\ RemoteSet("host")
AnswerRefused ==
    /\ state["host"] # "offered"
    /\ Done("host", "setRemote")
    /\ Continue("host", <<>>, <<>>)
    /\ UNCHANGED <<descriptions, candidates, ice, recovery>>

\* addIceCandidate: a candidate of another description than the remote one is
\* refused, and the refusal swallowed.
CandidateAdded(e) ==
    /\ Done(e, "add")
    /\ added' = [added EXCEPT ![e] = @ \/ Arg(e) = remote[e]]
    /\ Continue(e, <<>>, <<>>)
    /\ UNCHANGED <<descriptions, remoteSet, pending, gathered, ice, recovery>>

AnswerCreated ==
    /\ Done("guest", "createAnswer")
    /\ Continue("guest",
           IF state["guest"] = "offered" THEN <<Op("setLocal", remote["guest"])>>
           ELSE <<>>, <<>>)
    /\ UNCHANGED <<descriptions, candidates, ice, recovery>>

AnswerSet ==
    /\ Done("guest", "setLocal")
    /\ \/ /\ state["guest"] = "offered"
          /\ state' = [state EXCEPT !["guest"] = "stable"]
          /\ local' = [local EXCEPT !["guest"] = Arg("guest")]
          /\ gathered' = [gathered EXCEPT !["guest"] = FALSE]
          /\ Continue("guest", <<>>, <<Signal("answer", Arg("guest"))>>)
       \/ /\ state["guest"] # "offered"
          /\ Continue("guest", <<>>, <<>>)
          /\ UNCHANGED <<state, local, gathered>>
    /\ UNCHANGED <<remote, offers, remoteSet, pending, added, ice, recovery>>

-----------------------------------------------------------------------------
(* Signals                                                                 *)

\* onicecandidate
Gather(e) ==
    /\ ~gathered[e]
    /\ gathered' = [gathered EXCEPT ![e] = TRUE]
    /\ wire' = [wire EXCEPT ![Other(e)] = Append(@, Signal("candidate", local[e]))]
    /\ UNCHANGED <<descriptions, remoteSet, pending, added, chain, ice, recovery>>

Takes(e, kinds) == /\ wire[e] # <<>>
                   /\ Head(wire[e]).kind \in kinds
                   /\ wire' = [wire EXCEPT ![e] = Tail(@)]

HandleDescription(e) ==
    /\ Takes(e, {"offer", "answer"})
    /\ chain' = [chain EXCEPT ![e] = Append(@, Op("setRemote", Head(wire[e]).n))]
    /\ UNCHANGED <<descriptions, candidates, ice, recovery>>

HandleCandidate(e) ==
    /\ Takes(e, {"candidate"})
    /\ \/ /\ remoteSet[e]
          /\ chain' = [chain EXCEPT ![e] = Append(@, Op("add", Head(wire[e]).n))]
          /\ UNCHANGED pending
       \/ /\ ~remoteSet[e]
          /\ pending' = [pending EXCEPT ![e] = Append(@, Head(wire[e]).n)]
          /\ UNCHANGED chain
    /\ UNCHANGED <<descriptions, remoteSet, added, gathered, ice, recovery>>

\* The host restarts when the guest asks it to.
HandleIceRestart ==
    /\ Takes("host", {"ice-restart"})
    /\ chain' = [chain EXCEPT !["host"] = Append(@, Op("createOffer", 0))]
    /\ UNCHANGED <<descriptions, candidates, ice, recovery>>

-----------------------------------------------------------------------------
(* The sessions' recovery                                                  *)

\* Both ends hold what the other end has in force.
Agree == \A e \in Ends : state[e] = "stable" /\ remote[e] = local[Other(e)]
Connectable == Agree /\ \A e \in Ends : added[e]

\* ICE connects the ends, and e is told.
Connected(e) ==
    /\ Connectable /\ remote["guest"] # lost
    /\ ice[e] # "connected"
    /\ ice' = [ice EXCEPT ![e] = "connected"]
    /\ attempts' = [attempts EXCEPT ![e] = 0]
    /\ UNCHANGED <<descriptions, candidates, chain, wire, timers, lost, drops,
                   overlapped, gaveUp>>

\* scheduleIceRestart for the ends that are told of a drop.
MayTry(e) == attempts[e] < MaxAttempts

Disconnected ==
    /\ drops < Drops
    /\ \A e \in Ends : ice[e] # "new" /\ (Flaps \/ ice[e] = "connected")
    /\ drops' = drops + 1
    /\ lost' \in {local["host"]} \union (IF Flaps THEN {lost} ELSE {})
    /\ \E told \in Noticing :
           /\ ice' = [e \in Ends |-> IF e \in told THEN "disconnected" ELSE ice[e]]
           /\ attempts' = [e \in Ends |->
                  IF e \in told /\ MayTry(e) THEN attempts[e] + 1 ELSE attempts[e]]
           /\ timers' = [e \in Ends |->
                  IF e \in told /\ MayTry(e) THEN timers[e] + 1 ELSE timers[e]]
           /\ gaveUp' = (gaveUp \/ \E e \in told : ~MayTry(e) /\ ice[e] # "connected")
    /\ UNCHANGED <<descriptions, candidates, chain, wire, overlapped>>

\* restartIce
NoRestart == <<>>                                                   \* a slip
IceRestart == <<Signal("ice-restart", 0)>>

\* The guest makes its connection when the first signal comes.
Exists(e) ==
    e = "host" \/ remoteSet[e] \/ pending[e] # <<>> \/ chain[e] # <<>>

TimerFires(e) ==
    /\ timers[e] > 0
    /\ timers' = [timers EXCEPT ![e] = @ - 1]
    /\ \/ /\ ice[e] = "connected" \/ ~Exists(e)
          /\ UNCHANGED <<chain, wire>>
       \/ /\ ice[e] # "connected" /\ e = "host"
          /\ chain' = [chain EXCEPT ![e] = Append(@, Op("createOffer", 0))]
          /\ UNCHANGED wire
       \/ /\ ice[e] # "connected" /\ e = "guest" /\ Exists(e)
          /\ wire' = [wire EXCEPT !["host"] = @ \o IceRestart]
          /\ UNCHANGED chain
    /\ UNCHANGED <<descriptions, candidates, ice, attempts, lost, drops,
                   overlapped, gaveUp>>

-----------------------------------------------------------------------------
Negotiate ==
    \/ OfferCreated \/ OfferSet \/ OfferTaken \/ AnswerTaken \/ AnswerRefused
    \/ AnswerCreated \/ AnswerSet \/ HandleIceRestart
    \/ \E e \in Ends : CandidateAdded(e) \/ Gather(e) \/ HandleDescription(e)
                       \/ HandleCandidate(e)

Next ==
    \/ Negotiate
    \/ \E e \in Ends : Connected(e) \/ TimerFires(e)
    \/ Disconnected

Spec == Init /\ [][Next]_vars

\* Operations end, signals arrive, candidates are found, timers fire, and ICE
\* connects what can be connected.
FairSpec ==
    /\ Spec
    /\ WF_vars(Negotiate)
    /\ \A e \in Ends : WF_vars(Connected(e)) /\ WF_vars(TimerFires(e))

-----------------------------------------------------------------------------
Signals == [kind : {"offer", "answer", "candidate", "ice-restart"}, n : Nat]
Ops == [kind : {"createOffer", "createAnswer", "setLocal", "setRemote", "add"}, n : Nat]

TypeOK ==
    /\ state \in [Ends -> {"stable", "offered"}]
    /\ local \in [Ends -> Nat] /\ remote \in [Ends -> Nat] /\ offers \in Nat
    /\ remoteSet \in [Ends -> BOOLEAN]
    /\ pending \in [Ends -> Seq(Nat)]
    /\ added \in [Ends -> BOOLEAN] /\ gathered \in [Ends -> BOOLEAN]
    /\ chain \in [Ends -> Seq(Ops)]
    /\ wire \in [Ends -> Seq(Signals)]
    /\ ice \in [Ends -> {"new", "connected", "disconnected"}]
    /\ attempts \in [Ends -> 0 .. MaxAttempts] /\ timers \in [Ends -> Nat]
    /\ lost \in Nat /\ drops \in 0 .. Drops
    /\ overlapped \in BOOLEAN /\ gaveUp \in BOOLEAN

\* PeerConnection.ts: "buffering candidates that arrive before the remote
\* description".  A candidate of the description an end works with is added, or
\* it is on its way to be, however signals and awaits interleave.
CandidatesKept ==
    \A e \in Ends :
        LET n == local[Other(e)] IN
        n # 0 /\ remote[e] = n /\ gathered[Other(e)] =>
            \/ added[e]
            \/ Signal("candidate", n) \in ToSet(wire[e])
            \/ n \in ToSet(pending[e])
            \/ Op("add", n) \in ToSet(chain[e])

\* Nothing is under way.
Quiet == \A e \in Ends : chain[e] = <<>> /\ wire[e] = <<>> /\ gathered[e]

\* Negotiation does not get stuck: when nothing is under way, no offer waits for
\* its answer, and the guest works with the host's offer.
EveryOfferAnswered ==
    Quiet => /\ \A e \in Ends : state[e] = "stable"
             /\ remote["guest"] = local["host"]

\* PeerConnection.ts: "Handles ICE trickling [...] and ICE restart for connection
\* recovery."  When nothing is under way, the ends work with each other's
\* descriptions, so ICE can connect them.
QuietMeansAgreed == Quiet => Connectable

\* The same, as long as the host never made an offer while another one had no
\* answer yet: that two restarts overlap is the one thing that can go wrong,
\* whoever notices the drops, in whatever order, and with a timer left over from
\* before a retry.
OneRestartAgrees == ~overlapped => QuietMeansAgreed

\* A connection that drops comes back for good, unless restarts overlapped or an
\* end ran out of attempts.
Recovers ==
    <>[](overlapped \/ gaveUp \/ \A e \in Ends : ice[e] = "connected")
=============================================================================
