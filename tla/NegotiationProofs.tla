-------------------------- MODULE NegotiationProofs --------------------------
(***************************************************************************)
(* What Negotiation promises, for any number of drops and of attempts and  *)
(* whoever notices: no candidate is forgotten, no offer stays without an   *)
(* answer, and as long as no two restarts overlap, the ends agree once     *)
(* nothing is under way.                                                   *)
(*                                                                         *)
(* The signals and operations an end still has to take are two sequences.  *)
(* What is known of them is stated for plain sequences first (what follows *)
(* what, what occurs once), and proved to survive an item that is added or *)
(* taken off; each action then needs one of these lemmas for each end.     *)
(***************************************************************************)
EXTENDS Negotiation, TLAPS

Descriptions == {"offer", "answer"}

\* The candidate of description n comes after it: w, c and p are the wire, the
\* chain and the pending candidates of an end with remote description r.
CandidateFollows(n, w, c, p, r, a) ==
    /\ \A i \in DOMAIN w : w[i].kind \in Descriptions /\ w[i].n = n =>
           \E j \in DOMAIN w : j > i /\ w[j] = Signal("candidate", n)
    /\ \A i \in DOMAIN c : c[i] = Op("setRemote", n) =>
           \/ \E j \in DOMAIN w : w[j] = Signal("candidate", n)
           \/ \E j \in DOMAIN p : p[j] = n
           \/ \E j \in DOMAIN c : j > i /\ c[j] = Op("add", n)
    /\ r = n =>
           \/ a
           \/ \E j \in DOMAIN w : w[j] = Signal("candidate", n)
           \/ \E j \in DOMAIN p : p[j] = n
           \/ \E j \in DOMAIN c : c[j] = Op("add", n)

\* Of the descriptions on their way to an end, n is the last.
NewestLast(n, w, c, r) ==
    /\ \A i \in DOMAIN w : w[i].kind \in Descriptions /\ w[i].n # n =>
           \E j \in DOMAIN w : j > i /\ w[j].kind \in Descriptions /\ w[j].n = n
    /\ \A i \in DOMAIN c : c[i].kind = "setRemote" /\ c[i].n # n =>
           \/ \E j \in DOMAIN w : w[j].kind \in Descriptions /\ w[j].n = n
           \/ \E j \in DOMAIN c : j > i /\ c[j] = Op("setRemote", n)
    /\ r # n =>
           \/ \E j \in DOMAIN w : w[j].kind \in Descriptions /\ w[j].n = n
           \/ \E j \in DOMAIN c : c[j] = Op("setRemote", n)

\* x is in s; some item of s, no item of s, or no item but x, is of these kinds.
Has(s, x) == \E i \in DOMAIN s : s[i] = x
Some(s, kinds) == \E i \in DOMAIN s : s[i].kind \in kinds
Idle(s, kinds) == \A i \in DOMAIN s : s[i].kind \notin kinds
Only(s, kinds, x) == \E i \in DOMAIN s :
    s[i] = x /\ \A j \in DOMAIN s : j # i => s[j].kind \notin kinds

Items == Signals \union Ops

-----------------------------------------------------------------------------
(* Sequences                                                               *)

\* A joined sequence holds the items of both, in their order.
LEMMA Joined ==
    ASSUME NEW S, NEW s \in Seq(S), NEW t \in Seq(S)
    PROVE  /\ s \o t \in Seq(S)
           /\ Len(s \o t) = Len(s) + Len(t)
           /\ DOMAIN (s \o t) = 1 .. Len(s) + Len(t)
           /\ \A i \in DOMAIN s : i \in DOMAIN (s \o t) /\ (s \o t)[i] = s[i]
           /\ \A i \in DOMAIN t : /\ Len(s) + i \in DOMAIN (s \o t)
                                  /\ (s \o t)[Len(s) + i] = t[i]
           /\ \A i \in DOMAIN (s \o t) :
                  \/ i \in DOMAIN s /\ (s \o t)[i] = s[i]
                  \/ /\ i > Len(s) /\ i - Len(s) \in DOMAIN t
                     /\ (s \o t)[i] = t[i - Len(s)]
OBVIOUS

\* The tail holds all items but the head.
LEMMA Shortened ==
    ASSUME NEW S, NEW s \in Seq(S), s # <<>>
    PROVE  /\ Tail(s) \in Seq(S) /\ Head(s) \in S
           /\ Head(s) = s[1] /\ 1 \in DOMAIN s
           /\ DOMAIN s = 1 .. Len(s) /\ DOMAIN Tail(s) = 1 .. Len(s) - 1
           /\ \A i \in DOMAIN Tail(s) : i + 1 \in DOMAIN s /\ Tail(s)[i] = s[i + 1]
           /\ \A i \in DOMAIN s : i = 1 \/ (i - 1 \in DOMAIN Tail(s) /\ Tail(s)[i - 1] = s[i])
OBVIOUS

\* A longer sequence holds the old items and the new one.
LEMMA Longer ==
    ASSUME NEW S, NEW s \in Seq(S), NEW x \in S
    PROVE  /\ Append(s, x) \in Seq(S) /\ s \o <<x>> = Append(s, x)
           /\ DOMAIN s = 1 .. Len(s) /\ DOMAIN Append(s, x) = 1 .. Len(s) + 1
           /\ \A i \in DOMAIN s : i \in DOMAIN Append(s, x) /\ Append(s, x)[i] = s[i]
           /\ Append(s, x)[Len(s) + 1] = x
           /\ \A i \in DOMAIN Append(s, x) : i \in DOMAIN s \/ i = Len(s) + 1
OBVIOUS

LEMMA JoinedWithNone ==
    ASSUME NEW S, NEW s \in Seq(S)
    PROVE  s \o <<>> = s
OBVIOUS

-----------------------------------------------------------------------------
(* CandidateFollows                                                        *)

\* A signal that is no description of n, at the end of the wire.
LEMMA FollowsSent ==
    ASSUME NEW n, NEW w \in Seq(Signals), NEW c, NEW p, NEW r, NEW a,
           NEW x \in Signals, x.kind \notin Descriptions,
           CandidateFollows(n, w, c, p, r, a)
    PROVE  CandidateFollows(n, Append(w, x), c, p, r, a)
<1>1. /\ DOMAIN w = 1 .. Len(w) /\ DOMAIN Append(w, x) = 1 .. Len(w) + 1
      /\ \A i \in DOMAIN w : i \in DOMAIN Append(w, x) /\ Append(w, x)[i] = w[i]
      /\ Append(w, x)[Len(w) + 1] = x
  BY Longer
<1>2. QED  BY <1>1 DEF CandidateFollows

\* The candidate itself, whatever came before.
LEMMA FollowsGathered ==
    ASSUME NEW n \in Nat, NEW w \in Seq(Signals), NEW c, NEW p, NEW r, NEW a
    PROVE  CandidateFollows(n, Append(w, Signal("candidate", n)), c, p, r, a)
<1> DEFINE x == Signal("candidate", n)
<1>1. x \in Signals /\ x.kind \notin Descriptions
  BY DEF Signal, Signals, Descriptions
<1>2. /\ DOMAIN w = 1 .. Len(w) /\ DOMAIN Append(w, x) = 1 .. Len(w) + 1
      /\ Append(w, x)[Len(w) + 1] = x /\ Len(w) \in Nat
  BY <1>1, Longer
<1> HIDE DEF x
<1>3. QED  BY <1>1, <1>2 DEF CandidateFollows, x

\* An operation that sets no description, at the end of the chain.
LEMMA FollowsAsked ==
    ASSUME NEW n, NEW w, NEW c \in Seq(Ops), NEW p, NEW r, NEW a,
           NEW x \in Ops, x.kind # "setRemote",
           CandidateFollows(n, w, c, p, r, a)
    PROVE  CandidateFollows(n, w, Append(c, x), p, r, a)
<1>1. /\ DOMAIN c = 1 .. Len(c) /\ DOMAIN Append(c, x) = 1 .. Len(c) + 1
      /\ \A i \in DOMAIN c : i \in DOMAIN Append(c, x) /\ Append(c, x)[i] = c[i]
      /\ Append(c, x)[Len(c) + 1] = x
  BY Longer
<1>2. QED  BY <1>1 DEF CandidateFollows, Op

\* An operation that adds no candidate, off the chain.
LEMMA FollowsDone ==
    ASSUME NEW n, NEW w, NEW c \in Seq(Ops), NEW p, NEW r, NEW a,
           c # <<>>, Head(c).kind # "add",
           CandidateFollows(n, w, c, p, r, a)
    PROVE  CandidateFollows(n, w, Tail(c), p, r, a)
<1>1. /\ Head(c) = c[1] /\ DOMAIN c = 1 .. Len(c) /\ DOMAIN Tail(c) = 1 .. Len(c) - 1
      /\ \A i \in DOMAIN Tail(c) : i + 1 \in DOMAIN c /\ Tail(c)[i] = c[i + 1]
      /\ \A i \in DOMAIN c : i = 1 \/ (i - 1 \in DOMAIN Tail(c) /\ Tail(c)[i - 1] = c[i])
  BY Shortened
<1>2. c[1] # Op("add", n)
  BY <1>1 DEF Op
<1>3. ASSUME NEW i \in DOMAIN Tail(c), Tail(c)[i] = Op("setRemote", n)
      PROVE  \/ \E j \in DOMAIN w : w[j] = Signal("candidate", n)
             \/ \E j \in DOMAIN p : p[j] = n
             \/ \E j \in DOMAIN Tail(c) : j > i /\ Tail(c)[j] = Op("add", n)
  <2>1. i + 1 \in DOMAIN c /\ c[i + 1] = Op("setRemote", n)
    BY <1>1, <1>3
  <2>2. CASE \E j \in DOMAIN c : j > i + 1 /\ c[j] = Op("add", n)
    <3>1. PICK j \in DOMAIN c : j > i + 1 /\ c[j] = Op("add", n)
      BY <2>2
    <3>2. j - 1 \in DOMAIN Tail(c) /\ Tail(c)[j - 1] = Op("add", n) /\ j - 1 > i
      BY <3>1, <1>1
    <3>3. QED  BY <3>2
  <2>3. QED  BY <2>1, <2>2 DEF CandidateFollows
<1>4. (\E j \in DOMAIN c : c[j] = Op("add", n)) =>
          \E j \in DOMAIN Tail(c) : Tail(c)[j] = Op("add", n)
  BY <1>1, <1>2
<1>5. QED  BY <1>3, <1>4 DEF CandidateFollows

\* A candidate was added to a description it belongs to or not.
LEMMA FollowsAdded ==
    ASSUME NEW n, NEW w, NEW c \in Seq(Ops), NEW p, NEW r, NEW a,
           c # <<>>, Head(c).kind = "add",
           CandidateFollows(n, w, c, p, r, a)
    PROVE  CandidateFollows(n, w, Tail(c), p, r, a \/ Head(c).n = r)
<1>1. /\ Head(c) = c[1] /\ DOMAIN c = 1 .. Len(c) /\ DOMAIN Tail(c) = 1 .. Len(c) - 1
      /\ \A i \in DOMAIN Tail(c) : i + 1 \in DOMAIN c /\ Tail(c)[i] = c[i + 1]
      /\ \A i \in DOMAIN c : i = 1 \/ (i - 1 \in DOMAIN Tail(c) /\ Tail(c)[i - 1] = c[i])
  BY Shortened
<1>2. ASSUME NEW i \in DOMAIN Tail(c), Tail(c)[i] = Op("setRemote", n)
      PROVE  \/ \E j \in DOMAIN w : w[j] = Signal("candidate", n)
             \/ \E j \in DOMAIN p : p[j] = n
             \/ \E j \in DOMAIN Tail(c) : j > i /\ Tail(c)[j] = Op("add", n)
  <2>1. i + 1 \in DOMAIN c /\ c[i + 1] = Op("setRemote", n)
    BY <1>1, <1>2
  <2>2. CASE \E j \in DOMAIN c : j > i + 1 /\ c[j] = Op("add", n)
    <3>1. PICK j \in DOMAIN c : j > i + 1 /\ c[j] = Op("add", n)
      BY <2>2
    <3>2. j - 1 \in DOMAIN Tail(c) /\ Tail(c)[j - 1] = Op("add", n) /\ j - 1 > i
      BY <3>1, <1>1
    <3>3. QED  BY <3>2
  <2>3. QED  BY <2>1, <2>2 DEF CandidateFollows
<1>3. (\E j \in DOMAIN c : c[j] = Op("add", n)) =>
          \/ Head(c).n = n
          \/ \E j \in DOMAIN Tail(c) : Tail(c)[j] = Op("add", n)
  BY <1>1 DEF Op
<1>4. QED  BY <1>2, <1>3 DEF CandidateFollows

\* The description that a signal brings is to be set.
LEMMA FollowsTaken ==
    ASSUME NEW n, NEW w \in Seq(Signals), NEW c \in Seq(Ops), NEW p, NEW r, NEW a,
           w # <<>>, Head(w).kind \in Descriptions, NEW x \in Ops,
           x = Op("setRemote", Head(w).n),
           CandidateFollows(n, w, c, p, r, a)
    PROVE  CandidateFollows(n, Tail(w), Append(c, x), p, r, a)
<1>1. /\ Head(w) = w[1] /\ 1 \in DOMAIN w
      /\ DOMAIN w = 1 .. Len(w) /\ DOMAIN Tail(w) = 1 .. Len(w) - 1
      /\ \A i \in DOMAIN Tail(w) : i + 1 \in DOMAIN w /\ Tail(w)[i] = w[i + 1]
      /\ \A i \in DOMAIN w : i = 1 \/ (i - 1 \in DOMAIN Tail(w) /\ Tail(w)[i - 1] = w[i])
  BY Shortened
<1>2. /\ DOMAIN c = 1 .. Len(c) /\ DOMAIN Append(c, x) = 1 .. Len(c) + 1
      /\ \A i \in DOMAIN c : i \in DOMAIN Append(c, x) /\ Append(c, x)[i] = c[i]
      /\ Append(c, x)[Len(c) + 1] = x
  BY Longer
<1>3. (\E j \in DOMAIN w : w[j] = Signal("candidate", n)) =>
          \E j \in DOMAIN Tail(w) : Tail(w)[j] = Signal("candidate", n)
  <2>1. w[1] # Signal("candidate", n)
    BY <1>1 DEF Signal, Descriptions
  <2>2. QED  BY <2>1, <1>1
<1>4. ASSUME NEW i \in DOMAIN Tail(w), Tail(w)[i].kind \in Descriptions, Tail(w)[i].n = n
      PROVE  \E j \in DOMAIN Tail(w) : j > i /\ Tail(w)[j] = Signal("candidate", n)
  <2>1. PICK j \in DOMAIN w : j > i + 1 /\ w[j] = Signal("candidate", n)
    BY <1>1, <1>4 DEF CandidateFollows
  <2>2. j - 1 \in DOMAIN Tail(w) /\ Tail(w)[j - 1] = Signal("candidate", n) /\ j - 1 > i
    BY <2>1, <1>1
  <2>3. QED  BY <2>2
<1>5. ASSUME NEW i \in DOMAIN Append(c, x), Append(c, x)[i] = Op("setRemote", n)
      PROVE  \/ \E j \in DOMAIN Tail(w) : Tail(w)[j] = Signal("candidate", n)
             \/ \E j \in DOMAIN p : p[j] = n
             \/ \E j \in DOMAIN Append(c, x) : j > i /\ Append(c, x)[j] = Op("add", n)
  <2>1. CASE i \in DOMAIN c
    BY <2>1, <1>2, <1>3, <1>5 DEF CandidateFollows
  <2>2. CASE i = Len(c) + 1
    <3>1. Head(w).n = n
      BY <2>2, <1>2, <1>5 DEF Op
    <3>2. \E j \in DOMAIN w : j > 1 /\ w[j] = Signal("candidate", n)
      BY <3>1, <1>1 DEF CandidateFollows
    <3>3. QED  BY <3>2, <1>3
  <2>3. QED  BY <2>1, <2>2, <1>2
<1>6. QED  BY <1>2, <1>3, <1>4, <1>5 DEF CandidateFollows

\* A candidate that waits in the chain or with the pending ones.
LEMMA FollowsAdding ==
    ASSUME NEW n, NEW w \in Seq(Signals), NEW c \in Seq(Ops), NEW p, NEW r, NEW a,
           w # <<>>, Head(w).kind = "candidate", NEW x \in Ops,
           x = Op("add", Head(w).n),
           CandidateFollows(n, w, c, p, r, a)
    PROVE  CandidateFollows(n, Tail(w), Append(c, x), p, r, a)
<1>1. /\ Head(w) = w[1] /\ Head(w) \in Signals
      /\ DOMAIN w = 1 .. Len(w) /\ DOMAIN Tail(w) = 1 .. Len(w) - 1
      /\ \A i \in DOMAIN Tail(w) : i + 1 \in DOMAIN w /\ Tail(w)[i] = w[i + 1]
      /\ \A i \in DOMAIN w : i = 1 \/ (i - 1 \in DOMAIN Tail(w) /\ Tail(w)[i - 1] = w[i])
  BY Shortened
<1>2. /\ DOMAIN c = 1 .. Len(c) /\ DOMAIN Append(c, x) = 1 .. Len(c) + 1
      /\ \A i \in DOMAIN c : i \in DOMAIN Append(c, x) /\ Append(c, x)[i] = c[i]
      /\ Append(c, x)[Len(c) + 1] = x /\ Len(c) \in Nat
  BY Longer
<1>3. (\E j \in DOMAIN w : w[j] = Signal("candidate", n)) =>
          \/ x = Op("add", n)
          \/ \E j \in DOMAIN Tail(w) : Tail(w)[j] = Signal("candidate", n)
  <2>1. w[1] = Signal("candidate", n) => x = Op("add", n)
    BY <1>1 DEF Signal
  <2>2. QED  BY <2>1, <1>1
<1>4. ASSUME NEW i \in DOMAIN Tail(w), Tail(w)[i].kind \in Descriptions, Tail(w)[i].n = n
      PROVE  \E j \in DOMAIN Tail(w) : j > i /\ Tail(w)[j] = Signal("candidate", n)
  <2>1. PICK j \in DOMAIN w : j > i + 1 /\ w[j] = Signal("candidate", n)
    BY <1>1, <1>4 DEF CandidateFollows
  <2>2. j - 1 \in DOMAIN Tail(w) /\ Tail(w)[j - 1] = Signal("candidate", n) /\ j - 1 > i
    BY <2>1, <1>1
  <2>3. QED  BY <2>2
<1>5. ASSUME NEW i \in DOMAIN Append(c, x), Append(c, x)[i] = Op("setRemote", n)
      PROVE  \/ \E j \in DOMAIN Tail(w) : Tail(w)[j] = Signal("candidate", n)
             \/ \E j \in DOMAIN p : p[j] = n
             \/ \E j \in DOMAIN Append(c, x) : j > i /\ Append(c, x)[j] = Op("add", n)
  <2>1. i \in DOMAIN c /\ c[i] = Op("setRemote", n)
    BY <1>2, <1>5 DEF Op
  <2>2. QED  BY <2>1, <1>2, <1>3 DEF CandidateFollows
<1>6. QED  BY <1>2, <1>3, <1>4, <1>5 DEF CandidateFollows

LEMMA FollowsBuffered ==
    ASSUME NEW n, NEW w \in Seq(Signals), NEW c, NEW p \in Seq(Nat), NEW r, NEW a,
           w # <<>>, Head(w).kind = "candidate",
           CandidateFollows(n, w, c, p, r, a)
    PROVE  CandidateFollows(n, Tail(w), c, Append(p, Head(w).n), r, a)
<1> DEFINE x == Head(w).n
<1>1. /\ Head(w) = w[1] /\ Head(w) \in Signals
      /\ DOMAIN w = 1 .. Len(w) /\ DOMAIN Tail(w) = 1 .. Len(w) - 1
      /\ \A i \in DOMAIN Tail(w) : i + 1 \in DOMAIN w /\ Tail(w)[i] = w[i + 1]
      /\ \A i \in DOMAIN w : i = 1 \/ (i - 1 \in DOMAIN Tail(w) /\ Tail(w)[i - 1] = w[i])
  BY Shortened
<1>2. x \in Nat
  BY <1>1 DEF Signals
<1>3. /\ DOMAIN p = 1 .. Len(p) /\ DOMAIN Append(p, x) = 1 .. Len(p) + 1
      /\ \A i \in DOMAIN p : i \in DOMAIN Append(p, x) /\ Append(p, x)[i] = p[i]
      /\ Append(p, x)[Len(p) + 1] = x /\ Len(p) \in Nat
  BY <1>2, Longer
<1>4. (\E j \in DOMAIN w : w[j] = Signal("candidate", n)) =>
          \/ x = n
          \/ \E j \in DOMAIN Tail(w) : Tail(w)[j] = Signal("candidate", n)
  <2>1. w[1] = Signal("candidate", n) => x = n
    BY <1>1 DEF Signal
  <2>2. QED  BY <2>1, <1>1
<1>5. ASSUME NEW i \in DOMAIN Tail(w), Tail(w)[i].kind \in Descriptions, Tail(w)[i].n = n
      PROVE  \E j \in DOMAIN Tail(w) : j > i /\ Tail(w)[j] = Signal("candidate", n)
  <2>1. PICK j \in DOMAIN w : j > i + 1 /\ w[j] = Signal("candidate", n)
    BY <1>1, <1>5 DEF CandidateFollows
  <2>2. j - 1 \in DOMAIN Tail(w) /\ Tail(w)[j - 1] = Signal("candidate", n) /\ j - 1 > i
    BY <2>1, <1>1
  <2>3. QED  BY <2>2
<1>6. x = n => \E j \in DOMAIN Append(p, x) : Append(p, x)[j] = n
  BY <1>3
<1> HIDE DEF x
<1>7. (\E j \in DOMAIN p : p[j] = n) => \E j \in DOMAIN Append(p, x) : Append(p, x)[j] = n
  BY <1>3
<1>8. QED  BY <1>4, <1>5, <1>6, <1>7 DEF CandidateFollows, x

\* A signal that is neither a description nor a candidate is taken.
LEMMA FollowsPassed ==
    ASSUME NEW n, NEW w \in Seq(Signals), NEW c, NEW p, NEW r, NEW a,
           w # <<>>, Head(w).kind \notin Descriptions, Head(w).kind # "candidate",
           CandidateFollows(n, w, c, p, r, a)
    PROVE  CandidateFollows(n, Tail(w), c, p, r, a)
<1>1. /\ Head(w) = w[1]
      /\ DOMAIN w = 1 .. Len(w) /\ DOMAIN Tail(w) = 1 .. Len(w) - 1
      /\ \A i \in DOMAIN Tail(w) : i + 1 \in DOMAIN w /\ Tail(w)[i] = w[i + 1]
      /\ \A i \in DOMAIN w : i = 1 \/ (i - 1 \in DOMAIN Tail(w) /\ Tail(w)[i - 1] = w[i])
  BY Shortened
<1>2. (\E j \in DOMAIN w : w[j] = Signal("candidate", n)) =>
          \E j \in DOMAIN Tail(w) : Tail(w)[j] = Signal("candidate", n)
  <2>1. w[1] # Signal("candidate", n)
    BY <1>1 DEF Signal
  <2>2. QED  BY <2>1, <1>1
<1>3. ASSUME NEW i \in DOMAIN Tail(w), Tail(w)[i].kind \in Descriptions, Tail(w)[i].n = n
      PROVE  \E j \in DOMAIN Tail(w) : j > i /\ Tail(w)[j] = Signal("candidate", n)
  <2>1. PICK j \in DOMAIN w : j > i + 1 /\ w[j] = Signal("candidate", n)
    BY <1>1, <1>3 DEF CandidateFollows
  <2>2. j - 1 \in DOMAIN Tail(w) /\ Tail(w)[j - 1] = Signal("candidate", n) /\ j - 1 > i
    BY <2>1, <1>1
  <2>3. QED  BY <2>2
<1>4. QED  BY <1>2, <1>3 DEF CandidateFollows

\* What RemoteSet asks for: the pending candidates, and then perhaps an answer.
IsFlushed(f, p) ==
    /\ \A i \in DOMAIN p : i \in DOMAIN f /\ f[i] = Op("add", p[i])
    /\ \A i \in DOMAIN f : f[i].kind # "setRemote"

LEMMA FollowsSet ==
    ASSUME NEW n, NEW w, NEW c \in Seq(Ops), NEW p \in Seq(Nat), NEW r, NEW a \in BOOLEAN,
           c # <<>>, Head(c).kind = "setRemote", NEW f \in Seq(Ops), IsFlushed(f, p),
           CandidateFollows(n, w, c, p, r, a)
    PROVE  CandidateFollows(n, w, Tail(c) \o f, <<>>, Head(c).n, a /\ r = Head(c).n)
<1> DEFINE d == Tail(c) \o f
<1>1. /\ Head(c) = c[1] /\ Head(c) \in Ops /\ 1 \in DOMAIN c
      /\ Tail(c) \in Seq(Ops)
      /\ DOMAIN c = 1 .. Len(c) /\ DOMAIN Tail(c) = 1 .. Len(c) - 1
      /\ \A i \in DOMAIN Tail(c) : i + 1 \in DOMAIN c /\ Tail(c)[i] = c[i + 1]
      /\ \A i \in DOMAIN c : i = 1 \/ (i - 1 \in DOMAIN Tail(c) /\ Tail(c)[i - 1] = c[i])
  BY Shortened
<1>2. /\ \A i \in DOMAIN Tail(c) : i \in DOMAIN d /\ d[i] = Tail(c)[i]
      /\ \A i \in DOMAIN f : Len(Tail(c)) + i \in DOMAIN d /\ d[Len(Tail(c)) + i] = f[i]
      /\ \A i \in DOMAIN d :
             \/ i \in DOMAIN Tail(c) /\ d[i] = Tail(c)[i]
             \/ /\ i > Len(Tail(c)) /\ i - Len(Tail(c)) \in DOMAIN f
                /\ d[i] = f[i - Len(Tail(c))]
  BY <1>1, Joined
<1>3. DOMAIN Tail(c) = 1 .. Len(Tail(c)) /\ Len(Tail(c)) \in Nat /\ DOMAIN f \subseteq Nat \ {0}
  BY <1>1
<1>4. c[1] # Op("add", n)
  BY <1>1 DEF Op
<1> HIDE DEF d
\* Wherever the candidate was, but in the wire, it is in the new chain.
<1>5. ASSUME NEW i \in DOMAIN Tail(c), \E j \in DOMAIN p : p[j] = n
      PROVE  \E j \in DOMAIN d : j > i /\ d[j] = Op("add", n)
  <2>1. PICK j \in DOMAIN p : p[j] = n
    BY <1>5
  <2>2. j \in DOMAIN f /\ f[j] = Op("add", n)
    BY <2>1 DEF IsFlushed
  <2>3. Len(Tail(c)) + j > i
    BY <2>2, <1>3
  <2>4. QED  BY <2>2, <2>3, <1>2
<1>6. (\E j \in DOMAIN p : p[j] = n) => \E j \in DOMAIN d : d[j] = Op("add", n)
  BY <1>2 DEF IsFlushed
<1>7. ASSUME NEW i \in DOMAIN d, d[i] = Op("setRemote", n)
      PROVE  \/ \E j \in DOMAIN w : w[j] = Signal("candidate", n)
             \/ \E j \in DOMAIN d : j > i /\ d[j] = Op("add", n)
  <2>1. i \in DOMAIN Tail(c) /\ Tail(c)[i] = Op("setRemote", n)
    BY <1>2, <1>7 DEF IsFlushed, Op
  <2>2. i + 1 \in DOMAIN c /\ c[i + 1] = Op("setRemote", n)
    BY <2>1, <1>1
  <2>3. CASE \E j \in DOMAIN c : j > i + 1 /\ c[j] = Op("add", n)
    <3>1. PICK j \in DOMAIN c : j > i + 1 /\ c[j] = Op("add", n)
      BY <2>3
    <3>2. j - 1 \in DOMAIN Tail(c) /\ Tail(c)[j - 1] = Op("add", n) /\ j - 1 > i
      BY <3>1, <2>1, <1>1
    <3>3. QED  BY <3>2, <1>2
  <2>4. QED  BY <2>1, <2>2, <2>3, <1>5 DEF CandidateFollows
<1>8. ASSUME Head(c).n = n
      PROVE  \/ \E j \in DOMAIN w : w[j] = Signal("candidate", n)
             \/ \E j \in DOMAIN d : d[j] = Op("add", n)
  <2>1. c[1] = Op("setRemote", n)
    BY <1>1, <1>8 DEF Op, Ops
  <2>2. CASE \E j \in DOMAIN c : j > 1 /\ c[j] = Op("add", n)
    <3>1. PICK j \in DOMAIN c : j > 1 /\ c[j] = Op("add", n)
      BY <2>2
    <3>2. j - 1 \in DOMAIN Tail(c) /\ Tail(c)[j - 1] = c[j]
      BY <3>1, <1>1
    <3>3. QED  BY <3>1, <3>2, <1>2
  <2>3. QED  BY <2>1, <2>2, <1>1, <1>6 DEF CandidateFollows
<1>9. QED  BY <1>7, <1>8 DEF CandidateFollows, d

-----------------------------------------------------------------------------
(* NewestLast                                                              *)

\* A new description comes after all the others.
LEMMA NewestSent ==
    ASSUME NEW w \in Seq(Signals), NEW c, NEW r, NEW x \in Signals, x.kind \in Descriptions
    PROVE  NewestLast(x.n, Append(w, x), c, r)
<1>1. /\ DOMAIN w = 1 .. Len(w) /\ DOMAIN Append(w, x) = 1 .. Len(w) + 1
      /\ Append(w, x)[Len(w) + 1] = x /\ Len(w) \in Nat
  BY Longer
<1>2. QED  BY <1>1 DEF NewestLast

LEMMA NewestKept ==
    ASSUME NEW n, NEW w \in Seq(Signals), NEW c, NEW r,
           NEW x \in Signals, x.kind \notin Descriptions,
           NewestLast(n, w, c, r)
    PROVE  NewestLast(n, Append(w, x), c, r)
<1>1. /\ DOMAIN w = 1 .. Len(w) /\ DOMAIN Append(w, x) = 1 .. Len(w) + 1
      /\ \A i \in DOMAIN w : i \in DOMAIN Append(w, x) /\ Append(w, x)[i] = w[i]
      /\ Append(w, x)[Len(w) + 1] = x
  BY Longer
<1>2. QED  BY <1>1 DEF NewestLast

LEMMA NewestAsked ==
    ASSUME NEW n, NEW w, NEW c \in Seq(Ops), NEW r, NEW f \in Seq(Ops),
           \A i \in DOMAIN f : f[i].kind # "setRemote",
           NewestLast(n, w, c, r)
    PROVE  NewestLast(n, w, c \o f, r)
<1>1. /\ \A i \in DOMAIN c : i \in DOMAIN (c \o f) /\ (c \o f)[i] = c[i]
      /\ \A i \in DOMAIN (c \o f) :
             \/ i \in DOMAIN c /\ (c \o f)[i] = c[i]
             \/ i - Len(c) \in DOMAIN f /\ (c \o f)[i] = f[i - Len(c)]
  BY Joined
<1>2. QED  BY <1>1 DEF NewestLast

\* An operation is over, and with setRemote n's description is the one in force.
LEMMA NewestDone ==
    ASSUME NEW n, NEW w, NEW c \in Seq(Ops), NEW r, NEW q, c # <<>>,
           q = IF Head(c).kind = "setRemote" THEN Head(c).n ELSE r,
           NewestLast(n, w, c, r)
    PROVE  NewestLast(n, w, Tail(c), q)
<1>1. /\ Head(c) = c[1] /\ 1 \in DOMAIN c /\ Head(c) \in Ops
      /\ DOMAIN c = 1 .. Len(c) /\ DOMAIN Tail(c) = 1 .. Len(c) - 1
      /\ \A i \in DOMAIN Tail(c) : i + 1 \in DOMAIN c /\ Tail(c)[i] = c[i + 1]
      /\ \A i \in DOMAIN c : i = 1 \/ (i - 1 \in DOMAIN Tail(c) /\ Tail(c)[i - 1] = c[i])
  BY Shortened
<1>2. ASSUME NEW i \in DOMAIN Tail(c), Tail(c)[i].kind = "setRemote", Tail(c)[i].n # n
      PROVE  \/ \E j \in DOMAIN w : w[j].kind \in Descriptions /\ w[j].n = n
             \/ \E j \in DOMAIN Tail(c) : j > i /\ Tail(c)[j] = Op("setRemote", n)
  <2>1. i + 1 \in DOMAIN c /\ c[i + 1].kind = "setRemote" /\ c[i + 1].n # n
    BY <1>1, <1>2
  <2>2. CASE \E j \in DOMAIN c : j > i + 1 /\ c[j] = Op("setRemote", n)
    <3>1. PICK j \in DOMAIN c : j > i + 1 /\ c[j] = Op("setRemote", n)
      BY <2>2
    <3>2. j - 1 \in DOMAIN Tail(c) /\ Tail(c)[j - 1] = Op("setRemote", n) /\ j - 1 > i
      BY <3>1, <1>1
    <3>3. QED  BY <3>2
  <2>3. QED  BY <2>1, <2>2 DEF NewestLast
<1>3. ASSUME q # n
      PROVE  \/ \E j \in DOMAIN w : w[j].kind \in Descriptions /\ w[j].n = n
             \/ \E j \in DOMAIN Tail(c) : Tail(c)[j] = Op("setRemote", n)
  <2>1. c[1] # Op("setRemote", n)
    BY <1>1, <1>3 DEF Op
  <2>2. \/ \E j \in DOMAIN w : w[j].kind \in Descriptions /\ w[j].n = n
        \/ \E j \in DOMAIN c : c[j] = Op("setRemote", n)
    <3>1. CASE Head(c).kind = "setRemote"
      BY <3>1, <1>1, <1>3 DEF NewestLast
    <3>2. CASE Head(c).kind # "setRemote"
      BY <3>2, <1>3 DEF NewestLast
    <3>3. QED  BY <3>1, <3>2
  <2>3. QED  BY <2>1, <2>2, <1>1
<1>4. QED  BY <1>2, <1>3 DEF NewestLast

LEMMA NewestTaken ==
    ASSUME NEW n, NEW w \in Seq(Signals), NEW c \in Seq(Ops), NEW r,
           w # <<>>, Head(w).kind \in Descriptions, NEW x \in Ops,
           x = Op("setRemote", Head(w).n),
           NewestLast(n, w, c, r)
    PROVE  NewestLast(n, Tail(w), Append(c, x), r)
<1>1. /\ Head(w) = w[1] /\ 1 \in DOMAIN w
      /\ DOMAIN w = 1 .. Len(w) /\ DOMAIN Tail(w) = 1 .. Len(w) - 1
      /\ \A i \in DOMAIN Tail(w) : i + 1 \in DOMAIN w /\ Tail(w)[i] = w[i + 1]
      /\ \A i \in DOMAIN w : i = 1 \/ (i - 1 \in DOMAIN Tail(w) /\ Tail(w)[i - 1] = w[i])
  BY Shortened
<1>2. /\ DOMAIN c = 1 .. Len(c) /\ DOMAIN Append(c, x) = 1 .. Len(c) + 1
      /\ \A i \in DOMAIN c : i \in DOMAIN Append(c, x) /\ Append(c, x)[i] = c[i]
      /\ Append(c, x)[Len(c) + 1] = x /\ Len(c) \in Nat
  BY Longer
<1>3. x.kind = "setRemote" /\ x.n = Head(w).n
  BY DEF Op
\* n is still in the wire, or it is what was taken.
<1>4. (\E j \in DOMAIN w : w[j].kind \in Descriptions /\ w[j].n = n) =>
          \/ x = Op("setRemote", n)
          \/ \E j \in DOMAIN Tail(w) : Tail(w)[j].kind \in Descriptions /\ Tail(w)[j].n = n
  <2>1. w[1].n = n => x = Op("setRemote", n)
    BY <1>1
  <2>2. QED  BY <2>1, <1>1
<1>5. ASSUME NEW i \in DOMAIN Tail(w), Tail(w)[i].kind \in Descriptions, Tail(w)[i].n # n
      PROVE  \E j \in DOMAIN Tail(w) :
                 j > i /\ Tail(w)[j].kind \in Descriptions /\ Tail(w)[j].n = n
  <2>1. PICK j \in DOMAIN w : j > i + 1 /\ w[j].kind \in Descriptions /\ w[j].n = n
    BY <1>1, <1>5 DEF NewestLast
  <2>2. /\ j - 1 \in DOMAIN Tail(w) /\ j - 1 > i
        /\ Tail(w)[j - 1].kind \in Descriptions /\ Tail(w)[j - 1].n = n
    BY <2>1, <1>1
  <2>3. QED  BY <2>2
<1>6. ASSUME NEW i \in DOMAIN Append(c, x), Append(c, x)[i].kind = "setRemote",
             Append(c, x)[i].n # n
      PROVE  \/ \E j \in DOMAIN Tail(w) : Tail(w)[j].kind \in Descriptions /\ Tail(w)[j].n = n
             \/ \E j \in DOMAIN Append(c, x) : j > i /\ Append(c, x)[j] = Op("setRemote", n)
  <2>1. CASE i \in DOMAIN c
    <3>1. \/ \E j \in DOMAIN w : w[j].kind \in Descriptions /\ w[j].n = n
          \/ \E j \in DOMAIN c : j > i /\ c[j] = Op("setRemote", n)
      BY <2>1, <1>2, <1>6 DEF NewestLast
    <3>2. QED  BY <3>1, <2>1, <1>2, <1>4
  <2>2. CASE i = Len(c) + 1
    <3>1. w[1].kind \in Descriptions /\ w[1].n # n
      BY <2>2, <1>1, <1>2, <1>3, <1>6
    <3>2. PICK j \in DOMAIN w : j > 1 /\ w[j].kind \in Descriptions /\ w[j].n = n
      BY <3>1, <1>1 DEF NewestLast
    <3>3. j - 1 \in DOMAIN Tail(w) /\ Tail(w)[j - 1] = w[j]
      BY <3>2, <1>1
    <3>4. QED  BY <3>2, <3>3
  <2>3. QED  BY <2>1, <2>2, <1>2
<1>7. ASSUME r # n
      PROVE  \/ \E j \in DOMAIN Tail(w) : Tail(w)[j].kind \in Descriptions /\ Tail(w)[j].n = n
             \/ \E j \in DOMAIN Append(c, x) : Append(c, x)[j] = Op("setRemote", n)
  <2>1. \/ \E j \in DOMAIN w : w[j].kind \in Descriptions /\ w[j].n = n
        \/ \E j \in DOMAIN c : c[j] = Op("setRemote", n)
    BY <1>7 DEF NewestLast
  <2>2. QED  BY <2>1, <1>2, <1>4
<1>8. QED  BY <1>5, <1>6, <1>7 DEF NewestLast

LEMMA NewestPassed ==
    ASSUME NEW n, NEW w \in Seq(Signals), NEW c, NEW r,
           w # <<>>, Head(w).kind \notin Descriptions,
           NewestLast(n, w, c, r)
    PROVE  NewestLast(n, Tail(w), c, r)
<1>1. /\ Head(w) = w[1]
      /\ DOMAIN w = 1 .. Len(w) /\ DOMAIN Tail(w) = 1 .. Len(w) - 1
      /\ \A i \in DOMAIN Tail(w) : i + 1 \in DOMAIN w /\ Tail(w)[i] = w[i + 1]
      /\ \A i \in DOMAIN w : i = 1 \/ (i - 1 \in DOMAIN Tail(w) /\ Tail(w)[i - 1] = w[i])
  BY Shortened
<1>2. (\E j \in DOMAIN w : w[j].kind \in Descriptions /\ w[j].n = n) =>
          \E j \in DOMAIN Tail(w) : Tail(w)[j].kind \in Descriptions /\ Tail(w)[j].n = n
  BY <1>1
<1>3. ASSUME NEW i \in DOMAIN Tail(w), Tail(w)[i].kind \in Descriptions, Tail(w)[i].n # n
      PROVE  \E j \in DOMAIN Tail(w) :
                 j > i /\ Tail(w)[j].kind \in Descriptions /\ Tail(w)[j].n = n
  <2>1. PICK j \in DOMAIN w : j > i + 1 /\ w[j].kind \in Descriptions /\ w[j].n = n
    BY <1>1, <1>3 DEF NewestLast
  <2>2. /\ j - 1 \in DOMAIN Tail(w) /\ j - 1 > i
        /\ Tail(w)[j - 1].kind \in Descriptions /\ Tail(w)[j - 1].n = n
    BY <2>1, <1>1
  <2>3. QED  BY <2>2
<1>4. QED  BY <1>2, <1>3 DEF NewestLast

-----------------------------------------------------------------------------
(* Some, Idle and Only                                                     *)

LEMMA KindsLonger ==
    ASSUME NEW S, NEW s \in Seq(S), NEW x \in S, NEW kinds
    PROVE  /\ Has(Append(s, x), x)
           /\ Some(s, kinds) \/ x.kind \in kinds => Some(Append(s, x), kinds)
           /\ Idle(s, kinds) /\ x.kind \notin kinds => Idle(Append(s, x), kinds)
           /\ Idle(s, kinds) => Only(Append(s, x), kinds, x)
<1>1. /\ DOMAIN s = 1 .. Len(s) /\ DOMAIN Append(s, x) = 1 .. Len(s) + 1
      /\ \A i \in DOMAIN s : i \in DOMAIN Append(s, x) /\ Append(s, x)[i] = s[i]
      /\ Append(s, x)[Len(s) + 1] = x /\ Len(s) \in Nat
      /\ \A i \in DOMAIN Append(s, x) : i \in DOMAIN s \/ i = Len(s) + 1
      /\ Len(s) + 1 \notin DOMAIN s /\ Len(s) + 1 \in DOMAIN Append(s, x)
  BY Longer
<1>2. QED  BY <1>1 DEF Has, Some, Idle, Only

LEMMA OthersLonger ==
    ASSUME NEW S, NEW s \in Seq(S), NEW x \in S, NEW kinds, NEW y
    PROVE  /\ Has(s, y) => Has(Append(s, x), y)
           /\ Only(s, kinds, y) /\ x.kind \notin kinds => Only(Append(s, x), kinds, y)
<1>1. /\ \A i \in DOMAIN s : i \in DOMAIN Append(s, x) /\ Append(s, x)[i] = s[i]
      /\ Append(s, x)[Len(s) + 1] = x
      /\ \A i \in DOMAIN Append(s, x) : i \in DOMAIN s \/ i = Len(s) + 1
  BY Longer
<1>2. QED  BY <1>1 DEF Has, Only

LEMMA KindsShorter ==
    ASSUME NEW S, NEW s \in Seq(S), s # <<>>, NEW kinds
    PROVE  /\ Some(s, kinds) => Head(s).kind \in kinds \/ Some(Tail(s), kinds)
           /\ Idle(s, kinds) => Idle(Tail(s), kinds) /\ Head(s).kind \notin kinds
<1>1. /\ Head(s) = s[1] /\ 1 \in DOMAIN s
      /\ \A i \in DOMAIN Tail(s) : i + 1 \in DOMAIN s /\ Tail(s)[i] = s[i + 1]
      /\ \A i \in DOMAIN s : i = 1 \/ (i - 1 \in DOMAIN Tail(s) /\ Tail(s)[i - 1] = s[i])
  BY Shortened
<1>2. QED  BY <1>1 DEF Some, Idle

LEMMA HasShorter ==
    ASSUME NEW S, NEW s \in Seq(S), s # <<>>, NEW y, Has(s, y)
    PROVE  Head(s) = y \/ Has(Tail(s), y)
<1>1. /\ Head(s) = s[1]
      /\ \A i \in DOMAIN s : i = 1 \/ (i - 1 \in DOMAIN Tail(s) /\ Tail(s)[i - 1] = s[i])
  BY Shortened
<1>2. QED  BY <1>1 DEF Has

LEMMA OnlyShorter ==
    ASSUME NEW S, NEW s \in Seq(S), s # <<>>, NEW kinds, NEW y, y.kind \in kinds,
           Only(s, kinds, y)
    PROVE  /\ Head(s).kind \in kinds => Head(s) = y /\ Idle(Tail(s), kinds)
           /\ Head(s).kind \notin kinds => Only(Tail(s), kinds, y)
<1>1. /\ Head(s) = s[1] /\ 1 \in DOMAIN s
      /\ DOMAIN s = 1 .. Len(s) /\ DOMAIN Tail(s) = 1 .. Len(s) - 1
      /\ \A i \in DOMAIN Tail(s) : i + 1 \in DOMAIN s /\ Tail(s)[i] = s[i + 1]
      /\ \A i \in DOMAIN s : i = 1 \/ (i - 1 \in DOMAIN Tail(s) /\ Tail(s)[i - 1] = s[i])
  BY Shortened
<1>2. PICK i \in DOMAIN s : s[i] = y /\ \A j \in DOMAIN s : j # i => s[j].kind \notin kinds
  BY DEF Only
<1>3. ASSUME Head(s).kind \in kinds
      PROVE  Head(s) = y /\ Idle(Tail(s), kinds)
  <2>1. i = 1
    BY <1>1, <1>2, <1>3
  <2>2. QED  BY <2>1, <1>1, <1>2 DEF Idle
<1>4. ASSUME Head(s).kind \notin kinds
      PROVE  Only(Tail(s), kinds, y)
  <2>1. i # 1
    BY <1>1, <1>2, <1>4
  <2>2. i - 1 \in DOMAIN Tail(s) /\ Tail(s)[i - 1] = y
    BY <2>1, <1>1, <1>2
  <2>3. \A j \in DOMAIN Tail(s) : j # i - 1 => Tail(s)[j].kind \notin kinds
    BY <1>1, <1>2
  <2>4. QED  BY <2>2, <2>3 DEF Only
<1>5. QED  BY <1>3, <1>4

LEMMA KindsJoined ==
    ASSUME NEW S, NEW s \in Seq(S), NEW t \in Seq(S), NEW kinds, NEW y
    PROVE  /\ Has(s, y) => Has(s \o t, y)
           /\ Some(s, kinds) => Some(s \o t, kinds)
           /\ Some(t, kinds) => Some(s \o t, kinds)
           /\ Idle(s, kinds) /\ Idle(t, kinds) => Idle(s \o t, kinds)
           /\ Only(s, kinds, y) /\ Idle(t, kinds) => Only(s \o t, kinds, y)
           /\ Idle(s, kinds) /\ Only(t, kinds, y) => Only(s \o t, kinds, y)
<1>1. /\ \A i \in DOMAIN s : i \in DOMAIN (s \o t) /\ (s \o t)[i] = s[i]
      /\ \A i \in DOMAIN t : /\ Len(s) + i \in DOMAIN (s \o t)
                             /\ (s \o t)[Len(s) + i] = t[i]
      /\ \A i \in DOMAIN (s \o t) :
             \/ i \in DOMAIN s /\ (s \o t)[i] = s[i]
             \/ /\ i > Len(s) /\ i - Len(s) \in DOMAIN t
                /\ (s \o t)[i] = t[i - Len(s)]
  BY Joined
<1>2. DOMAIN s = 1 .. Len(s) /\ DOMAIN t = 1 .. Len(t) /\ Len(s) \in Nat /\ Len(t) \in Nat
      /\ DOMAIN (s \o t) = 1 .. Len(s) + Len(t)
  BY Joined
<1> DEFINE u == s \o t
<1> HIDE DEF u
<1>3. Some(s, kinds) \/ Some(t, kinds) => Some(u, kinds)
  BY <1>1 DEF Some, u
<1>4. Idle(s, kinds) /\ Idle(t, kinds) => Idle(u, kinds)
  BY <1>1 DEF Idle, u
<1>5. ASSUME Only(s, kinds, y), Idle(t, kinds)
      PROVE  Only(u, kinds, y)
  <2>1. PICK i \in DOMAIN s : s[i] = y /\ \A j \in DOMAIN s : j # i => s[j].kind \notin kinds
    BY <1>5 DEF Only
  <2>2. i \in DOMAIN u /\ u[i] = y
    BY <2>1, <1>1 DEF u
  <2>3. \A j \in DOMAIN u : j # i => u[j].kind \notin kinds
    BY <2>1, <1>1, <1>5 DEF u, Idle
  <2>4. QED  BY <2>2, <2>3 DEF Only
<1>6. ASSUME Idle(s, kinds), Only(t, kinds, y)
      PROVE  Only(u, kinds, y)
  <2>1. PICK i \in DOMAIN t : t[i] = y /\ \A j \in DOMAIN t : j # i => t[j].kind \notin kinds
    BY <1>6 DEF Only
  <2>2. Len(s) + i \in DOMAIN u /\ u[Len(s) + i] = y
    BY <2>1, <1>1 DEF u
  <2>3. \A j \in DOMAIN u : j # Len(s) + i => u[j].kind \notin kinds
    BY <2>1, <1>1, <1>2, <1>6 DEF u, Idle
  <2>4. QED  BY <2>2, <2>3 DEF Only
<1>7. Has(s, y) => Has(u, y)
  BY <1>1 DEF Has, u
<1>8. QED  BY <1>3, <1>4, <1>5, <1>6, <1>7 DEF u

\* What is said of the items of these kinds in s is true of t.
Keeps(s, t, kinds) ==
    /\ Some(s, kinds) => Some(t, kinds)
    /\ Idle(s, kinds) => Idle(t, kinds)
    /\ \A y \in Items : y.kind \in kinds /\ Only(s, kinds, y) => Only(t, kinds, y)

LEMMA KeepsAll ==
    ASSUME NEW S, NEW s \in Seq(S), NEW kinds
    PROVE  /\ Keeps(s, s, kinds)
           /\ \A x \in S : x.kind \notin kinds => Keeps(s, Append(s, x), kinds)
           /\ s # <<>> /\ Head(s).kind \notin kinds => Keeps(s, Tail(s), kinds)
           /\ \A t \in Seq(S) : Idle(t, kinds) => Keeps(s, s \o t, kinds)
<1>1. Keeps(s, s, kinds)
  BY DEF Keeps
<1>2. ASSUME NEW x \in S, x.kind \notin kinds
      PROVE  Keeps(s, Append(s, x), kinds)
  BY <1>2, KindsLonger, OthersLonger DEF Keeps
<1>3. ASSUME s # <<>>, Head(s).kind \notin kinds
      PROVE  Keeps(s, Tail(s), kinds)
  <2>1. /\ DOMAIN Tail(s) = 1 .. Len(s) - 1 /\ DOMAIN s = 1 .. Len(s) /\ Head(s) = s[1]
        /\ \A i \in DOMAIN s : i = 1 \/ (i - 1 \in DOMAIN Tail(s) /\ Tail(s)[i - 1] = s[i])
        /\ \A i \in DOMAIN Tail(s) : i + 1 \in DOMAIN s /\ Tail(s)[i] = s[i + 1]
    BY <1>3, Shortened
  <2>2. /\ Some(s, kinds) => Some(Tail(s), kinds)
        /\ Idle(s, kinds) => Idle(Tail(s), kinds)
    BY <1>3, <2>1 DEF Some, Idle
  <2>3. \A y \in Items : y.kind \in kinds /\ Only(s, kinds, y) => Only(Tail(s), kinds, y)
    BY <1>3, OnlyShorter
  <2>4. QED  BY <2>2, <2>3 DEF Keeps
<1>4. ASSUME NEW t \in Seq(S), Idle(t, kinds)
      PROVE  Keeps(s, s \o t, kinds)
  BY <1>4, KindsJoined DEF Keeps
<1>5. QED  BY <1>1, <1>2, <1>3, <1>4

LEMMA KeepsOn ==
    ASSUME NEW s, NEW t, NEW u, NEW kinds, Keeps(s, t, kinds), Keeps(t, u, kinds)
    PROVE  Keeps(s, u, kinds)
BY DEF Keeps

-----------------------------------------------------------------------------
(* What is known of every state                                            *)

Work(e) == IF e = "host" THEN {"setRemote"} ELSE {"setRemote", "createAnswer", "setLocal"}

\* A candidate that was signalled is on its way to the description it belongs to,
\* wherever that description is.
CandidateFollowsTo(e) ==
    local[Other(e)] # 0 /\ gathered[Other(e)] =>
        CandidateFollows(local[Other(e)], wire[e], chain[e], pending[e], remote[e], added[e])
CandidatesFollow == \A e \in Ends : CandidateFollowsTo(e)

\* The guest ends up with the host's last offer, and an offer that waits has its
\* answer, or what will become one, on its way.
OfferArrives ==
    NewestLast(local["host"], wire["guest"], chain["guest"], remote["guest"])
AnswerComes ==
    /\ state["guest"] = "offered" => Some(chain["guest"], {"createAnswer", "setLocal"})
    /\ state["host"] = "offered" =>
           \/ state["guest"] = "offered"
           \/ \E e \in Ends : \/ Some(wire[e], Descriptions)
                              \/ Some(chain[e], {"setRemote"})

\* Nothing of a round of offer and answer is under way, except in one place.
IdleBut(place) ==
    /\ place = "offer" \/ Idle(wire["guest"], Descriptions)
    /\ place = "answer" \/ Idle(wire["host"], Descriptions)
    /\ place = "guest" \/ Idle(chain["guest"], Work("guest"))
    /\ place = "host" \/ Idle(chain["host"], Work("host"))

Settled == /\ state["host"] = "stable" /\ state["guest"] = "stable"
           /\ remote["guest"] = local["host"]
           /\ local["guest"] = local["host"] /\ remote["host"] = local["host"]

BetweenRounds == Settled /\ IdleBut("none")
OfferSent == /\ state["host"] = "offered" /\ state["guest"] = "stable" /\ IdleBut("offer")
             /\ Only(wire["guest"], Descriptions, Signal("offer", local["host"]))
OfferToSet == /\ state["host"] = "offered" /\ state["guest"] = "stable" /\ IdleBut("guest")
              /\ Only(chain["guest"], Work("guest"), Op("setRemote", local["host"]))
Answering == /\ state["host"] = "offered" /\ state["guest"] = "offered" /\ IdleBut("guest")
             /\ remote["guest"] = local["host"]
             /\ \/ Only(chain["guest"], Work("guest"), Op("createAnswer", 0))
                \/ Only(chain["guest"], Work("guest"), Op("setLocal", local["host"]))
Answered == /\ state["host"] = "offered" /\ state["guest"] = "stable"
            /\ remote["guest"] = local["host"] /\ local["guest"] = local["host"]
AnswerSent == /\ Answered /\ IdleBut("answer")
              /\ Only(wire["host"], Descriptions, Signal("answer", local["host"]))
AnswerToSet == /\ Answered /\ IdleBut("host")
               /\ Only(chain["host"], Work("host"), Op("setRemote", local["host"]))

\* Without overlapping offers, there is one round at a time.
OneRound ==
    \/ BetweenRounds \/ OfferSent \/ OfferToSet \/ Answering \/ AnswerSent \/ AnswerToSet

\* The first offer is made, and the newest one set.
OfferMade ==
    /\ offers = 0 => Some(chain["host"], {"createOffer"})
    /\ offers # local["host"] =>
           Has(chain["host"], Op("setLocal", offers))

\* Candidates wait only for the first remote description.
BufferedFirst == \A e \in Ends :
    /\ remoteSet[e] => pending[e] = <<>>
    /\ remote[e] # 0 => remoteSet[e]

-----------------------------------------------------------------------------
(* Types                                                                   *)

LEMMA Records ==
    /\ \A k \in {"createOffer", "createAnswer", "setLocal", "setRemote", "add"}, n \in Nat :
           Op(k, n) \in Ops /\ Op(k, n).kind = k /\ Op(k, n).n = n
    /\ \A k \in {"offer", "answer", "candidate", "ice-restart"}, n \in Nat :
           Signal(k, n) \in Signals /\ Signal(k, n).kind = k /\ Signal(k, n).n = n
    /\ \A x \in Ops \union Signals : x.n \in Nat
BY DEF Op, Signal, Ops, Signals

LEMMA EndsFacts ==
    /\ "host" \in Ends /\ "guest" \in Ends /\ "host" # "guest"
    /\ Other("host") = "guest" /\ Other("guest") = "host"
    /\ \A e \in Ends : e = "host" \/ e = "guest"
    /\ \A e \in Ends : Other(e) \in Ends /\ Other(e) # e /\ Other(Other(e)) = e
BY DEF Ends, Other

\* What Continue leaves of chain and wire.
LEMMA Continued ==
    ASSUME chain \in [Ends -> Seq(Ops)], wire \in [Ends -> Seq(Signals)], NEW e \in Ends,
           chain[e] # <<>>, NEW more \in Seq(Ops), NEW out \in Seq(Signals),
           Continue(e, more, out)
    PROVE  /\ chain' \in [Ends -> Seq(Ops)] /\ wire' \in [Ends -> Seq(Signals)]
           /\ chain'[e] = Tail(chain[e]) \o more
           /\ chain'[Other(e)] = chain[Other(e)]
           /\ wire'[e] = wire[e]
           /\ wire'[Other(e)] = wire[Other(e)] \o out
           /\ Tail(chain[e]) \in Seq(Ops) /\ Head(chain[e]) \in Ops
<1>1. Tail(chain[e]) \in Seq(Ops) /\ Head(chain[e]) \in Ops
  BY Shortened
<1>2. Tail(chain[e]) \o more \in Seq(Ops)
  BY <1>1, Joined
<1>3. wire[Other(e)] \in Seq(Signals) /\ Other(e) \in Ends /\ Other(e) # e
  BY EndsFacts
<1>4. wire[Other(e)] \o out \in Seq(Signals)
  BY <1>3, Joined
<1>5. QED  BY <1>1, <1>2, <1>3, <1>4 DEF Continue

\* The same where nothing or one operation is asked for, nothing or one signal sent.
LEMMA ContinuedPlain ==
    ASSUME chain \in [Ends -> Seq(Ops)], wire \in [Ends -> Seq(Signals)], NEW e \in Ends,
           chain[e] # <<>>, Continue(e, <<>>, <<>>)
    PROVE  /\ chain' \in [Ends -> Seq(Ops)] /\ wire' = wire
           /\ chain'[e] = Tail(chain[e]) /\ chain'[Other(e)] = chain[Other(e)]
           /\ Tail(chain[e]) \in Seq(Ops) /\ Head(chain[e]) \in Ops
<1>1. <<>> \in Seq(Ops) /\ <<>> \in Seq(Signals)
  OBVIOUS
<1>2. Tail(chain[e]) \in Seq(Ops) /\ wire[Other(e)] \in Seq(Signals)
  BY Shortened, EndsFacts
<1>3. Tail(chain[e]) \o <<>> = Tail(chain[e]) /\ wire[Other(e)] \o <<>> = wire[Other(e)]
  BY <1>2, JoinedWithNone
<1>4. wire' = wire
  BY <1>3, EndsFacts DEF Continue
<1>5. QED  BY <1>1, <1>3, <1>4, Continued

LEMMA ContinuedAsking ==
    ASSUME chain \in [Ends -> Seq(Ops)], wire \in [Ends -> Seq(Signals)], NEW e \in Ends,
           chain[e] # <<>>, NEW x \in Ops, Continue(e, <<x>>, <<>>)
    PROVE  /\ chain' \in [Ends -> Seq(Ops)] /\ wire' = wire
           /\ chain'[e] = Append(Tail(chain[e]), x) /\ chain'[Other(e)] = chain[Other(e)]
           /\ Tail(chain[e]) \in Seq(Ops) /\ Head(chain[e]) \in Ops
<1>1. <<x>> \in Seq(Ops) /\ <<>> \in Seq(Signals)
  OBVIOUS
<1>2. Tail(chain[e]) \in Seq(Ops) /\ wire[Other(e)] \in Seq(Signals)
  BY Shortened, EndsFacts
<1>3. Tail(chain[e]) \o <<x>> = Append(Tail(chain[e]), x)
  BY <1>2, Longer
<1>4. wire' = wire
  BY <1>2, JoinedWithNone, EndsFacts DEF Continue
<1>5. QED  BY <1>1, <1>3, <1>4, Continued

LEMMA ContinuedSending ==
    ASSUME chain \in [Ends -> Seq(Ops)], wire \in [Ends -> Seq(Signals)], NEW e \in Ends,
           chain[e] # <<>>, NEW x \in Signals, Continue(e, <<>>, <<x>>)
    PROVE  /\ chain' \in [Ends -> Seq(Ops)] /\ wire' \in [Ends -> Seq(Signals)]
           /\ chain'[e] = Tail(chain[e]) /\ chain'[Other(e)] = chain[Other(e)]
           /\ wire'[e] = wire[e] /\ wire'[Other(e)] = Append(wire[Other(e)], x)
           /\ Tail(chain[e]) \in Seq(Ops) /\ Head(chain[e]) \in Ops
<1>1. <<>> \in Seq(Ops) /\ <<x>> \in Seq(Signals)
  OBVIOUS
<1>2. Tail(chain[e]) \in Seq(Ops) /\ wire[Other(e)] \in Seq(Signals)
  BY Shortened, EndsFacts
<1>3. /\ Tail(chain[e]) \o <<>> = Tail(chain[e])
      /\ wire[Other(e)] \o <<x>> = Append(wire[Other(e)], x)
  BY <1>2, JoinedWithNone, Longer
<1>4. QED  BY <1>1, <1>3, Continued

LEMMA FlushedFacts ==
    ASSUME pending \in [Ends -> Seq(Nat)], NEW e \in Ends
    PROVE  /\ Flushed(e) \o ThenAnswer(e) \in Seq(Ops)
           /\ IsFlushed(Flushed(e) \o ThenAnswer(e), pending[e])
           /\ e = "guest" => Only(Flushed(e) \o ThenAnswer(e), Work(e), Op("createAnswer", 0))
           /\ e = "host" => Idle(Flushed(e) \o ThenAnswer(e), Work(e))
<1> DEFINE p == pending[e]
           f == Flushed(e)
           a == ThenAnswer(e)
<1>1. p \in Seq(Nat) /\ DOMAIN p = 1 .. Len(p) /\ Len(p) \in Nat
  OBVIOUS
<1>2. f \in Seq(Ops) /\ DOMAIN f = DOMAIN p /\ \A i \in DOMAIN p : f[i] = Op("add", p[i])
  <2>1. \A i \in 1 .. Len(p) : Op("add", p[i]) \in Ops
    BY <1>1, Records
  <2>2. QED  BY <1>1, <2>1 DEF Flushed
<1>3. \A i \in DOMAIN f : f[i].kind = "add"
  BY <1>2 DEF Op
<1>4. /\ a \in Seq(Ops)
      /\ e = "guest" => DOMAIN a = {1} /\ a[1] = Op("createAnswer", 0)
      /\ e = "host" => DOMAIN a = {}
  <2>1. Op("createAnswer", 0) \in Ops
    BY Records
  <2>2. CASE e = "guest"
    <3>1. a = <<Op("createAnswer", 0)>>
      BY <2>2 DEF ThenAnswer
    <3>2. DOMAIN a = 1 .. 1 /\ a[1] = Op("createAnswer", 0) /\ a \in Seq(Ops)
      BY <2>1, <3>1
    <3>3. e # "host" /\ 1 .. 1 = {1}
      BY <2>2
    <3> HIDE DEF a
    <3>4. QED  BY <3>2, <3>3
  <2>3. CASE e = "host"
    <3>1. a = <<>>
      BY <2>3 DEF ThenAnswer
    <3>2. DOMAIN a = {} /\ a \in Seq(Ops)
      BY <3>1
    <3>3. e # "guest"
      BY <2>3
    <3> HIDE DEF a
    <3>4. QED  BY <3>2, <3>3
  <2>4. QED  BY <2>2, <2>3, EndsFacts
<1>5. /\ f \o a \in Seq(Ops)
      /\ \A i \in DOMAIN f : i \in DOMAIN (f \o a) /\ (f \o a)[i] = f[i]
      /\ \A i \in DOMAIN (f \o a) :
             \/ i \in DOMAIN f /\ (f \o a)[i] = f[i]
             \/ i - Len(f) \in DOMAIN a /\ (f \o a)[i] = a[i - Len(f)]
  BY <1>2, <1>4, Joined
<1>6. Op("createAnswer", 0).kind = "createAnswer"
  BY DEF Op
<1> HIDE DEF p, f, a
<1>7. \A i \in DOMAIN a : a[i].kind = "createAnswer"
  BY <1>4, <1>6, EndsFacts
<1>8. IsFlushed(f \o a, p)
  BY <1>2, <1>3, <1>5, <1>7 DEF IsFlushed
<1>9. Idle(f, Work(e))
  BY <1>3 DEF Idle, Work
<1>10. e = "guest" => Only(f \o a, Work(e), Op("createAnswer", 0))
  <2>1. e = "guest" => Only(a, Work(e), Op("createAnswer", 0))
    BY <1>4 DEF Only
  <2>2. QED  BY <2>1, <1>2, <1>4, <1>9, KindsJoined
<1>11. e = "host" => Idle(f \o a, Work(e))
  <2>1. e = "host" => Idle(a, Work(e))
    BY <1>4 DEF Idle
  <2>2. QED  BY <2>1, <1>2, <1>4, <1>9, KindsJoined
<1>12. QED  BY <1>5, <1>8, <1>10, <1>11 DEF p, f, a

LEMMA TypeInit == Init => TypeOK
<1> SUFFICES ASSUME Init PROVE TypeOK
  OBVIOUS
<1>1. chain \in [Ends -> Seq(Ops)]
  <2>1. Op("createOffer", 0) \in Ops
    BY Records
  <2>2. <<Op("createOffer", 0)>> \in Seq(Ops) /\ <<>> \in Seq(Ops)
    BY <2>1
  <2>3. QED  BY <2>2 DEF Init
<1>2. /\ timers \in [Ends -> Nat] /\ drops \in 0 .. Drops
      /\ attempts \in [Ends -> 0 .. MaxAttempts]
  BY StaleTimersAssumption, DropsAssumption, MaxAttemptsAssumption DEF Init
<1>3. /\ state \in [Ends -> {"stable", "offered"}]
      /\ local \in [Ends -> Nat] /\ remote \in [Ends -> Nat] /\ offers \in Nat
      /\ ice \in [Ends -> {"new", "connected", "disconnected"}]
      /\ lost \in Nat /\ overlapped \in BOOLEAN /\ gaveUp \in BOOLEAN
  BY DEF Init
<1>4. /\ remoteSet \in [Ends -> BOOLEAN]
      /\ added \in [Ends -> BOOLEAN] /\ gathered \in [Ends -> BOOLEAN]
  BY DEF Init
<1>5. pending \in [Ends -> Seq(Nat)] /\ wire \in [Ends -> Seq(Signals)]
  <2>1. <<>> \in Seq(Nat) /\ <<>> \in Seq(Signals)
    OBVIOUS
  <2>2. QED  BY <2>1 DEF Init
<1>6. QED  BY <1>1, <1>2, <1>3, <1>4, <1>5 DEF TypeOK

LEMMA TypeStep == TypeOK /\ [Next]_vars => TypeOK'
<1> SUFFICES ASSUME TypeOK, [Next]_vars PROVE TypeOK'
  OBVIOUS
<1> USE DEF TypeOK, descriptions, candidates, recovery
<1>1. CASE OfferCreated
  <2>1. Op("setLocal", offers + 1) \in Ops
    BY Records
  <2>2. chain["host"] # <<>> /\ Continue("host", <<Op("setLocal", offers + 1)>>, <<>>)
    BY <1>1 DEF OfferCreated, Done
  <2>3. chain' \in [Ends -> Seq(Ops)] /\ wire' = wire
    BY <2>1, <2>2, ContinuedAsking, EndsFacts
  <2>4. QED  BY <1>1, <2>3 DEF OfferCreated
<1>2. CASE OfferSet
  <2>1. Signal("offer", offers) \in Signals
    BY Records
  <2>2. chain["host"] # <<>>
    BY <1>2 DEF OfferSet, Done
  <2>3. CASE Arg("host") = offers
    <3>1. Continue("host", <<>>, <<Signal("offer", offers)>>)
      BY <1>2, <2>3 DEF OfferSet
    <3>2. chain' \in [Ends -> Seq(Ops)] /\ wire' \in [Ends -> Seq(Signals)]
      BY <2>1, <2>2, <3>1, ContinuedSending, EndsFacts
    <3>3. /\ state' = [state EXCEPT !["host"] = "offered"]
          /\ local' = [local EXCEPT !["host"] = offers]
          /\ gathered' = [gathered EXCEPT !["host"] = FALSE]
          /\ UNCHANGED <<remote, offers, remoteSet, pending, added, ice, attempts, timers,
                         lost, drops, gaveUp>>
      BY <1>2, <2>3 DEF OfferSet
    <3>4. overlapped' \in BOOLEAN
      BY <1>2 DEF OfferSet
    <3>5. /\ state' \in [Ends -> {"stable", "offered"}] /\ local' \in [Ends -> Nat]
          /\ gathered' \in [Ends -> BOOLEAN]
      BY <3>3
    <3>6. QED  BY <3>2, <3>3, <3>4, <3>5
  <2>4. CASE Arg("host") # offers
    <3>1. Continue("host", <<>>, <<>>) /\ UNCHANGED <<state, local, gathered>>
      BY <1>2, <2>4 DEF OfferSet
    <3>2. chain' \in [Ends -> Seq(Ops)] /\ wire' = wire
      BY <2>2, <3>1, ContinuedPlain, EndsFacts
    <3>3. overlapped' \in BOOLEAN
      BY <1>2 DEF OfferSet
    <3>4. QED  BY <1>2, <3>1, <3>2, <3>3 DEF OfferSet
  <2>5. QED  BY <2>3, <2>4
<1>3. ASSUME NEW e \in Ends, RemoteSet(e)
      PROVE  TypeOK'
  <2> DEFINE f == Flushed(e) \o ThenAnswer(e)
  <2>1. chain[e] # <<>> /\ Continue(e, f, <<>>) /\ f \in Seq(Ops)
    BY <1>3, FlushedFacts DEF RemoteSet, Done
  <2> HIDE DEF f
  <2>2. /\ chain' \in [Ends -> Seq(Ops)] /\ wire' \in [Ends -> Seq(Signals)]
        /\ Head(chain[e]) \in Ops
    <3>1. <<>> \in Seq(Signals)
      OBVIOUS
    <3>2. QED  BY <2>1, <3>1, Continued
  <2>3. remote' \in [Ends -> Nat] /\ added' \in [Ends -> BOOLEAN]
    BY <1>3, <2>2, Records DEF RemoteSet, Arg
  <2>4. /\ state' \in [Ends -> {"stable", "offered"}] /\ remoteSet' \in [Ends -> BOOLEAN]
        /\ pending' \in [Ends -> Seq(Nat)]
    BY <1>3 DEF RemoteSet
  <2>5. QED  BY <1>3, <2>2, <2>3, <2>4 DEF RemoteSet
<1>4. CASE AnswerRefused
  <2>1. chain' \in [Ends -> Seq(Ops)] /\ wire' = wire
    BY <1>4, ContinuedPlain, EndsFacts DEF AnswerRefused, Done
  <2>2. QED  BY <1>4, <2>1 DEF AnswerRefused
<1>5. ASSUME NEW e \in Ends, CandidateAdded(e)
      PROVE  TypeOK'
  <2>1. chain' \in [Ends -> Seq(Ops)] /\ wire' = wire
    BY <1>5, ContinuedPlain DEF CandidateAdded, Done
  <2>2. added' \in [Ends -> BOOLEAN]
    BY <1>5 DEF CandidateAdded
  <2>3. QED  BY <1>5, <2>1, <2>2 DEF CandidateAdded
<1>6. CASE AnswerCreated
  <2>1. chain["guest"] # <<>> /\ Op("setLocal", remote["guest"]) \in Ops
    BY <1>6, EndsFacts, Records DEF AnswerCreated, Done
  <2>2. chain' \in [Ends -> Seq(Ops)] /\ wire' = wire
    <3>1. CASE state["guest"] = "offered"
      BY <3>1, <1>6, <2>1, ContinuedAsking, EndsFacts DEF AnswerCreated
    <3>2. CASE state["guest"] # "offered"
      BY <3>2, <1>6, <2>1, ContinuedPlain, EndsFacts DEF AnswerCreated
    <3>3. QED  BY <3>1, <3>2
  <2>3. QED  BY <1>6, <2>2 DEF AnswerCreated
<1>7. CASE AnswerSet
  <2>1. chain["guest"] # <<>> /\ Head(chain["guest"]) \in Ops
    BY <1>7, EndsFacts, Shortened DEF AnswerSet, Done
  <2>2. Arg("guest") \in Nat /\ Signal("answer", Arg("guest")) \in Signals
    BY <2>1, Records DEF Arg
  <2>3. CASE state["guest"] = "offered"
    <3>1. Continue("guest", <<>>, <<Signal("answer", Arg("guest"))>>)
      BY <1>7, <2>3 DEF AnswerSet
    <3>2. chain' \in [Ends -> Seq(Ops)] /\ wire' \in [Ends -> Seq(Signals)]
      BY <2>1, <2>2, <3>1, ContinuedSending, EndsFacts
    <3>3. /\ state' = [state EXCEPT !["guest"] = "stable"]
          /\ local' = [local EXCEPT !["guest"] = Arg("guest")]
          /\ gathered' = [gathered EXCEPT !["guest"] = FALSE]
      BY <1>7, <2>3 DEF AnswerSet
    <3>4. /\ state' \in [Ends -> {"stable", "offered"}] /\ local' \in [Ends -> Nat]
          /\ gathered' \in [Ends -> BOOLEAN]
      BY <3>3, <2>2
    <3>5. QED  BY <1>7, <3>2, <3>4 DEF AnswerSet
  <2>4. CASE state["guest"] # "offered"
    <3>1. Continue("guest", <<>>, <<>>) /\ UNCHANGED <<state, local, gathered>>
      BY <1>7, <2>4 DEF AnswerSet
    <3>2. chain' \in [Ends -> Seq(Ops)] /\ wire' = wire
      BY <2>1, <3>1, ContinuedPlain, EndsFacts
    <3>3. QED  BY <1>7, <3>1, <3>2 DEF AnswerSet
  <2>5. QED  BY <2>3, <2>4
<1>8. ASSUME NEW e \in Ends, Gather(e)
      PROVE  TypeOK'
  <2>1. Signal("candidate", local[e]) \in Signals /\ wire[Other(e)] \in Seq(Signals)
    BY Records, EndsFacts
  <2>2. Append(wire[Other(e)], Signal("candidate", local[e])) \in Seq(Signals)
    BY <2>1, Longer
  <2>3. wire' \in [Ends -> Seq(Signals)] /\ gathered' \in [Ends -> BOOLEAN]
    BY <1>8, <2>2 DEF Gather
  <2>4. QED  BY <1>8, <2>3 DEF Gather
<1>9. ASSUME NEW e \in Ends, NEW kinds, Takes(e, kinds)
      PROVE  /\ wire' \in [Ends -> Seq(Signals)] /\ Head(wire[e]).n \in Nat
             /\ wire[e] # <<>>
  <2>1. wire[e] # <<>> /\ Tail(wire[e]) \in Seq(Signals) /\ Head(wire[e]) \in Signals
    BY <1>9, Shortened DEF Takes
  <2>2. QED  BY <1>9, <2>1, Records DEF Takes
<1>10. ASSUME NEW e \in Ends, NEW x \in Ops
       PROVE  Append(chain[e], x) \in Seq(Ops)
  BY <1>10, Longer
<1>11. ASSUME NEW e \in Ends, HandleDescription(e)
       PROVE  TypeOK'
  <2>1. wire' \in [Ends -> Seq(Signals)] /\ Op("setRemote", Head(wire[e]).n) \in Ops
    BY <1>9, <1>11, Records DEF HandleDescription
  <2>2. chain' \in [Ends -> Seq(Ops)]
    BY <1>10, <1>11, <2>1 DEF HandleDescription
  <2>3. QED  BY <1>11, <2>1, <2>2 DEF HandleDescription
<1>12. ASSUME NEW e \in Ends, HandleCandidate(e)
       PROVE  TypeOK'
  <2>1. /\ wire' \in [Ends -> Seq(Signals)] /\ Head(wire[e]).n \in Nat
        /\ Op("add", Head(wire[e]).n) \in Ops
    BY <1>9, <1>12, Records DEF HandleCandidate
  <2>2. Append(pending[e], Head(wire[e]).n) \in Seq(Nat)
    BY <2>1, Longer
  <2>3. chain' \in [Ends -> Seq(Ops)] /\ pending' \in [Ends -> Seq(Nat)]
    <3>1. CASE remoteSet[e]
      <4>1. /\ chain' = [chain EXCEPT ![e] = Append(@, Op("add", Head(wire[e]).n))]
            /\ UNCHANGED pending
        BY <3>1, <1>12 DEF HandleCandidate
      <4>2. Append(chain[e], Op("add", Head(wire[e]).n)) \in Seq(Ops)
        BY <1>10, <2>1
      <4>3. QED  BY <4>1, <4>2
    <3>2. CASE ~remoteSet[e]
      BY <3>2, <1>12, <2>2 DEF HandleCandidate
    <3>3. QED  BY <3>1, <3>2
  <2>4. QED  BY <1>12, <2>1, <2>3 DEF HandleCandidate
<1>13. CASE HandleIceRestart
  <2>1. wire' \in [Ends -> Seq(Signals)] /\ Op("createOffer", 0) \in Ops
    BY <1>9, <1>13, Records, EndsFacts DEF HandleIceRestart
  <2>2. chain' \in [Ends -> Seq(Ops)]
    BY <1>10, <1>13, <2>1, EndsFacts DEF HandleIceRestart
  <2>3. QED  BY <1>13, <2>1, <2>2 DEF HandleIceRestart
<1>14. ASSUME NEW e \in Ends, Connected(e)
       PROVE  TypeOK'
  BY <1>14, MaxAttemptsAssumption DEF Connected
<1>15. ASSUME NEW e \in Ends, TimerFires(e)
       PROVE  TypeOK'
  <2>1. Op("createOffer", 0) \in Ops /\ Signal("ice-restart", 0) \in Signals
    BY Records
  <2>2. wire["host"] \o IceRestart \in Seq(Signals)
    BY <2>1, Longer, EndsFacts DEF IceRestart
  <2>3. timers' \in [Ends -> Nat]
    BY <1>15 DEF TimerFires
  <2>4. chain' \in [Ends -> Seq(Ops)] /\ wire' \in [Ends -> Seq(Signals)]
    <3>1. Append(chain["host"], Op("createOffer", 0)) \in Seq(Ops)
      BY <1>10, <2>1, EndsFacts
    <3>2. \/ UNCHANGED <<chain, wire>>
          \/ /\ chain' = [chain EXCEPT !["host"] = Append(@, Op("createOffer", 0))]
             /\ UNCHANGED wire
          \/ wire' = [wire EXCEPT !["host"] = @ \o IceRestart] /\ UNCHANGED chain
      BY <1>15 DEF TimerFires
    <3>3. CASE UNCHANGED <<chain, wire>>
      BY <3>3
    <3>4. CASE /\ chain' = [chain EXCEPT !["host"] = Append(@, Op("createOffer", 0))]
               /\ UNCHANGED wire
      BY <3>1, <3>4
    <3>5. CASE wire' = [wire EXCEPT !["host"] = @ \o IceRestart] /\ UNCHANGED chain
      BY <2>2, <3>5
    <3>6. QED  BY <3>2, <3>3, <3>4, <3>5
  <2>5. QED  BY <1>15, <2>3, <2>4 DEF TimerFires
<1>16. CASE Disconnected
  <2>1. drops' \in 0 .. Drops
    BY <1>16, DropsAssumption DEF Disconnected
  <2>2. lost' \in Nat
    BY <1>16, EndsFacts DEF Disconnected
  <2>3. PICK told \in Noticing :
            /\ ice' = [e \in Ends |-> IF e \in told THEN "disconnected" ELSE ice[e]]
            /\ attempts' = [e \in Ends |->
                   IF e \in told /\ MayTry(e) THEN attempts[e] + 1 ELSE attempts[e]]
            /\ timers' = [e \in Ends |->
                   IF e \in told /\ MayTry(e) THEN timers[e] + 1 ELSE timers[e]]
            /\ gaveUp' = (gaveUp \/ \E e \in told : ~MayTry(e) /\ ice[e] # "connected")
    BY <1>16 DEF Disconnected
  <2>4. ice' \in [Ends -> {"new", "connected", "disconnected"}] /\ timers' \in [Ends -> Nat]
    BY <2>3
  <2>5. attempts' \in [Ends -> 0 .. MaxAttempts]
    BY <2>3, MaxAttemptsAssumption DEF MayTry
  <2>6. gaveUp' \in BOOLEAN
    BY <2>3
  <2>7. QED  BY <1>16, <2>1, <2>2, <2>4, <2>5, <2>6 DEF Disconnected
<1>17. CASE UNCHANGED vars
  BY <1>17 DEF vars
<1>18. QED
  BY <1>1, <1>2, <1>3, <1>4, <1>5, <1>6, <1>7, <1>8, <1>11, <1>12, <1>13, <1>14, <1>15,
     <1>16, <1>17, EndsFacts
  DEF Next, Negotiate, OfferTaken, AnswerTaken

-----------------------------------------------------------------------------
(* Candidates                                                              *)

\* What was said of an end still holds when nothing of its own changes.
LEMMA CandidateStays ==
    ASSUME NEW e \in Ends, CandidateFollowsTo(e),
           gathered'[Other(e)] => gathered[Other(e)] /\ local'[Other(e)] = local[Other(e)],
           wire'[e] = wire[e], chain'[e] = chain[e], pending'[e] = pending[e],
           remote'[e] = remote[e], added'[e] = added[e]
    PROVE  CandidateFollowsTo(e)'
BY DEF CandidateFollowsTo

LEMMA CandidatesStep == TypeOK /\ CandidatesFollow /\ [Next]_vars => CandidatesFollow'
<1> SUFFICES ASSUME TypeOK, CandidatesFollow, [Next]_vars PROVE CandidatesFollow'
  OBVIOUS
<1> USE DEF descriptions, candidates, recovery
<1>0. /\ chain \in [Ends -> Seq(Ops)] /\ wire \in [Ends -> Seq(Signals)]
      /\ pending \in [Ends -> Seq(Nat)] /\ local \in [Ends -> Nat]
      /\ remote \in [Ends -> Nat] /\ added \in [Ends -> BOOLEAN]
      /\ gathered \in [Ends -> BOOLEAN] /\ state \in [Ends -> {"stable", "offered"}]
      /\ remoteSet \in [Ends -> BOOLEAN] /\ offers \in Nat
  BY DEF TypeOK
<1>1. \A e \in Ends : CandidateFollowsTo(e)
  BY DEF CandidatesFollow
\* An operation but setRemote and add is over, and another one may be asked for.
<1>2. ASSUME NEW a \in Ends, chain[a] # <<>>, Head(chain[a]).kind # "add", NEW x \in Ops,
             x.kind # "setRemote",
             \/ chain'[a] = Tail(chain[a]) \/ chain'[a] = Append(Tail(chain[a]), x),
             chain'[Other(a)] = chain[Other(a)],
             gathered' = gathered, local' = local, wire' = wire, pending' = pending,
             remote' = remote, added' = added
      PROVE  CandidatesFollow'
  <2>1. CandidateFollowsTo(Other(a))'
    BY <1>1, <1>2, EndsFacts, CandidateStays
  <2>2. ASSUME local[Other(a)] # 0, gathered[Other(a)]
        PROVE  CandidateFollows(local[Other(a)], wire[a], chain'[a], pending[a], remote[a],
                                added[a])
    <3>1. CandidateFollows(local[Other(a)], wire[a], chain[a], pending[a], remote[a], added[a])
      BY <1>1, <2>2 DEF CandidateFollowsTo
    <3>2. chain[a] \in Seq(Ops) /\ Tail(chain[a]) \in Seq(Ops)
      BY <1>0, <1>2, Shortened
    <3>3. CandidateFollows(local[Other(a)], wire[a], Tail(chain[a]), pending[a], remote[a],
                           added[a])
      BY <1>2, <3>1, <3>2, FollowsDone
    <3>4. CandidateFollows(local[Other(a)], wire[a], Append(Tail(chain[a]), x), pending[a],
                           remote[a], added[a])
      BY <1>2, <3>2, <3>3, FollowsAsked
    <3>5. QED  BY <1>2, <3>3, <3>4
  <2>3. CandidateFollowsTo(a)'
    BY <1>2, <2>2 DEF CandidateFollowsTo
  <2>4. QED  BY <2>1, <2>3, EndsFacts DEF CandidatesFollow
\* A description is set, and signalled before its candidate is.
<1>3. ASSUME NEW a \in Ends, chain[a] # <<>>, Head(chain[a]).kind = "setLocal",
             chain'[a] = Tail(chain[a]), chain'[Other(a)] = chain[Other(a)],
             ~gathered'[a], gathered'[Other(a)] = gathered[Other(a)],
             local'[Other(a)] = local[Other(a)], wire'[a] = wire[a], pending' = pending,
             remote' = remote, added' = added
      PROVE  CandidatesFollow'
  <2>1. CandidateFollowsTo(Other(a))'
    BY <1>3, EndsFacts DEF CandidateFollowsTo
  <2>2. ASSUME local[Other(a)] # 0, gathered[Other(a)]
        PROVE  CandidateFollows(local[Other(a)], wire[a], chain'[a], pending[a], remote[a],
                                added[a])
    <3>1. CandidateFollows(local[Other(a)], wire[a], chain[a], pending[a], remote[a], added[a])
      BY <1>1, <2>2 DEF CandidateFollowsTo
    <3>2. QED  BY <1>0, <1>3, <3>1, FollowsDone
  <2>3. CandidateFollowsTo(a)'
    BY <1>3, <2>2 DEF CandidateFollowsTo
  <2>4. QED  BY <2>1, <2>3, EndsFacts DEF CandidatesFollow
\* An operation is asked for that sets no description.
<1>4. ASSUME NEW a \in Ends, NEW x \in Ops, x.kind # "setRemote",
             chain' = [chain EXCEPT ![a] = Append(@, x)],
             gathered' = gathered, local' = local, pending' = pending, remote' = remote,
             added' = added, wire' = wire
      PROVE  CandidatesFollow'
  <2>1. CandidateFollowsTo(Other(a))'
    BY <1>0, <1>1, <1>4, EndsFacts, CandidateStays
  <2>2. ASSUME local[Other(a)] # 0, gathered[Other(a)]
        PROVE  CandidateFollows(local[Other(a)], wire[a], Append(chain[a], x), pending[a],
                                remote[a], added[a])
    BY <1>0, <1>1, <1>4, <2>2, FollowsAsked DEF CandidateFollowsTo
  <2>3. CandidateFollowsTo(a)'
    BY <1>0, <1>4, <2>2 DEF CandidateFollowsTo
  <2>4. QED  BY <2>1, <2>3, EndsFacts DEF CandidatesFollow
<1>5. CASE OfferCreated
  <2> DEFINE x == Op("setLocal", offers + 1)
  <2>1. x \in Ops /\ x.kind = "setLocal"
    BY <1>0, Records
  <2>2. /\ chain["host"] # <<>> /\ Head(chain["host"]).kind = "createOffer"
        /\ Continue("host", <<x>>, <<>>)
        /\ UNCHANGED <<gathered, local, pending, remote, added>>
    BY <1>5 DEF OfferCreated, Done
  <2> HIDE DEF x
  <2>3. /\ wire' = wire /\ chain'["host"] = Append(Tail(chain["host"]), x)
        /\ chain'["guest"] = chain["guest"]
    BY <1>0, <2>1, <2>2, ContinuedAsking, EndsFacts
  <2>4. QED  BY <1>2, <2>1, <2>2, <2>3, EndsFacts
<1>6. CASE OfferSet
  <2>1. /\ chain["host"] # <<>> /\ Head(chain["host"]).kind = "setLocal"
        /\ UNCHANGED <<pending, remote, added>>
    BY <1>6 DEF OfferSet, Done
  <2>2. CASE Arg("host") = offers
    <3>1. /\ Continue("host", <<>>, <<Signal("offer", offers)>>)
          /\ local' = [local EXCEPT !["host"] = offers]
          /\ gathered' = [gathered EXCEPT !["host"] = FALSE]
      BY <1>6, <2>2 DEF OfferSet
    <3>2. Signal("offer", offers) \in Signals
      BY <1>0, Records
    <3>3. /\ chain'["host"] = Tail(chain["host"]) /\ chain'["guest"] = chain["guest"]
          /\ wire'["host"] = wire["host"]
      BY <1>0, <2>1, <3>1, <3>2, ContinuedSending, EndsFacts
    <3>4. /\ ~gathered'["host"] /\ gathered'["guest"] = gathered["guest"]
          /\ local'["guest"] = local["guest"]
      BY <1>0, <3>1, EndsFacts
    <3>5. QED  BY <1>3, <2>1, <3>3, <3>4, EndsFacts
  <2>3. CASE Arg("host") # offers
    <3>1. Continue("host", <<>>, <<>>) /\ UNCHANGED <<state, local, gathered>>
      BY <1>6, <2>3 DEF OfferSet
    <3>2. /\ chain'["host"] = Tail(chain["host"]) /\ chain'["guest"] = chain["guest"]
          /\ wire' = wire
      BY <1>0, <2>1, <3>1, ContinuedPlain, EndsFacts
    <3>3. Op("add", 0) \in Ops /\ Op("add", 0).kind # "setRemote"
      BY Records
    <3>4. QED  BY <1>2, <2>1, <3>1, <3>2, <3>3, EndsFacts
  <2>4. QED  BY <2>2, <2>3
<1>7. ASSUME NEW a \in Ends, RemoteSet(a)
      PROVE  CandidatesFollow'
  <2> DEFINE f == Flushed(a) \o ThenAnswer(a)
             c == chain[a]
  <2>1. c # <<>> /\ Head(c).kind = "setRemote" /\ Continue(a, f, <<>>)
    BY <1>7 DEF RemoteSet, Done
  <2>2. f \in Seq(Ops) /\ IsFlushed(f, pending[a])
    BY <1>0, FlushedFacts
  <2>3. /\ remote' = [remote EXCEPT ![a] = Head(c).n]
        /\ added' = [added EXCEPT ![a] = @ /\ remote[a] = Head(c).n]
        /\ pending' = [pending EXCEPT ![a] = <<>>]
        /\ UNCHANGED <<local, gathered>>
    BY <1>7 DEF RemoteSet, Arg
  <2> HIDE DEF f
  <2>4. /\ chain'[a] = Tail(c) \o f /\ chain'[Other(a)] = chain[Other(a)]
        /\ wire'[a] = wire[a] /\ wire'[Other(a)] = wire[Other(a)] \o <<>>
    <3>1. <<>> \in Seq(Signals)
      OBVIOUS
    <3>2. QED  BY <1>0, <2>1, <2>2, <3>1, Continued
  <2>5. wire'[Other(a)] = wire[Other(a)]
    BY <1>0, <2>4, EndsFacts, JoinedWithNone
  <2>6. CandidateFollowsTo(Other(a))'
    BY <1>0, <1>1, <2>3, <2>4, <2>5, EndsFacts, CandidateStays
  <2>7. ASSUME local[Other(a)] # 0, gathered[Other(a)]
        PROVE  CandidateFollows(local[Other(a)], wire[a], Tail(c) \o f, <<>>,
                                Head(c).n, added[a] /\ remote[a] = Head(c).n)
    <3>1. CandidateFollows(local[Other(a)], wire[a], c, pending[a], remote[a], added[a])
      BY <1>1, <2>7 DEF CandidateFollowsTo
    <3>2. c \in Seq(Ops) /\ pending[a] \in Seq(Nat) /\ added[a] \in BOOLEAN
      BY <1>0
    <3> HIDE DEF c
    <3>3. QED  BY <2>1, <2>2, <3>1, <3>2, FollowsSet
  <2>8. CandidateFollowsTo(a)'
    BY <1>0, <2>3, <2>4, <2>7 DEF CandidateFollowsTo
  <2>9. QED  BY <2>6, <2>8, EndsFacts DEF CandidatesFollow
<1>8. CASE AnswerRefused
  <2>1. /\ chain["host"] # <<>> /\ Head(chain["host"]).kind = "setRemote"
        /\ Continue("host", <<>>, <<>>)
        /\ UNCHANGED <<local, gathered, pending, remote, added>>
    BY <1>8 DEF AnswerRefused, Done
  <2>2. /\ chain'["host"] = Tail(chain["host"]) /\ chain'["guest"] = chain["guest"]
        /\ wire' = wire
    BY <1>0, <2>1, ContinuedPlain, EndsFacts
  <2>3. Op("add", 0) \in Ops /\ Op("add", 0).kind # "setRemote"
    BY Records
  <2>4. QED  BY <1>2, <2>1, <2>2, <2>3, EndsFacts
<1>9. ASSUME NEW a \in Ends, CandidateAdded(a)
      PROVE  CandidatesFollow'
  <2> DEFINE c == chain[a]
  <2>1. /\ c # <<>> /\ Head(c).kind = "add" /\ Continue(a, <<>>, <<>>)
        /\ added' = [added EXCEPT ![a] = @ \/ Head(c).n = remote[a]]
        /\ UNCHANGED <<local, gathered, pending, remote>>
    BY <1>9 DEF CandidateAdded, Done, Arg
  <2>2. /\ chain'[a] = Tail(c) /\ chain'[Other(a)] = chain[Other(a)] /\ wire' = wire
    BY <1>0, <2>1, ContinuedPlain
  <2>3. CandidateFollowsTo(Other(a))'
    BY <1>0, <1>1, <2>1, <2>2, EndsFacts, CandidateStays
  <2>4. ASSUME local[Other(a)] # 0, gathered[Other(a)]
        PROVE  CandidateFollows(local[Other(a)], wire[a], Tail(c), pending[a], remote[a],
                                added[a] \/ Head(c).n = remote[a])
    <3>1. CandidateFollows(local[Other(a)], wire[a], c, pending[a], remote[a], added[a])
      BY <1>1, <2>4 DEF CandidateFollowsTo
    <3>2. QED  BY <1>0, <2>1, <3>1, FollowsAdded
  <2>5. CandidateFollowsTo(a)'
    BY <1>0, <2>1, <2>2, <2>4 DEF CandidateFollowsTo
  <2>6. QED  BY <2>3, <2>5, EndsFacts DEF CandidatesFollow
<1>10. CASE AnswerCreated
  <2> DEFINE x == Op("setLocal", remote["guest"])
  <2>1. x \in Ops /\ x.kind = "setLocal"
    BY <1>0, Records, EndsFacts
  <2>2. /\ chain["guest"] # <<>> /\ Head(chain["guest"]).kind = "createAnswer"
        /\ Continue("guest", IF state["guest"] = "offered" THEN <<x>> ELSE <<>>, <<>>)
        /\ UNCHANGED <<gathered, local, pending, remote, added>>
    BY <1>10 DEF AnswerCreated, Done
  <2> HIDE DEF x
  <2>3. /\ wire' = wire /\ chain'["host"] = chain["host"]
        /\ \/ chain'["guest"] = Tail(chain["guest"])
           \/ chain'["guest"] = Append(Tail(chain["guest"]), x)
    <3>1. CASE state["guest"] = "offered"
      BY <1>0, <2>1, <2>2, <3>1, ContinuedAsking, EndsFacts
    <3>2. CASE state["guest"] # "offered"
      BY <1>0, <2>1, <2>2, <3>2, ContinuedPlain, EndsFacts
    <3>3. QED  BY <3>1, <3>2
  <2>4. QED  BY <1>2, <2>1, <2>2, <2>3, EndsFacts
<1>11. CASE AnswerSet
  <2>1. /\ chain["guest"] # <<>> /\ Head(chain["guest"]).kind = "setLocal"
        /\ UNCHANGED <<pending, remote, added>>
    BY <1>11 DEF AnswerSet, Done
  <2>2. CASE state["guest"] = "offered"
    <3>1. /\ Continue("guest", <<>>, <<Signal("answer", Arg("guest"))>>)
          /\ local' = [local EXCEPT !["guest"] = Arg("guest")]
          /\ gathered' = [gathered EXCEPT !["guest"] = FALSE]
      BY <1>11, <2>2 DEF AnswerSet
    <3>2. Signal("answer", Arg("guest")) \in Signals
      BY <1>0, <2>1, Shortened, EndsFacts, Records DEF Arg
    <3>3. /\ chain'["guest"] = Tail(chain["guest"]) /\ chain'["host"] = chain["host"]
          /\ wire'["guest"] = wire["guest"]
      BY <1>0, <2>1, <3>1, <3>2, ContinuedSending, EndsFacts
    <3>4. /\ ~gathered'["guest"] /\ gathered'["host"] = gathered["host"]
          /\ local'["host"] = local["host"]
      BY <1>0, <3>1, EndsFacts
    <3>5. QED  BY <1>3, <2>1, <3>3, <3>4, EndsFacts
  <2>3. CASE state["guest"] # "offered"
    <3>1. Continue("guest", <<>>, <<>>) /\ UNCHANGED <<state, local, gathered>>
      BY <1>11, <2>3 DEF AnswerSet
    <3>2. /\ chain'["guest"] = Tail(chain["guest"]) /\ chain'["host"] = chain["host"]
          /\ wire' = wire
      BY <1>0, <2>1, <3>1, ContinuedPlain, EndsFacts
    <3>3. Op("add", 0) \in Ops /\ Op("add", 0).kind # "setRemote"
      BY Records
    <3>4. QED  BY <1>2, <2>1, <3>1, <3>2, <3>3, EndsFacts
  <2>4. QED  BY <2>2, <2>3
<1>12. ASSUME NEW a \in Ends, Gather(a)
       PROVE  CandidatesFollow'
  <2> DEFINE x == Signal("candidate", local[a])
  <2>1. /\ gathered' = [gathered EXCEPT ![a] = TRUE]
        /\ wire' = [wire EXCEPT ![Other(a)] = Append(@, x)]
        /\ UNCHANGED <<local, pending, chain, remote, added>>
    BY <1>12 DEF Gather
  <2>2. CandidateFollowsTo(a)'
    BY <1>0, <1>1, <2>1, EndsFacts, CandidateStays
  <2>3. CandidateFollows(local[a], Append(wire[Other(a)], x), chain[Other(a)],
                         pending[Other(a)], remote[Other(a)], added[Other(a)])
    BY <1>0, EndsFacts, FollowsGathered
  <2>4. CandidateFollowsTo(Other(a))'
    BY <1>0, <2>1, <2>3, EndsFacts DEF CandidateFollowsTo
  <2>5. QED  BY <2>2, <2>4, EndsFacts DEF CandidatesFollow
<1>13. ASSUME NEW a \in Ends, HandleDescription(a)
       PROVE  CandidatesFollow'
  <2> DEFINE w == wire[a]
             x == Op("setRemote", Head(w).n)
  <2>1. /\ w # <<>> /\ Head(w).kind \in Descriptions
        /\ wire' = [wire EXCEPT ![a] = Tail(@)]
        /\ chain' = [chain EXCEPT ![a] = Append(@, x)]
        /\ UNCHANGED <<local, gathered, pending, remote, added>>
    BY <1>13 DEF HandleDescription, Takes, Descriptions
  <2>2. x \in Ops
    BY <1>0, <2>1, Shortened, Records
  <2>3. CandidateFollowsTo(Other(a))'
    BY <1>0, <1>1, <2>1, EndsFacts, CandidateStays
  <2>4. ASSUME local[Other(a)] # 0, gathered[Other(a)]
        PROVE  CandidateFollows(local[Other(a)], Tail(w), Append(chain[a], x), pending[a],
                                remote[a], added[a])
    <3>1. CandidateFollows(local[Other(a)], w, chain[a], pending[a], remote[a], added[a])
      BY <1>1, <2>4 DEF CandidateFollowsTo
    <3>2. QED  BY <1>0, <2>1, <2>2, <3>1, FollowsTaken
  <2>5. CandidateFollowsTo(a)'
    BY <1>0, <2>1, <2>4 DEF CandidateFollowsTo
  <2>6. QED  BY <2>3, <2>5, EndsFacts DEF CandidatesFollow
<1>14. ASSUME NEW a \in Ends, HandleCandidate(a)
       PROVE  CandidatesFollow'
  <2> DEFINE w == wire[a]
             x == Op("add", Head(w).n)
  <2>1. /\ w # <<>> /\ Head(w).kind = "candidate"
        /\ wire' = [wire EXCEPT ![a] = Tail(@)]
        /\ \/ /\ chain' = [chain EXCEPT ![a] = Append(@, x)]
              /\ UNCHANGED pending
           \/ /\ pending' = [pending EXCEPT ![a] = Append(@, Head(w).n)]
              /\ UNCHANGED chain
        /\ UNCHANGED <<local, gathered, remote, added>>
    BY <1>14 DEF HandleCandidate, Takes
  <2>2. x \in Ops
    BY <1>0, <2>1, Shortened, Records
  <2>3. CandidateFollowsTo(Other(a))'
    <3>1. /\ wire'[Other(a)] = wire[Other(a)] /\ chain'[Other(a)] = chain[Other(a)]
          /\ pending'[Other(a)] = pending[Other(a)]
      BY <1>0, <2>1, EndsFacts
    <3>2. QED  BY <1>1, <2>1, <3>1, EndsFacts, CandidateStays
  <2>4. ASSUME local[Other(a)] # 0, gathered[Other(a)]
        PROVE  /\ CandidateFollows(local[Other(a)], Tail(w), Append(chain[a], x), pending[a],
                                   remote[a], added[a])
               /\ CandidateFollows(local[Other(a)], Tail(w), chain[a],
                                   Append(pending[a], Head(w).n), remote[a], added[a])
    <3>1. CandidateFollows(local[Other(a)], w, chain[a], pending[a], remote[a], added[a])
      BY <1>1, <2>4 DEF CandidateFollowsTo
    <3>2. QED  BY <1>0, <2>1, <2>2, <3>1, FollowsAdding, FollowsBuffered
  <2>5. CandidateFollowsTo(a)'
    <3>1. wire'[a] = Tail(w)
      BY <1>0, <2>1
    <3>2. CASE chain' = [chain EXCEPT ![a] = Append(@, x)] /\ UNCHANGED pending
      BY <1>0, <2>1, <2>4, <3>1, <3>2 DEF CandidateFollowsTo
    <3>3. CASE pending' = [pending EXCEPT ![a] = Append(@, Head(w).n)] /\ UNCHANGED chain
      BY <1>0, <2>1, <2>4, <3>1, <3>3 DEF CandidateFollowsTo
    <3>4. QED  BY <2>1, <3>2, <3>3
  <2>6. QED  BY <2>3, <2>5, EndsFacts DEF CandidatesFollow
<1>15. CASE HandleIceRestart
  <2>1. /\ wire["host"] # <<>> /\ Head(wire["host"]).kind = "ice-restart"
        /\ wire' = [wire EXCEPT !["host"] = Tail(@)]
        /\ chain' = [chain EXCEPT !["host"] = Append(@, Op("createOffer", 0))]
        /\ UNCHANGED <<local, gathered, pending, remote, added>>
    BY <1>15 DEF HandleIceRestart, Takes
  <2>2. Op("createOffer", 0) \in Ops /\ Op("createOffer", 0).kind = "createOffer"
    BY Records
  <2>3. CandidateFollowsTo("guest")'
    BY <1>0, <1>1, <2>1, EndsFacts, CandidateStays
  <2>4. ASSUME local["guest"] # 0, gathered["guest"]
        PROVE  CandidateFollows(local["guest"], Tail(wire["host"]),
                                Append(chain["host"], Op("createOffer", 0)), pending["host"],
                                remote["host"], added["host"])
    <3>1. CandidateFollows(local["guest"], wire["host"], chain["host"], pending["host"],
                           remote["host"], added["host"])
      BY <1>1, <2>4, EndsFacts DEF CandidateFollowsTo
    <3>2. CandidateFollows(local["guest"], Tail(wire["host"]), chain["host"], pending["host"],
                           remote["host"], added["host"])
      BY <1>0, <2>1, <3>1, EndsFacts, FollowsPassed DEF Descriptions
    <3>3. QED  BY <1>0, <2>2, <3>2, EndsFacts, FollowsAsked
  <2>5. CandidateFollowsTo("host")'
    BY <1>0, <2>1, <2>4, EndsFacts DEF CandidateFollowsTo
  <2>6. QED  BY <2>3, <2>5, EndsFacts DEF CandidatesFollow
<1>16. CASE UNCHANGED <<local, gathered, wire, chain, pending, remote, added>>
  BY <1>1, <1>16 DEF CandidatesFollow, CandidateFollowsTo
<1>17. ASSUME NEW a \in Ends, Connected(a)
       PROVE  CandidatesFollow'
  BY <1>16, <1>17 DEF Connected
<1>18. ASSUME NEW a \in Ends, TimerFires(a)
       PROVE  CandidatesFollow'
  <2>1. Op("createOffer", 0) \in Ops /\ Op("createOffer", 0).kind = "createOffer"
    BY Records
  <2>2. UNCHANGED <<local, gathered, pending, remote, added>>
    BY <1>18 DEF TimerFires
  <2>3. CASE UNCHANGED <<chain, wire>>
    BY <1>16, <2>2, <2>3
  <2>4. CASE chain' = [chain EXCEPT !["host"] = Append(@, Op("createOffer", 0))] /\ UNCHANGED wire
    BY <1>4, <2>1, <2>2, <2>4, EndsFacts
  <2>5. CASE wire' = [wire EXCEPT !["host"] = @ \o IceRestart] /\ UNCHANGED chain
    <3>1. /\ Signal("ice-restart", 0) \in Signals
          /\ Signal("ice-restart", 0).kind \notin Descriptions
      BY Records DEF Descriptions
    <3>2. wire'["host"] = Append(wire["host"], Signal("ice-restart", 0))
      BY <1>0, <2>5, <3>1, EndsFacts, Longer DEF IceRestart
    <3>3. CandidateFollowsTo("guest")'
      BY <1>0, <1>1, <2>2, <2>5, EndsFacts, CandidateStays
    <3>4. ASSUME local["guest"] # 0, gathered["guest"]
          PROVE  CandidateFollows(local["guest"], Append(wire["host"], Signal("ice-restart", 0)),
                                  chain["host"], pending["host"], remote["host"], added["host"])
      BY <1>0, <1>1, <3>1, <3>4, EndsFacts, FollowsSent DEF CandidateFollowsTo
    <3>5. CandidateFollowsTo("host")'
      BY <2>2, <2>5, <3>2, <3>4, EndsFacts DEF CandidateFollowsTo
    <3>6. QED  BY <3>3, <3>5, EndsFacts DEF CandidatesFollow
  <2>6. QED
    BY <1>18, <2>3, <2>4, <2>5, EndsFacts DEF TimerFires
<1>19. CASE Disconnected
  BY <1>16, <1>19 DEF Disconnected
<1>20. CASE UNCHANGED vars
  BY <1>16, <1>20 DEF vars
<1>21. QED
  BY <1>5, <1>6, <1>7, <1>8, <1>9, <1>10, <1>11, <1>12, <1>13, <1>14, <1>15, <1>17, <1>18,
     <1>19, <1>20, EndsFacts
  DEF Next, Negotiate, OfferTaken, AnswerTaken

-----------------------------------------------------------------------------
(* Rounds of offer and answer                                              *)

\* The kinds of operations a round is made of at an end.
RoundKinds(e) ==
    IF e = "host" THEN {{"setRemote"}}
    ELSE {{"setRemote"}, {"createAnswer", "setLocal"}, Work("guest")}

LEMMA RoundKindsFacts ==
    /\ Work("host") = {"setRemote"} /\ Work("host") \in RoundKinds("host")
    /\ {"setRemote"} \in RoundKinds("host")
    /\ Work("guest") = {"setRemote", "createAnswer", "setLocal"}
    /\ Work("guest") \in RoundKinds("guest") /\ {"setRemote"} \in RoundKinds("guest")
    /\ {"createAnswer", "setLocal"} \in RoundKinds("guest")
    /\ \A e \in Ends : \A kinds \in RoundKinds(e) :
           "createOffer" \notin kinds /\ "add" \notin kinds
    /\ \A kinds \in RoundKinds("host") : "setLocal" \notin kinds
BY EndsFacts DEF Work, RoundKinds

\* Where a step takes or adds nothing that belongs to a round, it goes on.
LEMMA RoundStays ==
    ASSUME TypeOK, UNCHANGED <<state, local, remote>>,
           \A e \in Ends : Keeps(wire[e], wire'[e], Descriptions),
           \A e \in Ends : \A kinds \in RoundKinds(e) : Keeps(chain[e], chain'[e], kinds)
    PROVE  /\ AnswerComes => AnswerComes'
           /\ OneRound => OneRound'
<1>1. AnswerComes => AnswerComes'
  BY RoundKindsFacts, EndsFacts DEF AnswerComes, Keeps
<1>2. \A n \in Nat :
          /\ Signal("offer", n) \in Items /\ Signal("offer", n).kind \in Descriptions
          /\ Signal("answer", n) \in Items /\ Signal("answer", n).kind \in Descriptions
          /\ \A k \in Work("guest") : Op(k, n) \in Items /\ Op(k, n).kind = k
  BY Records, RoundKindsFacts DEF Items, Descriptions
<1>3. local["host"] \in Nat
  BY EndsFacts DEF TypeOK
<1>4. \A place : IdleBut(place) => IdleBut(place)'
  BY RoundKindsFacts, EndsFacts DEF IdleBut, Keeps
<1>5. /\ Only(wire["guest"], Descriptions, Signal("offer", local["host"])) =>
             Only(wire'["guest"], Descriptions, Signal("offer", local["host"]))
      /\ Only(wire["host"], Descriptions, Signal("answer", local["host"])) =>
             Only(wire'["host"], Descriptions, Signal("answer", local["host"]))
  BY <1>2, <1>3, EndsFacts DEF Keeps
<1>6. \A n \in Nat, k \in Work("guest") :
          Only(chain["guest"], Work("guest"), Op(k, n)) =>
              Only(chain'["guest"], Work("guest"), Op(k, n))
  BY <1>2, RoundKindsFacts, EndsFacts DEF Keeps
<1>7. Only(chain["host"], Work("host"), Op("setRemote", local["host"])) =>
          Only(chain'["host"], Work("host"), Op("setRemote", local["host"]))
  BY <1>2, <1>3, RoundKindsFacts, EndsFacts DEF Keeps
<1>8. /\ BetweenRounds => BetweenRounds'
      /\ OfferSent => OfferSent'
      /\ AnswerSent => AnswerSent'
      /\ AnswerToSet => AnswerToSet'
  BY <1>4, <1>5, <1>7 DEF BetweenRounds, Settled, OfferSent, Answered, AnswerSent, AnswerToSet
<1>9. OfferToSet => OfferToSet'
  BY <1>3, <1>4, <1>6, RoundKindsFacts DEF OfferToSet
<1>10. Answering => Answering'
  BY <1>3, <1>4, <1>6, RoundKindsFacts DEF Answering
<1>11. OneRound => OneRound'
  BY <1>8, <1>9, <1>10 DEF OneRound
<1>12. QED  BY <1>1, <1>11

RoundsInv == /\ OfferArrives /\ AnswerComes /\ OfferMade /\ BufferedFirst
             /\ overlapped \/ OneRound

\* Its parts after a step that takes or adds nothing that belongs to a round.
LEMMA RoundsUndisturbed ==
    ASSUME TypeOK, RoundsInv, UNCHANGED <<state, local, remote, overlapped>>,
           \A e \in Ends : Keeps(wire[e], wire'[e], Descriptions),
           \A e \in Ends : \A kinds \in RoundKinds(e) : Keeps(chain[e], chain'[e], kinds),
           OfferArrives', OfferMade', BufferedFirst'
    PROVE  RoundsInv'
BY RoundStays DEF RoundsInv

\* The host's operations.
LEMMA RoundsHost ==
    ASSUME TypeOK, RoundsInv,
           OfferCreated \/ OfferSet \/ AnswerTaken \/ AnswerRefused
    PROVE  RoundsInv'
<1> USE DEF descriptions, candidates, recovery
<1> DEFINE c == chain["host"]
           L == local["host"]
<1>0. /\ chain \in [Ends -> Seq(Ops)] /\ wire \in [Ends -> Seq(Signals)]
      /\ pending \in [Ends -> Seq(Nat)] /\ local \in [Ends -> Nat]
      /\ remote \in [Ends -> Nat] /\ state \in [Ends -> {"stable", "offered"}]
      /\ remoteSet \in [Ends -> BOOLEAN] /\ gathered \in [Ends -> BOOLEAN]
      /\ offers \in Nat /\ overlapped \in BOOLEAN
  BY DEF TypeOK
<1>1. /\ c \in Seq(Ops) /\ L \in Nat
      /\ c # <<>> => Head(c) \in Ops /\ Head(c).n \in Nat /\ Tail(c) \in Seq(Ops)
  BY <1>0, EndsFacts, Shortened, Records
<1>2. /\ OfferArrives /\ AnswerComes /\ OfferMade /\ BufferedFirst
      /\ overlapped \/ OneRound
  BY DEF RoundsInv
<1>3. \A e \in Ends : /\ wire'[e] = wire[e] => Keeps(wire[e], wire'[e], Descriptions)
                      /\ chain'[e] = chain[e] => \A kinds : Keeps(chain[e], chain'[e], kinds)
  BY <1>0, KeepsAll
\* An operation is over that is no part of what OfferMade speaks of.
<1>4. ASSUME c # <<>>, Head(c).kind # "createOffer", Head(c) # Op("setLocal", offers)
      PROVE  /\ Some(c, {"createOffer"}) => Some(Tail(c), {"createOffer"})
             /\ Has(c, Op("setLocal", offers)) => Has(Tail(c), Op("setLocal", offers))
  <2>1. Some(c, {"createOffer"}) => Some(Tail(c), {"createOffer"})
    BY <1>1, <1>4, KindsShorter
  <2>2. Has(c, Op("setLocal", offers)) => Has(Tail(c), Op("setLocal", offers))
    BY <1>1, <1>4, HasShorter
  <2>3. QED  BY <2>1, <2>2
<1>5. CASE OfferCreated
  <2> DEFINE x == Op("setLocal", offers + 1)
  <2>1. x \in Ops /\ x.kind = "setLocal"
    BY <1>0, Records
  <2>2. /\ c # <<>> /\ Head(c).kind = "createOffer" /\ Continue("host", <<x>>, <<>>)
        /\ offers' = offers + 1
        /\ UNCHANGED <<state, local, remote, remoteSet, pending, overlapped>>
    BY <1>5 DEF OfferCreated, Done
  <2> HIDE DEF x
  <2>3. /\ wire' = wire /\ chain'["host"] = Append(Tail(c), x)
        /\ chain'["guest"] = chain["guest"]
    BY <1>0, <2>1, <2>2, ContinuedAsking, EndsFacts
  <2>4. \A kinds \in RoundKinds("host") : Keeps(c, chain'["host"], kinds)
    <3>1. \A kinds \in RoundKinds("host") : Head(c).kind \notin kinds /\ x.kind \notin kinds
      BY <2>1, <2>2, RoundKindsFacts, EndsFacts
    <3>2. \A kinds \in RoundKinds("host") :
              Keeps(c, Tail(c), kinds) /\ Keeps(Tail(c), Append(Tail(c), x), kinds)
      BY <1>1, <2>1, <2>2, <3>1, KeepsAll
    <3>3. QED  BY <2>3, <3>2, KeepsOn
  <2>5. OfferArrives'
    BY <1>2, <2>2, <2>3 DEF OfferArrives
  <2>6. OfferMade'
    <3>1. Has(Append(Tail(c), x), x)
      BY <1>1, <2>1, <2>2, KindsLonger
    <3>2. QED  BY <1>0, <2>2, <2>3, <3>1 DEF OfferMade, x
  <2>7. BufferedFirst'
    BY <1>2, <2>2 DEF BufferedFirst
  <2>8. QED
    BY <1>3, <2>2, <2>3, <2>4, <2>5, <2>6, <2>7, EndsFacts, RoundsUndisturbed
<1>6. CASE OfferSet
  <2>1. /\ c # <<>> /\ Head(c).kind = "setLocal" /\ Arg("host") = Head(c).n
        /\ UNCHANGED <<remote, offers, remoteSet, pending>>
        /\ overlapped' = (overlapped \/ state["host"] = "offered" \/ Arg("host") # offers)
    BY <1>6 DEF OfferSet, Done, Arg
  <2>2. BufferedFirst'
    BY <1>2, <2>1 DEF BufferedFirst
  <2>3. CASE Arg("host") = offers
    <3> DEFINE x == Signal("offer", offers)
    <3>1. /\ Continue("host", <<>>, <<x>>)
          /\ state' = [state EXCEPT !["host"] = "offered"]
          /\ local' = [local EXCEPT !["host"] = offers]
      BY <1>6, <2>3 DEF OfferSet
    <3>2. x \in Signals /\ x.kind \in Descriptions /\ x.n = offers
      BY <1>0, Records DEF Descriptions
    <3> HIDE DEF x
    <3>3. /\ chain'["host"] = Tail(c) /\ chain'["guest"] = chain["guest"]
          /\ wire'["host"] = wire["host"] /\ wire'["guest"] = Append(wire["guest"], x)
      BY <1>0, <2>1, <3>1, <3>2, ContinuedSending, EndsFacts
    <3>4. /\ state'["host"] = "offered" /\ state'["guest"] = state["guest"]
          /\ local'["host"] = offers /\ local'["guest"] = local["guest"]
      BY <1>0, <3>1, EndsFacts
    <3>5. OfferArrives'
      <4>1. NewestLast(x.n, Append(wire["guest"], x), chain["guest"], remote["guest"])
        <5>1. wire["guest"] \in Seq(Signals)
          BY <1>0, EndsFacts
        <5>2. QED  BY <3>2, <5>1, NewestSent
      <4>2. QED  BY <2>1, <3>2, <3>3, <3>4, <4>1 DEF OfferArrives
    <3>6. AnswerComes'
      <4>1. Some(wire'["guest"], Descriptions)
        <5>1. wire["guest"] \in Seq(Signals)
          BY <1>0, EndsFacts
        <5>2. QED  BY <3>2, <3>3, <5>1, KindsLonger
      <4>2. QED  BY <1>2, <3>3, <3>4, <4>1, EndsFacts DEF AnswerComes
    <3>7. OfferMade'
      <4>1. Some(c, {"createOffer"}) => Some(Tail(c), {"createOffer"})
        BY <1>1, <2>1, KindsShorter
      <4>2. QED  BY <1>2, <2>1, <3>3, <3>4, <4>1 DEF OfferMade
    <3>8. ASSUME ~overlapped'
          PROVE  OneRound'
      <4>1. BetweenRounds
        <5>1. state["host"] = "stable" /\ OneRound
          BY <1>0, <1>2, <2>1, <3>8, EndsFacts
        <5>2. QED
          BY <5>1 DEF OneRound, OfferSent, OfferToSet, Answering, Answered, AnswerSent,
                      AnswerToSet
      <4>2. /\ state["guest"] = "stable" /\ Idle(wire["guest"], Descriptions)
            /\ Idle(wire["host"], Descriptions)
            /\ Idle(chain["guest"], Work("guest")) /\ Idle(c, Work("host"))
        BY <4>1 DEF BetweenRounds, Settled, IdleBut
      <4>3. Only(wire'["guest"], Descriptions, x)
        BY <1>0, <3>2, <3>3, <4>2, EndsFacts, KindsLonger
      <4>4. Idle(chain'["host"], Work("host"))
        BY <1>1, <2>1, <3>3, <4>2, KindsShorter
      <4>5. OfferSent'
        BY <3>3, <3>4, <4>2, <4>3, <4>4 DEF OfferSent, IdleBut, x
      <4>6. QED  BY <4>5 DEF OneRound
    <3>9. QED
      BY <1>0, <2>1, <2>2, <3>5, <3>6, <3>7, <3>8 DEF RoundsInv
  <2>4. CASE Arg("host") # offers
    <3>1. Continue("host", <<>>, <<>>) /\ UNCHANGED <<state, local>>
      BY <1>6, <2>4 DEF OfferSet
    <3>2. /\ chain'["host"] = Tail(c) /\ chain'["guest"] = chain["guest"] /\ wire' = wire
      BY <1>0, <2>1, <3>1, ContinuedPlain, EndsFacts
    <3>3. \A kinds \in RoundKinds("host") : Keeps(c, chain'["host"], kinds)
      BY <1>1, <2>1, <3>2, RoundKindsFacts, KeepsAll
    <3>4. AnswerComes'
      BY <1>2, <1>3, <2>1, <3>1, <3>2, <3>3, EndsFacts, RoundStays
    <3>5. OfferArrives'
      BY <1>2, <2>1, <3>1, <3>2 DEF OfferArrives
    <3>6. Head(c) # Op("setLocal", offers) /\ Head(c).kind # "createOffer"
      BY <1>0, <2>1, <2>4, Records
    <3>7. OfferMade'
      BY <1>2, <1>4, <2>1, <3>1, <3>2, <3>6 DEF OfferMade
    <3>8. QED
      BY <2>1, <2>2, <2>4, <3>4, <3>5, <3>7 DEF RoundsInv
  <2>5. QED  BY <2>3, <2>4
<1>7. CASE AnswerTaken
  <2> DEFINE f == Flushed("host") \o ThenAnswer("host")
  <2>1. /\ c # <<>> /\ Head(c).kind = "setRemote" /\ Continue("host", f, <<>>)
        /\ state["host"] = "offered"
        /\ remote' = [remote EXCEPT !["host"] = Head(c).n]
        /\ state' = [state EXCEPT !["host"] = "stable"]
        /\ remoteSet' = [remoteSet EXCEPT !["host"] = TRUE]
        /\ pending' = [pending EXCEPT !["host"] = <<>>]
        /\ UNCHANGED <<local, offers, overlapped>>
    BY <1>7 DEF AnswerTaken, RemoteSet, Done, Arg
  <2>2. f \in Seq(Ops) /\ Idle(f, Work("host"))
    BY <1>0, FlushedFacts, EndsFacts
  <2> HIDE DEF f
  <2>3. /\ chain'["host"] = Tail(c) \o f /\ chain'["guest"] = chain["guest"]
        /\ wire'["host"] = wire["host"] /\ wire'["guest"] = wire["guest"]
    <3>1. <<>> \in Seq(Signals)
      OBVIOUS
    <3>2. wire["guest"] \o <<>> = wire["guest"]
      BY <1>0, EndsFacts, JoinedWithNone
    <3>3. /\ chain'["host"] = Tail(chain["host"]) \o f
          /\ chain'[Other("host")] = chain[Other("host")]
          /\ wire'["host"] = wire["host"]
          /\ wire'[Other("host")] = wire[Other("host")] \o <<>>
      <4>1. "host" \in Ends
        BY EndsFacts
      <4>2. QED  BY <1>0, <2>1, <2>2, <3>1, <4>1, Continued
    <3>4. QED  BY <3>2, <3>3, EndsFacts
  <2>4. /\ state'["host"] = "stable" /\ state'["guest"] = state["guest"]
        /\ remote'["host"] = Head(c).n /\ remote'["guest"] = remote["guest"]
    BY <1>0, <2>1, EndsFacts
  <2>5. OfferArrives'
    BY <1>2, <2>1, <2>3, <2>4 DEF OfferArrives
  <2>6. AnswerComes'
    BY <1>2, <2>3, <2>4 DEF AnswerComes
  <2>7. OfferMade'
    <3>1. Head(c).kind # "createOffer" /\ Head(c) # Op("setLocal", offers)
      BY <1>0, <2>1, Records
    <3>2. /\ Some(Tail(c), {"createOffer"}) => Some(Tail(c) \o f, {"createOffer"})
          /\ Has(Tail(c), Op("setLocal", offers)) => Has(Tail(c) \o f, Op("setLocal", offers))
      BY <1>1, <2>1, <2>2, KindsJoined
    <3>3. QED  BY <1>2, <1>4, <2>1, <2>3, <3>1, <3>2 DEF OfferMade
  <2>8. BufferedFirst'
    BY <1>0, <1>2, <2>1, EndsFacts DEF BufferedFirst
  <2>9. ASSUME OneRound
        PROVE  OneRound'
    <3>1. Head(c).kind \in Work("host")
      BY <2>1, RoundKindsFacts
    <3>2. ~Idle(c, Work("host"))
      BY <1>1, <2>1, <3>1, KindsShorter
    <3>3. AnswerToSet
      BY <2>9, <3>2 DEF OneRound, BetweenRounds, OfferSent, OfferToSet, Answering, AnswerSent,
                        IdleBut
    <3>4. Op("setRemote", L).kind \in Work("host") /\ Op("setRemote", L).n = L
      BY <1>1, Records, RoundKindsFacts
    <3>5. Head(c) = Op("setRemote", L) /\ Idle(Tail(c), Work("host"))
      BY <1>1, <2>1, <3>1, <3>3, <3>4, OnlyShorter DEF AnswerToSet
    <3>6. Idle(Tail(c) \o f, Work("host"))
      BY <1>1, <2>1, <2>2, <3>5, KindsJoined
    <3>7. BetweenRounds'
      BY <2>1, <2>3, <2>4, <3>3, <3>4, <3>5, <3>6
      DEF AnswerToSet, Answered, BetweenRounds, Settled, IdleBut
    <3>8. QED  BY <3>7 DEF OneRound
  <2>10. QED
    BY <1>2, <2>1, <2>5, <2>6, <2>7, <2>8, <2>9 DEF RoundsInv
<1>8. CASE AnswerRefused
  <2>1. /\ c # <<>> /\ Head(c).kind = "setRemote" /\ Continue("host", <<>>, <<>>)
        /\ state["host"] # "offered"
        /\ UNCHANGED <<state, local, remote, offers, remoteSet, pending, overlapped>>
    BY <1>8 DEF AnswerRefused, Done
  <2>2. /\ chain'["host"] = Tail(c) /\ chain'["guest"] = chain["guest"] /\ wire' = wire
    BY <1>0, <2>1, ContinuedPlain, EndsFacts
  <2>3. OfferArrives'
    BY <1>2, <2>1, <2>2 DEF OfferArrives
  <2>4. AnswerComes'
    BY <1>2, <2>1, <2>2 DEF AnswerComes
  <2>5. OfferMade'
    <3>1. Head(c).kind # "createOffer" /\ Head(c) # Op("setLocal", offers)
      BY <1>0, <2>1, Records
    <3>2. QED  BY <1>2, <1>4, <2>1, <2>2, <3>1 DEF OfferMade
  <2>6. BufferedFirst'
    BY <1>2, <2>1 DEF BufferedFirst
  \* In a round of its own, no answer comes without an offer.
  <2>7. ~OneRound
    <3>1. ~Idle(c, Work("host"))
      <4>1. Head(c).kind \in Work("host")
        BY <2>1, RoundKindsFacts
      <4>2. QED  BY <1>1, <2>1, <4>1, KindsShorter
    <3>2. QED
      BY <2>1, <3>1 DEF OneRound, BetweenRounds, OfferSent, OfferToSet, Answering, Answered,
                        AnswerSent, AnswerToSet, IdleBut
  <2>8. QED
    BY <1>2, <2>1, <2>3, <2>4, <2>5, <2>6, <2>7 DEF RoundsInv
<1>9. QED  BY <1>5, <1>6, <1>7, <1>8

\* The guest's operations.
LEMMA RoundsGuest ==
    ASSUME TypeOK, RoundsInv,
           OfferTaken \/ AnswerCreated \/ AnswerSet
    PROVE  RoundsInv'
<1> USE DEF descriptions, candidates, recovery
<1> DEFINE c == chain["guest"]
           L == local["host"]
<1>0. /\ chain \in [Ends -> Seq(Ops)] /\ wire \in [Ends -> Seq(Signals)]
      /\ pending \in [Ends -> Seq(Nat)] /\ local \in [Ends -> Nat]
      /\ remote \in [Ends -> Nat] /\ state \in [Ends -> {"stable", "offered"}]
      /\ remoteSet \in [Ends -> BOOLEAN] /\ gathered \in [Ends -> BOOLEAN]
      /\ offers \in Nat /\ overlapped \in BOOLEAN
  BY DEF TypeOK
<1>1. /\ c \in Seq(Ops) /\ L \in Nat
      /\ c # <<>> => Head(c) \in Ops /\ Head(c).n \in Nat /\ Tail(c) \in Seq(Ops)
  BY <1>0, EndsFacts, Shortened, Records
<1>2. /\ OfferArrives /\ AnswerComes /\ OfferMade /\ BufferedFirst
      /\ overlapped \/ OneRound
  BY DEF RoundsInv
<1>3. wire["host"] \in Seq(Signals) /\ wire["guest"] \in Seq(Signals)
  BY <1>0, EndsFacts
\* An operation of a round is over, and the round is where that operation is.
<1>4. ASSUME c # <<>>, Head(c).kind \in Work("guest"), OneRound
      PROVE  /\ OfferToSet \/ Answering
             /\ OfferToSet => Head(c) = Op("setRemote", L)
             /\ Answering => Head(c) = Op("createAnswer", 0) \/ Head(c) = Op("setLocal", L)
             /\ Idle(Tail(c), Work("guest"))
  <2>1. ~Idle(c, Work("guest"))
    BY <1>1, <1>4, KindsShorter
  <2>2. OfferToSet \/ Answering
    BY <1>4, <2>1 DEF OneRound, BetweenRounds, OfferSent, AnswerSent, AnswerToSet, IdleBut
  <2>3. /\ Op("setRemote", L).kind \in Work("guest")
        /\ Op("createAnswer", 0).kind \in Work("guest")
        /\ Op("setLocal", L).kind \in Work("guest")
    BY <1>1, Records, RoundKindsFacts
  <2>4. ASSUME NEW y, y.kind \in Work("guest"), Only(c, Work("guest"), y)
        PROVE  Head(c) = y /\ Idle(Tail(c), Work("guest"))
    BY <1>1, <1>4, <2>4, OnlyShorter
  <2>5. OfferToSet => Head(c) = Op("setRemote", L) /\ Idle(Tail(c), Work("guest"))
    BY <2>3, <2>4 DEF OfferToSet
  <2>6. Answering => /\ Head(c) = Op("createAnswer", 0) \/ Head(c) = Op("setLocal", L)
                     /\ Idle(Tail(c), Work("guest"))
    BY <2>3, <2>4 DEF Answering
  <2>7. QED  BY <2>2, <2>5, <2>6
\* Of what is on its way to the guest nothing is passed over.
<1>5. ASSUME c # <<>>,
             NEW q, q = IF Head(c).kind = "setRemote" THEN Head(c).n ELSE remote["guest"]
      PROVE  NewestLast(L, wire["guest"], Tail(c), q)
  <2>1. NewestLast(L, wire["guest"], c, remote["guest"])
    BY <1>2 DEF OfferArrives
  <2>2. QED  BY <1>1, <1>5, <2>1, NewestDone
<1>6. CASE OfferTaken
  <2> DEFINE f == Flushed("guest") \o ThenAnswer("guest")
  <2>1. /\ c # <<>> /\ Head(c).kind = "setRemote" /\ Continue("guest", f, <<>>)
        /\ remote' = [remote EXCEPT !["guest"] = Head(c).n]
        /\ state' = [state EXCEPT !["guest"] = "offered"]
        /\ remoteSet' = [remoteSet EXCEPT !["guest"] = TRUE]
        /\ pending' = [pending EXCEPT !["guest"] = <<>>]
        /\ UNCHANGED <<local, offers, overlapped>>
    BY <1>6 DEF OfferTaken, RemoteSet, Done, Arg
  <2>2. /\ f \in Seq(Ops) /\ IsFlushed(f, pending["guest"])
        /\ Only(f, Work("guest"), Op("createAnswer", 0))
    BY <1>0, FlushedFacts, EndsFacts
  <2> HIDE DEF f
  <2>3. /\ chain'["guest"] = Tail(c) \o f /\ chain'["host"] = chain["host"]
        /\ wire'["guest"] = wire["guest"] /\ wire'["host"] = wire["host"]
    <3>1. <<>> \in Seq(Signals) /\ "guest" \in Ends
      BY EndsFacts
    <3>2. wire["host"] \o <<>> = wire["host"]
      BY <1>3, JoinedWithNone
    <3>3. /\ chain'["guest"] = Tail(c) \o f
          /\ chain'[Other("guest")] = chain[Other("guest")]
          /\ wire'["guest"] = wire["guest"]
          /\ wire'[Other("guest")] = wire[Other("guest")] \o <<>>
      BY <1>0, <2>1, <2>2, <3>1, Continued
    <3>4. QED  BY <3>2, <3>3, EndsFacts
  <2>4. /\ state'["guest"] = "offered" /\ state'["host"] = state["host"]
        /\ remote'["guest"] = Head(c).n /\ remote'["host"] = remote["host"]
    BY <1>0, <2>1, EndsFacts
  <2>5. OfferArrives'
    <3>1. NewestLast(L, wire["guest"], Tail(c), Head(c).n)
      BY <1>5, <2>1
    <3>2. NewestLast(L, wire["guest"], Tail(c) \o f, Head(c).n)
      BY <1>1, <2>1, <2>2, <3>1, NewestAsked DEF IsFlushed
    <3>3. QED  BY <2>1, <2>3, <2>4, <3>2 DEF OfferArrives
  <2>6. AnswerComes'
    <3>1. Some(f, {"createAnswer", "setLocal"})
      <4>1. Op("createAnswer", 0).kind = "createAnswer"
        BY Records
      <4>2. QED  BY <2>2, <4>1 DEF Some, Only
    <3>2. Some(Tail(c) \o f, {"createAnswer", "setLocal"})
      BY <1>1, <2>1, <2>2, <3>1, KindsJoined
    <3>3. QED  BY <2>3, <2>4, <3>2 DEF AnswerComes
  <2>7. OfferMade'
    BY <1>2, <2>1, <2>3 DEF OfferMade
  <2>8. BufferedFirst'
    BY <1>0, <1>2, <2>1, EndsFacts DEF BufferedFirst
  <2>9. ASSUME OneRound
        PROVE  OneRound'
    <3>1. /\ OfferToSet \/ Answering
          /\ OfferToSet => Head(c) = Op("setRemote", L)
          /\ Answering => Head(c) = Op("createAnswer", 0) \/ Head(c) = Op("setLocal", L)
          /\ Idle(Tail(c), Work("guest"))
      BY <1>4, <2>1, <2>9, RoundKindsFacts
    <3>2. /\ Op("setRemote", L).n = L
          /\ Op("createAnswer", 0).kind = "createAnswer" /\ Op("setLocal", L).kind = "setLocal"
      BY <1>1, Records
    <3>3. OfferToSet /\ Head(c).n = L
      BY <2>1, <3>1, <3>2
    <3>4. Only(Tail(c) \o f, Work("guest"), Op("createAnswer", 0))
      BY <1>1, <2>1, <2>2, <3>1, KindsJoined
    <3>5. Answering'
      BY <2>1, <2>3, <2>4, <3>3, <3>4 DEF OfferToSet, Answering, IdleBut
    <3>6. QED  BY <3>5 DEF OneRound
  <2>10. QED
    BY <1>2, <2>1, <2>5, <2>6, <2>7, <2>8, <2>9 DEF RoundsInv
<1>7. CASE AnswerCreated
  <2> DEFINE x == Op("setLocal", remote["guest"])
  <2>1. /\ c # <<>> /\ Head(c).kind = "createAnswer"
        /\ Continue("guest", IF state["guest"] = "offered" THEN <<x>> ELSE <<>>, <<>>)
        /\ UNCHANGED <<state, local, remote, offers, remoteSet, pending, overlapped>>
    BY <1>7 DEF AnswerCreated, Done
  <2>2. x \in Ops /\ x.kind = "setLocal"
    BY <1>0, EndsFacts, Records
  <2> HIDE DEF x
  <2>3. /\ wire' = wire /\ chain'["host"] = chain["host"]
        /\ state["guest"] = "offered" => chain'["guest"] = Append(Tail(c), x)
        /\ state["guest"] # "offered" => chain'["guest"] = Tail(c)
    <3>1. CASE state["guest"] = "offered"
      BY <1>0, <2>1, <2>2, <3>1, ContinuedAsking, EndsFacts
    <3>2. CASE state["guest"] # "offered"
      BY <1>0, <2>1, <3>2, ContinuedPlain, EndsFacts
    <3>3. QED  BY <3>1, <3>2
  <2>4. OfferArrives'
    <3>1. NewestLast(L, wire["guest"], Tail(c), remote["guest"])
      BY <1>5, <2>1
    <3>2. <<x>> \in Seq(Ops) /\ \A i \in DOMAIN <<x>> : <<x>>[i].kind # "setRemote"
      BY <2>2
    <3>3. NewestLast(L, wire["guest"], Tail(c) \o <<x>>, remote["guest"])
      BY <1>1, <2>1, <3>1, <3>2, NewestAsked
    <3>4. Tail(c) \o <<x>> = Append(Tail(c), x)
      BY <1>1, <2>1, <2>2, Longer
    <3>5. QED  BY <2>1, <2>3, <3>1, <3>3, <3>4 DEF OfferArrives
  <2>5. AnswerComes'
    <3>1. state["guest"] = "offered" => Some(chain'["guest"], {"createAnswer", "setLocal"})
      <4> DEFINE K == {"createAnswer", "setLocal"}
      <4>1. x.kind \in K
        BY <2>2
      <4> HIDE DEF K
      <4>2. Some(Append(Tail(c), x), K)
        BY <1>1, <2>1, <2>2, <4>1, KindsLonger
      <4>3. QED  BY <2>3, <4>2 DEF K
    <3>2. Some(c, {"setRemote"}) => Some(chain'["guest"], {"setRemote"})
      <4>1. Some(c, {"setRemote"}) => Some(Tail(c), {"setRemote"})
        BY <1>1, <2>1, KindsShorter
      <4>2. Some(Tail(c), {"setRemote"}) => Some(Append(Tail(c), x), {"setRemote"})
        BY <1>1, <2>1, <2>2, KindsLonger
      <4>3. QED  BY <2>3, <4>1, <4>2
    <3>3. QED  BY <1>2, <2>1, <2>3, <3>1, <3>2, EndsFacts DEF AnswerComes
  <2>6. OfferMade' /\ BufferedFirst'
    BY <1>2, <2>1, <2>3 DEF OfferMade, BufferedFirst
  <2>7. ASSUME OneRound
        PROVE  OneRound'
    <3>1. /\ OfferToSet \/ Answering
          /\ OfferToSet => Head(c) = Op("setRemote", L)
          /\ Idle(Tail(c), Work("guest"))
      BY <1>4, <2>1, <2>7, RoundKindsFacts
    <3>2. Op("setRemote", L).kind = "setRemote"
      BY <1>1, Records
    <3>3. Answering /\ x = Op("setLocal", L)
      BY <2>1, <3>1, <3>2 DEF Answering, x
    <3>4. Only(Append(Tail(c), x), Work("guest"), x)
      BY <1>1, <2>1, <2>2, <3>1, KindsLonger
    <3>5. Answering'
      BY <2>1, <2>3, <3>3, <3>4 DEF Answering, IdleBut
    <3>6. QED  BY <3>5 DEF OneRound
  <2>8. QED
    BY <1>2, <2>1, <2>4, <2>5, <2>6, <2>7 DEF RoundsInv
<1>8. CASE AnswerSet
  <2>1. /\ c # <<>> /\ Head(c).kind = "setLocal" /\ Arg("guest") = Head(c).n
        /\ UNCHANGED <<remote, offers, remoteSet, pending, overlapped>>
    BY <1>8 DEF AnswerSet, Done, Arg
  <2> DEFINE x == Signal("answer", Head(c).n)
  <2>2. x \in Signals /\ x.kind \in Descriptions
    BY <1>1, <2>1, Records DEF Descriptions
  <2>3. /\ chain'["guest"] = Tail(c) /\ chain'["host"] = chain["host"]
        /\ wire'["guest"] = wire["guest"] /\ local'["host"] = L
        /\ state'["host"] = state["host"]
        /\ state["guest"] = "offered" =>
               /\ wire'["host"] = Append(wire["host"], x)
               /\ state'["guest"] = "stable" /\ local'["guest"] = Head(c).n
        /\ state["guest"] # "offered" =>
               wire' = wire /\ state' = state /\ local' = local
    <3> HIDE DEF x
    <3>1. CASE state["guest"] = "offered"
      <4>1. /\ Continue("guest", <<>>, <<x>>)
            /\ state' = [state EXCEPT !["guest"] = "stable"]
            /\ local' = [local EXCEPT !["guest"] = Head(c).n]
        BY <1>8, <2>1, <3>1 DEF AnswerSet, x
      <4>2. /\ chain'["guest"] = Tail(c) /\ chain'["host"] = chain["host"]
            /\ wire'["guest"] = wire["guest"] /\ wire'["host"] = Append(wire["host"], x)
        BY <1>0, <2>1, <2>2, <4>1, ContinuedSending, EndsFacts
      <4>3. QED  BY <1>0, <3>1, <4>1, <4>2, EndsFacts
    <3>2. CASE state["guest"] # "offered"
      <4>1. Continue("guest", <<>>, <<>>) /\ state' = state /\ local' = local
        BY <1>8, <3>2 DEF AnswerSet
      <4>2. chain'["guest"] = Tail(c) /\ chain'["host"] = chain["host"] /\ wire' = wire
        BY <1>0, <2>1, <4>1, ContinuedPlain, EndsFacts
      <4>3. QED  BY <3>2, <4>1, <4>2
    <3>3. QED  BY <3>1, <3>2
  <2> HIDE DEF x
  <2>4. OfferArrives'
    <3>1. NewestLast(L, wire["guest"], Tail(c), remote["guest"])
      BY <1>5, <2>1
    <3>2. QED  BY <2>1, <2>3, <3>1 DEF OfferArrives
  <2>5. AnswerComes'
    <3>1. CASE state["guest"] = "offered"
      <4>1. Some(Append(wire["host"], x), Descriptions)
        BY <1>3, <2>2, KindsLonger
      <4>2. QED  BY <2>3, <3>1, <4>1, EndsFacts DEF AnswerComes
    <3>2. CASE state["guest"] # "offered"
      <4>1. Some(c, {"setRemote"}) => Some(Tail(c), {"setRemote"})
        BY <1>1, <2>1, KindsShorter
      <4>2. QED  BY <1>2, <2>3, <3>2, <4>1, EndsFacts DEF AnswerComes
    <3>3. QED  BY <3>1, <3>2
  <2>6. OfferMade' /\ BufferedFirst'
    BY <1>2, <2>1, <2>3 DEF OfferMade, BufferedFirst
  <2>7. ASSUME OneRound
        PROVE  OneRound'
    <3>1. /\ OfferToSet \/ Answering
          /\ OfferToSet => Head(c) = Op("setRemote", L)
          /\ Answering => Head(c) = Op("createAnswer", 0) \/ Head(c) = Op("setLocal", L)
          /\ Idle(Tail(c), Work("guest"))
      BY <1>4, <2>1, <2>7, RoundKindsFacts
    <3>2. /\ Op("setRemote", L).kind = "setRemote"
          /\ Op("createAnswer", 0).kind = "createAnswer" /\ Op("setLocal", L).n = L
      BY <1>1, Records
    <3>3. Answering /\ Head(c).n = L
      BY <2>1, <3>1, <3>2
    <3>4. Only(Append(wire["host"], x), Descriptions, x)
      BY <1>3, <2>2, <3>3, KindsLonger DEF Answering, IdleBut
    <3>5. AnswerSent'
      BY <2>1, <2>3, <3>1, <3>3, <3>4 DEF Answering, AnswerSent, Answered, IdleBut, x
    <3>6. QED  BY <3>5 DEF OneRound
  <2>8. QED
    BY <1>2, <2>1, <2>4, <2>5, <2>6, <2>7 DEF RoundsInv
<1>9. QED  BY <1>6, <1>7, <1>8

\* Candidates, signals and timers.
LEMMA RoundsSignals ==
    ASSUME TypeOK, RoundsInv, NEW a \in Ends,
           \/ CandidateAdded(a) \/ Gather(a) \/ HandleDescription(a) \/ HandleCandidate(a)
           \/ HandleIceRestart \/ TimerFires(a)
    PROVE  RoundsInv'
<1> USE DEF descriptions, candidates, recovery
<1> DEFINE L == local["host"]
           Undisturbed ==
               /\ \A e \in Ends : Keeps(wire[e], wire'[e], Descriptions)
               /\ \A e \in Ends : \A kinds \in RoundKinds(e) : Keeps(chain[e], chain'[e], kinds)
<1>0. /\ chain \in [Ends -> Seq(Ops)] /\ wire \in [Ends -> Seq(Signals)]
      /\ pending \in [Ends -> Seq(Nat)] /\ local \in [Ends -> Nat]
      /\ remote \in [Ends -> Nat] /\ state \in [Ends -> {"stable", "offered"}]
      /\ remoteSet \in [Ends -> BOOLEAN] /\ gathered \in [Ends -> BOOLEAN]
      /\ offers \in Nat /\ overlapped \in BOOLEAN
  BY DEF TypeOK
<1>1. /\ OfferArrives /\ AnswerComes /\ OfferMade /\ BufferedFirst
      /\ overlapped \/ OneRound
      /\ NewestLast(L, wire["guest"], chain["guest"], remote["guest"])
  BY DEF RoundsInv, OfferArrives
<1>2. \A e \in Ends : /\ chain[e] \in Seq(Ops) /\ wire[e] \in Seq(Signals)
                      /\ Keeps(wire[e], wire[e], Descriptions)
                      /\ \A kinds : Keeps(chain[e], chain[e], kinds)
  BY <1>0, KeepsAll
<1>3. ASSUME NEW e \in Ends, wire[e] # <<>>
      PROVE  /\ Head(wire[e]) \in Signals /\ Head(wire[e]).n \in Nat
             /\ Tail(wire[e]) \in Seq(Signals)
             /\ Head(wire[e]).kind \notin Descriptions =>
                    Keeps(wire[e], Tail(wire[e]), Descriptions)
  BY <1>2, <1>3, Shortened, Records, KeepsAll
\* An operation of no round is asked for.
<1>4. ASSUME NEW e \in Ends, NEW x \in Ops, x.kind \in {"createOffer", "add"}
      PROVE  \A kinds \in RoundKinds(e) : Keeps(chain[e], Append(chain[e], x), kinds)
  BY <1>2, <1>4, RoundKindsFacts, KeepsAll
<1>5. ASSUME NEW x \in Ops
      PROVE  /\ Some(chain["host"], {"createOffer"}) =>
                    Some(Append(chain["host"], x), {"createOffer"})
             /\ Has(chain["host"], Op("setLocal", offers)) =>
                    Has(Append(chain["host"], x), Op("setLocal", offers))
  BY <1>2, EndsFacts, KindsLonger, OthersLonger
<1>6. ASSUME NEW x \in Ops, x.kind # "setRemote", NEW w,
             NewestLast(L, w, chain["guest"], remote["guest"])
      PROVE  NewestLast(L, w, Append(chain["guest"], x), remote["guest"])
  <2>1. <<x>> \in Seq(Ops) /\ \A i \in DOMAIN <<x>> : <<x>>[i].kind # "setRemote"
    BY <1>6
  <2>2. chain["guest"] \o <<x>> = Append(chain["guest"], x) /\ chain["guest"] \in Seq(Ops)
    BY <1>2, EndsFacts, Longer
  <2>3. NewestLast(L, w, chain["guest"] \o <<x>>, remote["guest"])
    BY <1>6, <2>1, <2>2, NewestAsked
  <2>4. QED  BY <2>2, <2>3
<1>7. Op("createOffer", 0) \in Ops /\ Op("createOffer", 0).kind = "createOffer"
  BY Records
<1>8. ASSUME UNCHANGED <<state, local, remote, offers, overlapped>>, Undisturbed,
             OfferArrives', OfferMade', BufferedFirst'
      PROVE  RoundsInv'
  BY <1>8, RoundsUndisturbed
<1> HIDE DEF Undisturbed
<1>9. CASE CandidateAdded(a)
  <2> DEFINE c == chain[a]
  <2>1. /\ c # <<>> /\ Head(c).kind = "add" /\ Continue(a, <<>>, <<>>)
        /\ UNCHANGED <<state, local, remote, offers, overlapped, remoteSet, pending>>
    BY <1>9 DEF CandidateAdded, Done
  <2>2. chain'[a] = Tail(c) /\ chain'[Other(a)] = chain[Other(a)] /\ wire' = wire
    BY <1>0, <2>1, ContinuedPlain
  <2>3. \A kinds \in RoundKinds(a) : Keeps(c, Tail(c), kinds)
    BY <1>2, <2>1, RoundKindsFacts, KeepsAll
  <2>4. Undisturbed
    BY <1>2, <2>2, <2>3, EndsFacts DEF Undisturbed
  <2>5. OfferArrives'
    <3>1. NewestLast(L, wire["guest"], chain'["guest"], remote["guest"])
      <4>1. CASE a = "guest"
        BY <1>1, <1>2, <2>1, <2>2, <4>1, NewestDone
      <4>2. CASE a = "host"
        BY <1>1, <2>2, <4>2, EndsFacts
      <4>3. QED  BY <4>1, <4>2, EndsFacts
    <3>2. QED  BY <2>1, <2>2, <3>1 DEF OfferArrives
  <2>6. OfferMade'
    <3>1. CASE a = "host"
      <4>1. Head(c).kind # "createOffer" /\ Head(c) # Op("setLocal", offers)
        BY <1>0, <2>1, Records
      <4>2. /\ Some(c, {"createOffer"}) => Some(Tail(c), {"createOffer"})
            /\ Has(c, Op("setLocal", offers)) => Has(Tail(c), Op("setLocal", offers))
        BY <1>2, <2>1, <4>1, KindsShorter, HasShorter
      <4>3. QED  BY <1>1, <2>1, <2>2, <3>1, <4>2 DEF OfferMade
    <3>2. CASE a = "guest"
      BY <1>1, <2>1, <2>2, <3>2, EndsFacts DEF OfferMade
    <3>3. QED  BY <3>1, <3>2, EndsFacts
  <2>7. BufferedFirst'
    BY <1>1, <2>1 DEF BufferedFirst
  <2>8. QED  BY <1>8, <2>1, <2>4, <2>5, <2>6, <2>7
<1>10. CASE Gather(a)
  <2> DEFINE x == Signal("candidate", local[a])
  <2>1. /\ wire' = [wire EXCEPT ![Other(a)] = Append(@, x)]
        /\ UNCHANGED <<state, local, remote, offers, overlapped, remoteSet, pending, chain>>
    BY <1>10 DEF Gather
  <2>2. x \in Signals /\ x.kind \notin Descriptions
    BY <1>0, Records DEF Descriptions
  <2> HIDE DEF x
  <2>3. \A e \in Ends : /\ Keeps(wire[e], Append(wire[e], x), Descriptions)
                        /\ wire'[e] = wire[e] \/ wire'[e] = Append(wire[e], x)
    BY <1>0, <1>2, <2>1, <2>2, EndsFacts, KeepsAll
  <2>4. Undisturbed
    BY <1>2, <2>1, <2>3 DEF Undisturbed
  <2>5. OfferArrives'
    <3>1. NewestLast(L, Append(wire["guest"], x), chain["guest"], remote["guest"])
      BY <1>1, <1>2, <2>2, EndsFacts, NewestKept
    <3>2. QED  BY <1>1, <2>1, <2>3, <3>1, EndsFacts DEF OfferArrives
  <2>6. OfferMade' /\ BufferedFirst'
    BY <1>1, <2>1 DEF OfferMade, BufferedFirst
  <2>7. QED  BY <1>8, <2>1, <2>4, <2>5, <2>6
<1>11. CASE HandleDescription(a)
  <2> DEFINE w == wire[a]
             x == Op("setRemote", Head(w).n)
  <2>1. /\ w # <<>> /\ Head(w).kind \in Descriptions
        /\ wire' = [wire EXCEPT ![a] = Tail(@)]
        /\ chain' = [chain EXCEPT ![a] = Append(@, x)]
        /\ UNCHANGED <<state, local, remote, offers, overlapped, remoteSet, pending>>
    BY <1>11 DEF HandleDescription, Takes, Descriptions
  <2>2. x \in Ops /\ x.kind = "setRemote"
    BY <1>3, <2>1, Records
  <2> HIDE DEF x
  <2>3. /\ wire'[a] = Tail(w) /\ wire'[Other(a)] = wire[Other(a)]
        /\ chain'[a] = Append(chain[a], x) /\ chain'[Other(a)] = chain[Other(a)]
    BY <1>0, <2>1, EndsFacts
  <2>4. OfferArrives'
    <3>1. CASE a = "guest"
      <4>1. NewestLast(L, Tail(w), Append(chain["guest"], x), remote["guest"])
        BY <1>1, <1>2, <2>1, <2>2, <3>1, NewestTaken DEF x
      <4>2. QED  BY <2>1, <2>3, <3>1, <4>1 DEF OfferArrives
    <3>2. CASE a = "host"
      BY <1>1, <2>1, <2>3, <3>2, EndsFacts DEF OfferArrives
    <3>3. QED  BY <3>1, <3>2, EndsFacts
  <2>5. AnswerComes'
    <3>1. Some(Append(chain[a], x), {"setRemote"})
      <4> DEFINE K == {"setRemote"}
      <4>1. x.kind \in K
        BY <2>2
      <4> HIDE DEF K
      <4>2. Some(Append(chain[a], x), K)
        BY <1>2, <2>2, <4>1, KindsLonger
      <4>3. QED  BY <4>2 DEF K
    <3>2. Some(chain["guest"], {"createAnswer", "setLocal"}) =>
              Some(chain'["guest"], {"createAnswer", "setLocal"})
      <4>1. Some(chain[a], {"createAnswer", "setLocal"}) =>
                Some(Append(chain[a], x), {"createAnswer", "setLocal"})
        BY <1>2, <2>2, KindsLonger
      <4>2. QED  BY <2>3, <4>1, EndsFacts
    <3>3. QED  BY <1>1, <2>1, <2>3, <3>1, <3>2 DEF AnswerComes
  <2>6. OfferMade'
    <3>1. CASE a = "host"
      BY <1>1, <1>5, <2>1, <2>2, <2>3, <3>1 DEF OfferMade
    <3>2. CASE a = "guest"
      BY <1>1, <2>1, <2>3, <3>2, EndsFacts DEF OfferMade
    <3>3. QED  BY <3>1, <3>2, EndsFacts
  <2>7. BufferedFirst'
    BY <1>1, <2>1 DEF BufferedFirst
  <2>8. ASSUME OneRound
        PROVE  OneRound'
    <3>1. ~Idle(w, Descriptions)
      BY <1>2, <2>1, KindsShorter
    <3>2. ASSUME NEW y, y.kind \in Descriptions, Only(w, Descriptions, y)
          PROVE  Head(w) = y /\ Idle(Tail(w), Descriptions)
      BY <1>2, <2>1, <3>2, OnlyShorter
    <3>3. /\ Signal("offer", L).kind \in Descriptions /\ Signal("offer", L).n = L
          /\ Signal("answer", L).kind \in Descriptions /\ Signal("answer", L).n = L
      BY <1>0, EndsFacts, Records DEF Descriptions
    <3>4. \A kinds : Idle(chain[a], kinds) => Only(Append(chain[a], x), kinds, x)
      BY <1>2, <2>2, KindsLonger
    <3>5. CASE a = "guest"
      <4>1. OfferSent
        BY <2>8, <3>1, <3>5
        DEF OneRound, BetweenRounds, OfferToSet, Answering, AnswerSent, AnswerToSet, IdleBut
      <4>2. x = Op("setRemote", L) /\ Idle(Tail(w), Descriptions)
        BY <3>2, <3>3, <3>5, <4>1 DEF OfferSent, x
      <4>3. OfferToSet'
        BY <2>1, <2>3, <3>4, <3>5, <4>1, <4>2, EndsFacts DEF OfferSent, OfferToSet, IdleBut
      <4>4. QED  BY <4>3 DEF OneRound
    <3>6. CASE a = "host"
      <4>1. AnswerSent
        BY <2>8, <3>1, <3>6
        DEF OneRound, BetweenRounds, OfferSent, OfferToSet, Answering, AnswerToSet, IdleBut
      <4>2. x = Op("setRemote", L) /\ Idle(Tail(w), Descriptions)
        BY <3>2, <3>3, <3>6, <4>1 DEF AnswerSent, x
      <4>3. AnswerToSet'
        BY <2>1, <2>3, <3>4, <3>6, <4>1, <4>2, EndsFacts
        DEF AnswerSent, Answered, AnswerToSet, IdleBut
      <4>4. QED  BY <4>3 DEF OneRound
    <3>7. QED  BY <3>5, <3>6, EndsFacts
  <2>9. QED
    BY <1>1, <2>1, <2>4, <2>5, <2>6, <2>7, <2>8 DEF RoundsInv
<1>12. CASE HandleCandidate(a)
  <2> DEFINE w == wire[a]
             x == Op("add", Head(w).n)
  <2>1. /\ w # <<>> /\ Head(w).kind = "candidate" /\ wire' = [wire EXCEPT ![a] = Tail(@)]
        /\ \/ /\ chain' = [chain EXCEPT ![a] = Append(@, x)]
              /\ UNCHANGED pending
           \/ /\ ~remoteSet[a]
              /\ pending' = [pending EXCEPT ![a] = Append(@, Head(w).n)]
              /\ UNCHANGED chain
        /\ UNCHANGED <<state, local, remote, offers, overlapped, remoteSet>>
    BY <1>12 DEF HandleCandidate, Takes
  <2>2. x \in Ops /\ x.kind = "add"
    BY <1>3, <2>1, Records
  <2> HIDE DEF x
  <2>3. /\ wire'[a] = Tail(w) /\ wire'[Other(a)] = wire[Other(a)]
        /\ chain'[a] = chain[a] \/ chain'[a] = Append(chain[a], x)
        /\ chain'[Other(a)] = chain[Other(a)]
    BY <1>0, <2>1, EndsFacts
  <2>4. Head(w).kind \notin Descriptions
    BY <2>1 DEF Descriptions
  <2>5. Undisturbed
    <3>1. Keeps(w, Tail(w), Descriptions)
      BY <1>3, <2>1, <2>4
    <3>2. \A kinds \in RoundKinds(a) : Keeps(chain[a], chain'[a], kinds)
      BY <1>2, <1>4, <2>2, <2>3
    <3>3. QED  BY <1>2, <2>3, <3>1, <3>2, EndsFacts DEF Undisturbed
  <2>6. OfferArrives'
    <3>1. CASE a = "guest"
      <4>1. NewestLast(L, Tail(w), chain["guest"], remote["guest"])
        BY <1>1, <1>2, <2>1, <2>4, <3>1, NewestPassed
      <4>2. NewestLast(L, Tail(w), Append(chain["guest"], x), remote["guest"])
        BY <1>6, <2>2, <4>1
      <4>3. QED  BY <2>1, <2>3, <3>1, <4>1, <4>2 DEF OfferArrives
    <3>2. CASE a = "host"
      BY <1>1, <2>1, <2>3, <3>2, EndsFacts DEF OfferArrives
    <3>3. QED  BY <3>1, <3>2, EndsFacts
  <2>7. OfferMade'
    <3>1. CASE a = "host"
      BY <1>1, <1>5, <2>1, <2>2, <2>3, <3>1 DEF OfferMade
    <3>2. CASE a = "guest"
      BY <1>1, <2>1, <2>3, <3>2, EndsFacts DEF OfferMade
    <3>3. QED  BY <3>1, <3>2, EndsFacts
  <2>8. BufferedFirst'
    <3>1. \A e \in Ends : remoteSet[e] => pending'[e] = pending[e]
      BY <1>0, <2>1
    <3>2. QED  BY <1>1, <2>1, <3>1 DEF BufferedFirst
  <2>9. QED  BY <1>8, <2>1, <2>5, <2>6, <2>7, <2>8
<1>13. CASE HandleIceRestart
  <2> DEFINE x == Op("createOffer", 0)
  <2>1. /\ wire["host"] # <<>> /\ Head(wire["host"]).kind = "ice-restart"
        /\ wire' = [wire EXCEPT !["host"] = Tail(@)]
        /\ chain' = [chain EXCEPT !["host"] = Append(@, x)]
        /\ UNCHANGED <<state, local, remote, offers, overlapped, remoteSet, pending>>
    BY <1>13 DEF HandleIceRestart, Takes
  <2>2. /\ wire'["host"] = Tail(wire["host"]) /\ wire'["guest"] = wire["guest"]
        /\ chain'["host"] = Append(chain["host"], x) /\ chain'["guest"] = chain["guest"]
    BY <1>0, <2>1, EndsFacts
  <2> HIDE DEF x
  <2>3. Undisturbed
    <3>1. Keeps(wire["host"], Tail(wire["host"]), Descriptions)
      BY <1>3, <2>1, EndsFacts DEF Descriptions
    <3>2. \A kinds \in RoundKinds("host") : Keeps(chain["host"], chain'["host"], kinds)
      BY <1>4, <1>7, <2>2, EndsFacts DEF x
    <3>3. QED  BY <1>2, <2>2, <3>1, <3>2, EndsFacts DEF Undisturbed
  <2>4. OfferArrives'
    BY <1>1, <2>1, <2>2 DEF OfferArrives
  <2>5. OfferMade'
    BY <1>1, <1>5, <1>7, <2>1, <2>2 DEF OfferMade, x
  <2>6. BufferedFirst'
    BY <1>1, <2>1 DEF BufferedFirst
  <2>7. QED  BY <1>8, <2>1, <2>3, <2>4, <2>5, <2>6
<1>14. CASE TimerFires(a)
  <2> DEFINE x == Op("createOffer", 0)
             y == Signal("ice-restart", 0)
  <2>1. y \in Signals /\ y.kind \notin Descriptions
    BY Records DEF Descriptions
  <2>2. UNCHANGED <<state, local, remote, offers, overlapped, remoteSet, pending>>
    BY <1>14 DEF TimerFires
  <2>3. \/ UNCHANGED <<chain, wire>>
        \/ chain' = [chain EXCEPT !["host"] = Append(@, x)] /\ UNCHANGED wire
        \/ wire' = [wire EXCEPT !["host"] = @ \o <<y>>] /\ UNCHANGED chain
    BY <1>14, EndsFacts DEF TimerFires, IceRestart
  <2>4. wire["host"] \o <<y>> = Append(wire["host"], y)
    BY <1>2, <2>1, EndsFacts, Longer
  <2>5. /\ chain'["guest"] = chain["guest"] /\ wire'["guest"] = wire["guest"]
        /\ chain'["host"] = chain["host"] \/ chain'["host"] = Append(chain["host"], x)
        /\ wire'["host"] = wire["host"] \/ wire'["host"] = Append(wire["host"], y)
    BY <1>0, <2>3, <2>4, EndsFacts
  <2> HIDE DEF x, y
  <2>6. Undisturbed
    <3>1. Keeps(wire["host"], wire'["host"], Descriptions)
      BY <1>2, <2>1, <2>5, EndsFacts, KeepsAll
    <3>2. \A kinds \in RoundKinds("host") : Keeps(chain["host"], chain'["host"], kinds)
      BY <1>2, <1>4, <1>7, <2>5, EndsFacts DEF x
    <3>3. QED  BY <1>2, <2>5, <3>1, <3>2, EndsFacts DEF Undisturbed
  <2>7. OfferArrives'
    BY <1>1, <2>2, <2>5 DEF OfferArrives
  <2>8. OfferMade'
    BY <1>1, <1>5, <1>7, <2>2, <2>5 DEF OfferMade, x
  <2>9. BufferedFirst'
    BY <1>1, <2>2 DEF BufferedFirst
  <2>10. QED  BY <1>8, <2>2, <2>6, <2>7, <2>8, <2>9
<1>15. QED  BY <1>9, <1>10, <1>11, <1>12, <1>13, <1>14

-----------------------------------------------------------------------------
(* The inductive invariant                                                 *)

IInv == TypeOK /\ CandidatesFollow /\ RoundsInv

LEMMA InitEstablishes == Init => IInv
<1> SUFFICES ASSUME Init PROVE IInv
  OBVIOUS
<1>1. TypeOK
  BY TypeInit
<1>2. CandidatesFollow
  BY DEF Init, CandidatesFollow, CandidateFollowsTo, Ends, Other
<1>3. /\ state["host"] = "stable" /\ state["guest"] = "stable" /\ offers = 0
      /\ \A e \in Ends : /\ local[e] = 0 /\ remote[e] = 0 /\ wire[e] = <<>>
                         /\ pending[e] = <<>> /\ ~remoteSet[e]
      /\ chain["guest"] = <<>> /\ chain["host"] = <<Op("createOffer", 0)>>
  BY EndsFacts DEF Init
<1>4. /\ \A kinds : Idle(wire["guest"], kinds) /\ Idle(wire["host"], kinds)
      /\ \A kinds : Idle(chain["guest"], kinds)
  BY <1>3, EndsFacts DEF Idle
<1>5. /\ DOMAIN chain["host"] = {1} /\ chain["host"][1] = Op("createOffer", 0)
      /\ Op("createOffer", 0).kind = "createOffer"
  BY <1>3, Records
<1>6. OfferArrives
  BY <1>3, EndsFacts DEF OfferArrives, NewestLast
<1>7. AnswerComes
  BY <1>3 DEF AnswerComes
<1>8. OneRound
  <2>1. Idle(chain["host"], Work("host"))
    BY <1>5 DEF Idle, Work
  <2>2. BetweenRounds
    BY <1>3, <1>4, <2>1, EndsFacts DEF BetweenRounds, Settled, IdleBut
  <2>3. QED  BY <2>2 DEF OneRound
<1>9. OfferMade
  <2>1. Some(chain["host"], {"createOffer"})
    BY <1>5 DEF Some
  <2>2. offers = local["host"]
    BY <1>3, EndsFacts
  <2>3. QED  BY <2>1, <2>2 DEF OfferMade
<1>10. BufferedFirst
  BY <1>3 DEF BufferedFirst
<1>11. QED
  BY <1>1, <1>2, <1>6, <1>7, <1>8, <1>9, <1>10 DEF IInv, RoundsInv

LEMMA RoundsStep == TypeOK /\ RoundsInv /\ [Next]_vars => RoundsInv'
<1> SUFFICES ASSUME TypeOK, RoundsInv, [Next]_vars PROVE RoundsInv'
  OBVIOUS
<1>1. CASE OfferCreated \/ OfferSet \/ AnswerTaken \/ AnswerRefused
  BY <1>1, RoundsHost
<1>2. CASE OfferTaken \/ AnswerCreated \/ AnswerSet
  BY <1>2, RoundsGuest
<1>3. ASSUME NEW e \in Ends,
             \/ CandidateAdded(e) \/ Gather(e) \/ HandleDescription(e) \/ HandleCandidate(e)
             \/ HandleIceRestart \/ TimerFires(e)
      PROVE  RoundsInv'
  BY <1>3, RoundsSignals
<1>4. CASE UNCHANGED <<descriptions, candidates, chain, wire, overlapped>>
  BY <1>4
  DEF descriptions, candidates, RoundsInv, OfferArrives, AnswerComes, OfferMade, BufferedFirst,
      OneRound, BetweenRounds, Settled, OfferSent, OfferToSet, Answering, Answered, AnswerSent,
      AnswerToSet, IdleBut
<1>5. ASSUME NEW e \in Ends, Connected(e)
      PROVE  RoundsInv'
  BY <1>4, <1>5 DEF Connected
<1>6. CASE Disconnected
  BY <1>4, <1>6 DEF Disconnected
<1>7. CASE UNCHANGED vars
  BY <1>4, <1>7 DEF vars, recovery
<1>8. QED
  BY <1>1, <1>2, <1>3, <1>5, <1>6, <1>7, EndsFacts DEF Next, Negotiate

\* Every reachable state of the two connections has the three parts of IInv.
THEOREM Invariance == Spec => []IInv
<1>1. IInv /\ [Next]_vars => IInv'
  BY TypeStep, CandidatesStep, RoundsStep DEF IInv
<1>2. QED  BY InitEstablishes, <1>1, PTL DEF Spec

-----------------------------------------------------------------------------
(* What follows                                                            *)

\* The connections' descriptions, operations, signals, attempts and timers are what
\* they are declared to be; no end restarts more often than it may.
THEOREM TypeCorrect == Spec => []TypeOK
<1>1. IInv => TypeOK
  BY DEF IInv
<1>2. QED  BY <1>1, Invariance, PTL

\* PeerConnection buffers candidates, flushes them and hands them over in such an
\* order that the candidate of the description an end works with is never dropped,
\* however many restarts overlap.
THEOREM NoCandidateForgotten == Spec => []CandidatesKept
<1>1. IInv => CandidatesKept
  <2> SUFFICES ASSUME IInv, NEW e \in Ends, local[Other(e)] # 0,
                      remote[e] = local[Other(e)], gathered[Other(e)]
               PROVE  \/ added[e]
                      \/ Signal("candidate", local[Other(e)]) \in ToSet(wire[e])
                      \/ local[Other(e)] \in ToSet(pending[e])
                      \/ Op("add", local[Other(e)]) \in ToSet(chain[e])
    BY DEF CandidatesKept
  <2>1. CandidateFollows(local[Other(e)], wire[e], chain[e], pending[e], remote[e], added[e])
    BY DEF IInv, CandidatesFollow, CandidateFollowsTo
  <2>2. QED  BY <2>1 DEF CandidateFollows, ToSet
<1>2. QED  BY <1>1, Invariance, PTL

\* Nothing is in an empty sequence.
LEMMA QuietFacts ==
    ASSUME Quiet
    PROVE  /\ \A e \in Ends : gathered[e]
           /\ \A e \in Ends : \A kinds : ~Some(wire[e], kinds) /\ ~Some(chain[e], kinds)
           /\ \A e \in Ends : \A kinds, x :
                  /\ ~Only(wire[e], kinds, x) /\ ~Only(chain[e], kinds, x)
                  /\ ~Has(chain[e], x)
           /\ \A e \in Ends : DOMAIN wire[e] = {} /\ DOMAIN chain[e] = {}
BY DEF Quiet, Some, Only, Has

\* Once nothing is under way, no offer of PeerConnection waits for an answer, and the
\* guest works with the host's last one, also after restarts that overlapped.
THEOREM OffersAnswered == Spec => []EveryOfferAnswered
<1>1. IInv => EveryOfferAnswered
  <2> SUFFICES ASSUME IInv, Quiet
               PROVE  /\ \A e \in Ends : state[e] = "stable"
                      /\ remote["guest"] = local["host"]
    BY DEF EveryOfferAnswered
  <2>1. TypeOK /\ OfferArrives /\ AnswerComes
    BY DEF IInv, RoundsInv
  <2>2. state["guest"] # "offered"
    BY <2>1, QuietFacts, EndsFacts DEF AnswerComes
  <2>3. state["host"] # "offered"
    BY <2>1, <2>2, QuietFacts DEF AnswerComes
  <2>4. \A e \in Ends : state[e] = "stable"
    BY <2>1, <2>2, <2>3, EndsFacts DEF TypeOK
  <2>5. remote["guest"] = local["host"]
    BY <2>1, QuietFacts, EndsFacts DEF OfferArrives, NewestLast
  <2>6. QED  BY <2>4, <2>5
<1>2. QED  BY <1>1, Invariance, PTL

\* As long as the host makes no offer while another one has no answer, the ends agree
\* whenever nothing is under way: for any number of drops and attempts, whoever is
\* told of a drop and restarts ICE.
THEOREM OneRestartConnects == Spec => []OneRestartAgrees
<1>1. IInv => OneRestartAgrees
  <2> SUFFICES ASSUME IInv, ~overlapped, Quiet PROVE Connectable
    BY DEF OneRestartAgrees, QuietMeansAgreed
  <2>1. /\ TypeOK /\ OneRound /\ OfferMade /\ BufferedFirst
        /\ \A e \in Ends : CandidateFollowsTo(e)
    BY DEF IInv, RoundsInv, CandidatesFollow
  <2>2. Settled
    BY <2>1, QuietFacts, EndsFacts
    DEF OneRound, BetweenRounds, OfferSent, OfferToSet, Answering, AnswerSent, AnswerToSet
  <2>3. Agree
    BY <2>2, EndsFacts DEF Settled, Agree
  <2>4. local["host"] # 0
    BY <2>1, QuietFacts, EndsFacts DEF OfferMade
  <2>5. \A e \in Ends : local[Other(e)] # 0 /\ remote[e] = local[Other(e)]
    BY <2>2, <2>4, EndsFacts DEF Settled
  <2>6. ASSUME NEW e \in Ends
        PROVE  added[e]
    <3>1. CandidateFollows(local[Other(e)], wire[e], chain[e], pending[e], remote[e], added[e])
      BY <2>1, <2>5, QuietFacts, EndsFacts DEF CandidateFollowsTo
    <3>2. pending[e] = <<>>
      BY <2>1, <2>5 DEF BufferedFirst
    <3>3. DOMAIN pending[e] = {}
      BY <3>2
    <3>4. QED  BY <2>5, <3>1, <3>3, QuietFacts DEF CandidateFollows
  <2>7. QED  BY <2>3, <2>6 DEF Connectable
<1>2. QED  BY <1>1, Invariance, PTL
=============================================================================
