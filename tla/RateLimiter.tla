----------------------------- MODULE RateLimiter -----------------------------
(***************************************************************************)
(* The gateway's limit on a socket's messages: a counter per socket and    *)
(* window, where a window begins with the first message after the last one *)
(* is over.  The clock may stand still between messages and may jump, but  *)
(* never runs backwards.                                                   *)
(***************************************************************************)
EXTENDS Naturals, FiniteSets

CONSTANTS
    Keys,           \* socket ids
    Max,            \* RATE_LIMIT_MAX
    WindowMs,       \* RATE_LIMIT_WINDOW_MS
    Horizon         \* where the clock stops

ASSUME MaxAssumption == Max \in Nat \ {0}
ASSUME WindowAssumption == WindowMs \in Nat \ {0}
ASSUME HorizonAssumption == Horizon \in Nat

VARIABLES
    now,            \* Date.now()
    buckets,        \* the keys' counters; NoBucket for none
    accepted,       \* the messages accepted of a key, with their place in the
                    \* window: what the sockets saw
    refused         \* when a message of the key was last refused, 0 if never

vars == <<now, buckets, accepted, refused>>

NoBucket == [count |-> 0, resetAt |-> 0]
Bucket(count, resetAt) == [count |-> count, resetAt |-> resetAt]
Message(at, n) == [at |-> at, n |-> n]

Init ==
    /\ now = 1
    /\ buckets = [k \in Keys |-> NoBucket]
    /\ accepted = [k \in Keys |-> {}]
    /\ refused = [k \in Keys |-> 0]

-----------------------------------------------------------------------------
\* (Definitions marked "a slip" are mistakes the runs must catch; nothing else
\* refers to them.)
EndsLate(k) == buckets[k].resetAt < now                             \* a slip
WindowOver(k) == buckets[k].resetAt <= now
OneTooMany(k) == buckets[k].count > Max                             \* a slip
Full(k) == buckets[k].count >= Max

Accept(k, n, resetAt) ==
    /\ buckets' = [buckets EXCEPT ![k] = Bucket(n, resetAt)]
    /\ accepted' = [accepted EXCEPT ![k] = @ \union {Message(now, n)}]
    /\ UNCHANGED <<now, refused>>

TryConsume(k) ==
    \/ /\ WindowOver(k)
       /\ Accept(k, 1, now + WindowMs)
    \/ /\ ~WindowOver(k) /\ ~Full(k)
       /\ Accept(k, buckets[k].count + 1, buckets[k].resetAt)
    \/ /\ ~WindowOver(k) /\ Full(k)
       /\ refused' = [refused EXCEPT ![k] = now]
       /\ UNCHANGED <<now, buckets, accepted>>

\* The socket is gone, and its id with it: a new one starts from nothing.
Release(k) ==
    /\ buckets' = [buckets EXCEPT ![k] = NoBucket]
    /\ accepted' = [accepted EXCEPT ![k] = {}]
    /\ refused' = [refused EXCEPT ![k] = 0]
    /\ UNCHANGED now

Tick == /\ now' \in (now + 1) .. Horizon
        /\ UNCHANGED <<buckets, accepted, refused>>

Next == Tick \/ \E k \in Keys : TryConsume(k) \/ Release(k)

Spec == Init /\ [][Next]_vars

-----------------------------------------------------------------------------
TypeOK ==
    /\ now \in Nat \ {0}
    /\ buckets \in [Keys -> [count : 0 .. Max, resetAt : Nat]]
    /\ accepted \in [Keys -> SUBSET [at : Nat, n : Nat]]
    /\ \A k \in Keys : IsFiniteSet(accepted[k])
    /\ refused \in [Keys -> Nat]

\* The messages of k accepted from time `from` on, for a window's length.
Within(k, from) == {m \in accepted[k] : from <= m.at /\ m.at < from + WindowMs}

\* RateLimiter.ts: "Used to cap signaling messages per socket and blunt abusive
\* clients."  Windows are laid by the messages themselves, so a burst may meet
\* the end of one and the beginning of the next: whatever the clock does, and
\* wherever one starts to look, a window's length holds at most twice the limit.
BurstsBounded == \A k \in Keys : \A m \in accepted[k] :
    Cardinality(Within(k, m.at)) <= 2 * Max

\* A message is refused only when the limit was used up within the last
\* window's length: nobody is locked out for messages of long ago.
RefusedForAReason == \A k \in Keys : refused[k] # 0 =>
    Cardinality({m \in accepted[k] :
        m.at <= refused[k] /\ refused[k] < m.at + WindowMs}) >= Max
=============================================================================
