-------------------------- MODULE RateLimiterProofs --------------------------
(***************************************************************************)
(* The limits of RateLimiter hold for every limit, window, horizon and set *)
(* of sockets.  The messages of a socket fall into windows, of which a     *)
(* window's length meets at most two neighbours; so the invariant speaks   *)
(* of the messages of the current window, which the bucket counts, and of  *)
(* those less than a window's length before it.                            *)
(***************************************************************************)
EXTENDS RateLimiter, FiniteSetTheorems, TLAPS

\* The current window begins at start(k); what was accepted since, and what was
\* accepted less than a window's length before.
Begun(k) == buckets[k].resetAt # 0
Since(k) == {m \in accepted[k] : buckets[k].resetAt <= m.at + WindowMs}
Before(k) == {m \in accepted[k] : /\ m.at + WindowMs < buckets[k].resetAt
                                  /\ buckets[k].resetAt < m.at + 2 * WindowMs}

WindowsInv(k) ==
    /\ ~Begun(k) => accepted[k] = {} /\ refused[k] = 0
    /\ Begun(k) =>
        /\ buckets[k].count > 0
        /\ WindowMs < buckets[k].resetAt /\ buckets[k].resetAt <= now + WindowMs
        /\ \A m \in accepted[k] : m.at <= now /\ m.at < buckets[k].resetAt
        /\ \A m \in Since(k) : m.n <= buckets[k].count
        /\ Cardinality(Since(k)) = buckets[k].count
        /\ Cardinality(Before(k)) <= Max
    /\ \A from \in Nat : Cardinality(Within(k, from)) <= 2 * Max
    /\ refused[k] <= now

Inv == TypeOK /\ (\A k \in Keys : WindowsInv(k)) /\ RefusedForAReason

-----------------------------------------------------------------------------
(* Counting                                                                *)

LEMMA PartCounts ==
    ASSUME NEW S, IsFiniteSet(S), NEW T, T \subseteq S
    PROVE  /\ IsFiniteSet(T) /\ Cardinality(T) \in Nat
           /\ Cardinality(T) <= Cardinality(S) /\ Cardinality(S) \in Nat
BY FS_Subset, FS_CardinalityType

LEMMA CoverCounts ==
    ASSUME NEW S, IsFiniteSet(S), NEW T, IsFiniteSet(T), NEW U, U \subseteq S \union T
    PROVE  Cardinality(U) <= Cardinality(S) + Cardinality(T)
<1>1. IsFiniteSet(S \union T) /\ Cardinality(S \union T) <= Cardinality(S) + Cardinality(T)
  <2>1. IsFiniteSet(S \intersect T)
    BY FS_Subset
  <2>2. /\ Cardinality(S) \in Nat /\ Cardinality(T) \in Nat
        /\ Cardinality(S \intersect T) \in Nat
    BY <2>1, FS_CardinalityType
  <2>3. Cardinality(S \union T) = Cardinality(S) + Cardinality(T) - Cardinality(S \intersect T)
    BY FS_Union
  <2>4. IsFiniteSet(S \union T)
    BY FS_Union
  <2> QED BY <2>2, <2>3, <2>4
<1>2. Cardinality(U) <= Cardinality(S \union T)
  BY <1>1, FS_Subset
<1>3. /\ Cardinality(U) \in Nat /\ Cardinality(S \union T) \in Nat
      /\ Cardinality(S) \in Nat /\ Cardinality(T) \in Nat
  BY <1>1, FS_Subset, FS_CardinalityType
<1> QED BY <1>1, <1>2, <1>3

\* What TypeOK says of one socket.
LEMMA SocketType ==
    ASSUME TypeOK, NEW k \in Keys
    PROVE  /\ now \in Nat /\ now > 0 /\ refused[k] \in Nat
           /\ buckets[k].count \in 0 .. Max /\ buckets[k].resetAt \in Nat
           /\ \A m \in accepted[k] : m.at \in Nat /\ m.n \in Nat
           /\ IsFiniteSet(accepted[k])
           /\ IsFiniteSet(Since(k)) /\ IsFiniteSet(Before(k))
           /\ Cardinality(Since(k)) \in Nat /\ Cardinality(Before(k)) \in Nat
<1>1. Since(k) \subseteq accepted[k] /\ Before(k) \subseteq accepted[k]
  BY DEF Since, Before
<1>2. IsFiniteSet(accepted[k])
  BY DEF TypeOK
<1>3. /\ IsFiniteSet(Since(k)) /\ IsFiniteSet(Before(k))
      /\ Cardinality(Since(k)) \in Nat /\ Cardinality(Before(k)) \in Nat
  BY <1>1, <1>2, PartCounts
<1>4. buckets[k].count \in 0 .. Max /\ buckets[k].resetAt \in Nat /\ refused[k] \in Nat
  BY DEF TypeOK
<1> QED BY <1>2, <1>3, <1>4 DEF TypeOK

-----------------------------------------------------------------------------
(* A message is accepted                                                   *)

\* An accepted message keeps its type.
LEMMA AcceptType ==
    ASSUME TypeOK, NEW k \in Keys, NEW n \in 1 .. Max, NEW resetAt \in Nat,
           Accept(k, n, resetAt)
    PROVE  TypeOK'
<1>1. buckets' \in [Keys -> [count : 0 .. Max, resetAt : Nat]]
  BY MaxAssumption DEF Accept, Bucket, TypeOK
<1>2. Message(now, n) \in [at : Nat, n : Nat]
  BY MaxAssumption DEF Message, TypeOK
<1>3. accepted' \in [Keys -> SUBSET [at : Nat, n : Nat]]
  BY <1>2 DEF Accept, TypeOK
<1>4. \A j \in Keys : IsFiniteSet(accepted'[j])
  BY FS_AddElement DEF Accept, TypeOK
<1> QED BY <1>1, <1>3, <1>4 DEF Accept, TypeOK

\* Whoever looks at a window's length sees the current window and what is less
\* than a window's length before it.
LEMMA LooksBounded ==
    ASSUME NEW msgs, IsFiniteSet(msgs), \A m \in msgs : m.at \in Nat,
           NEW time \in Nat, NEW resetAt \in Nat, resetAt <= time + WindowMs,
           NEW from \in Nat, time < from + WindowMs,
           NEW since, since = {m \in msgs : resetAt <= m.at + WindowMs},
           NEW before, before = {m \in msgs : m.at + WindowMs < resetAt
                                              /\ resetAt < m.at + 2 * WindowMs},
           Cardinality(since) <= Max, Cardinality(before) <= Max
    PROVE  Cardinality({m \in msgs : from <= m.at /\ m.at < from + WindowMs}) <= 2 * Max
<1> DEFINE seen == {m \in msgs : from <= m.at /\ m.at < from + WindowMs}
<1>1. seen \subseteq since \union before
  <2> SUFFICES ASSUME NEW m \in msgs, from <= m.at PROVE m \in since \union before
    OBVIOUS
  <2>1. m.at \in Nat
    OBVIOUS
  <2>2. resetAt < m.at + 2 * WindowMs
    BY <2>1, WindowAssumption
  <2>3. resetAt <= m.at + WindowMs \/ m.at + WindowMs < resetAt
    BY <2>1, WindowAssumption
  <2> QED BY <2>2, <2>3
<1>2. /\ IsFiniteSet(since) /\ Cardinality(since) \in Nat
      /\ IsFiniteSet(before) /\ Cardinality(before) \in Nat
      /\ Cardinality(seen) \in Nat
  <2>1. since \subseteq msgs /\ before \subseteq msgs /\ seen \subseteq msgs
    OBVIOUS
  <2> HIDE DEF seen
  <2> QED BY <2>1, PartCounts
<1> HIDE DEF seen
<1>3. Cardinality(seen) <= Cardinality(since) + Cardinality(before)
  BY <1>1, <1>2, CoverCounts
<1>4. Cardinality(seen) <= 2 * Max
  BY <1>2, <1>3, MaxAssumption
<1> QED BY <1>4 DEF seen

\* The parts of WindowsInv that do not count, when a message was accepted in a
\* window that is not over.
LEMMA AcceptedBefore ==
    ASSUME TypeOK, NEW k \in Keys, WindowsInv(k), NEW n \in 1 .. Max, NEW resetAt \in Nat,
           Accept(k, n, resetAt), now < resetAt, resetAt <= now + WindowMs,
           WindowMs < resetAt, buckets[k].resetAt <= resetAt,
           Cardinality(Since(k)') = n, Cardinality(Before(k)') <= Max,
           \A m \in Since(k)' : m.n <= n
    PROVE  WindowsInv(k)'
<1>1. TypeOK'
  BY AcceptType
<1>2. /\ buckets'[k].count = n /\ buckets'[k].resetAt = resetAt
      /\ now' = now /\ refused'[k] = refused[k]
      /\ accepted'[k] = accepted[k] \union {Message(now, n)}
  BY DEF Accept, Bucket, TypeOK
<1>3. \A m \in accepted'[k] : m.at <= now' /\ m.at < resetAt
  BY <1>2, SocketType DEF WindowsInv, Begun, Message
<1>4. \A from \in Nat : Cardinality(Within(k, from)') <= 2 * Max
  <2> TAKE from \in Nat
  <2>1. CASE now < from + WindowMs
    <3>1. Cardinality(Since(k)') <= Max
      BY MaxAssumption
    <3>2. /\ IsFiniteSet(accepted'[k]) /\ \A m \in accepted'[k] : m.at \in Nat
      BY <1>1 DEF TypeOK
    <3>3. /\ Since(k)' = {m \in accepted'[k] : resetAt <= m.at + WindowMs}
          /\ Before(k)' = {m \in accepted'[k] : /\ m.at + WindowMs < resetAt
                                               /\ resetAt < m.at + 2 * WindowMs}
      BY <1>2 DEF Since, Before
    <3>4. now \in Nat
      BY SocketType
    <3> QED BY <2>1, <3>1, <3>2, <3>3, <3>4, LooksBounded DEF Within
  <2>2. CASE ~(now < from + WindowMs)
    <3>1. Within(k, from)' = Within(k, from)
      BY <1>2, <2>2, SocketType DEF Within, Message
    <3> QED BY <3>1 DEF WindowsInv
  <2> QED BY <2>1, <2>2
<1> QED BY <1>2, <1>3, <1>4, SocketType DEF WindowsInv, Begun

\* The first message of a window.
LEMMA WindowBegins ==
    ASSUME TypeOK, NEW k \in Keys, WindowsInv(k), WindowOver(k),
           Accept(k, 1, now + WindowMs)
    PROVE  WindowsInv(k)'
<1>1. now + WindowMs \in Nat /\ now + WindowMs > now /\ 1 \in 1 .. Max
  BY SocketType, WindowAssumption, MaxAssumption
<1>2. /\ buckets'[k].resetAt = now + WindowMs
      /\ accepted'[k] = accepted[k] \union {Message(now, 1)}
  BY DEF Accept, Bucket, TypeOK
<1>3. \A m \in accepted[k] : m.at < buckets[k].resetAt /\ m.at < now
  BY SocketType DEF WindowsInv, Begun, WindowOver
<1>4. Since(k)' = {Message(now, 1)}
  <2>1. Since(k)' = {m \in accepted'[k] : now + WindowMs <= m.at + WindowMs}
    BY <1>2 DEF Since
  <2>2. \A m \in accepted[k] : ~(now + WindowMs <= m.at + WindowMs)
    BY <1>3, SocketType, WindowAssumption
  <2>3. now + WindowMs <= Message(now, 1).at + WindowMs
    BY SocketType, WindowAssumption DEF Message
  <2> QED BY <1>2, <2>1, <2>2, <2>3
<1>5. Before(k)' \subseteq Since(k)
  <2>1. \A m \in Before(k)' : /\ m \in accepted[k] \union {Message(now, 1)}
                             /\ m.at + WindowMs < now + WindowMs
                             /\ now + WindowMs < m.at + 2 * WindowMs
    BY <1>2 DEF Before
  <2>2. ~(Message(now, 1).at + WindowMs < now + WindowMs)
    BY SocketType, WindowAssumption DEF Message
  <2>3. \A m \in accepted[k] : now + WindowMs < m.at + 2 * WindowMs
                              => buckets[k].resetAt <= m.at + WindowMs
    BY SocketType, WindowAssumption DEF WindowOver
  <2> QED BY <2>1, <2>2, <2>3 DEF Since
<1>6. Cardinality(Before(k)') <= Max
  <2>1. /\ Cardinality(Before(k)') <= Cardinality(Since(k))
        /\ Cardinality(Before(k)') \in Nat
    BY <1>5, SocketType, PartCounts
  <2>2. CASE Begun(k)
    BY <2>1, <2>2, SocketType, MaxAssumption DEF WindowsInv
  <2>3. CASE ~Begun(k)
    <3>1. Since(k) = {}
      BY <2>3 DEF WindowsInv, Since
    <3> QED BY <2>1, <3>1, FS_EmptySet, MaxAssumption
  <2> QED BY <2>2, <2>3
<1>7. Cardinality(Since(k)') = 1
  BY <1>4, FS_Singleton
<1>8. \A m \in Since(k)' : m.n <= 1
  BY <1>4 DEF Message
<1>9. buckets[k].resetAt <= now + WindowMs /\ WindowMs < now + WindowMs
  BY SocketType, WindowAssumption DEF WindowOver
<1> QED BY <1>1, <1>6, <1>7, <1>8, <1>9, AcceptedBefore

\* A further message of the current window.
LEMMA WindowGoesOn ==
    ASSUME TypeOK, NEW k \in Keys, WindowsInv(k), ~WindowOver(k), ~Full(k),
           Accept(k, buckets[k].count + 1, buckets[k].resetAt)
    PROVE  WindowsInv(k)'
<1> DEFINE n == buckets[k].count + 1
           resetAt == buckets[k].resetAt
<1>1. resetAt \in Nat /\ now < resetAt /\ n \in 1 .. Max /\ Begun(k)
  BY SocketType, MaxAssumption DEF WindowOver, Full, Begun
<1>2. /\ buckets'[k].resetAt = resetAt
      /\ accepted'[k] = accepted[k] \union {Message(now, n)}
  BY DEF Accept, Bucket, TypeOK
<1>3. /\ WindowMs < resetAt /\ resetAt <= now + WindowMs
      /\ \A m \in Since(k) : m.n <= buckets[k].count
      /\ Cardinality(Since(k)) = buckets[k].count /\ Cardinality(Before(k)) <= Max
  BY <1>1 DEF WindowsInv
<1>4. Message(now, n).at = now /\ Message(now, n).n = n
  BY DEF Message
<1>5. Since(k)' = Since(k) \union {Message(now, n)}
  BY <1>2, <1>3, <1>4 DEF Since
<1>6. Before(k)' = Before(k)
  <2>1. ~(Message(now, n).at + WindowMs < resetAt)
    BY <1>1, <1>3, <1>4, SocketType, WindowAssumption
  <2> QED BY <1>2, <2>1 DEF Before
<1>7. Cardinality(Since(k)') = n
  <2>1. Message(now, n) \notin Since(k)
    BY <1>3, <1>4, SocketType
  <2> QED BY <1>3, <1>5, <2>1, SocketType, FS_AddElement
<1>8. \A m \in Since(k)' : m.n <= n
  <2>1. \A m \in Since(k) : m.n <= n
    <3>1. \A m \in Since(k) : m.n \in Nat
      BY SocketType DEF Since
    <3> QED BY <1>3, <3>1, SocketType
  <2> QED BY <1>1, <1>4, <1>5, <2>1
<1>9. resetAt <= resetAt
  BY <1>1
<1> HIDE DEF n, resetAt
<1> QED BY <1>1, <1>3, <1>6, <1>7, <1>8, <1>9, AcceptedBefore DEF n, resetAt

-----------------------------------------------------------------------------
(* The steps                                                               *)

LEMMA TypeNext == TypeOK /\ [Next]_vars => TypeOK'
<1> SUFFICES ASSUME TypeOK, [Next]_vars PROVE TypeOK'
  OBVIOUS
<1>1. CASE Tick
  BY <1>1, HorizonAssumption DEF Tick, TypeOK
<1>2. ASSUME NEW k \in Keys, TryConsume(k) PROVE TypeOK'
  <2>1. CASE WindowOver(k) /\ Accept(k, 1, now + WindowMs)
    <3>1. 1 \in 1 .. Max /\ now + WindowMs \in Nat
      BY MaxAssumption, WindowAssumption DEF TypeOK
    <3> QED BY <2>1, <3>1, AcceptType
  <2>2. CASE ~Full(k) /\ Accept(k, buckets[k].count + 1, buckets[k].resetAt)
    <3>1. buckets[k].count + 1 \in 1 .. Max /\ buckets[k].resetAt \in Nat
      BY <2>2, SocketType, MaxAssumption DEF Full
    <3> QED BY <2>2, <3>1, AcceptType
  <2>3. CASE refused' = [refused EXCEPT ![k] = now] /\ UNCHANGED <<now, buckets, accepted>>
    BY <2>3 DEF TypeOK
  <2> QED BY <1>2, <2>1, <2>2, <2>3 DEF TryConsume
<1>3. ASSUME NEW k \in Keys, Release(k) PROVE TypeOK'
  <2>1. NoBucket \in [count : 0 .. Max, resetAt : Nat]
    BY MaxAssumption DEF NoBucket
  <2>2. buckets' \in [Keys -> [count : 0 .. Max, resetAt : Nat]]
    BY <1>3, <2>1 DEF Release, TypeOK
  <2>3. accepted' \in [Keys -> SUBSET [at : Nat, n : Nat]]
    BY <1>3 DEF Release, TypeOK
  <2>4. \A j \in Keys : IsFiniteSet(accepted'[j])
    BY <1>3, FS_EmptySet DEF Release, TypeOK
  <2> QED BY <1>3, <2>2, <2>3, <2>4 DEF Release, TypeOK
<1>4. CASE UNCHANGED vars
  BY <1>4 DEF vars, TypeOK
<1> QED BY <1>1, <1>2, <1>3, <1>4 DEF Next

\* What WindowsInv says of a socket no step touches.
LEMMA Untouched ==
    ASSUME TypeOK, NEW k \in Keys, WindowsInv(k), now' \in Nat, now <= now',
           buckets'[k] = buckets[k], accepted'[k] = accepted[k],
           refused'[k] = refused[k] \/ (Begun(k) /\ refused'[k] = now')
    PROVE  WindowsInv(k)'
<1>1. /\ Begun(k)' = Begun(k) /\ Since(k)' = Since(k) /\ Before(k)' = Before(k)
      /\ \A from : Within(k, from)' = Within(k, from)
  BY DEF Begun, Since, Before, Within
<1>2. ~Begun(k) => accepted'[k] = {} /\ refused'[k] = 0
  BY DEF WindowsInv
<1>3. refused'[k] <= now'
  BY SocketType DEF WindowsInv
<1>4. Begun(k) => buckets'[k].resetAt <= now' + WindowMs
  BY SocketType, WindowAssumption DEF WindowsInv
<1>5. \A m \in accepted[k] : m.at <= now => m.at <= now'
  BY SocketType
<1> QED BY <1>1, <1>2, <1>3, <1>4, <1>5 DEF WindowsInv

LEMMA WindowsNext ==
    ASSUME TypeOK, \A k \in Keys : WindowsInv(k), [Next]_vars, NEW k \in Keys
    PROVE  WindowsInv(k)'
<1>1. now \in Nat /\ now <= now
  BY DEF TypeOK
<1>2. CASE Tick
  <2>1. now' \in Nat /\ now <= now'
    BY <1>1, <1>2, HorizonAssumption DEF Tick
  <2> QED BY <1>2, <2>1, Untouched DEF Tick
<1>3. ASSUME NEW j \in Keys, TryConsume(j) PROVE WindowsInv(k)'
  <2>1. CASE j # k
    <3>1. /\ now' = now /\ buckets'[k] = buckets[k] /\ accepted'[k] = accepted[k]
          /\ refused'[k] = refused[k]
      BY <1>3, <2>1 DEF TryConsume, Accept, TypeOK
    <3> QED BY <1>1, <3>1, Untouched
  <2>2. CASE j = k /\ WindowOver(k) /\ Accept(k, 1, now + WindowMs)
    BY <2>2, WindowBegins
  <2>3. CASE j = k /\ ~WindowOver(k) /\ ~Full(k)
             /\ Accept(k, buckets[k].count + 1, buckets[k].resetAt)
    BY <2>3, WindowGoesOn
  <2>4. CASE j = k /\ ~WindowOver(k) /\ refused' = [refused EXCEPT ![k] = now]
             /\ UNCHANGED <<now, buckets, accepted>>
    <3>1. Begun(k)
      BY <1>1, <2>4 DEF WindowOver, Begun
    <3>2. refused'[k] = now'
      BY <2>4 DEF TypeOK
    <3> QED BY <1>1, <2>4, <3>1, <3>2, Untouched
  <2> QED BY <1>3, <2>1, <2>2, <2>3, <2>4 DEF TryConsume
<1>4. ASSUME NEW j \in Keys, Release(j) PROVE WindowsInv(k)'
  <2>1. CASE j # k
    <3>1. /\ now' = now /\ buckets'[k] = buckets[k] /\ accepted'[k] = accepted[k]
          /\ refused'[k] = refused[k]
      BY <1>4, <2>1 DEF Release, TypeOK
    <3> QED BY <1>1, <3>1, Untouched
  <2>2. CASE j = k
    <3>1. /\ buckets'[k].resetAt = 0 /\ accepted'[k] = {} /\ refused'[k] = 0 /\ now' = now
      BY <1>4, <2>2 DEF Release, NoBucket, TypeOK
    <3>2. \A from \in Nat : Cardinality(Within(k, from)') <= 2 * Max
      BY <3>1, FS_EmptySet, MaxAssumption DEF Within
    <3> QED BY <1>1, <3>1, <3>2 DEF WindowsInv, Begun
  <2> QED BY <2>1, <2>2
<1>5. CASE UNCHANGED vars
  BY <1>1, <1>5, Untouched DEF vars
<1> QED BY <1>2, <1>3, <1>4, <1>5 DEF Next

\* The messages a refusal of k is due to.
Reason(k) == {m \in accepted[k] : m.at <= refused[k] /\ refused[k] < m.at + WindowMs}

LEMMA RefusedNext ==
    ASSUME TypeOK, \A k \in Keys : WindowsInv(k), RefusedForAReason, [Next]_vars,
           NEW k \in Keys, refused'[k] # 0
    PROVE  Cardinality(Reason(k)') >= Max
<1>1. CASE refused'[k] = refused[k] /\ accepted[k] \subseteq accepted'[k]
  <2>1. Reason(k) \subseteq Reason(k)' /\ Reason(k)' \subseteq accepted'[k]
    BY <1>1 DEF Reason
  <2>2. IsFiniteSet(accepted'[k])
    BY TypeNext DEF TypeOK
  <2>3. IsFiniteSet(Reason(k)') /\ Cardinality(Reason(k)') \in Nat
    BY <2>1, <2>2, PartCounts
  <2>4. Cardinality(Reason(k)) <= Cardinality(Reason(k)') /\ Cardinality(Reason(k)) \in Nat
    BY <2>1, <2>3, PartCounts
  <2>5. Cardinality(Reason(k)) >= Max
    BY <1>1 DEF RefusedForAReason, Reason
  <2> QED BY <2>3, <2>4, <2>5, MaxAssumption
<1>2. CASE ~WindowOver(k) /\ Full(k) /\ refused'[k] = now /\ accepted'[k] = accepted[k]
  <2>1. Begun(k)
    BY <1>2, SocketType DEF WindowOver, Begun
  <2>2. \A m \in Since(k) : m.at <= now /\ now < m.at + WindowMs
    <3>1. \A m \in accepted[k] : m.at <= now
      BY <2>1 DEF WindowsInv
    <3>2. now < buckets[k].resetAt
      BY <1>2, SocketType DEF WindowOver
    <3>3. /\ now \in Nat /\ buckets[k].resetAt \in Nat
          /\ \A m \in accepted[k] : m.at \in Nat
      BY SocketType
    <3>4. \A m \in Since(k) : m \in accepted[k] /\ buckets[k].resetAt <= m.at + WindowMs
      BY DEF Since
    <3> QED BY <3>1, <3>2, <3>3, <3>4, WindowAssumption
  <2>3. Since(k) \subseteq Reason(k)' /\ Reason(k)' \subseteq accepted[k]
    BY <1>2, <2>2 DEF Reason, Since
  <2>4. IsFiniteSet(Reason(k)') /\ Cardinality(Reason(k)') \in Nat
    BY <2>3, SocketType, PartCounts
  <2>5. Cardinality(Since(k)) <= Cardinality(Reason(k)')
    BY <2>3, <2>4, PartCounts
  <2>6. Cardinality(Since(k)) >= Max
    BY <1>2, <2>1, SocketType DEF WindowsInv, Full
  <2> QED BY <2>4, <2>5, <2>6, SocketType, MaxAssumption
<1>3. CASE refused'[k] = 0
  BY <1>3
<1>4. CASE Tick \/ UNCHANGED vars
  BY <1>1, <1>4 DEF Tick, vars
<1>5. ASSUME NEW j \in Keys, TryConsume(j) PROVE Cardinality(Reason(k)') >= Max
  <2>1. \/ refused' = refused /\ accepted[k] \subseteq accepted'[k]
        \/ /\ ~WindowOver(j) /\ Full(j) /\ accepted' = accepted
           /\ refused' = [refused EXCEPT ![j] = now]
    BY <1>5 DEF TryConsume, Accept, TypeOK
  <2> QED BY <1>1, <1>2, <2>1 DEF TypeOK
<1>6. ASSUME NEW j \in Keys, Release(j) PROVE Cardinality(Reason(k)') >= Max
  <2>1. \/ refused'[k] = 0
        \/ refused'[k] = refused[k] /\ accepted'[k] = accepted[k]
    BY <1>6 DEF Release, TypeOK
  <2> QED BY <1>1, <1>3, <2>1
<1> QED BY <1>4, <1>5, <1>6 DEF Next

LEMMA InvInit == Init => Inv
<1> SUFFICES ASSUME Init PROVE Inv
  OBVIOUS
<1>1. NoBucket \in [count : 0 .. Max, resetAt : Nat] /\ NoBucket.resetAt = 0
  BY MaxAssumption DEF NoBucket
<1>2. TypeOK
  BY <1>1, FS_EmptySet DEF Init, TypeOK
<1>3. ASSUME NEW k \in Keys PROVE WindowsInv(k)
  <2>1. buckets[k].resetAt = 0 /\ accepted[k] = {} /\ refused[k] = 0 /\ now = 1
    BY <1>1 DEF Init
  <2>2. \A from \in Nat : Cardinality(Within(k, from)) <= 2 * Max
    BY <2>1, FS_EmptySet, MaxAssumption DEF Within
  <2> QED BY <2>1, <2>2 DEF WindowsInv, Begun
<1>4. RefusedForAReason
  BY DEF Init, RefusedForAReason
<1> QED BY <1>2, <1>3, <1>4 DEF Inv

LEMMA InvNext == Inv /\ [Next]_vars => Inv'
<1> SUFFICES ASSUME Inv, [Next]_vars PROVE Inv'
  OBVIOUS
<1>1. TypeOK'
  BY TypeNext DEF Inv
<1>2. (\A k \in Keys : WindowsInv(k))'
  BY WindowsNext DEF Inv
<1>3. RefusedForAReason'
  BY RefusedNext DEF Inv, RefusedForAReason, Reason
<1> QED BY <1>1, <1>2, <1>3 DEF Inv

-----------------------------------------------------------------------------
\* RateLimiter's buckets and clock stay in their types: a counter never exceeds
\* the limit.
THEOREM TypeCorrect == Spec => []TypeOK
<1>1. Init => TypeOK
  BY InvInit DEF Inv
<1> QED BY <1>1, TypeNext, PTL DEF Spec

\* RateLimiter.tryConsume: however messages are spread over windows, a window's
\* length holds at most twice the limit.
THEOREM AtMostTwice == Spec => []BurstsBounded
<1>1. Inv => BurstsBounded
  BY SocketType DEF Inv, WindowsInv, BurstsBounded
<1> QED BY <1>1, InvInit, InvNext, PTL DEF Spec

\* RateLimiter.tryConsume: a message is refused only if as many as the limit
\* allows were accepted in the window's length before it.
THEOREM NoGroundlessRefusal == Spec => []RefusedForAReason
<1>1. Inv => RefusedForAReason
  BY DEF Inv
<1> QED BY <1>1, InvInit, InvNext, PTL DEF Spec
=============================================================================
