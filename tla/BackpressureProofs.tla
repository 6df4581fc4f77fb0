-------------------------- MODULE BackpressureProofs --------------------------
(***************************************************************************)
(* Theorems about module Backpressure, for any number of loops, chunks and *)
(* any sizes.  What bounds the buffer is an invariant that also counts the *)
(* chunks the woken loops are about to push.                               *)
(***************************************************************************)
EXTENDS Backpressure, FiniteSetTheorems, TLAPS

\* What is in the buffer and what the woken loops add to it stay within the limit.
Pending == ChunkSize * Cardinality(Woken)
BoundInv == buffered + Pending <= BufferLimit

LEMMA LoopCounts ==
    /\ IsFiniteSet(Woken) /\ Cardinality(Woken) \in Nat
    /\ IsFiniteSet(Blocked) /\ Cardinality(Blocked) \in Nat
    /\ Cardinality(Blocked) <= Cardinality(Loops)
    /\ Cardinality(Loops) \in Nat
<1>1. Woken \subseteq Loops /\ Blocked \subseteq Loops
  BY DEF Woken, Blocked
<1> QED BY <1>1, LoopsAssumption, FS_Subset, FS_CardinalityType

LEMMA LimitType ==
    /\ BufferLimit \in Nat
    /\ High - 1 + ChunkSize <= BufferLimit
    /\ Low + ChunkSize * Cardinality(Loops) <= BufferLimit
<1> DEFINE all == ChunkSize * Cardinality(Loops)
<1>1. all \in Nat
  BY LoopCounts, ChunksAssumption
<1> HIDE DEF all
<1>2. \A n \in Nat : Most(High - 1 + ChunkSize, Low + n) \in Nat
  BY ChunksAssumption, WaterAssumption DEF Most
<1>3. \A n \in Nat : /\ High - 1 + ChunkSize <= Most(High - 1 + ChunkSize, Low + n)
                     /\ Low + n <= Most(High - 1 + ChunkSize, Low + n)
  BY ChunksAssumption, WaterAssumption DEF Most
<1> QED BY <1>1, <1>2, <1>3 DEF BufferLimit, all

LEMMA PushType ==
    ASSUME TypeOK, NEW l \in Loops, pc[l] # "ended", Push(l)
    PROVE  TypeOK'
<1>1. todo[l] \in 0 .. MostChunks /\ todo[l] > 0
  BY DEF TypeOK
<1>2. todo' \in [Loops -> 0 .. MostChunks]
  BY <1>1, ChunksAssumption DEF Push, TypeOK
<1>3. pc' \in [Loops -> {"none", "reading", "blocked", "woken", "ended"}]
  BY DEF Push, TypeOK
<1>4. \A x \in Loops : pc'[x] # "ended" => todo'[x] > 0
  BY <1>1 DEF Push, MoreToSend, TypeOK
<1>5. buffered' \in Nat /\ open' \in BOOLEAN
  BY ChunksAssumption DEF Push, TypeOK
<1> QED BY <1>2, <1>3, <1>4, <1>5 DEF TypeOK

LEMMA TypeNext == TypeOK /\ [Next]_vars => TypeOK'
<1> SUFFICES ASSUME TypeOK, [Next]_vars PROVE TypeOK'
  OBVIOUS
<1>1. ASSUME NEW l \in Loops, OnRequest(l) PROVE TypeOK'
  BY <1>1 DEF OnRequest, TypeOK
<1>2. ASSUME NEW l \in Loops, SendChunk(l) PROVE TypeOK'
  <2>1. CASE Push(l)
    BY <1>2, <2>1, PushType DEF SendChunk
  <2>2. CASE ~Push(l)
    BY <1>2, <2>2 DEF SendChunk, TypeOK
  <2> QED BY <2>1, <2>2
<1>3. ASSUME NEW l \in Loops, GoOn(l) PROVE TypeOK'
  BY <1>3, PushType DEF GoOn
<1>4. CASE Drain
  <2>1. pc' \in [Loops -> {"none", "reading", "blocked", "woken", "ended"}]
    BY <1>4 DEF Drain, TypeOK
  <2>2. \A l \in Loops : pc'[l] # "ended" => pc[l] # "ended"
    BY <1>4 DEF Drain, WokenAt, Blocked, TypeOK
  <2>3. buffered' \in Nat
    BY <1>4 DEF Drain, TypeOK
  <2> QED BY <1>4, <2>1, <2>2, <2>3 DEF Drain, TypeOK
<1>5. CASE Close
  BY <1>5 DEF Close, TypeOK
<1>6. CASE UNCHANGED vars
  BY <1>6 DEF vars, TypeOK
<1> QED BY <1>1, <1>2, <1>3, <1>4, <1>5, <1>6 DEF Next

LEMMA TypeAlways == Spec => []TypeOK
<1>1. Init => TypeOK
  BY ChunksAssumption DEF Init, TypeOK
<1> QED BY <1>1, TypeNext, PTL DEF Spec

\* No loop waits for an event that has passed: a blocked loop has the fall of the
\* buffer to LOW_WATER, which wakes it, before it.
THEOREM NothingIsMissed == Spec => []NoLostDrain
<1>1. Init => NoLostDrain
  BY DEF Init, NoLostDrain, Blocked
<1>2. TypeOK /\ NoLostDrain /\ [Next]_vars => NoLostDrain'
  <2> SUFFICES ASSUME TypeOK, NoLostDrain, [Next]_vars, NEW k \in Loops,
                      pc'[k] = "blocked"
               PROVE  buffered' > Low
    BY DEF NoLostDrain, Blocked
  <2>1. ASSUME NEW l \in Loops, SendChunk(l) PROVE buffered' > Low
    <3>1. CASE Push(l)
      <4>1. pc[k] = "blocked"
        BY <3>1 DEF Push, TypeOK
      <4> QED BY <3>1, <4>1, ChunksAssumption, WaterAssumption
              DEF Push, NoLostDrain, Blocked, TypeOK
    <3>2. CASE ~MayPush /\ UNCHANGED buffered
      BY <3>2, WaterAssumption DEF MayPush, TypeOK
    <3> QED BY <2>1, <3>1, <3>2 DEF SendChunk
  <2>2. ASSUME NEW l \in Loops, GoOn(l) PROVE buffered' > Low
    <3>1. pc[k] = "blocked"
      BY <2>2 DEF GoOn, Push, TypeOK
    <3> QED BY <2>2, <3>1, ChunksAssumption, WaterAssumption
            DEF GoOn, Push, NoLostDrain, Blocked, TypeOK
  <2>3. CASE Drain
    <3>1. pc[k] = "blocked" /\ k \notin WokenAt(buffered')
      BY <2>3 DEF Drain, TypeOK
    <3>2. buffered > Low /\ buffered' \in Nat
      BY <2>3, <3>1 DEF Drain, NoLostDrain, Blocked, TypeOK
    <3> QED BY <3>1, <3>2, WaterAssumption DEF WokenAt, Blocked
  <2>4. ASSUME NEW l \in Loops, OnRequest(l) PROVE buffered' > Low
    BY <2>4 DEF OnRequest, NoLostDrain, Blocked, TypeOK
  <2>5. CASE Close \/ UNCHANGED vars
    BY <2>5 DEF Close, vars, NoLostDrain, Blocked
  <2> QED BY <2>1, <2>2, <2>3, <2>4, <2>5 DEF Next
<1> QED BY <1>1, <1>2, TypeAlways, PTL DEF Spec

\* How much the chunks of fewer loops are.
LEMMA Products ==
    ASSUME NEW m \in Nat, NEW n \in Nat
    PROVE  /\ ChunkSize * m \in Nat
           /\ m <= n => ChunkSize * m <= ChunkSize * n
           /\ m > 0 => ChunkSize * m = ChunkSize * (m - 1) + ChunkSize
           /\ ChunkSize * 0 = 0
BY ChunksAssumption

LEMMA BoundNext == TypeOK /\ BoundInv /\ [Next]_vars => BoundInv'
<1> SUFFICES ASSUME TypeOK, BoundInv, [Next]_vars PROVE BoundInv'
  OBVIOUS
<1> USE LimitType, ChunksAssumption
<1>0. Cardinality(Woken) \in Nat /\ Pending \in Nat /\ buffered \in Nat
  BY LoopCounts, Products DEF Pending, TypeOK
<1>1. ASSUME Woken' = {}, buffered' \in Nat, buffered' <= BufferLimit
      PROVE  BoundInv'
  <2>1. Pending' = 0
    BY <1>1, FS_EmptySet, Products DEF Pending
  <2> QED BY <1>1, <2>1 DEF BoundInv, BufferLimit
<1>2. ASSUME Woken' = Woken, buffered' = buffered PROVE BoundInv'
  BY <1>2 DEF BoundInv, Pending, BufferLimit
<1>3. ASSUME NEW l \in Loops, SendChunk(l) PROVE BoundInv'
  <2>1. Woken = {} /\ pc[l] = "reading"
    BY <1>3 DEF SendChunk
  <2>2. CASE MayPush /\ Push(l)
    <3>1. Woken' = {}
      BY <2>1, <2>2 DEF Push, Woken, TypeOK
    <3>2. buffered' \in Nat /\ buffered' <= High - 1 + ChunkSize
      BY <2>2, <1>0, WaterAssumption DEF Push, MayPush
    <3> QED BY <1>1, <3>1, <3>2, WaterAssumption
  <2>3. CASE ~MayPush /\ pc' = [pc EXCEPT ![l] = "blocked"] /\ buffered' = buffered
    <3>1. Woken' = Woken
      BY <2>1, <2>3 DEF Woken, TypeOK
    <3> QED BY <1>2, <2>3, <3>1
  <2> QED BY <1>3, <2>2, <2>3 DEF SendChunk
<1>4. ASSUME NEW l \in Loops, GoOn(l) PROVE BoundInv'
  <2>1. l \in Woken /\ Woken' = Woken \ {l}
    BY <1>4 DEF GoOn, Push, Woken, TypeOK
  <2>2. Cardinality(Woken') = Cardinality(Woken) - 1 /\ Cardinality(Woken) > 0
    <3>1. Cardinality(Woken \ {l}) = Cardinality(Woken) - 1
      BY <2>1, LoopCounts, FS_RemoveElement
    <3>2. Cardinality(Woken) # 0
      BY <2>1, LoopCounts, FS_EmptySet
    <3> QED BY <1>0, <2>1, <3>1, <3>2
  <2>3. Pending = Pending' + ChunkSize /\ Pending' \in Nat
    <3> DEFINE n == Cardinality(Woken)
    <3>1. n \in Nat /\ n - 1 \in Nat
      BY <1>0, <2>2
    <3>2. ChunkSize * n = ChunkSize * (n - 1) + ChunkSize /\ ChunkSize * (n - 1) \in Nat
      BY <2>2, <3>1, Products
    <3> QED BY <2>2, <3>2 DEF Pending
  <2>4. buffered' = buffered + ChunkSize \/ buffered' = buffered
    BY <1>4 DEF GoOn, Push
  <2> QED BY <1>0, <2>3, <2>4 DEF BoundInv, BufferLimit
<1>5. CASE Drain
  <2>1. PICK n \in 0 .. buffered - 1 :
            /\ buffered' = n
            /\ pc' = [l \in Loops |-> IF l \in WokenAt(n) THEN "woken" ELSE pc[l]]
    BY <1>5 DEF Drain
  <2>2. Woken = {} /\ n \in Nat /\ n <= buffered /\ n <= BufferLimit
    BY <1>0, <1>5, <2>1 DEF Drain, BoundInv
  <2>3. Woken' = WokenAt(n)
    BY <2>1, <2>2 DEF Woken, WokenAt, Blocked
  <2>4. CASE WokenAt(n) = {}
    BY <1>1, <2>1, <2>2, <2>3, <2>4
  <2>5. CASE WokenAt(n) # {}
    <3>1. n <= Low /\ Woken' = Blocked
      BY <2>3, <2>5 DEF WokenAt
    <3>2. Pending' <= ChunkSize * Cardinality(Loops) /\ Pending' \in Nat
      BY <3>1, LoopCounts, Products DEF Pending
    <3>3. ChunkSize * Cardinality(Loops) \in Nat
      BY LoopCounts, Products
    <3> QED BY <2>1, <2>2, <3>1, <3>2, <3>3, WaterAssumption DEF BoundInv, BufferLimit
  <2> QED BY <2>4, <2>5
<1>6. ASSUME NEW l \in Loops, OnRequest(l) PROVE BoundInv'
  <2>1. Woken' = Woken
    BY <1>6 DEF OnRequest, Woken, TypeOK
  <2> QED BY <1>2, <1>6, <2>1 DEF OnRequest
<1>7. CASE Close \/ UNCHANGED vars
  BY <1>2, <1>7 DEF Close, vars, Woken
<1> QED BY <1>3, <1>4, <1>5, <1>6, <1>7 DEF Next

\* However many loops there are, the send buffer stays within a chunk of
\* HIGH_WATER or within LOW_WATER and a chunk for each of the loops.
THEOREM BufferIsBounded == Spec => []BufferBounded
<1>1. Init => BoundInv
  <2> SUFFICES ASSUME Init PROVE BoundInv
    OBVIOUS
  <2>1. Woken = {}
    BY DEF Init, Woken
  <2>2. Pending = 0
    BY <2>1, FS_EmptySet, Products DEF Pending
  <2> QED BY <2>2, LimitType DEF Init, BoundInv
<1>2. TypeOK /\ BoundInv => BufferBounded
  <2> SUFFICES ASSUME TypeOK, BoundInv PROVE BufferBounded
    OBVIOUS
  <2>1. Pending \in Nat /\ buffered \in Nat
    BY LoopCounts, Products DEF Pending, TypeOK
  <2> QED BY <2>1, LimitType DEF BoundInv, BufferBounded
<1> QED BY <1>1, <1>2, BoundNext, TypeAlways, PTL DEF Spec
=============================================================================
