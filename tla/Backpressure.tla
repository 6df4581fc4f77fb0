----------------------------- MODULE Backpressure -----------------------------
(***************************************************************************)
(* FileSender's loops on one RTCDataChannel's send buffer: run() and one   *)
(* resendChunks per `request` frame, each of which reads a chunk, waits in *)
(* applyBackpressure and pushes the chunk (a header and a payload).        *)
(*                                                                         *)
(* JavaScript runs a loop from the answer of applyBackpressure to the push *)
(* without giving way to anything but the other loops the same event wakes:*)
(* while a woken loop has not pushed, nothing else happens.                *)
(***************************************************************************)
EXTENDS Naturals, FiniteSets

CONSTANTS
    Loops,      \* the loops a transfer may have
    Main,       \* run(), the one that is there from the start
    MostChunks, \* chunks a loop has to send
    ChunkSize,  \* bytes of a chunk on the channel, in some unit
    High,       \* HIGH_WATER
    Low         \* LOW_WATER: bufferedAmountLowThreshold

ASSUME LoopsAssumption == IsFiniteSet(Loops) /\ Main \in Loops
ASSUME ChunksAssumption == MostChunks \in Nat /\ ChunkSize \in Nat \ {0}
ASSUME WaterAssumption == High \in Nat /\ Low \in Nat /\ Low < High

VARIABLES
    pc,         \* of a loop: "none", "reading", "blocked", "woken", "ended"
    todo,       \* chunks it has yet to send
    buffered,   \* channel.bufferedAmount
    open        \* channel.readyState = "open"

vars == <<pc, todo, buffered, open>>

Blocked == {l \in Loops : pc[l] = "blocked"}
Woken == {l \in Loops : pc[l] = "woken"}

Init ==
    /\ pc = [l \in Loops |-> IF l = Main THEN "reading" ELSE "none"]
    /\ todo \in [Loops -> 1 .. MostChunks]
    /\ buffered = 0
    /\ open = TRUE

\* A `request` starts a loop.
OnRequest(l) ==
    /\ Woken = {} /\ open
    /\ pc[l] = "none"
    /\ pc' = [pc EXCEPT ![l] = "reading"]
    /\ UNCHANGED <<todo, buffered, open>>

\* (Definitions marked "a slip" are mistakes the runs must catch; nothing else
\* refers to them.)
MoreToSend(l) == todo[l] > 1

\* The end of sendChunk: on a closed channel it throws, which ends the loop.
Push(l) ==
    /\ todo' = [todo EXCEPT ![l] = @ - 1]
    /\ pc' = [pc EXCEPT ![l] = IF open /\ MoreToSend(l) THEN "reading" ELSE "ended"]
    /\ buffered' = IF open THEN buffered + ChunkSize ELSE buffered
    /\ UNCHANGED open

\* applyBackpressure lets a loop through.
NoLimit == TRUE                                                     \* a slip
BelowLow == buffered < Low                                          \* a slip
MayPush == buffered < High

\* A loop has read its chunk.
SendChunk(l) ==
    /\ Woken = {}
    /\ pc[l] = "reading"
    /\ \/ MayPush /\ Push(l)
       \/ /\ ~MayPush
          /\ pc' = [pc EXCEPT ![l] = "blocked"]
          /\ UNCHANGED <<todo, buffered, open>>

\* A loop goes on after `bufferedamountlow`; it does not look at the buffer again.
GoOn(l) == pc[l] = "woken" /\ Push(l)

\* Every blocked loop listens for `bufferedamountlow`, which is fired when the
\* buffer falls to Low.
WokenBelow(n) == IF buffered > Low /\ n < Low THEN Blocked ELSE {}   \* a slip
WokenAt(n) == IF buffered > Low /\ n <= Low THEN Blocked ELSE {}

\* The network takes bytes, and n are left.
Drain ==
    /\ Woken = {} /\ open
    /\ \E n \in 0 .. buffered - 1 :
           /\ buffered' = n
           /\ pc' = [l \in Loops |-> IF l \in WokenAt(n) THEN "woken" ELSE pc[l]]
    /\ UNCHANGED <<todo, open>>

\* A closed channel keeps its bufferedAmount and fires nothing.
Close ==
    /\ Woken = {} /\ open
    /\ open' = FALSE
    /\ UNCHANGED <<pc, todo, buffered>>

Next ==
    \/ \E l \in Loops : OnRequest(l) \/ SendChunk(l) \/ GoOn(l)
    \/ Drain \/ Close

Spec == Init /\ [][Next]_vars

\* Reading a chunk ends, and an open channel takes bytes.
FairSpec ==
    /\ Spec
    /\ WF_vars(Drain)
    /\ \A l \in Loops : WF_vars(SendChunk(l)) /\ WF_vars(GoOn(l))

-----------------------------------------------------------------------------
TypeOK ==
    /\ pc \in [Loops -> {"none", "reading", "blocked", "woken", "ended"}]
    /\ todo \in [Loops -> 0 .. MostChunks]
    /\ \A l \in Loops : pc[l] # "ended" => todo[l] > 0
    /\ buffered \in Nat
    /\ open \in BOOLEAN

\* The buffer runs over HIGH by less than a chunk, unless so many loops were
\* blocked that what they push when they are woken is more than that.
Most(a, b) == IF a > b THEN a ELSE b
BufferLimit == Most(High - 1 + ChunkSize, Low + ChunkSize * Cardinality(Loops))
BufferBounded == buffered <= BufferLimit

\* No loop waits for an event that has passed: a blocked loop has the fall of the
\* buffer to Low before it.
NoLostDrain == Blocked # {} => buffered > Low

\* Every loop ends, unless the channel closes.  (A loop that is blocked when it
\* closes waits for ever.)
LoopsEnd == \A l \in Loops : pc[l] = "reading" ~> pc[l] = "ended" \/ ~open

=============================================================================
