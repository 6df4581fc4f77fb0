--------------------------- MODULE TransferProofs ---------------------------
(***************************************************************************)
(* Theorems about modules Transfer and TransferPages, for every number of  *)
(* chunks, every request cap and every budget of faults: what arrives and  *)
(* what is stored; what a transfer reports (one verdict, no false alarm),  *)
(* which is the promise of module FileDelivery; that no chunk is forgotten *)
(* and a cancelled loop sends nothing more; and what the pages show.       *)
(***************************************************************************)
EXTENDS TransferPages, FiniteSetTheorems, WellFoundedInduction, TLAPS

USE TotalChunksAssumption, RequestCapAssumption

-----------------------------------------------------------------------------
(* What the operators of the model return.                                   *)

\* What either end sends has the type of its queue.
LEMMA FramesPushed ==
    ASSUME toReceiver \in Seq(Frames), NEW fs \in Seq(Frames)
    PROVE  Push(toReceiver, fs) \in Seq(Frames)
BY DEF Push

LEMMA ReplyPushed ==
    ASSUME toSender \in Seq(Replies),
           NEW kind \in {"ready", "request", "verified"},
           NEW S \in SUBSET Chunks, NEW ok \in BOOLEAN
    PROVE  Push(toSender, <<Reply(kind, S, ok)>>) \in Seq(Replies)
<1>1. Reply(kind, S, ok) \in Replies
    BY DEF Reply, Replies
<1> QED
    BY <1>1 DEF Push

\* What either end takes has the type of its queue, and so has the rest.
LEMMA FrameTaken ==
    ASSUME toReceiver \in Seq(Frames), NEW kind, ReceiverTakes(kind)
    PROVE  /\ Head(toReceiver) \in Frames
           /\ Head(toReceiver).index \in 0 .. TotalChunks
           /\ toReceiver' \in Seq(Frames)
<1>1. Head(toReceiver) \in Frames /\ toReceiver' \in Seq(Frames)
    BY DEF ReceiverTakes
<1> QED
    BY <1>1 DEF Frames

LEMMA ReplyTaken ==
    ASSUME toSender \in Seq(Replies), NEW kind, SenderTakes(kind)
    PROVE  /\ Head(toSender) \in Replies
           /\ Head(toSender).indices \in SUBSET Chunks
           /\ toSender' \in Seq(Replies)
<1>1. Head(toSender) \in Replies /\ toSender' \in Seq(Replies)
    BY DEF SenderTakes
<1> QED
    BY <1>1 DEF Replies

\* A severed channel leaves a queue of each kind.
LEMMA CutType ==
    ASSUME NEW T, NEW q \in Seq(T), NEW n \in 0 .. Len(q)
    PROVE  Cut(q, n) \in Seq(T)
BY DEF Cut

LEMMA SeveredType ==
    ASSUME toSender \in Seq(Replies), Severed
    PROVE  toSender' \in Seq(Replies) /\ open' = FALSE
BY CutType DEF Severed

\* Spending leaves a budget.
LEMMA SpendType ==
    ASSUME left \in [Faults -> Nat], NEW f \in Faults, Spend(f)
    PROVE  left' \in [Faults -> Nat]
BY DEF Spend

\* A chunk travels as two frames.
LEMMA ChunkFramesType ==
    ASSUME NEW i \in Chunks
    PROVE  ChunkFrames(i) \in Seq(Frames)
BY DEF ChunkFrames, Frame, Frames, Chunks

LEMMA AdvanceType ==
    ASSUME toReceiver \in Seq(Frames), NEW fs \in Seq(Frames),
           NEW i \in 0 .. TotalChunks, Advance(i, fs)
    PROVE  toReceiver' \in Seq(Frames)
<1>1. Frame("complete", 0) \in Frames
    BY DEF Frame, Frames
<1>2. fs \o <<Frame("complete", 0)>> \in Seq(Frames)
    BY <1>1
<1> QED
    BY <1>2, FramesPushed DEF Advance

LEMMA EmptyFrames == <<>> \in Seq(Frames)
OBVIOUS

LEMMA MoveLoopType ==
    ASSUME NEW bag \in [SUBSET Chunks -> Nat], NEW S \in SUBSET Chunks,
           NEW T \in SUBSET Chunks, bag[S] > 0
    PROVE  MoveLoop(bag, S, T) \in [SUBSET Chunks -> Nat]
BY DEF MoveLoop

LEMMA LoopHeadType ==
    ASSUME NEW i \in 0 .. TotalChunks
    PROVE  /\ LoopHead(i) \in {"busy", "paused", "sentAll", "stopped"}
           /\ LoopHead(i) \in {"busy", "paused"} => i < TotalChunks
BY DEF LoopHead

LEMMA FirstOfType ==
    ASSUME NEW S, NEW n
    PROVE  FirstOf(S, n) \subseteq S
BY DEF FirstOf

LEMMA TryFinalizeType ==
    ASSUME toSender \in Seq(Replies), NEW has, NEW complete,
           TryFinalize(has, complete)
    PROVE  toSender' \in Seq(Replies)
<1>1. FirstOf(Missing(has), RequestCap) \in SUBSET Chunks
    BY FirstOfType DEF Missing
<1> QED
    BY <1>1, ReplyPushed DEF TryFinalize

-----------------------------------------------------------------------------
(* Type correctness.                                                         *)

LEMMA TypeInit == Init => TypeOK
<1> SUFFICES ASSUME Init PROVE TypeOK
    OBVIOUS
<1>1. SendingOK
    BY DEF Init, SendingOK
<1>2. SwitchesOK
    BY DEF Init, SwitchesOK
<1>3. StoreOK
    BY DEF Init, StoreOK
<1>4. TasksOK
    BY DEF Init, TasksOK, NoHeader
<1>5. FinalOK
    BY DEF Init, FinalOK
<1>6. ChannelOK
    BY BudgetAssumption DEF Init, ChannelOK, Frame, Frames
<1> QED
    BY <1>1, <1>2, <1>3, <1>4, <1>5, <1>6 DEF TypeOK

LEMMA TypeNext == TypeOK /\ [Next]_vars => TypeOK'
<1> SUFFICES ASSUME TypeOK, [Next]_vars PROVE TypeOK'
    OBVIOUS
<1> USE DEF TypeOK
<1>1. CASE ProcessChunk
    <2>1. SendingOK'
        BY <1>1, LoopHeadType DEF ProcessChunk, Advance, Fail, SendingOK
    <2>2. SwitchesOK'
        BY <1>1 DEF ProcessChunk, Advance, Fail, SwitchesOK, switches
    <2>3. ChannelOK'
        <3>1. next \in Chunks /\ next + 1 \in 0 .. TotalChunks
            BY <1>1 DEF ProcessChunk, SendingOK, Chunks
        <3>2. toReceiver' \in Seq(Frames)
            <4>1. CASE Advance(next + 1, <<>>)
                BY <3>1, <4>1, AdvanceType, EmptyFrames DEF ChannelOK
            <4>2. CASE Advance(next + 1, ChunkFrames(next))
                BY <3>1, <4>2, AdvanceType, ChunkFramesType DEF ChannelOK
            <4>3. CASE UNCHANGED toReceiver
                BY <4>3 DEF ChannelOK
            <4> QED
                BY <1>1, <4>1, <4>2, <4>3 DEF ProcessChunk
        <3> QED
            BY <1>1, <3>2 DEF ProcessChunk, ChannelOK
    <2>4. StoreOK' /\ TasksOK' /\ FinalOK'
        BY <1>1 DEF ProcessChunk, StoreOK, TasksOK, FinalOK, store, tasks,
           final, receiverVars
    <2> QED
        BY <2>1, <2>2, <2>3, <2>4
<1>2. CASE ResendChunk
    <2>1. SendingOK'
        <3>1. PICK S \in SUBSET Chunks : \E i \in S :
                  /\ resends[S] > 0
                  /\ resends' = MoveLoop(resends, S,
                                   IF open /\ ~cancelled THEN S \ {i} ELSE {})
            BY <1>2 DEF ResendChunk
        <3>2. PICK T \in SUBSET Chunks :
                  resends[S] > 0 /\ resends' = MoveLoop(resends, S, T)
            BY <3>1
        <3>3. resends' \in [SUBSET Chunks -> Nat]
            BY <3>2, MoveLoopType DEF SendingOK
        <3> QED
            BY <1>2, <3>3 DEF ResendChunk, SendingOK
    <2>2. ChannelOK'
        BY <1>2, ChunkFramesType, FramesPushed DEF ResendChunk, ChannelOK
    <2>3. SwitchesOK' /\ StoreOK' /\ TasksOK' /\ FinalOK'
        BY <1>2 DEF ResendChunk, SwitchesOK, StoreOK, TasksOK, FinalOK,
           switches, store, tasks, final, senderVars, receiverVars
    <2> QED
        BY <2>1, <2>2, <2>3
<1>3. CASE OnReady
    <2>1. SendingOK'
        BY <1>3, LoopHeadType, ReplyTaken DEF OnReady, Advance, SendingOK,
           ChannelOK
    <2>2. ChannelOK'
        <3>1. toReceiver' \in Seq(Frames)
            <4>1. CASE Advance(0, <<>>)
                <5>1. 0 \in 0 .. TotalChunks
                    OBVIOUS
                <5> QED
                    BY <4>1, <5>1, AdvanceType, EmptyFrames DEF ChannelOK
            <4>2. CASE UNCHANGED toReceiver
                BY <4>2 DEF ChannelOK
            <4> QED
                BY <1>3, <4>1, <4>2 DEF OnReady
        <3> QED
            BY <1>3, <3>1, ReplyTaken DEF OnReady, ChannelOK
    <2>3. SwitchesOK' /\ StoreOK' /\ TasksOK' /\ FinalOK'
        BY <1>3 DEF OnReady, SwitchesOK, StoreOK, TasksOK, FinalOK, switches,
           store, tasks, final, senderVars, receiverVars
    <2> QED
        BY <2>1, <2>2, <2>3
<1>4. CASE OnRequest
    <2>1. SendingOK'
        BY <1>4, ReplyTaken DEF OnRequest, SendingOK, ChannelOK
    <2>2. ChannelOK'
        BY <1>4, ReplyTaken DEF OnRequest, ChannelOK
    <2>3. SwitchesOK' /\ StoreOK' /\ TasksOK' /\ FinalOK'
        BY <1>4 DEF OnRequest, SwitchesOK, StoreOK, TasksOK, FinalOK, switches,
           store, tasks, final, senderVars, receiverVars
    <2> QED
        BY <2>1, <2>2, <2>3
<1>5. CASE OnVerified
    <2>1. SwitchesOK'
        BY <1>5 DEF OnVerified, SenderTakes, Cleanup, SwitchesOK
    <2>2. ChannelOK'
        BY <1>5, ReplyTaken DEF OnVerified, ChannelOK
    <2>3. SendingOK' /\ StoreOK' /\ TasksOK' /\ FinalOK'
        BY <1>5 DEF OnVerified, SendingOK, StoreOK, TasksOK, FinalOK, sending,
           store, tasks, final, senderVars, receiverVars
    <2> QED
        BY <2>1, <2>2, <2>3
<1>6. CASE ReadFails \/ ReadyTimeout
    <2>1. SendingOK'
        BY <1>6 DEF ReadFails, ReadyTimeout, Fail, SendingOK
    <2>2. SwitchesOK'
        BY <1>6 DEF ReadFails, ReadyTimeout, Fail, SwitchesOK, switches
    <2>3. ChannelOK'
        BY <1>6, SpendType DEF ReadFails, ReadyTimeout, ChannelOK, channel, Faults
    <2>4. StoreOK' /\ TasksOK' /\ FinalOK'
        BY <1>6 DEF ReadFails, ReadyTimeout, StoreOK, TasksOK, FinalOK, store,
           tasks, final, receiverVars
    <2> QED
        BY <2>1, <2>2, <2>3, <2>4
<1>7. CASE ResendFails
    <2>1. SendingOK'
        <3>1. PICK S \in SUBSET Chunks :
                 /\ resends[S] > 0
                 /\ resends' = MoveLoop(resends, S, {})
            BY <1>7 DEF ResendFails
        <3>2. resends' \in [SUBSET Chunks -> Nat]
            BY <3>1, MoveLoopType DEF SendingOK
        <3> QED
            BY <1>7, <3>2 DEF ResendFails, SendingOK
    <2>2. SwitchesOK' /\ StoreOK' /\ TasksOK' /\ FinalOK'
        BY <1>7 DEF ResendFails, SwitchesOK, switches, StoreOK, TasksOK, FinalOK,
           store, tasks, final, receiverVars
    <2>3. ChannelOK'
        <3>1. left' \in [Faults -> Nat]
            BY <1>7, SpendType DEF ResendFails, ChannelOK, Faults
        <3> QED
            BY <1>7, <3>1 DEF ResendFails, ChannelOK, channel
    <2> QED
        BY <2>1, <2>2, <2>3
<1>8. CASE Pause
    <2>1. SwitchesOK'
        BY <1>8 DEF Pause, SwitchesOK
    <2>2. ChannelOK'
        BY <1>8, SpendType DEF Pause, ChannelOK, channel, Faults
    <2>3. SendingOK' /\ StoreOK' /\ TasksOK' /\ FinalOK'
        BY <1>8 DEF Pause, SendingOK, StoreOK, TasksOK, FinalOK, sending,
           store, tasks, final, senderVars, receiverVars
    <2> QED
        BY <2>1, <2>2, <2>3
<1>9. CASE Resume
    <2>1. SendingOK'
        BY <1>9 DEF Resume, SendingOK
    <2>2. SwitchesOK'
        BY <1>9 DEF Resume, SwitchesOK
    <2>3. StoreOK' /\ TasksOK' /\ FinalOK' /\ ChannelOK'
        BY <1>9 DEF Resume, StoreOK, TasksOK, FinalOK, ChannelOK, store, tasks,
           final, channel, receiverVars
    <2> QED
        BY <2>1, <2>2, <2>3
<1>10. CASE Cancel
    <2>1. SwitchesOK'
        BY <1>10 DEF Cancel, Cleanup, SwitchesOK
    <2>2. ChannelOK'
        <3>1. <<Frame("cancel", 0)>> \in Seq(Frames)
            BY DEF Frame, Frames
        <3> QED
            BY <1>10, <3>1, SpendType, FramesPushed DEF Cancel, ChannelOK, Faults
    <2>3. SendingOK' /\ StoreOK' /\ TasksOK' /\ FinalOK'
        BY <1>10 DEF Cancel, SendingOK, StoreOK, TasksOK, FinalOK, sending,
           store, tasks, final, senderVars, receiverVars
    <2> QED
        BY <2>1, <2>2, <2>3
<1>11. CASE Dispose
    <2>1. SendingOK'
        BY <1>11, LoopHeadType DEF Dispose, SendingOK
    <2>2. SwitchesOK'
        BY <1>11 DEF Dispose, Cleanup, SwitchesOK
    <2>3. ChannelOK'
        BY <1>11, SpendType, CutType, SeveredType DEF Dispose, ChannelOK,
           Faults
    <2>4. StoreOK' /\ TasksOK' /\ FinalOK'
        BY <1>11 DEF Dispose, StoreOK, TasksOK, FinalOK, store, tasks, final,
           receiverVars
    <2> QED
        BY <2>1, <2>2, <2>3, <2>4
<1>12. CASE Close
    <2>1. ChannelOK'
        BY <1>12, SpendType, CutType, SeveredType DEF Close, ChannelOK, Faults
    <2>2. SendingOK' /\ SwitchesOK' /\ StoreOK' /\ TasksOK' /\ FinalOK'
        BY <1>12 DEF Close, SendingOK, SwitchesOK, StoreOK, TasksOK, FinalOK,
           sending, switches, store, tasks, final, senderVars, receiverVars
    <2> QED
        BY <2>1, <2>2
<1>13. CASE OnManifest
    <2>1. StoreOK'
        BY <1>13 DEF OnManifest, StoreOK, store
    <2>2. FinalOK'
        BY <1>13 DEF OnManifest, FinalOK, final
    <2>3. ChannelOK'
        BY <1>13, FrameTaken DEF OnManifest, ChannelOK
    <2>4. SendingOK' /\ SwitchesOK' /\ TasksOK'
        BY <1>13 DEF OnManifest, SendingOK, SwitchesOK, TasksOK, sending,
           switches, tasks, senderVars, receiverVars
    <2> QED
        BY <2>1, <2>2, <2>3, <2>4
<1>14. CASE OpenStore
    <2>1. StoreOK'
        BY <1>14 DEF OpenStore, StoreOK, store
    <2>2. ChannelOK'
        BY <1>14, ReplyPushed DEF OpenStore, Held, StoreOK, ChannelOK
    <2>3. SendingOK' /\ SwitchesOK' /\ TasksOK' /\ FinalOK'
        BY <1>14 DEF OpenStore, SendingOK, SwitchesOK, TasksOK, FinalOK,
           sending, switches, tasks, final, senderVars, receiverVars
    <2> QED
        BY <2>1, <2>2, <2>3
<1>15. CASE OpenFails
    <2>1. StoreOK'
        BY <1>15 DEF OpenFails, StoreOK, store
    <2>2. ChannelOK'
        BY <1>15, SpendType DEF OpenFails, ChannelOK, channel, Faults
    <2>3. SendingOK' /\ SwitchesOK' /\ TasksOK' /\ FinalOK'
        BY <1>15 DEF OpenFails, SendingOK, SwitchesOK, TasksOK, FinalOK,
           sending, switches, tasks, final, senderVars, receiverVars
    <2> QED
        BY <2>1, <2>2, <2>3
<1>16. CASE OnHeader
    <2>1. TasksOK'
        BY <1>16, FrameTaken DEF OnHeader, TasksOK, ChannelOK
    <2>2. ChannelOK'
        BY <1>16, FrameTaken DEF OnHeader, ChannelOK
    <2>3. SendingOK' /\ SwitchesOK' /\ StoreOK' /\ FinalOK'
        BY <1>16 DEF OnHeader, SendingOK, SwitchesOK, StoreOK, FinalOK,
           sending, switches, store, final, senderVars, receiverVars
    <2> QED
        BY <2>1, <2>2, <2>3
<1>17. CASE OnData
    <2>1. TasksOK'
        <3>1. pendingHeader' \in 0 .. TotalChunks
            BY <1>17 DEF OnData, NoHeader
        <3>2. writing' \in [Chunks -> Nat]
            BY <1>17 DEF OnData, TasksOK
        <3>3. rejecting' \in [Chunks -> Nat]
            BY <1>17 DEF OnData, TasksOK
        <3> QED
            BY <3>1, <3>2, <3>3 DEF TasksOK
    <2>2. ChannelOK'
        BY <1>17, SpendType, FrameTaken DEF OnData, ChannelOK, Faults
    <2>3. SendingOK' /\ SwitchesOK' /\ StoreOK' /\ FinalOK'
        BY <1>17 DEF OnData, SendingOK, SwitchesOK, StoreOK, FinalOK, sending,
           switches, store, final, senderVars, receiverVars
    <2> QED
        BY <2>1, <2>2, <2>3
<1>18. ASSUME NEW i \in Chunks, RejectChunk(i) PROVE TypeOK'
    <2>1. TasksOK'
        BY <1>18 DEF RejectChunk, TasksOK
    <2>2. ChannelOK'
        BY <1>18, ReplyPushed DEF RejectChunk, ChannelOK
    <2>3. SendingOK' /\ SwitchesOK' /\ StoreOK' /\ FinalOK'
        BY <1>18 DEF RejectChunk, SendingOK, SwitchesOK, StoreOK, FinalOK,
           sending, switches, store, final, senderVars, receiverVars
    <2> QED
        BY <2>1, <2>2, <2>3
<1>19. ASSUME NEW i \in Chunks, StoreChunk(i) PROVE TypeOK'
    <2>1. StoreOK'
        BY <1>19 DEF StoreChunk, StoreOK
    <2>2. TasksOK'
        BY <1>19 DEF StoreChunk, TasksOK
    <2>3. FinalOK'
        BY <1>19 DEF StoreChunk, TryFinalize, FinalOK
    <2>4. ChannelOK'
        BY <1>19, TryFinalizeType DEF StoreChunk, ChannelOK
    <2>5. SendingOK' /\ SwitchesOK'
        BY <1>19 DEF StoreChunk, SendingOK, SwitchesOK, sending, switches,
           senderVars
    <2> QED
        BY <2>1, <2>2, <2>3, <2>4, <2>5
<1>20. ASSUME NEW i \in Chunks, PutFails(i) PROVE TypeOK'
    <2>1. TasksOK'
        BY <1>20 DEF PutFails, TasksOK
    <2>2. ChannelOK'
        BY <1>20, SpendType DEF PutFails, ChannelOK, channel, Faults
    <2>3. SendingOK' /\ SwitchesOK' /\ StoreOK' /\ FinalOK'
        BY <1>20 DEF PutFails, SendingOK, SwitchesOK, StoreOK, FinalOK,
           sending, switches, store, final, senderVars, receiverVars
    <2> QED
        BY <2>1, <2>2, <2>3
<1>21. CASE OnComplete
    <2>1. FinalOK'
        BY <1>21 DEF OnComplete, TryFinalize, FinalOK
    <2>2. ChannelOK'
        BY <1>21, TryFinalizeType, FrameTaken DEF OnComplete, ChannelOK
    <2>3. SendingOK' /\ SwitchesOK' /\ StoreOK' /\ TasksOK'
        BY <1>21 DEF OnComplete, SendingOK, SwitchesOK, StoreOK, TasksOK,
           sending, switches, store, tasks, senderVars, receiverVars
    <2> QED
        BY <2>1, <2>2, <2>3
<1>22. CASE OnCancel
    <2>1. FinalOK'
        BY <1>22 DEF OnCancel, FinalOK, final
    <2>2. ChannelOK'
        BY <1>22, FrameTaken DEF OnCancel, ChannelOK
    <2>3. SendingOK' /\ SwitchesOK' /\ StoreOK' /\ TasksOK'
        BY <1>22 DEF OnCancel, SendingOK, SwitchesOK, StoreOK, TasksOK,
           sending, switches, store, tasks, senderVars, receiverVars
    <2> QED
        BY <2>1, <2>2, <2>3
<1>23. CASE Assemble
    <2>1. FinalOK'
        BY <1>23 DEF Assemble, StoreOK, FinalOK, final
    <2>2. SendingOK' /\ SwitchesOK' /\ StoreOK' /\ TasksOK' /\ ChannelOK'
        BY <1>23 DEF Assemble, SendingOK, SwitchesOK, StoreOK, TasksOK,
           ChannelOK, sending, switches, store, tasks, channel, senderVars,
           receiverVars
    <2> QED
        BY <2>1, <2>2
<1>24. CASE AssembleFails
    <2>1. FinalOK'
        BY <1>24 DEF AssembleFails, FinalOK, final
    <2>2. ChannelOK'
        BY <1>24, SpendType DEF AssembleFails, ChannelOK, channel, Faults
    <2>3. SendingOK' /\ SwitchesOK' /\ StoreOK' /\ TasksOK'
        BY <1>24 DEF AssembleFails, SendingOK, SwitchesOK, StoreOK, TasksOK,
           sending, switches, store, tasks, senderVars, receiverVars
    <2> QED
        BY <2>1, <2>2, <2>3
<1>25. CASE Verify
    <2>1. FinalOK'
        BY <1>25 DEF Verify, FinalOK, final
    <2>2. ChannelOK'
        BY <1>25, ReplyPushed DEF Verify, ChannelOK, WholeFileMatches
    <2>3. SendingOK' /\ SwitchesOK' /\ StoreOK' /\ TasksOK'
        BY <1>25 DEF Verify, SendingOK, SwitchesOK, StoreOK, TasksOK, sending,
           switches, store, tasks, senderVars, receiverVars
    <2> QED
        BY <2>1, <2>2, <2>3
<1>26. CASE Deliver
    <2>1. FinalOK'
        BY <1>26 DEF Deliver, FinalOK, final
    <2>2. SendingOK' /\ SwitchesOK' /\ StoreOK' /\ TasksOK' /\ ChannelOK'
        BY <1>26 DEF Deliver, SendingOK, SwitchesOK, StoreOK, TasksOK,
           ChannelOK, sending, switches, store, tasks, channel, senderVars,
           receiverVars
    <2> QED
        BY <2>1, <2>2
<1>27. ASSUME NEW i \in Chunks, Rot(i) PROVE TypeOK'
    <2>1. StoreOK'
        BY <1>27 DEF Rot, StoreOK
    <2>2. ChannelOK'
        BY <1>27, SpendType DEF Rot, ChannelOK, channel, Faults
    <2>3. SendingOK' /\ SwitchesOK' /\ TasksOK' /\ FinalOK'
        BY <1>27 DEF Rot, SendingOK, SwitchesOK, TasksOK, FinalOK, sending,
           switches, tasks, final, senderVars, receiverVars
    <2> QED
        BY <2>1, <2>2, <2>3
<1>28. CASE UNCHANGED vars
    BY <1>28 DEF  SendingOK, SwitchesOK, StoreOK, TasksOK, FinalOK, ChannelOK,
       vars, senderVars, sending, switches, receiverVars, store, tasks, final,
       channel
<1> QED
    BY <1>1, <1>2, <1>3, <1>4, <1>5, <1>6, <1>7, <1>8, <1>9, <1>10, <1>11,
       <1>12, <1>13, <1>14, <1>15, <1>16, <1>17, <1>18, <1>19, <1>20, <1>21, <1>22,
       <1>23, <1>24, <1>25, <1>26, <1>27, <1>28 DEF Next, SenderStep,
       SenderFault, UserStep, ReceiverStep, ReceiverFault

\* Every variable of Transfer keeps its type, and the streaming loop only ever
\* reads a chunk of the file.
THEOREM TypeCorrect == Spec => []TypeOK
BY TypeInit, TypeNext, PTL DEF Spec

-----------------------------------------------------------------------------
(* What is in a queue after a step.                                          *)

LEMMA Pushed ==
    ASSUME NEW T, NEW q \in Seq(T), NEW m \in T
    PROVE  ToSet(Push(q, <<m>>)) \subseteq ToSet(q) \union {m}
BY DEF Push, ToSet

LEMMA Taken ==
    ASSUME NEW T, NEW q \in Seq(T), q # <<>>
    PROVE  Head(q) \in ToSet(q) /\ ToSet(Tail(q)) \subseteq ToSet(q)
BY DEF ToSet

LEMMA CutShort ==
    ASSUME NEW T, NEW q \in Seq(T), NEW n \in 0 .. Len(q)
    PROVE  ToSet(Cut(q, n)) \subseteq ToSet(q)
BY DEF Cut, ToSet

\* A reply that is in the queue after a step was there, or the receiver has just
\* sent it: a `ready` naming what is stored, a request, or the verdict of a hash.
Sent(m) ==
    \/ m.kind = "ready" /\ m.indices = stored
    \/ m.kind = "request"
    \/ /\ m.kind = "verified" /\ m.ok = WholeFileMatches
       /\ fin = "hashing"
       /\ fin' = IF WholeFileMatches THEN "closing" ELSE "idle"

LEMMA NewReplies ==
    ASSUME TypeOK, [Next]_vars, NEW m \in ToSet(toSender')
    PROVE  m \in ToSet(toSender) \/ Sent(m)
<1>1. toSender \in Seq(Replies)
    BY DEF TypeOK, ChannelOK
<1>2. CASE UNCHANGED toSender
    BY <1>2
<1>3. CASE OnReady \/ OnRequest \/ OnVerified
    <2>1. toSender # <<>> /\ toSender' = Tail(toSender)
        BY <1>3 DEF OnReady, OnRequest, OnVerified, SenderTakes
    <2> QED
        BY <1>1, <2>1, Taken
<1>4. CASE Dispose \/ Close
    <2>1. PICK n \in 0 .. Len(toSender) : toSender' = Cut(toSender, n)
        BY <1>4 DEF Dispose, Close, Severed
    <2> QED
        BY <1>1, <2>1, CutShort
<1>5. ASSUME NEW kind \in {"ready", "request", "verified"},
             NEW S \in SUBSET Chunks, NEW ok \in BOOLEAN,
             toSender' = Push(toSender, <<Reply(kind, S, ok)>>)
      PROVE  m \in ToSet(toSender) \/ m = Reply(kind, S, ok)
    <2>1. Reply(kind, S, ok) \in Replies
        BY DEF Reply, Replies
    <2> QED
        BY <1>1, <1>5, <2>1, Pushed
<1>6. CASE OpenStore
    <2>1. toSender' = Push(toSender, <<Reply("ready", stored, FALSE)>>)
        BY <1>6 DEF OpenStore, Held
    <2>2. stored \in SUBSET Chunks
        BY DEF TypeOK, StoreOK
    <2>3. m \in ToSet(toSender) \/ m = Reply("ready", stored, FALSE)
        BY <1>5, <2>1, <2>2
    <2> QED
        BY <2>3 DEF Reply, Sent
<1>7. ASSUME NEW i \in Chunks, RejectChunk(i)
      PROVE  m \in ToSet(toSender) \/ Sent(m)
    <2>1. toSender' = Push(toSender, <<Reply("request", {i}, FALSE)>>)
        BY <1>7 DEF RejectChunk
    <2>2. m \in ToSet(toSender) \/ m = Reply("request", {i}, FALSE)
        BY <1>5, <2>1
    <2> QED
        BY <2>2 DEF Reply, Sent
<1>8. ASSUME NEW has, NEW complete, TryFinalize(has, complete)
      PROVE  m \in ToSet(toSender) \/ Sent(m)
    <2>1. FirstOf(Missing(has), RequestCap) \in SUBSET Chunks
        BY FirstOfType DEF Missing
    <2>2. CASE toSender' = Push(toSender,
              <<Reply("request", FirstOf(Missing(has), RequestCap), FALSE)>>)
        <3>1. \/ m \in ToSet(toSender)
              \/ m = Reply("request", FirstOf(Missing(has), RequestCap), FALSE)
            BY <1>5, <2>1, <2>2
        <3> QED
            BY <3>1 DEF Reply, Sent
    <2> QED
        BY <1>2, <1>8, <2>2 DEF TryFinalize
<1>9. CASE Verify
    <2>1. toSender' = Push(toSender, <<Reply("verified", {}, WholeFileMatches)>>)
        BY <1>9 DEF Verify
    <2>2. WholeFileMatches \in BOOLEAN
        BY DEF WholeFileMatches
    <2>3. m \in ToSet(toSender) \/ m = Reply("verified", {}, WholeFileMatches)
        BY <1>5, <2>1, <2>2
    <2> QED
        BY <1>9, <2>3 DEF Reply, Sent, Verify
<1>10. CASE \/ ProcessChunk \/ ResendChunk \/ SenderFault \/ Pause \/ Resume
            \/ Cancel \/ OnManifest \/ OnHeader \/ OnData \/ OnCancel
            \/ Assemble \/ Deliver \/ OpenFails \/ AssembleFails
    BY <1>2, <1>10
       DEF ProcessChunk, ResendChunk, SenderFault, ReadFails, ResendFails, ReadyTimeout,
           Pause, Resume, Cancel, OnManifest, OnHeader, OnData, OnCancel,
           Assemble, Deliver, OpenFails, AssembleFails, channel
<1>11. ASSUME NEW i \in Chunks, PutFails(i) \/ Rot(i) PROVE UNCHANGED toSender
    BY <1>11 DEF PutFails, Rot, channel
<1>12. ASSUME NEW i \in Chunks, StoreChunk(i)
       PROVE  m \in ToSet(toSender) \/ Sent(m)
    BY <1>8, <1>12 DEF StoreChunk
<1>13. CASE OnComplete
    BY <1>8, <1>13 DEF OnComplete
<1>14. CASE UNCHANGED vars
    BY <1>2, <1>14 DEF vars, channel
<1> QED
    BY <1>2, <1>3, <1>4, <1>6, <1>7, <1>9, <1>10, <1>11, <1>12, <1>13, <1>14
       DEF Next, SenderStep, UserStep, ReceiverStep, ReceiverFault

\* The store only grows, and an accepted file stays the one that was accepted.
Accepted == fin \in {"closing", "done"}

StoreStep ==
    /\ stored \subseteq stored'
    /\ Accepted => Accepted' /\ blob' = blob
    /\ fin = "done" => fin' = "done"
    /\ Accepted' => Accepted \/ (WholeFileMatches /\ blob' = blob)
    /\ "done" \in rEvents' => "done" \in rEvents \/ fin' = "done"

LEMMA EveryStoreStep == ASSUME [Next]_vars PROVE StoreStep
<1> USE DEF StoreStep, Accepted
<1>1. CASE UNCHANGED receiverVars
    BY <1>1 DEF receiverVars, store, final
<1>2. CASE SenderStep \/ SenderFault \/ UserStep \/ UNCHANGED vars
    BY <1>1, <1>2
       DEF SenderStep, SenderFault, UserStep, ProcessChunk, ResendChunk, OnReady,
           OnRequest, OnVerified, ReadFails, ResendFails, ReadyTimeout, Pause, Resume, Cancel,
           Dispose, Close, vars
<1>3. CASE \/ OnManifest \/ OpenStore \/ OpenFails \/ OnHeader \/ OnData
           \/ OnCancel
    BY <1>3
       DEF OnManifest, OpenStore, OpenFails, OnHeader, OnData, OnCancel, store,
           final
<1>4. CASE Assemble \/ AssembleFails \/ Verify \/ Deliver
    BY <1>4 DEF Assemble, AssembleFails, Verify, Deliver, store
<1>5. CASE OnComplete
    BY <1>5 DEF OnComplete, TryFinalize, MayFinalize, store
<1>6. ASSUME NEW i \in Chunks, StoreChunk(i) PROVE StoreStep
    BY <1>6 DEF StoreChunk, TryFinalize, MayFinalize
<1>7. ASSUME NEW i \in Chunks, RejectChunk(i) \/ PutFails(i) \/ Rot(i)
      PROVE  StoreStep
    BY <1>7 DEF RejectChunk, PutFails, Rot, store, final
<1> QED
    BY <1>2, <1>3, <1>4, <1>5, <1>6, <1>7 DEF Next, ReceiverStep, ReceiverFault

\* The sender says `done`, or learns what to skip, only from a reply it takes.
LEMMA SenderLearns ==
    ASSUME TypeOK, [Next]_vars
    PROVE  /\ "done" \in sEvents' =>
                  \/ "done" \in sEvents
                  \/ \E m \in ToSet(toSender) : m.kind = "verified" /\ m.ok
           /\ resumeFrom' \subseteq resumeFrom \union
                  UNION {m.indices : m \in {x \in ToSet(toSender) : x.kind = "ready"}}
<1>1. toSender \in Seq(Replies)
    BY DEF TypeOK, ChannelOK
<1>2. CASE OnVerified
    <2>1. Head(toSender) \in ToSet(toSender)
        BY <1>1, <1>2, Taken DEF OnVerified, SenderTakes
    <2> QED
        BY <1>2, <2>1 DEF OnVerified, SenderTakes, sending
<1>3. CASE OnReady
    <2>1. Head(toSender) \in ToSet(toSender)
        BY <1>1, <1>3, Taken DEF OnReady, SenderTakes
    <2> QED
        BY <1>3, <2>1 DEF OnReady, SenderTakes
<1>4. CASE \/ ProcessChunk \/ ResendChunk \/ OnRequest \/ SenderFault \/ UserStep
           \/ UNCHANGED senderVars
    BY <1>4
       DEF ProcessChunk, ResendChunk, OnRequest, SenderFault, ReadFails, ResendFails,
           ReadyTimeout, UserStep, Pause, Resume, Cancel, Dispose, Close, Fail,
           Advance, senderVars, sending
<1>5. CASE ReceiverStep \/ ReceiverFault \/ UNCHANGED vars
    BY <1>4, <1>5
       DEF ReceiverStep, ReceiverFault, OnManifest, OpenStore, OnHeader, OnData,
           OnComplete, OnCancel, Assemble, Verify, Deliver, StoreChunk,
           RejectChunk, OpenFails, AssembleFails, PutFails, Rot, vars
<1> QED
    BY <1>2, <1>3, <1>4, <1>5 DEF Next, SenderStep

-----------------------------------------------------------------------------
(* What the two ends report.                                                 *)

\* The verdict that is under way, or has arrived, is about the accepted file.
TruthInv ==
    /\ Accepted => blob = Chunks
    /\ \A m \in ToSet(toSender) : m.kind = "verified" /\ m.ok => Accepted
    /\ "done" \in sEvents => Accepted
    /\ "done" \in rEvents => fin = "done"

LEMMA TruthNext == TypeOK /\ TruthInv /\ [Next]_vars => TruthInv'
<1> SUFFICES ASSUME TypeOK, TruthInv, [Next]_vars PROVE TruthInv'
    OBVIOUS
<1>1. StoreStep
    BY EveryStoreStep
<1>2. (Accepted => blob = Chunks)'
    BY <1>1 DEF TruthInv, StoreStep, WholeFileMatches
<1>3. ASSUME NEW m \in ToSet(toSender'), m.kind = "verified", m.ok
      PROVE  Accepted'
    <2>1. CASE m \in ToSet(toSender)
        BY <1>1, <1>3, <2>1 DEF TruthInv, StoreStep
    <2>2. CASE Sent(m)
        BY <1>3, <2>2 DEF Sent, Accepted
    <2> QED
        BY <2>1, <2>2, NewReplies
<1>4. ("done" \in sEvents => Accepted)'
    BY <1>1, SenderLearns DEF TruthInv, StoreStep
<1>5. ("done" \in rEvents => fin = "done")'
    BY <1>1 DEF TruthInv, StoreStep
<1> QED
    BY <1>2, <1>3, <1>4, <1>5 DEF TruthInv

LEMMA TruthAlways == Spec => []TruthInv
<1>1. Init => TruthInv
    BY DEF Init, TruthInv, Accepted, ToSet
<1> QED
    BY <1>1, TypeInit, TypeNext, TruthNext, PTL DEF Spec

\* `done` at either end is about a file that was assembled whole and intact.
THEOREM BothEndsTellTheTruth == Spec => []ToldTheTruth
<1>1. TruthInv => ToldTheTruth
    BY DEF TruthInv, ToldTheTruth, Accepted
<1> QED
    BY <1>1, TruthAlways, PTL

\* What the sender skips is stored at the other end.
THEOREM SkippedChunksAreStored == Spec => []ResumeIsSound
<1>1. Init => ResumeIsSound
    BY DEF Init, ResumeIsSound, ToSet
<1>2. TypeOK /\ ResumeIsSound /\ [Next]_vars => ResumeIsSound'
    <2> SUFFICES ASSUME TypeOK, ResumeIsSound, [Next]_vars PROVE ResumeIsSound'
        OBVIOUS
    <2>1. stored \subseteq stored'
        BY EveryStoreStep DEF StoreStep
    <2>2. resumeFrom' \subseteq stored'
        BY <2>1, SenderLearns DEF ResumeIsSound
    <2>3. ASSUME NEW m \in ToSet(toSender'), m.kind = "ready"
          PROVE  m.indices \subseteq stored'
        BY <2>1, <2>3, NewReplies DEF ResumeIsSound, Sent
    <2> QED
        BY <2>2, <2>3 DEF ResumeIsSound
<1> QED
    BY <1>1, <1>2, TypeInit, TypeNext, PTL DEF Spec

-----------------------------------------------------------------------------
(* Headers and payloads.                                                     *)

\* Every payload in the queue comes right behind its header; the header of one
\* at the front has been taken and is pending.
Paired(q, header) ==
    \A k \in 1 .. Len(q) : q[k].kind = "data" =>
        IF k = 1 THEN header = q[1].index
                 ELSE q[k - 1] = Frame("chunk", q[k].index)

SelfPaired(fs) ==
    \A k \in 1 .. Len(fs) : fs[k].kind = "data" =>
        k > 1 /\ fs[k - 1] = Frame("chunk", fs[k].index)

LEMMA PairedPush ==
    ASSUME NEW q \in Seq(Frames), NEW fs \in Seq(Frames), NEW header,
           Paired(q, header), SelfPaired(fs)
    PROVE  Paired(Push(q, fs), header)
<1>1. ASSUME NEW k \in 1 .. Len(q \o fs), (q \o fs)[k].kind = "data"
      PROVE  IF k = 1 THEN header = (q \o fs)[1].index
                      ELSE (q \o fs)[k - 1] = Frame("chunk", (q \o fs)[k].index)
    <2>1. CASE k <= Len(q)
        BY <1>1, <2>1 DEF Paired
    <2>2. CASE k > Len(q)
        <3>1. k - Len(q) \in 1 .. Len(fs) /\ (q \o fs)[k] = fs[k - Len(q)]
            BY <2>2
        <3>2. k - Len(q) > 1
              /\ fs[k - Len(q) - 1] = Frame("chunk", fs[k - Len(q)].index)
            BY <1>1, <3>1 DEF SelfPaired
        <3>3. (q \o fs)[k - 1] = fs[k - Len(q) - 1] /\ k # 1
            BY <3>1, <3>2
        <3> QED
            BY <3>1, <3>2, <3>3
    <2> QED
        BY <2>1, <2>2
<1> QED
    BY <1>1 DEF Paired, Push

LEMMA PairedCut ==
    ASSUME NEW q \in Seq(Frames), NEW n \in 0 .. Len(q), NEW header,
           Paired(q, header)
    PROVE  Paired(Cut(q, n), header)
BY DEF Paired, Cut

LEMMA PairedTail ==
    ASSUME NEW q \in Seq(Frames), q # <<>>, NEW header, NEW next_,
           Paired(q, header),
           Head(q).kind = "chunk" => next_ = Head(q).index
    PROVE  Paired(Tail(q), next_)
<1> SUFFICES ASSUME NEW k \in 1 .. Len(Tail(q)), Tail(q)[k].kind = "data"
             PROVE  IF k = 1 THEN next_ = Tail(q)[1].index
                    ELSE Tail(q)[k - 1] = Frame("chunk", Tail(q)[k].index)
    BY DEF Paired
<1>1. k + 1 \in 2 .. Len(q) /\ Tail(q)[k] = q[k + 1]
    OBVIOUS
<1>2. q[k] = Frame("chunk", Tail(q)[k].index)
    BY <1>1 DEF Paired
<1>3. CASE k = 1
    BY <1>2, <1>3 DEF Frame
<1>4. CASE k # 1
    BY <1>1, <1>2, <1>4
<1> QED
    BY <1>3, <1>4

LEMMA FramesSelfPaired ==
    /\ \A i \in Chunks : SelfPaired(ChunkFrames(i))
    /\ \A i \in Chunks : SelfPaired(ChunkFrames(i) \o <<Frame("complete", 0)>>)
    /\ SelfPaired(<<>>)
    /\ SelfPaired(<<>> \o <<Frame("complete", 0)>>)
    /\ SelfPaired(<<Frame("cancel", 0)>>)
BY DEF SelfPaired, ChunkFrames, Frame

PairedNow == Paired(toReceiver, pendingHeader)

LEMMA PairedPushed ==
    ASSUME TypeOK, PairedNow, UNCHANGED pendingHeader,
           NEW fs \in Seq(Frames), SelfPaired(fs),
           toReceiver' = Push(toReceiver, fs)
    PROVE  PairedNow'
BY PairedPush DEF PairedNow, TypeOK, ChannelOK

LEMMA PairedAdvance ==
    ASSUME TypeOK, PairedNow, UNCHANGED pendingHeader, NEW i \in 0 .. TotalChunks,
           NEW fs \in {<<>>} \union {ChunkFrames(j) : j \in Chunks},
           Advance(i, fs)
    PROVE  PairedNow'
<1>1. fs \in Seq(Frames) /\ SelfPaired(fs)
    BY EmptyFrames, ChunkFramesType, FramesSelfPaired
<1>2. Frame("complete", 0) \in Frames
    BY DEF Frame, Frames
<1>3. fs \o <<Frame("complete", 0)>> \in Seq(Frames)
    BY <1>1, <1>2
<1>4. SelfPaired(fs \o <<Frame("complete", 0)>>)
    BY FramesSelfPaired
<1> QED
    BY <1>1, <1>3, <1>4, PairedPushed DEF Advance

LEMMA PairedTaken ==
    ASSUME TypeOK, PairedNow, NEW kind, ReceiverTakes(kind),
           kind = "chunk" => pendingHeader' = Head(toReceiver).index
    PROVE  PairedNow'
<1>1. /\ toReceiver \in Seq(Frames) /\ toReceiver # <<>>
      /\ Head(toReceiver).kind = kind /\ toReceiver' = Tail(toReceiver)
    BY DEF TypeOK, ChannelOK, ReceiverTakes
<1> QED
    BY <1>1, PairedTail DEF PairedNow

LEMMA PairedNext == TypeOK /\ PairedNow /\ [Next]_vars => PairedNow'
<1> SUFFICES ASSUME TypeOK, PairedNow, [Next]_vars PROVE PairedNow'
    OBVIOUS
<1>1. CASE UNCHANGED <<toReceiver, pendingHeader>>
    BY <1>1 DEF PairedNow
<1>2. CASE ProcessChunk
    <2>1. next \in Chunks /\ next + 1 \in 0 .. TotalChunks
        BY <1>2 DEF ProcessChunk, TypeOK, SendingOK, Chunks
    <2>2. UNCHANGED pendingHeader
        BY <1>2 DEF ProcessChunk, receiverVars, tasks
    <2>3. CASE Advance(next + 1, <<>>)
        BY <2>1, <2>2, <2>3, PairedAdvance
    <2>4. CASE Advance(next + 1, ChunkFrames(next))
        BY <2>1, <2>2, <2>4, PairedAdvance
    <2> QED
        BY <1>1, <1>2, <2>2, <2>3, <2>4 DEF ProcessChunk
<1>3. CASE ResendChunk
    <2>1. PICK i \in Chunks : toReceiver' = Push(toReceiver, ChunkFrames(i))
        BY <1>3 DEF ResendChunk
    <2>2. UNCHANGED pendingHeader
        BY <1>3 DEF ResendChunk, receiverVars, tasks
    <2> QED
        BY <2>1, <2>2, ChunkFramesType, FramesSelfPaired, PairedPushed
<1>4. CASE OnReady
    <2>1. UNCHANGED pendingHeader
        BY <1>4 DEF OnReady, receiverVars, tasks
    <2>2. CASE Advance(0, <<>>)
        <3>1. 0 \in 0 .. TotalChunks
            OBVIOUS
        <3> QED
            BY <2>1, <2>2, <3>1, PairedAdvance
    <2> QED
        BY <1>1, <1>4, <2>1, <2>2 DEF OnReady
<1>5. CASE Cancel
    <2>1. toReceiver' = Push(toReceiver, <<Frame("cancel", 0)>>)
          /\ UNCHANGED pendingHeader
        BY <1>5 DEF Cancel, receiverVars, tasks
    <2>2. <<Frame("cancel", 0)>> \in Seq(Frames)
        BY DEF Frame, Frames
    <2> QED
        BY <2>1, <2>2, FramesSelfPaired, PairedPushed
<1>6. CASE Dispose \/ Close
    <2>1. PICK n \in 0 .. Len(toReceiver) : toReceiver' = Cut(toReceiver, n)
        BY <1>6 DEF Dispose, Close
    <2>2. UNCHANGED pendingHeader
        BY <1>6 DEF Dispose, Close, receiverVars, tasks
    <2> QED
        BY <2>1, <2>2, PairedCut DEF PairedNow, TypeOK, ChannelOK
<1>7. CASE OnHeader
    BY <1>7, PairedTaken DEF OnHeader
<1>8. CASE OnManifest \/ OnData \/ OnComplete \/ OnCancel
    BY <1>8, PairedTaken DEF OnManifest, OnData, OnComplete, OnCancel
<1>9. CASE \/ OnRequest \/ OnVerified \/ SenderFault \/ Pause \/ Resume
           \/ OpenStore \/ OpenFails \/ Assemble \/ AssembleFails \/ Verify
           \/ Deliver \/ UNCHANGED vars
    BY <1>1, <1>9
       DEF OnRequest, OnVerified, SenderFault, ReadFails, ResendFails, ReadyTimeout, Pause,
           Resume, OpenStore, OpenFails, Assemble, AssembleFails, Verify, Deliver,
           vars, channel, receiverVars, tasks
<1>10. ASSUME NEW i \in Chunks,
              StoreChunk(i) \/ RejectChunk(i) \/ PutFails(i) \/ Rot(i)
       PROVE  PairedNow'
    BY <1>1, <1>10 DEF StoreChunk, RejectChunk, PutFails, Rot, channel, tasks
<1> QED
    BY <1>2, <1>3, <1>4, <1>5, <1>6, <1>7, <1>8, <1>9, <1>10
       DEF Next, SenderStep, UserStep, ReceiverStep, ReceiverFault

\* Bytes are always handled under the header of their own chunk.
THEOREM EveryPayloadIsPaired == Spec => []PairingUnambiguous
<1>1. Init => PairedNow
    BY DEF Init, PairedNow, Paired, Frame
<1>2. TypeOK /\ PairedNow => PairingUnambiguous
    <2> SUFFICES ASSUME TypeOK, PairedNow, toReceiver # <<>>,
                        Head(toReceiver).kind = "data"
                 PROVE  pendingHeader = Head(toReceiver).index
        BY DEF PairingUnambiguous
    <2>1. 1 \in 1 .. Len(toReceiver) /\ Head(toReceiver) = toReceiver[1]
        BY DEF TypeOK, ChannelOK
    <2> QED
        BY <2>1 DEF PairedNow, Paired
<1> QED
    BY <1>1, <1>2, TypeInit, TypeNext, PairedNext, PTL DEF Spec

-----------------------------------------------------------------------------
(* One verdict                                                             *)

\* What never changes back.
LEMMA NoWayBack ==
    ASSUME [Next]_vars
    PROVE  /\ sPc = "sentAll" => sPc' = "sentAll"
           /\ sPc = "stopped" => sPc' = "stopped"
           /\ ~listening => ~listening'
           /\ gotComplete => gotComplete'
<1> USE DEF sending, switches, senderVars, final, receiverVars
<1>1. CASE SenderStep
  <2>1. UNCHANGED gotComplete
    BY <1>1 DEF SenderStep, ProcessChunk, ResendChunk, OnReady, OnRequest, OnVerified
  <2>2. sPc \in {"sentAll", "stopped"} => sPc' = sPc
    BY <1>1 DEF SenderStep, ProcessChunk, ResendChunk, OnReady, OnRequest, OnVerified
  <2>3. UNCHANGED listening \/ listening' = FALSE
    BY <1>1 DEF SenderStep, ProcessChunk, ResendChunk, OnReady, OnRequest,
                OnVerified, Cleanup
  <2> QED BY <2>1, <2>2, <2>3
<1>2. CASE SenderFault
  BY <1>2 DEF SenderFault, ReadFails, ResendFails, ReadyTimeout, Fail
<1>3. CASE UserStep
  BY <1>3 DEF UserStep, Pause, Resume, Cancel, Dispose, Close, Cleanup
<1>4. CASE OnManifest \/ OpenStore \/ OnHeader \/ OnData \/ OnComplete \/ OnCancel
  <2>1. UNCHANGED <<sPc, listening>>
    BY <1>4 DEF OnManifest, OpenStore, OnHeader, OnData, OnComplete, OnCancel
  <2>2. UNCHANGED gotComplete \/ gotComplete' = TRUE
    BY <1>4 DEF OnManifest, OpenStore, OnHeader, OnData, OnComplete, OnCancel
  <2> QED BY <2>1, <2>2
<1>5. CASE Assemble \/ Verify \/ Deliver \/ OpenFails \/ AssembleFails
  BY <1>5 DEF Assemble, Verify, Deliver, OpenFails, AssembleFails
<1>6. ASSUME NEW i \in Chunks,
             StoreChunk(i) \/ RejectChunk(i) \/ PutFails(i) \/ Rot(i)
      PROVE  UNCHANGED <<sPc, listening, gotComplete>>
  BY <1>6 DEF StoreChunk, RejectChunk, PutFails, Rot
<1>7. CASE UNCHANGED vars
  BY <1>7 DEF vars
<1> QED
  BY <1>1, <1>2, <1>3, <1>4, <1>5, <1>6, <1>7 DEF Next, ReceiverStep, ReceiverFault

\* A `complete` frame is new only when the streaming loop is over.
LEMMA FramesAppended ==
    ASSUME NEW q \in Seq(Frames), NEW fs \in Seq(Frames), NEW f \in ToSet(q \o fs)
    PROVE  f \in ToSet(q) \/ f \in ToSet(fs)
BY DEF ToSet

LEMMA NewAdvance ==
    ASSUME TypeOK, NEW i \in 0 .. TotalChunks,
           NEW fs \in {<<>>} \union {ChunkFrames(j) : j \in Chunks},
           Advance(i, fs), NEW f \in ToSet(toReceiver'), f.kind = "complete"
    PROVE  f \in ToSet(toReceiver) \/ sPc' = "sentAll"
<1>1. fs \in Seq(Frames)
  BY EmptyFrames, ChunkFramesType
<1>2. CASE i = TotalChunks
  BY <1>2 DEF Advance, LoopHead
<1>3. CASE i # TotalChunks
  <2>1. toReceiver' = toReceiver \/ toReceiver' = toReceiver \o fs
    BY <1>3 DEF Advance, Push
  <2>2. \A g \in ToSet(fs) : g.kind # "complete"
    BY DEF ToSet, ChunkFrames, Frame
  <2> QED BY <1>1, <2>1, <2>2, FramesAppended DEF TypeOK, ChannelOK
<1> QED BY <1>2, <1>3

LEMMA NewFrames ==
    ASSUME TypeOK, [Next]_vars, NEW f \in ToSet(toReceiver'), f.kind = "complete"
    PROVE  f \in ToSet(toReceiver) \/ sPc' = "sentAll"
<1>1. toReceiver \in Seq(Frames)
  BY DEF TypeOK, ChannelOK
<1>2. CASE UNCHANGED toReceiver
  BY <1>2
<1>3. CASE ProcessChunk
  <2>1. next \in Chunks /\ next + 1 \in 0 .. TotalChunks
    BY <1>3 DEF ProcessChunk, TypeOK, SendingOK, Chunks
  <2>2. CASE Advance(next + 1, <<>>)
    BY <2>1, <2>2, NewAdvance
  <2>3. CASE Advance(next + 1, ChunkFrames(next))
    BY <2>1, <2>3, NewAdvance
  <2> QED BY <1>2, <1>3, <2>2, <2>3 DEF ProcessChunk
<1>4. CASE ResendChunk
  <2>1. PICK i \in Chunks : toReceiver' = Push(toReceiver, ChunkFrames(i))
    BY <1>4 DEF ResendChunk
  <2>2. ChunkFrames(i) \in Seq(Frames)
    BY ChunkFramesType
  <2>3. \A g \in ToSet(ChunkFrames(i)) : g.kind # "complete"
    BY DEF ToSet, ChunkFrames, Frame
  <2> QED BY <1>1, <1>2, <2>1, <2>2, <2>3, FramesAppended DEF Push
<1>5. CASE OnReady
  <2>1. 0 \in 0 .. TotalChunks
    OBVIOUS
  <2>2. CASE Advance(0, <<>>)
    BY <2>1, <2>2, NewAdvance
  <2> QED BY <1>2, <1>5, <2>2 DEF OnReady
<1>6. CASE Cancel
  <2>1. toReceiver' = Push(toReceiver, <<Frame("cancel", 0)>>)
    BY <1>6 DEF Cancel
  <2>2. <<Frame("cancel", 0)>> \in Seq(Frames)
    BY DEF Frame, Frames
  <2>3. \A g \in ToSet(<<Frame("cancel", 0)>>) : g.kind # "complete"
    BY DEF ToSet, Frame
  <2> QED BY <1>1, <1>2, <2>1, <2>2, <2>3, FramesAppended DEF Push
<1>7. CASE Dispose \/ Close
  <2>1. PICK n \in 0 .. Len(toReceiver) : toReceiver' = Cut(toReceiver, n)
    BY <1>7 DEF Dispose, Close
  <2> QED BY <1>1, <2>1, CutShort
<1>8. CASE OnManifest \/ OnHeader \/ OnData \/ OnComplete \/ OnCancel
  <2>1. toReceiver # <<>> /\ toReceiver' = Tail(toReceiver)
    BY <1>8 DEF OnManifest, OnHeader, OnData, OnComplete, OnCancel, ReceiverTakes
  <2> QED BY <1>1, <2>1, Taken
<1>9. CASE \/ OnRequest \/ OnVerified \/ SenderFault \/ Pause \/ Resume
           \/ OpenStore \/ OpenFails \/ Assemble \/ AssembleFails \/ Verify
           \/ Deliver \/ UNCHANGED vars
  BY <1>2, <1>9
  DEF OnRequest, OnVerified, SenderFault, ReadFails, ResendFails, ReadyTimeout, Pause,
      Resume, OpenStore, OpenFails, Assemble, AssembleFails, Verify, Deliver,
      vars, channel
<1>10. ASSUME NEW i \in Chunks,
              StoreChunk(i) \/ RejectChunk(i) \/ PutFails(i) \/ Rot(i)
       PROVE  UNCHANGED toReceiver
  BY <1>10 DEF StoreChunk, RejectChunk, PutFails, Rot, channel
<1> QED
  BY <1>2, <1>3, <1>4, <1>5, <1>6, <1>7, <1>8, <1>9, <1>10
  DEF Next, SenderStep, UserStep, ReceiverStep, ReceiverFault

\* The receiver finalizes only after `complete`.
LEMMA FinalizesAfterComplete ==
    ASSUME [Next]_vars
    PROVE  /\ gotComplete' => \/ gotComplete
                              \/ toReceiver # <<>> /\ Head(toReceiver).kind = "complete"
           /\ fin' # "idle" => fin # "idle" \/ gotComplete'
<1> USE DEF final, receiverVars
<1>1. CASE SenderStep \/ SenderFault \/ UserStep
  <2>1. UNCHANGED <<gotComplete, fin>>
    BY <1>1 DEF SenderStep, ProcessChunk, ResendChunk, OnReady, OnRequest,
                OnVerified, SenderFault, ReadFails, ResendFails, ReadyTimeout,
                UserStep, Pause, Resume, Cancel, Dispose, Close
  <2> QED BY <2>1
<1>2. CASE OnManifest \/ OpenStore \/ OnHeader \/ OnData \/ OnCancel
  BY <1>2 DEF OnManifest, OpenStore, OnHeader, OnData, OnCancel
<1>3. CASE Assemble \/ Verify \/ Deliver \/ OpenFails \/ AssembleFails
  BY <1>3 DEF Assemble, Verify, Deliver, OpenFails, AssembleFails
<1>4. CASE OnComplete
  BY <1>4 DEF OnComplete, ReceiverTakes
<1>5. ASSUME NEW i \in Chunks, StoreChunk(i)
      PROVE  /\ gotComplete' = gotComplete
             /\ fin' # fin => gotComplete
  BY <1>5 DEF StoreChunk, TryFinalize, MayFinalize
<1>6. ASSUME NEW i \in Chunks, RejectChunk(i) \/ PutFails(i) \/ Rot(i)
      PROVE  UNCHANGED <<gotComplete, fin>>
  BY <1>6 DEF RejectChunk, PutFails, Rot
<1>7. CASE UNCHANGED vars
  BY <1>7 DEF vars
<1> QED
  BY <1>1, <1>2, <1>3, <1>4, <1>5, <1>6, <1>7 DEF Next, ReceiverStep, ReceiverFault

\* The sender reports something new when its loop fails, or on `verified`.
LoopFails ==
    /\ sPc \in {"awaitReady", "busy"} /\ sPc' = "stopped"
    /\ ~cancelled
    /\ sEvents' = sEvents \union {"failed"}

HearsVerdict ==
    \E m \in ToSet(toSender) :
        /\ m.kind = "verified"
        /\ listening /\ ~listening'
        /\ sEvents' = sEvents \union {IF m.ok THEN "done" ELSE "failed"}

LEMMA SenderReports ==
    ASSUME TypeOK, [Next]_vars
    PROVE  UNCHANGED sEvents \/ LoopFails \/ HearsVerdict
<1>1. CASE OnVerified
  <2>1. Head(toSender) \in ToSet(toSender)
    BY <1>1, Taken DEF OnVerified, SenderTakes, TypeOK, ChannelOK
  <2> QED BY <1>1, <2>1 DEF OnVerified, SenderTakes, Cleanup, HearsVerdict
<1>2. CASE ProcessChunk
  BY <1>2 DEF ProcessChunk, Fail, LoopFails
<1>3. CASE SenderFault
  BY <1>3 DEF SenderFault, ReadFails, ResendFails, ReadyTimeout, Fail, LoopFails
<1>4. CASE ResendChunk \/ OnReady \/ OnRequest \/ UserStep
  BY <1>4 DEF ResendChunk, OnReady, OnRequest, UserStep, Pause, Resume, Cancel,
              Dispose, Close, senderVars
<1>5. CASE ReceiverStep
  BY <1>5 DEF ReceiverStep, OnManifest, OpenStore, OnHeader, OnData, OnComplete,
              OnCancel, Assemble, Verify, Deliver, StoreChunk, RejectChunk, senderVars
<1>6. CASE ReceiverFault \/ UNCHANGED vars
  BY <1>6 DEF ReceiverFault, OpenFails, AssembleFails, PutFails, Rot, vars, senderVars
<1> QED BY <1>1, <1>2, <1>3, <1>4, <1>5, <1>6 DEF Next, SenderStep

\* `verified` is the answer to a `complete`, and `complete` is the end of a
\* streaming loop that did not fail.
VerdictInv ==
    /\ \A f \in ToSet(toReceiver) : f.kind = "complete" => sPc = "sentAll"
    /\ gotComplete => sPc = "sentAll"
    /\ fin # "idle" => gotComplete
    /\ \A m \in ToSet(toSender) : m.kind = "verified" => gotComplete
    /\ sEvents # {} => sPc = "stopped" \/ (~listening /\ gotComplete)
    /\ sEvents \in {{}, {"done"}, {"failed"}}

\* So whatever is reported is the first report.
LEMMA FirstReport ==
    ASSUME VerdictInv, LoopFails \/ HearsVerdict
    PROVE  sEvents = {}
<1>1. CASE LoopFails
  BY <1>1 DEF LoopFails, VerdictInv
<1>2. CASE HearsVerdict
  BY <1>2 DEF HearsVerdict, VerdictInv
<1> QED BY <1>1, <1>2

LEMMA VerdictNext == TypeOK /\ VerdictInv /\ [Next]_vars => VerdictInv'
<1> SUFFICES ASSUME TypeOK, VerdictInv, [Next]_vars PROVE VerdictInv'
  OBVIOUS
<1>1. ASSUME NEW f \in ToSet(toReceiver'), f.kind = "complete"
      PROVE  sPc' = "sentAll"
  BY <1>1, NewFrames, NoWayBack DEF VerdictInv
<1>2. gotComplete' => sPc' = "sentAll"
  <2>1. CASE gotComplete
    BY <2>1, NoWayBack DEF VerdictInv
  <2>2. CASE toReceiver # <<>> /\ Head(toReceiver).kind = "complete"
    <3>1. Head(toReceiver) \in ToSet(toReceiver)
      BY <2>2, Taken DEF TypeOK, ChannelOK
    <3> QED BY <2>2, <3>1, NoWayBack DEF VerdictInv
  <2> QED BY <2>1, <2>2, FinalizesAfterComplete
<1>3. fin' # "idle" => gotComplete'
  BY FinalizesAfterComplete, NoWayBack DEF VerdictInv
<1>4. ASSUME NEW m \in ToSet(toSender'), m.kind = "verified"
      PROVE  gotComplete'
  BY <1>4, NewReplies, NoWayBack DEF VerdictInv, Sent
<1>5. sEvents' # {} => sPc' = "stopped" \/ (~listening' /\ gotComplete')
  <2>1. CASE UNCHANGED sEvents
    BY <2>1, NoWayBack DEF VerdictInv
  <2>2. CASE LoopFails
    <3>1. sPc' = "stopped"
      BY <2>2 DEF LoopFails
    <3> QED BY <3>1
  <2>3. CASE HearsVerdict
    BY <2>3, NoWayBack DEF HearsVerdict, VerdictInv
  <2> QED BY <2>1, <2>2, <2>3, SenderReports
<1>6. sEvents' \in {{}, {"done"}, {"failed"}}
  <2>1. CASE UNCHANGED sEvents
    BY <2>1 DEF VerdictInv
  <2>2. CASE LoopFails \/ HearsVerdict
    BY <2>2, FirstReport DEF LoopFails, HearsVerdict
  <2> QED BY <2>1, <2>2, SenderReports
<1> QED BY <1>1, <1>2, <1>3, <1>4, <1>5, <1>6 DEF VerdictInv

LEMMA VerdictAlways == Spec => []VerdictInv
<1>1. Init => VerdictInv
  BY DEF Init, VerdictInv, ToSet, Frame
<1> QED BY <1>1, TypeInit, TypeNext, VerdictNext, PTL DEF Spec

\* The sender reports one outcome, whatever fails and whoever cancels or leaves.
THEOREM OnlyOneVerdict == Spec => []OneVerdict
<1>1. VerdictInv => OneVerdict
  <2> SUFFICES ASSUME VerdictInv PROVE Cardinality(sEvents) <= 1
    BY DEF OneVerdict
  <2>1. Cardinality({"done"}) = 1 /\ Cardinality({"failed"}) = 1
    BY FS_Singleton
  <2>2. Cardinality({}) = 0
    BY FS_EmptySet
  <2>3. sEvents = {} \/ sEvents = {"done"} \/ sEvents = {"failed"}
    BY DEF VerdictInv
  <2> QED BY <2>1, <2>2, <2>3
<1> QED BY <1>1, VerdictAlways, PTL

-----------------------------------------------------------------------------
(* No false alarm                                                          *)

\* As long as the storage keeps what it acknowledged, what is assembled is whole.
NoRot == left["rot"] = Budget["rot"]

WholeInv ==
    /\ \A f \in Faults : left[f] <= Budget[f]
    /\ NoRot => /\ tainted = {}
                /\ fin = "assembling" => stored = Chunks
                /\ fin = "hashing" => blob = Chunks
                /\ \A m \in ToSet(toSender) : m.kind = "verified" => m.ok

LEMMA BudgetShrinks ==
    ASSUME TypeOK, [Next]_vars
    PROVE  /\ \A f \in Faults : left'[f] <= left[f]
           /\ \A i \in Chunks : Rot(i) => left'["rot"] < left["rot"]
<1>1. ASSUME NEW f \in Faults, Spend(f)
      PROVE  /\ \A g \in Faults : left'[g] <= left[g]
             /\ left'[f] < left[f]
  BY <1>1 DEF Spend, TypeOK, ChannelOK
<1>2. \A g \in Faults : left'[g] <= left[g]
  <2>1. ASSUME UNCHANGED left PROVE \A g \in Faults : left'[g] <= left[g]
    BY <2>1 DEF TypeOK, ChannelOK
  <2>2. CASE SenderStep \/ Resume
    <3>1. UNCHANGED left
      BY <2>2 DEF SenderStep, ProcessChunk, ResendChunk, OnReady, OnRequest,
                  OnVerified, Resume
    <3> QED BY <2>1, <3>1
  <2>3. CASE SenderFault \/ Pause \/ Cancel \/ Dispose \/ Close
    <3>1. \E f \in Faults : Spend(f)
      BY <2>3 DEF SenderFault, ReadFails, ResendFails, ReadyTimeout, Pause, Cancel, Dispose,
                  Close, Faults
    <3> QED BY <1>1, <3>1
  <2>4. CASE \/ OnManifest \/ OpenStore \/ OnHeader \/ OnComplete \/ OnCancel
             \/ Assemble \/ Verify \/ Deliver
    <3>1. UNCHANGED left
      BY <2>4 DEF OnManifest, OpenStore, OnHeader, OnComplete, OnCancel, Assemble,
                  Verify, Deliver
    <3> QED BY <2>1, <3>1
  <2>5. CASE OnData \/ OpenFails \/ AssembleFails
    <3>1. UNCHANGED left \/ \E f \in Faults : Spend(f)
      BY <2>5 DEF OnData, OpenFails, AssembleFails, Faults
    <3> QED BY <1>1, <2>1, <3>1
  <2>6. ASSUME NEW i \in Chunks, StoreChunk(i) \/ RejectChunk(i)
        PROVE  UNCHANGED left
    BY <2>6 DEF StoreChunk, RejectChunk
  <2>7. ASSUME NEW i \in Chunks, PutFails(i) \/ Rot(i)
        PROVE  \E f \in Faults : Spend(f)
    BY <2>7 DEF PutFails, Rot, Faults
  <2>8. CASE UNCHANGED vars
    BY <2>1, <2>8 DEF vars
  <2> QED
    BY <1>1, <2>1, <2>2, <2>3, <2>4, <2>5, <2>6, <2>7, <2>8
    DEF Next, UserStep, ReceiverStep, ReceiverFault
<1>3. \A i \in Chunks : Rot(i) => left'["rot"] < left["rot"]
  BY <1>1 DEF Rot, Faults
<1> QED BY <1>2, <1>3

\* What happens to the store and the assembled file when nothing rots.
LEMMA WholeStep ==
    ASSUME TypeOK, [Next]_vars, \A i \in Chunks : ~Rot(i)
    PROVE  /\ tainted' \subseteq tainted
           /\ fin' = "assembling" => fin = "assembling" \/ stored' = Chunks
           /\ fin' = "hashing" => \/ fin = "hashing" /\ blob' = blob
                                  \/ fin = "assembling" /\ blob' = stored \ tainted
<1> USE DEF store, final, receiverVars
<1>1. CASE SenderStep \/ SenderFault \/ UserStep
  BY <1>1 DEF SenderStep, ProcessChunk, ResendChunk, OnReady, OnRequest, OnVerified,
              SenderFault, ReadFails, ResendFails, ReadyTimeout, UserStep, Pause, Resume, Cancel,
              Dispose, Close
<1>2. CASE OnManifest \/ OpenStore \/ OnHeader \/ OnData \/ OnCancel
  BY <1>2 DEF OnManifest, OpenStore, OnHeader, OnData, OnCancel
<1>3. CASE Assemble \/ Verify \/ Deliver \/ OpenFails \/ AssembleFails
  BY <1>3 DEF Assemble, Verify, Deliver, OpenFails, AssembleFails
<1>4. ASSUME NEW has \in SUBSET Chunks, NEW complete, TryFinalize(has, complete)
      PROVE  fin' = fin \/ (fin' = "assembling" /\ has = Chunks)
  <2>1. fin' = fin \/ (fin' = "assembling" /\ Missing(has) = {})
    BY <1>4 DEF TryFinalize
  <2> QED BY <2>1 DEF Missing
<1>5. CASE OnComplete
  <2>1. TryFinalize(stored, TRUE) /\ UNCHANGED <<store, blob>>
    BY <1>5 DEF OnComplete
  <2> QED BY <1>4, <2>1 DEF TypeOK, StoreOK
<1>6. ASSUME NEW i \in Chunks, StoreChunk(i)
      PROVE  /\ tainted' \subseteq tainted /\ blob' = blob
             /\ fin' = fin \/ (fin' = "assembling" /\ stored' = Chunks)
  <2>1. /\ TryFinalize(stored', gotComplete) /\ stored' = stored \union {i}
        /\ tainted' = tainted \ {i} /\ blob' = blob
    BY <1>6 DEF StoreChunk
  <2>2. stored' \in SUBSET Chunks
    BY <2>1 DEF TypeOK, StoreOK
  <2> QED BY <1>4, <2>1, <2>2
<1>7. ASSUME NEW i \in Chunks, RejectChunk(i) \/ PutFails(i)
      PROVE  UNCHANGED <<tainted, fin, blob>>
  BY <1>7 DEF RejectChunk, PutFails
<1>8. CASE UNCHANGED vars
  BY <1>8 DEF vars
<1> QED
  BY <1>1, <1>2, <1>3, <1>5, <1>6, <1>7, <1>8 DEF Next, ReceiverStep, ReceiverFault

LEMMA WholeNext == TypeOK /\ WholeInv /\ [Next]_vars => WholeInv'
<1> SUFFICES ASSUME TypeOK, WholeInv, [Next]_vars PROVE WholeInv'
  OBVIOUS
<1>0. /\ \A f \in Faults : left[f] \in Nat /\ Budget[f] \in Nat
      /\ "rot" \in Faults
  BY BudgetAssumption DEF TypeOK, ChannelOK, Faults
<1>1. \A f \in Faults : left'[f] \in Nat /\ left'[f] <= Budget[f]
  <2>1. \A f \in Faults : left'[f] \in Nat
    BY TypeNext DEF TypeOK, ChannelOK
  <2> QED BY <1>0, <2>1, BudgetShrinks DEF WholeInv
<1>2. NoRot' => NoRot /\ \A i \in Chunks : ~Rot(i)
  BY <1>0, <1>1, BudgetShrinks DEF NoRot, WholeInv
<1>3. ASSUME NoRot'
      PROVE  /\ tainted' = {}
             /\ fin' = "assembling" => stored' = Chunks
             /\ fin' = "hashing" => blob' = Chunks
  <2>1. stored \subseteq stored' /\ stored' \subseteq Chunks
    BY EveryStoreStep, TypeNext DEF StoreStep, TypeOK, StoreOK
  <2> QED BY <1>2, <1>3, <2>1, WholeStep DEF WholeInv
<1>4. ASSUME NoRot', NEW m \in ToSet(toSender'), m.kind = "verified"
      PROVE  m.ok
  BY <1>2, <1>4, NewReplies DEF WholeInv, Sent, WholeFileMatches
<1> QED BY <1>1, <1>3, <1>4 DEF WholeInv

\* Unless the storage changed bytes it had acknowledged, no verdict of the
\* whole-file check is negative.
THEOREM OnlyRotAlarms == Spec => []NoFalseAlarm
<1>1. Init => WholeInv
  BY BudgetAssumption DEF Init, WholeInv, ToSet
<1>2. WholeInv => NoFalseAlarm
  BY DEF WholeInv, NoRot, NoFalseAlarm
<1> QED BY <1>1, <1>2, TypeInit, TypeNext, WholeNext, PTL DEF Spec

-----------------------------------------------------------------------------
(* Transfer implements FileDelivery                                        *)

Kept == stored \ tainted
Told == IF sEvents = {} THEN "none"
        ELSE IF sEvents = {"done"} THEN "done" ELSE "failed"

\* What the promise is about: what the guest holds, and what the host is told.
AtTheGuest == <<Kept, blob, Accepted, "done" \in rEvents>>

\* A report of the sender is the host's one verdict.
LEMMA TellStep ==
    ASSUME TypeOK, TruthInv, VerdictInv, [Next]_vars,
           UNCHANGED <<stored, tainted, blob, fin, rEvents>>
    PROVE  [Delivery!Next]_(Delivery!vars)
<1>1. UNCHANGED AtTheGuest
  BY DEF AtTheGuest, Kept, Accepted
<1>2. CASE UNCHANGED sEvents
  BY <1>2 DEF Delivery!vars
<1>3. CASE LoopFails \/ HearsVerdict
  <2>1. Told = "none"
    BY <1>3, FirstReport DEF Told
  <2>2. Told' \in IF Accepted THEN {"done", "failed"} ELSE {"failed"}
    <3>1. sEvents = {}
      BY <1>3, FirstReport
    <3>2. CASE LoopFails
      BY <3>1, <3>2 DEF LoopFails, Told
    <3>3. CASE HearsVerdict
      BY <3>1, <3>3 DEF HearsVerdict, TruthInv, Told
    <3> QED BY <1>3, <3>2, <3>3
  <2>3. Delivery!Tell
    BY <1>1, <2>1, <2>2 DEF Delivery!Tell, Told, Accepted
  <2> QED BY <2>3 DEF Delivery!Next
<1> QED BY <1>2, <1>3, SenderReports

\* A step that changes what is kept, and nothing else of the promise.
LEMMA KeepStep ==
    ASSUME NEW i \in Chunks, Kept' = Kept \union {i} \/ Kept' = Kept \ {i},
           UNCHANGED <<blob, rEvents, sEvents>>, Accepted' = Accepted
    PROVE  [Delivery!Next]_(Delivery!vars)
<1>1. CASE Kept' = Kept \union {i}
  <2>1. Delivery!Keep(i)
    BY <1>1 DEF Delivery!Keep, Kept, Accepted
  <2> QED BY <2>1 DEF Delivery!Next
<1>2. CASE Kept' = Kept \ {i}
  <2>1. Delivery!Lose(i)
    BY <1>2 DEF Delivery!Lose, Kept, Accepted
  <2> QED BY <2>1 DEF Delivery!Next
<1> QED BY <1>1, <1>2

LEMMA StutterStep ==
    ASSUME UNCHANGED <<stored, tainted, blob, sEvents>>, Accepted' = Accepted,
           ("done" \in rEvents') = ("done" \in rEvents)
    PROVE  [Delivery!Next]_(Delivery!vars)
BY DEF Delivery!vars, Accepted

LEMMA FinalizeKeeps ==
    ASSUME NEW has, NEW complete, TryFinalize(has, complete)
    PROVE  Accepted' = Accepted
<1>1. fin' = fin \/ (fin = "idle" /\ fin' = "assembling")
  BY DEF TryFinalize, MayFinalize
<1> QED BY <1>1 DEF Accepted

LEMMA DeliveryNext ==
    TypeOK /\ TruthInv /\ VerdictInv /\ [Next]_vars => [Delivery!Next]_(Delivery!vars)
<1> SUFFICES ASSUME TypeOK, TruthInv, VerdictInv, [Next]_vars
             PROVE  [Delivery!Next]_(Delivery!vars)
  OBVIOUS
<1>1. CASE SenderStep \/ SenderFault \/ UserStep
  <2>1. UNCHANGED receiverVars
    BY <1>1 DEF SenderStep, SenderFault, UserStep, ProcessChunk, ResendChunk, OnReady,
                OnRequest, OnVerified, ReadFails, ResendFails, ReadyTimeout, Pause, Resume, Cancel,
                Dispose, Close
  <2> QED BY <2>1, TellStep DEF receiverVars, store, final
<1>2. CASE \/ OnManifest \/ OpenStore \/ OpenFails \/ OnHeader \/ OnData
           \/ OnCancel \/ AssembleFails
  <2>1. UNCHANGED <<stored, tainted, blob, sEvents>>
    BY <1>2 DEF OnManifest, OpenStore, OpenFails, OnHeader, OnData, OnCancel,
                AssembleFails, store, final, senderVars
  <2>2. ("done" \in rEvents') = ("done" \in rEvents)
    BY <1>2 DEF OnManifest, OpenStore, OpenFails, OnHeader, OnData, OnCancel,
                AssembleFails
  <2>3. Accepted' = Accepted
    BY <1>2 DEF OnManifest, OpenStore, OpenFails, OnHeader, OnData, OnCancel,
                AssembleFails, final, Accepted
  <2> QED BY <2>1, <2>2, <2>3, StutterStep
<1>3. CASE OnComplete
  <2>1. UNCHANGED <<stored, tainted, blob, sEvents, rEvents>>
    BY <1>3 DEF OnComplete, store, senderVars
  <2>2. Accepted' = Accepted
    BY <1>3, FinalizeKeeps DEF OnComplete
  <2> QED BY <2>1, <2>2, StutterStep
<1>4. ASSUME NEW i \in Chunks, StoreChunk(i)
      PROVE  [Delivery!Next]_(Delivery!vars)
  <2>1. Kept' = Kept \union {i} /\ UNCHANGED <<blob, rEvents, sEvents>>
    BY <1>4 DEF StoreChunk, Kept, senderVars
  <2>2. Accepted' = Accepted
    BY <1>4, FinalizeKeeps DEF StoreChunk
  <2> QED BY <2>1, <2>2, KeepStep
<1>5. ASSUME NEW i \in Chunks, Rot(i)
      PROVE  [Delivery!Next]_(Delivery!vars)
  <2>1. Kept' = Kept \ {i} /\ UNCHANGED <<blob, fin, rEvents, sEvents>>
    BY <1>5 DEF Rot, Kept, final, senderVars
  <2> QED BY <2>1, KeepStep DEF Accepted
<1>6. ASSUME NEW i \in Chunks, RejectChunk(i) \/ PutFails(i)
      PROVE  [Delivery!Next]_(Delivery!vars)
  <2>1. UNCHANGED <<stored, tainted, blob, fin, rEvents, sEvents>>
    BY <1>6 DEF RejectChunk, PutFails, store, final, senderVars
  <2> QED BY <2>1, StutterStep DEF Accepted
<1>7. CASE Assemble
  <2>1. Delivery!Assemble
    BY <1>7 DEF Assemble, Delivery!Assemble, store, senderVars
  <2> QED BY <2>1 DEF Delivery!Next
<1>8. CASE Verify
  <2>1. UNCHANGED <<stored, tainted, blob, sEvents>>
    BY <1>8 DEF Verify, store, senderVars
  <2>2. CASE WholeFileMatches
    <3>1. Accepted' /\ UNCHANGED rEvents /\ blob = Chunks
      BY <1>8, <2>2 DEF Verify, Accepted, WholeFileMatches
    <3>2. Delivery!Accept
      BY <2>1, <3>1 DEF Delivery!Accept, Accepted
    <3> QED BY <3>2 DEF Delivery!Next
  <2>3. CASE ~WholeFileMatches
    <3>1. Accepted' = Accepted /\ ("done" \in rEvents') = ("done" \in rEvents)
      BY <1>8, <2>3 DEF Verify, Accepted
    <3> QED BY <2>1, <3>1, StutterStep
  <2> QED BY <2>2, <2>3
<1>9. CASE Deliver
  <2>1. /\ UNCHANGED <<stored, tainted, blob, sEvents>>
        /\ Accepted /\ Accepted' /\ "done" \in rEvents'
    BY <1>9 DEF Deliver, store, senderVars, Accepted
  <2>2. Delivery!Deliver
    BY <2>1 DEF Delivery!Deliver, Accepted
  <2> QED BY <2>2 DEF Delivery!Next
<1>10. CASE UNCHANGED vars
  <2>1. UNCHANGED <<stored, tainted, blob, fin, rEvents, sEvents>>
    BY <1>10 DEF vars, senderVars, receiverVars, store, final
  <2> QED BY <2>1, StutterStep DEF Accepted
<1> QED
  BY <1>1, <1>2, <1>3, <1>4, <1>5, <1>6, <1>7, <1>8, <1>9, <1>10
  DEF Next, ReceiverStep, ReceiverFault

\* Both ends together keep the promise of FileDelivery: the guest is given a file
\* only after its check, the check passes only for all chunks intact, and the host
\* hears one verdict that agrees with it.
THEOREM ImplementsDelivery == Spec => DeliverySpec
<1>1. Init => Delivery!Init
  BY DEF Init, Delivery!Init
<1> QED
  BY <1>1, DeliveryNext, TypeCorrect, TruthAlways, VerdictAlways, PTL
  DEF Spec, DeliverySpec, Delivery!Spec

-----------------------------------------------------------------------------
(* Who talks first                                                         *)

\* The file's frames, and every reply, come after `ready`: from the moment the
\* store is open and until the end.
Talking == rPc = "receiving"
FileFrame(f) == f.kind \in {"chunk", "data", "complete"}

\* The manifest is the first frame of a queue, if it is there.
ManifestFirst(q, waited) ==
    \A k \in 1 .. Len(q) : q[k].kind = "manifest" => k = 1 /\ waited

GreetedInv ==
    /\ ManifestFirst(toReceiver, rPc = "none")
    /\ \A f \in ToSet(toReceiver) : FileFrame(f) => Talking
    /\ toSender # <<>> => Talking
    /\ open /\ sPc \in {"busy", "paused"} => Talking
    /\ \A S \in SUBSET Chunks : resends[S] > 0 => Talking
    /\ \A i \in Chunks : writing[i] > 0 \/ rejecting[i] > 0 => Talking
    /\ gotComplete => Talking

\* What a step does to the frames on their way to the receiver.
Outgoing(fs) ==
    \A f \in ToSet(fs) :
        \/ f.kind = "cancel"
        \/ FileFrame(f) /\ \/ sPc = "busy"
                           \/ \E S \in SUBSET Chunks : resends[S] > 0
                           \/ toSender # <<>>

LEMMA OutgoingAdvance ==
    ASSUME TypeOK, NEW i \in 0 .. TotalChunks,
           NEW fs \in {<<>>} \union {ChunkFrames(j) : j \in Chunks},
           Advance(i, fs), open, sPc = "busy" \/ toSender # <<>>
    PROVE  \E gs \in Seq(Frames) : toReceiver' = toReceiver \o gs /\ Outgoing(gs)
<1>1. fs \in Seq(Frames)
  BY EmptyFrames, ChunkFramesType
<1>2. Frame("complete", 0) \in Frames
  BY DEF Frame, Frames
<1>3. fs \o <<Frame("complete", 0)>> \in Seq(Frames)
  BY <1>1, <1>2
<1>4. \A f \in ToSet(fs) : FileFrame(f)
  BY DEF ToSet, ChunkFrames, Frame, FileFrame
<1>5. \A f \in ToSet(fs \o <<Frame("complete", 0)>>) : FileFrame(f)
  BY DEF ToSet, ChunkFrames, Frame, FileFrame
<1>6. PICK gs \in {fs, fs \o <<Frame("complete", 0)>>} : toReceiver' = toReceiver \o gs
  BY DEF Advance, Push
<1>7. gs \in Seq(Frames) /\ Outgoing(gs)
  BY <1>1, <1>3, <1>4, <1>5 DEF Outgoing
<1> QED BY <1>6, <1>7

LEMMA QueueStep ==
    ASSUME TypeOK, [Next]_vars
    PROVE  \/ UNCHANGED toReceiver
           \/ /\ open /\ UNCHANGED <<open, rPc>>
              /\ \E fs \in Seq(Frames) : toReceiver' = toReceiver \o fs /\ Outgoing(fs)
           \/ /\ toReceiver # <<>> /\ toReceiver' = Tail(toReceiver)
              /\ Head(toReceiver).kind = "data" => OnData
           \/ /\ open' = FALSE /\ UNCHANGED rPc
              /\ \E n \in 0 .. Len(toReceiver) : toReceiver' = Cut(toReceiver, n)
<1> USE DEF senderVars, receiverVars, channel
<1>1. CASE ~open /\ (ProcessChunk \/ ResendChunk \/ OnReady \/ Cancel)
  BY <1>1 DEF ProcessChunk, ResendChunk, OnReady, Cancel, Advance, Push
<1>2. CASE open /\ ProcessChunk
  <2>1. next \in Chunks /\ next + 1 \in 0 .. TotalChunks
    BY <1>2 DEF ProcessChunk, TypeOK, SendingOK, Chunks
  <2>2. sPc = "busy" /\ UNCHANGED <<open, rPc>>
    BY <1>2 DEF ProcessChunk
  <2>3. CASE Advance(next + 1, <<>>)
    BY <1>2, <2>1, <2>2, <2>3, OutgoingAdvance
  <2>4. CASE Advance(next + 1, ChunkFrames(next))
    BY <1>2, <2>1, <2>2, <2>4, OutgoingAdvance
  <2> QED BY <1>2, <2>2, <2>3, <2>4 DEF ProcessChunk
<1>3. CASE open /\ ResendChunk
  <2>1. PICK i \in Chunks : toReceiver' = toReceiver \o ChunkFrames(i)
    BY <1>3 DEF ResendChunk, Push
  <2>2. \E S \in SUBSET Chunks : resends[S] > 0
    BY <1>3 DEF ResendChunk
  <2>3. \A f \in ToSet(ChunkFrames(i)) : FileFrame(f)
    BY DEF ToSet, ChunkFrames, Frame, FileFrame
  <2>4. ChunkFrames(i) \in Seq(Frames) /\ Outgoing(ChunkFrames(i))
    BY <2>2, <2>3, ChunkFramesType DEF Outgoing
  <2>5. UNCHANGED <<open, rPc>>
    BY <1>3 DEF ResendChunk
  <2> QED BY <1>3, <2>1, <2>4, <2>5
<1>4. CASE open /\ OnReady
  <2>1. toSender # <<>> /\ UNCHANGED <<open, rPc>>
    BY <1>4 DEF OnReady, SenderTakes
  <2>2. 0 \in 0 .. TotalChunks
    OBVIOUS
  <2>3. CASE Advance(0, <<>>)
    BY <1>4, <2>1, <2>2, <2>3, OutgoingAdvance
  <2> QED BY <1>4, <2>1, <2>3 DEF OnReady
<1>5. CASE open /\ Cancel
  <2>1. toReceiver' = toReceiver \o <<Frame("cancel", 0)>> /\ UNCHANGED <<open, rPc>>
    BY <1>5 DEF Cancel, Push
  <2>2. <<Frame("cancel", 0)>> \in Seq(Frames)
    BY DEF Frame, Frames
  <2>3. Outgoing(<<Frame("cancel", 0)>>)
    BY DEF Outgoing, ToSet, Frame
  <2> QED BY <1>5, <2>1, <2>2, <2>3
<1>6. CASE Dispose \/ Close
  BY <1>6 DEF Dispose, Close, Severed
<1>7. CASE OnManifest \/ OnHeader \/ OnData \/ OnComplete \/ OnCancel
  BY <1>7 DEF OnManifest, OnHeader, OnData, OnComplete, OnCancel, ReceiverTakes
<1>8. CASE OnRequest \/ OnVerified \/ SenderFault \/ Pause \/ Resume
  BY <1>8 DEF OnRequest, OnVerified, SenderFault, ReadFails, ResendFails, ReadyTimeout,
     Pause, Resume
<1>9. CASE \/ OpenStore \/ OpenFails \/ Assemble \/ AssembleFails \/ Verify \/ Deliver
           \/ UNCHANGED vars
  BY <1>9 DEF OpenStore, OpenFails, Assemble, AssembleFails, Verify, Deliver, vars
<1>10. ASSUME NEW i \in Chunks,
              StoreChunk(i) \/ RejectChunk(i) \/ PutFails(i) \/ Rot(i)
       PROVE  UNCHANGED toReceiver
  BY <1>10 DEF StoreChunk, RejectChunk, PutFails, Rot
<1> QED
  BY <1>1, <1>2, <1>3, <1>4, <1>5, <1>6, <1>7, <1>8, <1>9, <1>10
  DEF Next, SenderStep, UserStep, ReceiverStep, ReceiverFault

\* The receiver gets ready once.
LEMMA RoomStep ==
    ASSUME TypeOK, GreetedInv, [Next]_vars
    PROVE  /\ Talking => Talking'
           /\ \/ UNCHANGED rPc
              \/ rPc = "opening"
              \/ toReceiver # <<>> /\ toReceiver' = Tail(toReceiver)
           /\ rPc' = "none" => rPc = "none"
<1> USE DEF receiverVars
<1>1. CASE SenderStep \/ SenderFault \/ UserStep
  <2>1. UNCHANGED rPc
    BY <1>1 DEF SenderStep, ProcessChunk, ResendChunk, OnReady, OnRequest, OnVerified,
                SenderFault, ReadFails, ResendFails, ReadyTimeout, UserStep, Pause, Resume, Cancel,
                Dispose, Close
  <2> QED BY <2>1 DEF Talking
<1>2. CASE OnManifest
  <2>1. toReceiver # <<>> /\ toReceiver' = Tail(toReceiver) /\ rPc' # "none"
    BY <1>2 DEF OnManifest, ReceiverTakes
  <2>2. 1 \in 1 .. Len(toReceiver) /\ toReceiver[1].kind = "manifest"
    BY <1>2 DEF OnManifest, ReceiverTakes, TypeOK, ChannelOK
  <2>3. rPc = "none"
    BY <2>2 DEF GreetedInv, ManifestFirst
  <2> QED BY <2>1, <2>3 DEF Talking
<1>3. CASE OpenStore \/ OpenFails
  BY <1>3 DEF OpenStore, OpenFails, Talking
<1>4. CASE OnHeader \/ OnData \/ OnComplete \/ OnCancel
  <2>1. UNCHANGED rPc
    BY <1>4 DEF OnHeader, OnData, OnComplete, OnCancel
  <2> QED BY <2>1 DEF Talking
<1>5. CASE Assemble \/ AssembleFails \/ Verify \/ Deliver
  <2>1. UNCHANGED rPc
    BY <1>5 DEF Assemble, AssembleFails, Verify, Deliver
  <2> QED BY <2>1 DEF Talking
<1>6. ASSUME NEW i \in Chunks,
             StoreChunk(i) \/ RejectChunk(i) \/ PutFails(i) \/ Rot(i)
      PROVE  UNCHANGED rPc
  BY <1>6 DEF StoreChunk, RejectChunk, PutFails, Rot
<1>7. CASE UNCHANGED vars
  BY <1>7 DEF vars, Talking
<1> QED
  BY <1>1, <1>2, <1>3, <1>4, <1>5, <1>6, <1>7
  DEF Next, ReceiverStep, ReceiverFault, Talking

LEMMA FirstAppended ==
    ASSUME NEW q \in Seq(Frames), NEW fs \in Seq(Frames), NEW waited,
           ManifestFirst(q, waited), \A f \in ToSet(fs) : f.kind # "manifest"
    PROVE  ManifestFirst(q \o fs, waited)
<1> SUFFICES ASSUME NEW k \in 1 .. Len(q \o fs), (q \o fs)[k].kind = "manifest"
             PROVE  k = 1 /\ waited
  BY DEF ManifestFirst
<1>1. CASE k <= Len(q)
  BY <1>1 DEF ManifestFirst
<1>2. CASE k > Len(q)
  <2>1. k - Len(q) \in 1 .. Len(fs) /\ (q \o fs)[k] = fs[k - Len(q)]
    BY <1>2
  <2>2. fs[k - Len(q)] \in ToSet(fs)
    BY <2>1 DEF ToSet
  <2> QED BY <2>1, <2>2
<1> QED BY <1>1, <1>2

LEMMA FirstTaken ==
    ASSUME NEW q \in Seq(Frames), q # <<>>, NEW waited, NEW waits,
           ManifestFirst(q, waited)
    PROVE  ManifestFirst(Tail(q), waits)
BY DEF ManifestFirst

LEMMA FirstCut ==
    ASSUME NEW q \in Seq(Frames), NEW n \in 0 .. Len(q), NEW waited,
           ManifestFirst(q, waited)
    PROVE  ManifestFirst(Cut(q, n), waited)
BY DEF ManifestFirst, Cut

LEMMA FramesGreeted ==
    ASSUME TypeOK, GreetedInv, [Next]_vars
    PROVE  /\ ManifestFirst(toReceiver', rPc' = "none")
           /\ \A f \in ToSet(toReceiver') : FileFrame(f) => Talking'
<1>1. toReceiver \in Seq(Frames)
  BY DEF TypeOK, ChannelOK
<1>2. Talking => Talking'
  BY RoomStep
<1>3. CASE toReceiver # <<>> /\ toReceiver' = Tail(toReceiver)
  <2>1. ManifestFirst(toReceiver', rPc' = "none")
    BY <1>1, <1>3, FirstTaken DEF GreetedInv
  <2>2. ToSet(toReceiver') \subseteq ToSet(toReceiver)
    BY <1>1, <1>3, Taken
  <2> QED BY <1>2, <2>1, <2>2 DEF GreetedInv
<1>4. CASE UNCHANGED toReceiver /\ ~(toReceiver # <<>> /\ toReceiver' = Tail(toReceiver))
  <2>1. UNCHANGED rPc \/ rPc = "opening"
    BY <1>4, RoomStep
  <2>2. ManifestFirst(toReceiver', rPc' = "none")
    BY <1>4, <2>1 DEF GreetedInv, ManifestFirst
  <2> QED BY <1>2, <1>4, <2>2 DEF GreetedInv
<1>5. CASE /\ open /\ UNCHANGED <<open, rPc>>
           /\ \E fs \in Seq(Frames) : toReceiver' = toReceiver \o fs /\ Outgoing(fs)
  <2>1. PICK fs \in Seq(Frames) : toReceiver' = toReceiver \o fs /\ Outgoing(fs)
    BY <1>5
  <2>2. \A f \in ToSet(fs) : f.kind # "manifest"
    BY <2>1 DEF Outgoing, FileFrame
  <2>3. \A f \in ToSet(fs) : FileFrame(f) => Talking
    BY <1>5, <2>1 DEF Outgoing, FileFrame, GreetedInv
  <2>4. ManifestFirst(toReceiver', rPc' = "none")
    BY <1>1, <1>5, <2>1, <2>2, FirstAppended DEF GreetedInv
  <2>5. \A f \in ToSet(toReceiver') : f \in ToSet(toReceiver) \/ f \in ToSet(fs)
    BY <1>1, <2>1, FramesAppended
  <2> QED BY <1>2, <2>3, <2>4, <2>5 DEF GreetedInv
<1>6. CASE /\ open' = FALSE /\ UNCHANGED rPc
           /\ \E n \in 0 .. Len(toReceiver) : toReceiver' = Cut(toReceiver, n)
  <2>1. PICK n \in 0 .. Len(toReceiver) : toReceiver' = Cut(toReceiver, n)
    BY <1>6
  <2>2. ManifestFirst(toReceiver', rPc' = "none")
    BY <1>1, <1>6, <2>1, FirstCut DEF GreetedInv
  <2>3. ToSet(toReceiver') \subseteq ToSet(toReceiver)
    BY <1>1, <2>1, CutShort
  <2> QED BY <1>2, <2>2, <2>3 DEF GreetedInv
<1> QED BY <1>3, <1>4, <1>5, <1>6, QueueStep

\* A reply is sent by a receiver that is ready.
LEMMA RepliesGreeted ==
    ASSUME TypeOK, VerdictInv, GreetedInv, [Next]_vars, toSender' # <<>>
    PROVE  Talking'
<1> USE DEF channel
<1>1. toSender \in Seq(Replies) /\ (Talking => Talking')
  BY RoomStep DEF TypeOK, ChannelOK
<1>2. CASE toSender # <<>>
  BY <1>1, <1>2 DEF GreetedInv
<1>3. CASE OpenStore
  BY <1>3 DEF OpenStore, Talking
<1>4. ASSUME NEW i \in Chunks, RejectChunk(i) PROVE Talking
  BY <1>4 DEF RejectChunk, GreetedInv
<1>5. ASSUME toSender = <<>>, NEW has, NEW complete, TryFinalize(has, complete)
      PROVE  Talking
  BY <1>5 DEF TryFinalize, MayFinalize, Talking
<1>6. ASSUME toSender = <<>>, NEW i \in Chunks, StoreChunk(i) PROVE Talking
  BY <1>5, <1>6 DEF StoreChunk
<1>7. ASSUME toSender = <<>>, OnComplete PROVE Talking
  BY <1>5, <1>7 DEF OnComplete
<1>8. CASE Verify
  BY <1>1, <1>8 DEF Verify, VerdictInv, GreetedInv
<1>9. ASSUME toSender = <<>>, Dispose \/ Close PROVE FALSE
  BY <1>9 DEF Dispose, Close, Severed, Cut
<1>10. ASSUME toSender = <<>>, OnReady \/ OnRequest \/ OnVerified PROVE FALSE
  BY <1>10 DEF OnReady, OnRequest, OnVerified, SenderTakes
<1>11. CASE \/ ProcessChunk \/ ResendChunk \/ SenderFault \/ Pause \/ Resume
            \/ Cancel \/ OnManifest \/ OnHeader \/ OnData \/ OnCancel
            \/ Assemble \/ Deliver \/ OpenFails \/ AssembleFails \/ UNCHANGED vars
  <2>1. UNCHANGED toSender
    BY <1>11
    DEF ProcessChunk, ResendChunk, SenderFault, ReadFails, ResendFails, ReadyTimeout, Pause,
        Resume, Cancel, OnManifest, OnHeader, OnData, OnCancel, Assemble, Deliver,
        OpenFails, AssembleFails, vars
  <2> QED BY <1>2, <2>1
<1>12. ASSUME NEW i \in Chunks, PutFails(i) \/ Rot(i) PROVE UNCHANGED toSender
  BY <1>12 DEF PutFails, Rot
<1> QED
  BY <1>1, <1>2, <1>3, <1>4, <1>6, <1>7, <1>8, <1>9, <1>10, <1>11, <1>12
  DEF Next, SenderStep, UserStep, ReceiverStep, ReceiverFault

LEMMA EndsGreeted ==
    ASSUME TypeOK, GreetedInv, [Next]_vars
    PROVE  /\ open' /\ sPc' \in {"busy", "paused"} => Talking'
           /\ \A S \in SUBSET Chunks : resends'[S] > 0 => Talking'
           /\ \A i \in Chunks : writing'[i] > 0 \/ rejecting'[i] > 0 => Talking'
           /\ gotComplete' => Talking'
<1> USE DEF sending, senderVars, tasks, final, receiverVars, channel
<1>1. Talking => Talking'
  BY RoomStep
<1>2. CASE Talking
  BY <1>1, <1>2
<1>3. ASSUME ~Talking
      PROVE  /\ open' => open /\ (sPc' \in {"busy", "paused"} => sPc \in {"busy", "paused"})
             /\ UNCHANGED resends
             /\ UNCHANGED <<writing, rejecting>>
             /\ UNCHANGED gotComplete
  <2>1. toSender = <<>> /\ ~gotComplete
    BY <1>3 DEF GreetedInv
  <2>2. ASSUME toReceiver # <<>> PROVE Head(toReceiver).kind # "complete"
    <3>1. Head(toReceiver) \in ToSet(toReceiver)
      BY <2>2, Taken DEF TypeOK, ChannelOK
    <3> QED BY <1>3, <3>1 DEF GreetedInv, FileFrame
  <2>3. \A S \in SUBSET Chunks : ~(resends[S] > 0)
    BY <1>3 DEF GreetedInv
  <2>4. \A i \in Chunks : ~(writing[i] > 0 \/ rejecting[i] > 0)
    BY <1>3 DEF GreetedInv
  <2>5. ~(OnReady \/ OnRequest \/ OnVerified \/ OnComplete \/ ResendChunk \/ ResendFails)
    BY <2>1, <2>2, <2>3 DEF OnReady, OnRequest, OnVerified, SenderTakes, OnComplete,
       ReceiverTakes, ResendChunk, ResendFails
  <2>6. CASE ProcessChunk
    BY <2>6 DEF ProcessChunk
  <2>7. CASE SenderFault \/ Pause \/ Cancel \/ Close
    BY <2>5, <2>7 DEF SenderFault, ReadFails, ReadyTimeout, Fail, Pause, Cancel, Close, Severed
  <2>8. CASE Resume
    BY <2>8 DEF Resume
  <2>9. CASE Dispose
    BY <2>9 DEF Dispose, Severed
  <2>10. CASE OnData
    BY <1>3, <2>10 DEF OnData, Talking
  <2>11. CASE OnManifest \/ OpenStore \/ OpenFails \/ OnHeader \/ OnCancel
    BY <2>11 DEF OnManifest, OpenStore, OpenFails, OnHeader, OnCancel
  <2>12. CASE Assemble \/ AssembleFails \/ Verify \/ Deliver
    BY <2>12 DEF Assemble, AssembleFails, Verify, Deliver
  <2>13. ASSUME NEW i \in Chunks PROVE ~(StoreChunk(i) \/ RejectChunk(i) \/ PutFails(i))
    BY <2>4 DEF StoreChunk, RejectChunk, PutFails
  <2>14. ASSUME NEW i \in Chunks, Rot(i)
         PROVE  UNCHANGED <<open, sPc, resends, writing, rejecting, gotComplete>>
    BY <2>14 DEF Rot
  <2>15. CASE UNCHANGED vars
    BY <2>15 DEF vars
  <2> QED
    BY <2>5, <2>6, <2>7, <2>8, <2>9, <2>10, <2>11, <2>12, <2>13, <2>14, <2>15
    DEF Next, SenderStep, UserStep, ReceiverStep, ReceiverFault
<1>4. CASE ~Talking
  <2>1. ~(open /\ sPc \in {"busy", "paused"}) /\ ~gotComplete
    BY <1>4 DEF GreetedInv
  <2>2. \A S \in SUBSET Chunks : ~(resends'[S] > 0)
    BY <1>3, <1>4 DEF GreetedInv
  <2>3. \A i \in Chunks : ~(writing'[i] > 0 \/ rejecting'[i] > 0)
    BY <1>3, <1>4 DEF GreetedInv
  <2> QED BY <1>3, <1>4, <2>1, <2>2, <2>3
<1> QED BY <1>2, <1>4

LEMMA GreetedNext == TypeOK /\ VerdictInv /\ GreetedInv /\ [Next]_vars => GreetedInv'
<1> SUFFICES ASSUME TypeOK, VerdictInv, GreetedInv, [Next]_vars PROVE GreetedInv'
  OBVIOUS
<1>1. \A f \in ToSet(toReceiver') : FileFrame(f) => Talking'
  BY FramesGreeted
<1>2. ManifestFirst(toReceiver', rPc' = "none")
  BY FramesGreeted
<1>3. toSender' # <<>> => Talking'
  BY RepliesGreeted
<1>4. /\ open' /\ sPc' \in {"busy", "paused"} => Talking'
      /\ \A S \in SUBSET Chunks : resends'[S] > 0 => Talking'
      /\ \A i \in Chunks : writing'[i] > 0 \/ rejecting'[i] > 0 => Talking'
      /\ gotComplete' => Talking'
  BY EndsGreeted
<1> QED BY <1>1, <1>2, <1>3, <1>4, Zenon DEF GreetedInv

LEMMA GreetedAlways == Spec => []GreetedInv
<1>1. Init => GreetedInv
  BY DEF Init, GreetedInv, ManifestFirst, FileFrame, ToSet, Frame
<1> QED BY <1>1, TypeCorrect, VerdictAlways, GreetedNext, PTL DEF Spec

-----------------------------------------------------------------------------
(* Nothing is forgotten                                                    *)

\* A chunk leaves the way it is on only where the code takes it further.
LEMMA TasksStay ==
    ASSUME TypeOK, [Next]_vars, NEW i \in Chunks
    PROVE  /\ writing[i] > 0 => writing'[i] > 0 \/ StoreChunk(i) \/ PutFails(i)
           /\ rejecting[i] > 0 => rejecting'[i] > 0 \/ RejectChunk(i)
<1> USE DEF tasks, receiverVars
<1>0. writing \in [Chunks -> Nat] /\ rejecting \in [Chunks -> Nat]
  BY DEF TypeOK, TasksOK
<1>1. CASE SenderStep \/ SenderFault \/ UserStep
  <2>1. UNCHANGED <<writing, rejecting>>
    BY <1>1 DEF SenderStep, ProcessChunk, ResendChunk, OnReady, OnRequest, OnVerified,
                SenderFault, ReadFails, ResendFails, ReadyTimeout, UserStep, Pause, Resume, Cancel,
                Dispose, Close
  <2> QED BY <2>1
<1>2. CASE OnManifest \/ OpenStore \/ OpenFails \/ OnHeader \/ OnComplete \/ OnCancel
  <2>1. UNCHANGED <<writing, rejecting>>
    BY <1>2 DEF OnManifest, OpenStore, OpenFails, OnHeader, OnComplete, OnCancel
  <2> QED BY <2>1
<1>3. CASE OnData
  <2>1. \/ UNCHANGED writing
        \/ writing' = [writing EXCEPT ![pendingHeader] = @ + 1]
    BY <1>3 DEF OnData
  <2>2. \/ UNCHANGED rejecting
        \/ rejecting' = [rejecting EXCEPT ![pendingHeader] = @ + 1]
    BY <1>3 DEF OnData
  <2> QED BY <1>0, <2>1, <2>2
<1>4. CASE Assemble \/ AssembleFails \/ Verify \/ Deliver
  BY <1>4 DEF Assemble, AssembleFails, Verify, Deliver
<1>5. ASSUME NEW j \in Chunks, StoreChunk(j) \/ PutFails(j)
      PROVE  /\ UNCHANGED rejecting
             /\ j # i => writing'[i] = writing[i]
  BY <1>0, <1>5 DEF StoreChunk, PutFails
<1>6. ASSUME NEW j \in Chunks, RejectChunk(j)
      PROVE  /\ UNCHANGED writing
             /\ j # i => rejecting'[i] = rejecting[i]
  BY <1>0, <1>6 DEF RejectChunk
<1>7. ASSUME NEW j \in Chunks, Rot(j) PROVE UNCHANGED <<writing, rejecting>>
  BY <1>7 DEF Rot
<1>8. CASE UNCHANGED vars
  BY <1>8 DEF vars
<1> QED
  BY <1>1, <1>2, <1>3, <1>4, <1>5, <1>6, <1>7, <1>8
  DEF Next, ReceiverStep, ReceiverFault

LEMMA LeftBehind ==
    ASSUME NEW T, NEW q \in Seq(T), q # <<>>, NEW m \in ToSet(q), m # Head(q)
    PROVE  m \in ToSet(Tail(q))
<1>1. PICK k \in 1 .. Len(q) : q[k] = m
  BY DEF ToSet
<1>2. k - 1 \in 1 .. Len(Tail(q)) /\ Tail(q)[k - 1] = m
  BY <1>1
<1>3. DOMAIN Tail(q) = 1 .. Len(Tail(q))
  OBVIOUS
<1> QED BY <1>2, <1>3 DEF ToSet

LEMMA StaysBefore ==
    ASSUME NEW T, NEW q \in Seq(T), NEW r \in Seq(T), NEW m \in ToSet(q)
    PROVE  m \in ToSet(q \o r)
<1>1. PICK k \in 1 .. Len(q) : q[k] = m
  BY DEF ToSet
<1>2. k \in 1 .. Len(q \o r) /\ (q \o r)[k] = m
  BY <1>1
<1> QED BY <1>2 DEF ToSet

LEMMA FramesStay ==
    ASSUME TypeOK, [Next]_vars, open', NEW f \in ToSet(toReceiver)
    PROVE  \/ f \in ToSet(toReceiver')
           \/ toReceiver # <<>> /\ Head(toReceiver) = f /\ (f.kind = "data" => OnData)
<1>1. toReceiver \in Seq(Frames)
  BY DEF TypeOK, ChannelOK
<1>2. CASE \E fs \in Seq(Frames) : toReceiver' = toReceiver \o fs
  BY <1>1, <1>2, StaysBefore
<1>3. CASE /\ toReceiver # <<>> /\ toReceiver' = Tail(toReceiver)
           /\ Head(toReceiver).kind = "data" => OnData
  BY <1>1, <1>3, LeftBehind
<1> QED BY <1>2, <1>3, QueueStep

LEMMA RequestsStay ==
    ASSUME TypeOK, [Next]_vars, open', NEW m \in ToSet(toSender), m.kind = "request"
    PROVE  m \in ToSet(toSender') \/ (OnRequest /\ Head(toSender) = m)
<1> USE DEF channel
<1>1. toSender \in Seq(Replies)
  BY DEF TypeOK, ChannelOK
<1>2. CASE UNCHANGED toSender
  BY <1>2
<1>3. ASSUME NEW kind \in {"ready", "request", "verified"},
             NEW S \in SUBSET Chunks, NEW ok \in BOOLEAN,
             toSender' = Push(toSender, <<Reply(kind, S, ok)>>)
      PROVE  m \in ToSet(toSender')
  <2>1. Reply(kind, S, ok) \in Replies
    BY DEF Reply, Replies
  <2>2. toSender' = toSender \/ toSender' = toSender \o <<Reply(kind, S, ok)>>
    BY <1>3 DEF Push
  <2>3. <<Reply(kind, S, ok)>> \in Seq(Replies)
    BY <2>1
  <2> QED BY <1>1, <2>2, <2>3, StaysBefore
<1>4. CASE OnReady \/ OnRequest \/ OnVerified
  <2>1. /\ toSender # <<>> /\ toSender' = Tail(toSender)
        /\ Head(toSender).kind = "request" => OnRequest
    BY <1>4 DEF OnReady, OnRequest, OnVerified, SenderTakes
  <2> QED BY <1>1, <2>1, LeftBehind
<1>5. ASSUME NEW has, NEW complete, TryFinalize(has, complete)
      PROVE  m \in ToSet(toSender')
  <2>1. FirstOf(Missing(has), RequestCap) \in SUBSET Chunks
    BY FirstOfType DEF Missing
  <2>2. CASE toSender' = Push(toSender,
            <<Reply("request", FirstOf(Missing(has), RequestCap), FALSE)>>)
    BY <1>3, <2>1, <2>2
  <2> QED BY <1>2, <1>5, <2>2 DEF TryFinalize
<1>6. CASE OpenStore
  <2>1. toSender' = Push(toSender, <<Reply("ready", stored, FALSE)>>)
    BY <1>6 DEF OpenStore, Held
  <2> QED BY <1>3, <2>1 DEF TypeOK, StoreOK
<1>7. ASSUME NEW i \in Chunks, RejectChunk(i) PROVE m \in ToSet(toSender')
  <2>1. toSender' = Push(toSender, <<Reply("request", {i}, FALSE)>>)
    BY <1>7 DEF RejectChunk
  <2> QED BY <1>3, <2>1
<1>8. CASE Verify
  <2>1. toSender' = Push(toSender, <<Reply("verified", {}, WholeFileMatches)>>)
    BY <1>8 DEF Verify
  <2> QED BY <1>3, <2>1 DEF WholeFileMatches
<1>9. ASSUME NEW i \in Chunks, StoreChunk(i) PROVE m \in ToSet(toSender')
  BY <1>5, <1>9 DEF StoreChunk
<1>10. CASE OnComplete
  BY <1>5, <1>10 DEF OnComplete
<1>11. CASE \/ ProcessChunk \/ ResendChunk \/ SenderFault \/ Pause \/ Resume
            \/ Cancel \/ OnManifest \/ OnHeader \/ OnData \/ OnCancel
            \/ Assemble \/ Deliver \/ OpenFails \/ AssembleFails \/ UNCHANGED vars
  BY <1>2, <1>11
  DEF ProcessChunk, ResendChunk, SenderFault, ReadFails, ResendFails, ReadyTimeout, Pause, Resume,
      Cancel, OnManifest, OnHeader, OnData, OnCancel, Assemble, Deliver, OpenFails,
      AssembleFails, vars
<1>12. ASSUME NEW i \in Chunks, PutFails(i) \/ Rot(i) PROVE UNCHANGED toSender
  BY <1>12 DEF PutFails, Rot
<1>13. ~(Dispose \/ Close)
  BY DEF Dispose, Close, Severed
<1> QED
  BY <1>2, <1>4, <1>6, <1>7, <1>8, <1>9, <1>10, <1>11, <1>12, <1>13
  DEF Next, SenderStep, UserStep, ReceiverStep, ReceiverFault

LEMMA SecondArrives ==
    ASSUME NEW T, NEW q \in Seq(T), NEW m \in T, NEW n \in T
    PROVE  n \in ToSet(q \o <<m, n>>)
<1>1. (q \o <<m, n>>)[Len(q) + 2] = n /\ Len(q) + 2 \in 1 .. Len(q \o <<m, n>>)
  OBVIOUS
<1>2. DOMAIN (q \o <<m, n>>) = 1 .. Len(q \o <<m, n>>)
  OBVIOUS
<1> QED BY <1>1, <1>2 DEF ToSet

LEMMA LoopsStay ==
    ASSUME TypeOK, [Next]_vars, ~ResendFails, open', ~cancelled,
           NEW S \in SUBSET Chunks, NEW i \in S, resends[S] > 0
    PROVE  \/ \E T \in SUBSET Chunks : i \in T /\ resends'[T] > 0
           \/ Frame("data", i) \in ToSet(toReceiver')
<1> USE DEF sending, senderVars, channel
<1>1. resends \in [SUBSET Chunks -> Nat] /\ toReceiver \in Seq(Frames)
  BY DEF TypeOK, SendingOK, ChannelOK
<1>2. CASE UNCHANGED resends
  BY <1>2
<1>3. CASE OnRequest
  <2>1. resends' = [resends EXCEPT ![Head(toSender).indices] = @ + 1]
    BY <1>3 DEF OnRequest
  <2>2. resends'[S] > 0
    BY <1>1, <2>1
  <2> QED BY <2>2
<1>4. CASE ResendChunk
  <2>1. PICK A \in SUBSET Chunks : \E j \in A :
            /\ resends[A] > 0
            /\ resends' = MoveLoop(resends, A, IF open /\ ~cancelled THEN A \ {j} ELSE {})
            /\ toReceiver' = Push(toReceiver, ChunkFrames(j))
    BY <1>4 DEF ResendChunk
  <2>2. open
    BY <1>4 DEF ResendChunk
  <2>3. PICK j \in A : /\ resends' = MoveLoop(resends, A, A \ {j})
                       /\ toReceiver' = toReceiver \o ChunkFrames(j)
    BY <2>1, <2>2 DEF Push
  <2>4. \A T \in SUBSET Chunks :
            resends'[T] = resends[T] - (IF T = A THEN 1 ELSE 0)
                            + (IF T = A \ {j} /\ A \ {j} # {} THEN 1 ELSE 0)
    BY <2>3 DEF MoveLoop
  <2>5. CASE S # A
    <3>1. resends'[S] > 0
      BY <1>1, <2>4, <2>5
    <3> QED BY <3>1
  <2>6. CASE S = A /\ i # j
    <3>1. A \ {j} \in SUBSET Chunks /\ i \in A \ {j} /\ A \ {j} # A
      BY <2>6
    <3>2. resends[A \ {j}] \in Nat
      BY <1>1, <3>1
    <3>3. resends'[A \ {j}] = resends[A \ {j}] + 1
      BY <2>4, <3>1, <3>2
    <3>4. resends'[A \ {j}] > 0
      BY <3>2, <3>3
    <3> QED BY <3>1, <3>4
  <2>7. CASE i = j
    <3>1. Frame("chunk", j) \in Frames /\ Frame("data", j) \in Frames
      BY <2>7, TotalChunksAssumption DEF Frames, Frame, Chunks
    <3>2. toReceiver \in Seq(Frames)
      BY DEF TypeOK, ChannelOK
    <3>3. Frame("data", j) \in ToSet(toReceiver \o ChunkFrames(j))
      BY <3>1, <3>2, SecondArrives DEF ChunkFrames
    <3> QED BY <2>3, <2>7, <3>3
  <2> QED BY <2>5, <2>6, <2>7
<1>5. CASE ProcessChunk \/ OnReady \/ OnVerified \/ SenderFault \/ UserStep
  BY <1>2, <1>5 DEF ProcessChunk, OnReady, OnVerified, SenderFault, ReadFails,
     ReadyTimeout, UserStep, Pause, Resume, Cancel, Dispose, Close
<1>6. CASE ReceiverStep
  BY <1>2, <1>6 DEF ReceiverStep, OnManifest, OpenStore, OnHeader, OnData, OnComplete,
     OnCancel, Assemble, Verify, Deliver, StoreChunk, RejectChunk
<1>7. CASE ReceiverFault \/ UNCHANGED vars
  BY <1>2, <1>7 DEF ReceiverFault, OpenFails, AssembleFails, PutFails, Rot, vars
<1> QED BY <1>3, <1>4, <1>5, <1>6, <1>7 DEF Next, SenderStep

LEMMA ArrivesLast ==
    ASSUME NEW T, NEW q \in Seq(T), NEW m \in T
    PROVE  m \in ToSet(q \o <<m>>)
<1>1. (q \o <<m>>)[Len(q) + 1] = m /\ Len(q) + 1 \in 1 .. Len(q \o <<m>>)
  OBVIOUS
<1>2. DOMAIN (q \o <<m>>) = 1 .. Len(q \o <<m>>)
  OBVIOUS
<1> QED BY <1>1, <1>2 DEF ToSet

\* What tryFinalize asks for is missing, and it asks for something.
LEMMA SmallestIsFirst ==
    ASSUME NEW S \in SUBSET Nat, S # {}, NEW n \in Nat \ {0}
    PROVE  \E i \in S : i \in FirstOf(S, n)
<1> DEFINE Below == {ss \in Nat \X Nat : ss[1] < ss[2]}
<1>0. IsWellFoundedOn(Below, Nat)
  BY NatLessThanWellFounded, Zenon DEF OpToRel
<1>1. PICK i \in S : \A j \in S : <<j, i>> \notin Below
  BY <1>0, WFMin
<1>2. \A j \in S : ~(j < i)
  BY <1>1
<1>3. {j \in S : j < i} = {}
  BY <1>2
<1>4. Cardinality({j \in S : j < i}) = 0
  BY <1>3, FS_EmptySet
<1> QED BY <1>4 DEF FirstOf

LEMMA AskedFor ==
    ASSUME toSender \in Seq(Replies), open, Talking, fin = "idle",
           NEW has \in SUBSET Chunks, has # Chunks, TryFinalize(has, TRUE)
    PROVE  \E i \in Chunks \ has :
               \E m \in ToSet(toSender') : m.kind = "request" /\ i \in m.indices
<1> DEFINE asked == FirstOf(Missing(has), RequestCap)
           r == Reply("request", asked, FALSE)
<1>1. Missing(has) # {} /\ Missing(has) \in SUBSET Nat /\ Missing(has) = Chunks \ has
  <2>1. Chunks \subseteq Nat
    BY DEF Chunks
  <2> QED BY <2>1 DEF Missing
<1>2. PICK i \in Chunks \ has : i \in asked
  BY <1>1, SmallestIsFirst
<1>3. toSender' = toSender \o <<r>>
  BY <1>1 DEF TryFinalize, MayFinalize, Talking, Push
<1>4. asked \in SUBSET Chunks
  BY <1>1, FirstOfType
<1>5. r \in Replies /\ r.kind = "request" /\ r.indices = asked
  BY <1>4 DEF Reply, Replies
<1> HIDE DEF r, asked
<1>6. r \in ToSet(toSender')
  BY <1>3, <1>5, ArrivesLast
<1> QED BY <1>2, <1>5, <1>6

\* The faults after which a transfer may stall with nobody told.
LateFaults == {"latePut", "lateResend"}

\* Every step of the receiver that finds chunks missing after `complete` asks for
\* some, and what is on its way to an end that still talks goes on to its store.
RememberedInv ==
    /\ cancelled => ~listening
    /\ fin # "idle" => stored = Chunks
    /\ \A f \in LateFaults : left[f] <= Budget[f]
    /\ NeverForgotten

LEMMA WayStays ==
    ASSUME TypeOK, PairedNow, GreetedInv, RememberedInv, [Next]_vars, open', listening',
           NEW i \in Chunks, i \notin stored', OnItsWay(i),
           ~PutFails(i), ~ResendFails
    PROVE  OnItsWay(i)'
<1>1. /\ toReceiver \in Seq(Frames) /\ toSender \in Seq(Replies)
      /\ writing \in [Chunks -> Nat] /\ rejecting \in [Chunks -> Nat]
  BY DEF TypeOK, ChannelOK, TasksOK
<1>2. ~StoreChunk(i) /\ i \notin stored
  <2>1. i \notin stored
    BY EveryStoreStep DEF StoreStep
  <2> QED BY <2>1 DEF StoreChunk
<1>3. listening /\ ~cancelled
  BY NoWayBack DEF RememberedInv
<1>4. CASE writing[i] > 0
  BY <1>2, <1>4, TasksStay DEF OnItsWay
<1>5. CASE rejecting[i] > 0
  <2>1. CASE RejectChunk(i)
    <3>1. toSender' = Push(toSender, <<Reply("request", {i}, FALSE)>>) /\ open
      BY <2>1 DEF RejectChunk
    <3>2. Reply("request", {i}, FALSE) \in Replies
      BY DEF Reply, Replies
    <3>3. Reply("request", {i}, FALSE) \in ToSet(toSender \o <<Reply("request", {i}, FALSE)>>)
      BY <1>1, <3>2, ArrivesLast
    <3>4. Reply("request", {i}, FALSE) \in ToSet(toSender')
      BY <3>1, <3>3 DEF Push
    <3> QED BY <3>4 DEF OnItsWay, Reply
  <2> QED BY <1>5, <2>1, TasksStay DEF OnItsWay
<1>6. CASE Frame("data", i) \in ToSet(toReceiver)
  <2>1. CASE Frame("data", i) \in ToSet(toReceiver')
    BY <2>1 DEF OnItsWay
  <2>2. CASE Frame("data", i) \notin ToSet(toReceiver')
    <3>1. toReceiver # <<>> /\ Head(toReceiver) = Frame("data", i) /\ OnData
      BY <1>6, <2>2, FramesStay DEF Frame
    <3>2. Talking
      BY <1>6 DEF GreetedInv, FileFrame, Frame
    <3>3. pendingHeader = i
      <4>1. 1 \in 1 .. Len(toReceiver) /\ toReceiver[1] = Frame("data", i)
        BY <1>1, <3>1
      <4>2. toReceiver[1].kind = "data" /\ toReceiver[1].index = i
        BY <4>1 DEF Frame
      <4> QED BY <4>1, <4>2 DEF PairedNow, Paired
    <3>4. i # NoHeader
      BY DEF Chunks, NoHeader
    <3>5. \/ writing' = [writing EXCEPT ![i] = @ + 1]
          \/ rejecting' = [rejecting EXCEPT ![i] = @ + 1]
      BY <1>2, <3>1, <3>2, <3>3, <3>4 DEF OnData, Talking
    <3>6. writing'[i] > 0 \/ rejecting'[i] > 0
      BY <1>1, <3>5
    <3> QED BY <3>6 DEF OnItsWay
  <2> QED BY <2>1, <2>2
<1>7. CASE \E m \in ToSet(toSender) : m.kind = "request" /\ i \in m.indices
  <2>1. PICK m \in ToSet(toSender) : m.kind = "request" /\ i \in m.indices
    BY <1>7
  <2>2. CASE m \in ToSet(toSender')
    BY <2>1, <2>2 DEF OnItsWay
  <2>3. CASE OnRequest /\ Head(toSender) = m
    <3>1. m.indices \in SUBSET Chunks
      BY <1>1, <2>3, ReplyTaken DEF OnRequest
    <3>2. resends'[m.indices] > 0
      BY <2>3, <3>1 DEF OnRequest, TypeOK, SendingOK
    <3> QED BY <2>1, <3>1, <3>2 DEF OnItsWay
  <2> QED BY <2>1, <2>2, <2>3, RequestsStay
<1>8. CASE \E S \in SUBSET Chunks : i \in S /\ resends[S] > 0
  BY <1>3, <1>8, LoopsStay DEF OnItsWay
<1> QED BY <1>4, <1>5, <1>6, <1>7, <1>8 DEF OnItsWay

\* Who stores a chunk, takes `complete` or cancels.
LEMMA WhoDoesIt ==
    ASSUME [Next]_vars
    PROVE  /\ open' => open
           /\ cancelled' => cancelled \/ ~listening'
           /\ stored' = stored \/ \E i \in Chunks : StoreChunk(i)
           /\ gotComplete' => gotComplete \/ OnComplete
           /\ \A i \in Chunks : PutFails(i) /\ gotComplete => Spend("latePut")
           /\ ResendFails /\ gotComplete => Spend("lateResend")
           /\ fin' # "idle" => fin # "idle" \/ Missing(stored') = {}
<1> USE DEF senderVars, switches, receiverVars, store, final, channel
<1>1. /\ \A i \in Chunks : PutFails(i) /\ gotComplete => Spend("latePut")
      /\ ResendFails /\ gotComplete => Spend("lateResend")
  BY DEF PutFails, ResendFails
<1>2. CASE SenderStep \/ SenderFault
  <2>1. UNCHANGED <<open, cancelled, stored, gotComplete, fin>>
    BY <1>2 DEF SenderStep, ProcessChunk, ResendChunk, OnReady, OnRequest,
       OnVerified, SenderFault, ReadFails, ResendFails, ReadyTimeout
  <2> QED BY <1>1, <2>1
<1>3. CASE UserStep
  BY <1>1, <1>3 DEF UserStep, Pause, Resume, Cancel, Cleanup, Dispose, Close, Severed
<1>4. CASE OnManifest \/ OpenStore \/ OpenFails \/ OnHeader \/ OnData \/ OnCancel
  BY <1>1, <1>4 DEF OnManifest, OpenStore, OpenFails, OnHeader, OnData, OnCancel
<1>5. CASE Assemble \/ AssembleFails \/ Verify \/ Deliver
  BY <1>1, <1>5 DEF Assemble, AssembleFails, Verify, Deliver
<1>6. CASE OnComplete
  BY <1>1, <1>6 DEF OnComplete, TryFinalize, MayFinalize
<1>7. ASSUME NEW i \in Chunks, StoreChunk(i)
      PROVE  /\ UNCHANGED <<open, cancelled, gotComplete>>
             /\ fin' # "idle" => fin # "idle" \/ Missing(stored') = {}
  BY <1>7 DEF StoreChunk, TryFinalize
<1>8. ASSUME NEW i \in Chunks, RejectChunk(i) \/ PutFails(i) \/ Rot(i)
      PROVE  UNCHANGED <<open, cancelled, stored, gotComplete, fin>>
  BY <1>8 DEF RejectChunk, PutFails, Rot
<1>9. CASE UNCHANGED vars
  BY <1>1, <1>9 DEF vars
<1> QED
  BY <1>1, <1>2, <1>3, <1>4, <1>5, <1>6, <1>7, <1>8, <1>9
  DEF Next, ReceiverStep, ReceiverFault

LEMMA RememberedNext ==
    TypeOK /\ PairedNow /\ GreetedInv /\ RememberedInv /\ [Next]_vars
        => RememberedInv'
<1> SUFFICES ASSUME TypeOK, PairedNow, GreetedInv, RememberedInv, [Next]_vars
             PROVE  RememberedInv'
  OBVIOUS
<1>1. cancelled' => ~listening'
  BY WhoDoesIt, NoWayBack DEF RememberedInv
<1>2. stored \subseteq stored' /\ stored' \subseteq Chunks
  BY EveryStoreStep, TypeNext DEF StoreStep, TypeOK, StoreOK
<1>3. fin' # "idle" => stored' = Chunks
  <2>1. Missing(stored') = {} => stored' = Chunks
    BY <1>2 DEF Missing
  <2> QED BY <1>2, <2>1, WhoDoesIt DEF RememberedInv
<1>4. /\ LateFaults \subseteq Faults
      /\ left \in [Faults -> Nat] /\ left' \in [Faults -> Nat]
      /\ \A f \in LateFaults : left'[f] <= left[f]
  BY BudgetShrinks, TypeNext DEF TypeOK, ChannelOK, Faults, LateFaults
<1>5. \A f \in LateFaults : left'[f] <= Budget[f]
  BY <1>4, BudgetAssumption DEF RememberedInv
<1>6. ASSUME open', listening', gotComplete', stored' # Chunks,
             \A f \in LateFaults : left'[f] = Budget[f]
      PROVE  \E i \in Chunks \ stored' : OnItsWay(i)'
  <2>1. /\ open /\ listening /\ stored # Chunks /\ fin = "idle"
        /\ \A f \in LateFaults : left[f] = Budget[f]
    <3>1. /\ open /\ listening /\ stored # Chunks /\ fin = "idle"
      BY <1>2, <1>6, WhoDoesIt, NoWayBack DEF RememberedInv
    <3>2. \A f \in LateFaults : left[f] = Budget[f]
      BY <1>4, <1>6, BudgetAssumption DEF RememberedInv
    <3> QED BY <3>1, <3>2
  <2>2. toSender \in Seq(Replies)
    BY DEF TypeOK, ChannelOK
  <2>3. ASSUME TryFinalize(stored', TRUE), Talking
        PROVE  \E i \in Chunks \ stored' : OnItsWay(i)'
    <3>1. \E i \in Chunks \ stored' :
             \E m \in ToSet(toSender') : m.kind = "request" /\ i \in m.indices
      BY <1>2, <1>6, <2>1, <2>2, <2>3, AskedFor
    <3> QED BY <3>1 DEF OnItsWay
  <2>4. CASE OnComplete
    <3>1. TryFinalize(stored', TRUE)
      BY <2>4 DEF OnComplete, store
    <3>2. toReceiver # <<>> /\ Head(toReceiver).kind = "complete"
      BY <2>4 DEF OnComplete, ReceiverTakes
    <3>3. Head(toReceiver) \in ToSet(toReceiver)
      BY <3>2, Taken DEF TypeOK, ChannelOK
    <3>4. Talking
      BY <3>2, <3>3 DEF GreetedInv, FileFrame
    <3> QED BY <2>3, <3>1, <3>4
  <2>5. ASSUME gotComplete, NEW i \in Chunks, StoreChunk(i)
        PROVE  \E j \in Chunks \ stored' : OnItsWay(j)'
    <3>1. TryFinalize(stored', TRUE)
      BY <2>5 DEF StoreChunk, TypeOK, FinalOK
    <3>2. Talking
      BY <2>5 DEF GreetedInv
    <3> QED BY <2>3, <3>1, <3>2
  <2>6. ASSUME gotComplete, stored' = stored
        PROVE  \E j \in Chunks \ stored' : OnItsWay(j)'
    <3>1. PICK i \in Chunks \ stored : OnItsWay(i)
      BY <2>1, <2>6 DEF RememberedInv, NeverForgotten, DroppedLate, LateFaults
    <3>2. ~PutFails(i) /\ ~ResendFails
      <4>1. ASSUME NEW f \in LateFaults, Spend(f) PROVE FALSE
        BY <1>4, <1>6, <2>1, <4>1 DEF Spend
      <4> QED BY <2>6, <4>1, WhoDoesIt DEF LateFaults
    <3>3. OnItsWay(i)'
      BY <1>6, <2>6, <3>1, <3>2, WayStays
    <3> QED BY <2>6, <3>1, <3>3
  <2> QED BY <1>6, <2>4, <2>5, <2>6, WhoDoesIt
<1> QED
  BY <1>1, <1>3, <1>5, <1>6 DEF RememberedInv, NeverForgotten, DroppedLate, LateFaults

\* Once the whole file is sent, a chunk that is missing is on its way in some form for
\* as long as both ends talk, whatever puts and resend loops failed until then; only
\* one that fails after `complete` may leave the transfer waiting for nothing.
THEOREM NothingIsForgotten == Spec => []NeverForgotten
<1>1. Init => PairedNow
  BY DEF Init, PairedNow, Paired, Frame
<1>2. Init => RememberedInv
  BY BudgetAssumption DEF Init, RememberedInv, NeverForgotten, LateFaults, Faults
<1>3. RememberedInv => NeverForgotten
  BY DEF RememberedInv
<1> QED
  BY <1>1, <1>2, <1>3, TypeInit, TypeNext, PairedNext, GreetedAlways, RememberedNext, PTL
  DEF Spec

-----------------------------------------------------------------------------
(* After a cancel                                                          *)

\* A step that lengthens the queue by two frames is a loop's.
LEMMA WhoSendsAChunk ==
    ASSUME TypeOK, [Next]_vars, Len(toReceiver') >= Len(toReceiver) + 2
    PROVE  \/ ProcessChunk /\ sPc' = LoopHead(next + 1)
           \/ ResendChunk
<1> USE DEF channel, senderVars, receiverVars
<1>1. toReceiver \in Seq(Frames) /\ Len(toReceiver) \in Nat
  BY DEF TypeOK, ChannelOK
<1>2. toReceiver' # toReceiver
  BY <1>1
<1>3. ASSUME toReceiver # <<>>, toReceiver' = Tail(toReceiver) PROVE FALSE
  BY <1>1, <1>3
<1>4. ASSUME NEW n \in 0 .. Len(toReceiver), toReceiver' = Cut(toReceiver, n) PROVE FALSE
  BY <1>1, <1>4 DEF Cut
<1>5. ASSUME NEW f \in Frames, toReceiver' = Push(toReceiver, <<f>>) PROVE FALSE
  BY <1>1, <1>5 DEF Push
<1>6. CASE ProcessChunk
  BY <1>2, <1>6 DEF ProcessChunk, Advance
<1>7. ASSUME OnReady PROVE FALSE
  <2>1. Advance(0, <<>>)
    BY <1>2, <1>7 DEF OnReady
  <2>2. Frame("complete", 0) \in Frames
    BY DEF Frame, Frames
  <2>3. \/ toReceiver' = Push(toReceiver, <<>>)
        \/ toReceiver' = Push(toReceiver, <<>> \o <<Frame("complete", 0)>>)
    BY <2>1 DEF Advance
  <2>4. <<>> \o <<Frame("complete", 0)>> = <<Frame("complete", 0)>>
    OBVIOUS
  <2>5. Push(toReceiver, <<>>) = toReceiver
    BY <1>1 DEF Push
  <2> QED BY <1>2, <1>5, <2>2, <2>3, <2>4, <2>5
<1>8. ASSUME Cancel PROVE FALSE
  <2>1. Frame("cancel", 0) \in Frames
    BY DEF Frame, Frames
  <2> QED BY <1>5, <1>8, <2>1 DEF Cancel
<1>9. ASSUME Dispose \/ Close PROVE FALSE
  BY <1>4, <1>9 DEF Dispose, Close
<1>10. ASSUME OnManifest \/ OnHeader \/ OnData \/ OnComplete \/ OnCancel PROVE FALSE
  BY <1>3, <1>10 DEF OnManifest, OnHeader, OnData, OnComplete, OnCancel, ReceiverTakes
<1>11. ASSUME \/ OnRequest \/ OnVerified \/ SenderFault \/ Pause \/ Resume
              \/ OpenStore \/ OpenFails \/ Assemble \/ AssembleFails \/ Verify \/ Deliver
              \/ UNCHANGED vars
       PROVE  FALSE
  BY <1>2, <1>11 DEF OnRequest, OnVerified, SenderFault, ReadFails, ResendFails,
     ReadyTimeout, Pause, Resume, OpenStore, OpenFails, Assemble, AssembleFails, Verify,
     Deliver, vars
<1>12. ASSUME NEW i \in Chunks,
              StoreChunk(i) \/ RejectChunk(i) \/ PutFails(i) \/ Rot(i)
       PROVE  FALSE
  BY <1>2, <1>12 DEF StoreChunk, RejectChunk, PutFails, Rot
<1> QED
  BY <1>6, <1>7, <1>8, <1>9, <1>10, <1>11, <1>12
  DEF Next, SenderStep, UserStep, ReceiverStep, ReceiverFault

\* A loop that puts a chunk behind the cancel frame is over with it.
THEOREM NoChunkAfterCancel == Spec => CancelStopsLoops
<1>1. ASSUME TypeOK, [Next]_vars, cancelled, Len(toReceiver') >= Len(toReceiver) + 2
      PROVE  \/ sPc = "busy" /\ sPc' # "busy"
             \/ /\ \E S \in SUBSET Chunks : resends'[S] < resends[S]
                /\ \A S \in SUBSET Chunks : resends'[S] <= resends[S]
  <2>1. CASE ProcessChunk /\ sPc' = LoopHead(next + 1)
    BY <1>1, <2>1 DEF ProcessChunk, LoopHead
  <2>2. CASE ResendChunk
    <3>1. PICK S \in SUBSET Chunks : resends' = MoveLoop(resends, S, {})
      BY <1>1, <2>2 DEF ResendChunk
    <3>2. \A T \in SUBSET Chunks : resends[T] \in Nat
      BY <1>1 DEF TypeOK, SendingOK
    <3>3. \A T \in SUBSET Chunks :
              resends'[T] = resends[T] - (IF T = S THEN 1 ELSE 0) + 0
      BY <3>1 DEF MoveLoop
    <3>4. resends'[S] < resends[S] /\ \A T \in SUBSET Chunks : resends'[T] <= resends[T]
      BY <3>2, <3>3
    <3> QED BY <3>4
  <2> QED BY <1>1, <2>1, <2>2, WhoSendsAChunk
<1>2. TypeOK /\ [Next]_vars =>
          [cancelled /\ Len(toReceiver') >= Len(toReceiver) + 2
             => \/ sPc = "busy" /\ sPc' # "busy"
                \/ /\ \E S \in SUBSET Chunks : resends'[S] < resends[S]
                   /\ \A S \in SUBSET Chunks : resends'[S] <= resends[S]]_vars
  BY <1>1
<1> QED BY <1>2, TypeCorrect, PTL DEF Spec, CancelStopsLoops

-----------------------------------------------------------------------------
(* The pages                                                               *)

\* The two pages only watch a transfer: each of their steps is one of module
\* Transfer's, so what is proved of it is true of what the pages show.
LEMMA PagesStep == [PagesNext]_<<vars, pages>> => [Next]_vars
<1>1. HostStep => Next
  BY DEF HostStep, Next, UserStep
<1>2. GuestStep => Next
  BY DEF GuestStep, Unseen, Next, ReceiverStep, ReceiverFault
<1>3. ConnectionFails => UNCHANGED vars
  BY DEF ConnectionFails
<1> QED BY <1>1, <1>2, <1>3 DEF PagesNext

THEOREM PagesWatchATransfer == PagesSpec => Spec
<1>1. PagesInit => Init
  BY DEF PagesInit
<1> QED BY <1>1, PagesStep, PTL DEF PagesSpec, Spec

LEMMA ReportsLast ==
    ASSUME TypeOK, [Next]_vars, sEvents # {}
    PROVE  sEvents' # {}
BY SenderReports DEF LoopFails, HearsVerdict

LEMMA LoopsAreOver ==
    ASSUME VerdictInv, [Next]_vars, sEvents # {}
    PROVE  sPc' = sPc /\ next' = next
<1> USE DEF sending, senderVars
<1>1. sPc \in {"sentAll", "stopped"}
  BY DEF VerdictInv
<1>2. sPc' = sPc
  BY <1>1, NoWayBack
<1>3. CASE SenderStep \/ SenderFault \/ UserStep
  BY <1>1, <1>3 DEF SenderStep, ProcessChunk, ResendChunk, OnReady, OnRequest,
     OnVerified, SenderFault, ReadFails, ResendFails, ReadyTimeout, UserStep, Pause, Resume, Cancel,
     Dispose, Close
<1>4. CASE ReceiverStep \/ ReceiverFault \/ UNCHANGED vars
  BY <1>4 DEF ReceiverStep, OnManifest, OpenStore, OnHeader, OnData, OnComplete,
     OnCancel, Assemble, Verify, Deliver, StoreChunk, RejectChunk, ReceiverFault,
     OpenFails, AssembleFails, PutFails, Rot, vars
<1> QED BY <1>2, <1>3, <1>4 DEF Next

LEMMA DisposedForGood == ASSUME [Next]_vars PROVE disposed => disposed'
<1> USE DEF switches, senderVars
<1>1. CASE SenderStep \/ SenderFault \/ UserStep
  BY <1>1 DEF SenderStep, ProcessChunk, ResendChunk, OnReady, OnRequest, OnVerified,
     SenderFault, ReadFails, ResendFails, ReadyTimeout, UserStep, Pause, Resume, Cancel,
     Dispose, Close
<1>2. CASE ReceiverStep \/ ReceiverFault \/ UNCHANGED vars
  BY <1>2 DEF ReceiverStep, OnManifest, OpenStore, OnHeader, OnData, OnComplete,
     OnCancel, Assemble, Verify, Deliver, StoreChunk, RejectChunk, ReceiverFault,
     OpenFails, AssembleFails, PutFails, Rot, vars
<1> QED BY <1>1, <1>2 DEF Next

\* The row is a phase and a count.
Rows == [phase : {"absent", "negotiating", "transferring", "verifying", "completed",
                  "failed"},
         count : Nat]

RowInv == row \in Rows

LEMMA RowNext ==
    TypeOK /\ TypeOK' /\ RowInv /\ [PagesNext]_<<vars, pages>> => RowInv'
<1> USE DEF RowInv
<1> SUFFICES ASSUME TypeOK, TypeOK', RowInv, [PagesNext]_<<vars, pages>> PROVE RowInv'
  OBVIOUS
<1>1. CASE HostStep
  <2>1. LoopShows(Forgotten) \in Rows
    <3>1. next' \in Nat
      BY DEF TypeOK, SendingOK
    <3> QED
      BY <3>1 DEF LoopShows, Forgotten, NoRow, Row, Rows, PhaseOnly, EmitStats
  <2>2. \A r \in Rows : VerdictShows(r) \in Rows
    BY DEF VerdictShows, Rows
  <2> QED BY <1>1, <2>1, <2>2 DEF HostStep, HostShows
<1>2. CASE ConnectionFails
  BY <1>2 DEF ConnectionFails, Rows
<1>3. CASE GuestStep \/ UNCHANGED pages
  BY <1>3 DEF GuestStep, GuestShows, pages
<1> QED BY <1>1, <1>2, <1>3 DEF PagesNext

LEMMA RowAlways == PagesSpec => [](TypeOK /\ VerdictInv /\ RowInv)
<1>1. PagesInit => RowInv
  BY DEF PagesInit, Row, Rows, RowInv
<1>2. PagesSpec => [](TypeOK /\ VerdictInv)
  BY PagesWatchATransfer, TypeCorrect, VerdictAlways, PTL
<1> QED BY <1>1, <1>2, RowNext, PTL DEF PagesSpec

\* Once the sender has reported, its peer's row stays as it is for as long as the peer
\* is listed, unless the connection fails: then the row says `failed`.
THEOREM TheVerdictStays == PagesSpec => VerdictStays
<1>1. ASSUME TypeOK, TypeOK', VerdictInv, RowInv, [PagesNext]_<<vars, pages>>,
             sEvents # {}, ~disposed'
      PROVE  \/ row' = row
             \/ ConnectionFails /\ row'.phase = "failed"
  <2>1. [Next]_vars
    BY <1>1, PagesStep
  <2>2. CASE HostStep
    <3>1. sPc' = sPc /\ next' = next /\ sPc # "awaitReady"
      BY <1>1, <2>1, LoopsAreOver DEF VerdictInv
    <3>2. disposed' = disposed
      BY <1>1, <2>1, DisposedForGood DEF TypeOK, SwitchesOK
    <3>3. LoopShows(Forgotten) = row
      BY <3>1, <3>2 DEF LoopShows, Forgotten
    <3>4. sEvents' = sEvents
      BY <1>1, <2>1, SenderReports, FirstReport
    <3>5. VerdictShows(LoopShows(Forgotten)) = row
      BY <3>3, <3>4 DEF VerdictShows
    <3> QED BY <2>2, <3>5 DEF HostStep, HostShows
  <2>3. CASE ConnectionFails
    BY <1>1, <2>3 DEF ConnectionFails, RowInv, Rows
  <2>4. CASE GuestStep \/ UNCHANGED pages
    BY <2>4 DEF GuestStep, GuestShows, pages
  <2> QED BY <1>1, <2>2, <2>3, <2>4 DEF PagesNext
<1>2. TypeOK /\ TypeOK' /\ VerdictInv /\ RowInv /\ [PagesNext]_<<vars, pages>> =>
          [sEvents # {} /\ ~disposed'
              => \/ row' = row
                 \/ ConnectionFails /\ row'.phase = "failed"]_<<vars, pages>>
  BY <1>1
<1> QED BY <1>2, RowAlways, PTL DEF PagesSpec, VerdictStays

\* What the pages say of a finished transfer: the host's that the peer has the file,
\* the guest's that it was saved.
PagesTellTheTruth ==
    /\ row.phase = "completed" => fin \in {"closing", "done"} /\ blob = Chunks
    /\ Shows = "complete" => fin = "done" /\ blob = Chunks

\* Either page has it from its own end.
HeardInv ==
    /\ "phase" \in DOMAIN row /\ (row.phase = "completed" => "done" \in sEvents)
    /\ DOMAIN page = {"phase", "count", "error", "done"}
    /\ page.done \in BOOLEAN /\ (page.done => fin = "done")

\* Only done() says that a page is done.
LEMMA PageShown ==
    ASSUME DOMAIN page = {"phase", "count", "error", "done"}
    PROVE  /\ Stats(page).done = page.done /\ DOMAIN Stats(page) = DOMAIN page
           /\ Failed(page).done = page.done /\ DOMAIN Failed(page) = DOMAIN page
           /\ Finalizing(page).done = page.done /\ DOMAIN Finalizing(page) = DOMAIN page
           /\ Finalizing(Stats(page)).done = page.done
           /\ DOMAIN Finalizing(Stats(page)) = DOMAIN page
           /\ Done(page).done = TRUE /\ DOMAIN Done(page) = DOMAIN page
BY DEF Stats, Failed, Finalizing, Done

LEMMA HeardNext ==
    TypeOK /\ HeardInv /\ [PagesNext]_<<vars, pages>> => HeardInv'
<1> SUFFICES ASSUME TypeOK, HeardInv, [PagesNext]_<<vars, pages>> PROVE HeardInv'
  OBVIOUS
<1>1. [Next]_vars
  BY PagesStep
<1>2. "done" \in sEvents => "done" \in sEvents'
  BY <1>1, SenderReports DEF LoopFails, HearsVerdict
<1>3. fin = "done" => fin' = "done"
  BY <1>1, EveryStoreStep DEF StoreStep
<1>4. CASE HostStep
  <2>1. row' = VerdictShows(LoopShows(Forgotten)) /\ page' = page
    BY <1>4 DEF HostStep, HostShows
  <2>2. LoopShows(Forgotten) = row \/ LoopShows(Forgotten).phase # "completed"
    BY DEF LoopShows, Forgotten, NoRow, Row, PhaseOnly, EmitStats
  <2>3. row'.phase = "completed" => "done" \in sEvents'
    <3>1. CASE row' = LoopShows(Forgotten)
      BY <1>2, <2>2, <3>1 DEF HeardInv
    <3>2. CASE row' # LoopShows(Forgotten)
      <4>1. row' = [LoopShows(Forgotten) EXCEPT !.phase =
                        IF "done" \in sEvents' \ sEvents THEN "completed" ELSE "failed"]
        BY <2>1, <3>2 DEF VerdictShows
      <4> QED BY <4>1
    <3> QED BY <3>1, <3>2
  <2>4. "phase" \in DOMAIN row'
    BY <2>1 DEF VerdictShows, LoopShows, Forgotten, NoRow, Row, PhaseOnly, EmitStats, HeardInv
  <2> QED BY <1>3, <2>1, <2>3, <2>4 DEF HeardInv
<1>5. CASE GuestStep
  <2>1. row' = row
    BY <1>5 DEF GuestStep, GuestShows, pages
  <2>2. \/ page' \in {page, Stats(page), Failed(page), Finalizing(page), Finalizing(Stats(page))}
        \/ page' = Done(page) /\ fin' = "done"
    BY <1>5 DEF GuestStep, GuestShows, Deliver, pages
  <2>3. /\ DOMAIN page' = {"phase", "count", "error", "done"}
        /\ page'.done = page.done \/ (page'.done = TRUE /\ fin' = "done")
    BY <2>2, PageShown DEF HeardInv
  <2> QED BY <1>2, <1>3, <2>1, <2>3 DEF HeardInv
<1>6. CASE ConnectionFails
  <2>1. page' = page /\ row'.phase = "failed" /\ "phase" \in DOMAIN row'
    BY <1>6 DEF ConnectionFails, HeardInv
  <2> QED BY <1>3, <2>1 DEF HeardInv
<1>7. CASE UNCHANGED pages
  BY <1>2, <1>3, <1>7 DEF HeardInv, pages
<1> QED BY <1>4, <1>5, <1>6, <1>7 DEF PagesNext

\* A row that says "completed" is about a guest that holds the whole intact file, and
\* a guest's page that says so has saved it, whatever the faults and loops between.
THEOREM ThePagesTellTheTruth == PagesSpec => []PagesTellTheTruth
<1>1. PagesInit => HeardInv
  BY DEF PagesInit, HeardInv, Row
<1>2. HeardInv /\ TruthInv => PagesTellTheTruth
  BY DEF HeardInv, TruthInv, Accepted, PagesTellTheTruth, Shows
<1>3. PagesSpec => [](TypeOK /\ TruthInv)
  BY PagesWatchATransfer, TypeCorrect, TruthAlways, PTL
<1> QED BY <1>1, <1>2, <1>3, HeardNext, PTL DEF PagesSpec
=============================================================================
