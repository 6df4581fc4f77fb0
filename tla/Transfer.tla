------------------------------ MODULE Transfer ------------------------------
(***************************************************************************)
(* One file on its way over one RTCDataChannel: FileSender at the host's   *)
(* end, FileReceiver at the guest's end.                                   *)
(*                                                                         *)
(* A chunk is its index.  The two ends are single-threaded programs whose  *)
(* async functions interleave at every await: the streaming loop (run),    *)
(* one loop per `request` frame (resendChunks), and one task per binary    *)
(* frame (handleBinary).  An action runs from one await to the next.       *)
(*                                                                         *)
(* The channel is reliable and ordered until it closes; what it has not    *)
(* delivered by then is lost.  Frames that change no state of either end   *)
(* (ack, pause, resume) are left out, and so is the time a loop spends in  *)
(* applyBackpressure, which module Backpressure models.                    *)
(***************************************************************************)
EXTENDS Naturals, Sequences, FiniteSets, SequencesExt

CONSTANTS
    TotalChunks,    \* manifest.totalChunks
    RequestCap,     \* most indices in the request tryFinalize sends (64)
    Keys,           \* keys the link may carry; "right" also if not encrypted
    Budget          \* how often each fault or user action may happen

KeyKinds == {"right", "wrong", "absent"}
Faults == {"corrupt", "put", "latePut", "rot", "open", "assemble", "read", "resend",
           "lateResend", "pause", "cancel", "dispose", "close", "timeout"}

ASSUME TotalChunksAssumption == TotalChunks \in Nat
ASSUME RequestCapAssumption == RequestCap \in Nat \ {0}
ASSUME KeysAssumption == Keys \subseteq KeyKinds
ASSUME BudgetAssumption == Budget \in [Faults -> Nat]

Chunks == 0 .. TotalChunks - 1
NoHeader == TotalChunks         \* pendingHeader = null

VARIABLES
    \* FileSender
    sPc,            \* where run() stands
    next,           \* the loop index of run()
    resumeFrom,     \* indices the receiver said it has
    resends,        \* running resendChunks loops: how many have which indices left
    paused,
    cancelled,
    listening,      \* onMessage is registered on the channel
    disposed,       \* the session let go of this FileSender
    sEvents,        \* 'done' and 'failed' emitted so far
    \* FileReceiver
    rPc,            \* "none": before the manifest; "opening": in onManifest
    key,            \* the key in the link the guest opened
    stored,         \* indices in the chunk store, and, once receiving, in `received`
    tainted,        \* stored indices whose bytes are not the file's
    pendingHeader,
    writing,        \* handleBinary tasks on good bytes, per index
    rejecting,      \* handleBinary tasks on bytes that will not verify, per index
    gotComplete,    \* completeMessage is set
    fin,            \* where tryFinalize stands; `finalized` is fin # "idle"
    blob,           \* intact chunks of the assembled file
    rEvents,        \* 'done' and 'failed' emitted so far
    \* RTCDataChannel
    toReceiver,
    toSender,
    open,
    left            \* budget left

sending == <<sPc, next, resumeFrom, resends>>
switches == <<paused, cancelled, listening, disposed>>
senderVars == <<sending, switches, sEvents>>
store == <<stored, tainted>>
tasks == <<pendingHeader, writing, rejecting>>
final == <<gotComplete, fin, blob>>
receiverVars == <<rPc, key, store, tasks, final, rEvents>>
channel == <<toReceiver, toSender, open>>
vars == <<senderVars, receiverVars, channel, left>>

-----------------------------------------------------------------------------
(* The channel.                                                            *)

Frame(kind, i) == [kind |-> kind, index |-> i]
PayloadFirst(i) == <<Frame("data", i), Frame("chunk", i)>>         \* a slip
ChunkFrames(i) == <<Frame("chunk", i), Frame("data", i)>>
Reply(kind, indices, ok) == [kind |-> kind, indices |-> indices, ok |-> ok]

Frames == [kind : {"manifest", "chunk", "data", "complete", "cancel"},
           index : 0 .. TotalChunks]
Replies == [kind : {"ready", "request", "verified"},
            indices : SUBSET Chunks, ok : BOOLEAN]

\* send() writes to an open channel and is a no-op on a closed one.
Push(queue, frames) == IF open THEN queue \o frames ELSE queue

Spend(fault) == /\ left[fault] > 0
                /\ left' = [left EXCEPT ![fault] = @ - 1]

-----------------------------------------------------------------------------
(* FileSender                                                              *)

\* The head of run()'s loop: past the last chunk there is no check of
\* `cancelled`, and the pause is looked at after it.  (Definitions marked "a
\* slip" are mistakes the runs must catch; nothing else refers to them.)
LoopHeadOneFurther(i) ==                                            \* a slip
    IF i > TotalChunks THEN "sentAll" ELSE IF cancelled THEN "stopped"
    ELSE IF paused THEN "paused" ELSE "busy"
LoopHeadDeafToCancel(i) ==                                          \* a slip
    IF i = TotalChunks THEN "sentAll" ELSE IF paused THEN "paused" ELSE "busy"
LoopHead(i) ==
    IF i = TotalChunks THEN "sentAll" ELSE IF cancelled THEN "stopped"
    ELSE IF paused THEN "paused" ELSE "busy"

\* Send `frames`, go to the loop's head for index i, and send `complete` with
\* the file's hash when the loop is over.
Advance(i, frames) ==
    /\ next' = i
    /\ sPc' = LoopHead(i)
    /\ toReceiver' = Push(toReceiver,
           IF i = TotalChunks THEN frames \o <<Frame("complete", 0)>> ELSE frames)

\* The catch of run(): an error after a cancel is not reported.
FailAndGoOn ==                                                      \* a slip
    /\ sPc' = sPc
    /\ sEvents' = IF cancelled THEN sEvents ELSE sEvents \union {"failed"}
Fail == /\ sPc' = "stopped"
        /\ sEvents' = IF cancelled THEN sEvents ELSE sEvents \union {"failed"}

\* run() reads, hashes, encrypts and sends the chunk at the loop index, or only
\* reads and hashes it when the receiver has it already.
ProcessChunk ==
    /\ sPc = "busy"
    /\ \/ /\ next \in resumeFrom
          /\ Advance(next + 1, <<>>)
          /\ UNCHANGED sEvents
       \/ /\ next \notin resumeFrom /\ open
          /\ Advance(next + 1, ChunkFrames(next))
          /\ UNCHANGED sEvents
       \/ /\ next \notin resumeFrom /\ ~open
          /\ Fail
          /\ UNCHANGED <<next, toReceiver>>
    /\ UNCHANGED <<resumeFrom, resends, switches, receiverVars, toSender, open,
                   left>>

\* run() fails to read, encrypt or hash a chunk.
ReadFails ==
    /\ sPc = "busy"
    /\ Spend("read")
    /\ Fail
    /\ UNCHANGED <<next, resumeFrom, resends, switches, receiverVars, channel>>

\* waitForReady rejects after CONNECTION_TIMEOUT_MS.
ReadyTimeout ==
    /\ sPc = "awaitReady"
    /\ Spend("timeout")
    /\ Fail
    /\ UNCHANGED <<next, resumeFrom, resends, switches, receiverVars, channel>>

MoveLoop(bag, from, to) ==
    [S \in SUBSET Chunks |->
        bag[S] - (IF S = from THEN 1 ELSE 0) + (IF S = to /\ to # {} THEN 1 ELSE 0)]

\* One resendChunks loop sends its next chunk.  It looks at `cancelled` before
\* it reads a chunk, so what a loop does next was decided before a cancel that
\* comes during the read; on a closed channel sendChunk throws and the loop ends.
ResendChunk ==
    \E S \in SUBSET Chunks : \E i \in S :
        /\ resends[S] > 0
        /\ \A j \in S : i <= j
        /\ resends' = MoveLoop(resends, S,
                          IF open /\ ~cancelled THEN S \ {i} ELSE {})
        /\ toReceiver' = Push(toReceiver, ChunkFrames(i))
        /\ UNCHANGED <<sPc, next, resumeFrom, switches, sEvents, receiverVars,
                       toSender, open, left>>

\* A loop fails to read, encrypt or hash its next chunk.  onMessage started it with
\* `void` and nothing catches the rejection: the loop is over, with all it had left,
\* and nobody is told.  What it drops before `complete` is handled tryFinalize finds.
ResendFails ==
    \E S \in SUBSET Chunks :
        /\ S # {} /\ resends[S] > 0
        /\ Spend(IF gotComplete THEN "lateResend" ELSE "resend")
        /\ resends' = MoveLoop(resends, S, {})
        /\ UNCHANGED <<sPc, next, resumeFrom, switches, sEvents, receiverVars,
                       channel>>

\* cleanup() removes the channel's message listener.
NoCleanup == listening' = listening                                 \* a slip
Cleanup == listening' = FALSE

SenderTakes(kind) == /\ listening
                     /\ toSender # <<>>
                     /\ Head(toSender).kind = kind
                     /\ toSender' = Tail(toSender)

OnReady ==
    /\ SenderTakes("ready")
    /\ resumeFrom' = resumeFrom \union Head(toSender).indices
    /\ \/ /\ sPc = "awaitReady"
          /\ Advance(0, <<>>)
       \/ /\ sPc # "awaitReady"
          /\ UNCHANGED <<sPc, next, toReceiver>>
    /\ UNCHANGED <<resends, switches, sEvents, receiverVars, open, left>>

OnRequest ==
    /\ SenderTakes("request")
    /\ resends' = [resends EXCEPT ![Head(toSender).indices] = @ + 1]
    /\ UNCHANGED <<sPc, next, resumeFrom, switches, sEvents, receiverVars,
                   toReceiver, open, left>>

OnVerified ==
    /\ SenderTakes("verified")
    /\ sEvents' = sEvents \union {IF Head(toSender).ok THEN "done" ELSE "failed"}
    /\ Cleanup
    /\ UNCHANGED <<sending, paused, cancelled, disposed, receiverVars,
                   toReceiver, open, left>>

-----------------------------------------------------------------------------
(* What the host's page does to a FileSender.                              *)

\* `finished` is set, and onMessage removed, by `verified`.
Finished == ~listening /\ ~cancelled /\ ~disposed

Pause ==
    /\ ~disposed /\ ~paused /\ ~Finished
    /\ Spend("pause")
    /\ paused' = TRUE
    /\ UNCHANGED <<sending, cancelled, listening, disposed, sEvents,
                   receiverVars, channel>>

\* The loop goes on with the chunk it was about to read: `cancelled` was looked
\* at before the wait.
Resume ==
    /\ ~disposed /\ paused
    /\ paused' = FALSE
    /\ sPc' = IF sPc = "paused" THEN "busy" ELSE sPc
    /\ UNCHANGED <<next, resumeFrom, resends, cancelled, listening, disposed,
                   sEvents, receiverVars, channel, left>>

Cancel ==
    /\ ~disposed /\ ~Finished
    /\ Spend("cancel")
    /\ cancelled' = TRUE
    /\ toReceiver' = Push(toReceiver, <<Frame("cancel", 0)>>)
    /\ Cleanup
    /\ UNCHANGED <<sending, paused, disposed, sEvents, receiverVars, toSender,
                   open>>

\* What a closed channel had not delivered is lost.
Cut(queue, n) == SubSeq(queue, 1, n)
Severed ==
    /\ open' = FALSE
    /\ \E n \in 0 .. Len(toSender) : toSender' = Cut(toSender, n)

\* removePeer disposes of the sender and closes the connection.  The waits of
\* run() resolve, and run() goes on.
Dispose ==
    /\ ~disposed
    /\ Spend("dispose")
    /\ disposed' = TRUE
    /\ Cleanup
    /\ Severed
    /\ \E n \in 0 .. Len(toReceiver) : toReceiver' = Cut(toReceiver, n)
    /\ sPc' = IF sPc = "awaitReady"
                 THEN IF cancelled THEN "stopped" ELSE LoopHead(0)
                 ELSE IF sPc = "paused" THEN "busy" ELSE sPc
    /\ UNCHANGED <<next, resumeFrom, resends, paused, cancelled, sEvents,
                   receiverVars>>

\* The channel closes: the connection is lost, or the guest closes it.  What the
\* host's session tells its page of the connection is in TransferPages.
Close ==
    /\ open
    /\ Spend("close")
    /\ Severed
    /\ \E n \in 0 .. Len(toReceiver) : toReceiver' = Cut(toReceiver, n)
    /\ UNCHANGED <<senderVars, receiverVars>>

-----------------------------------------------------------------------------
(* FileReceiver                                                            *)

ReceiverTakes(kind) == /\ toReceiver # <<>>
                       /\ Head(toReceiver).kind = kind
                       /\ toReceiver' = Tail(toReceiver)

\* Every transfer is encrypted; without a key there is nothing to do.
OnManifest ==
    /\ ReceiverTakes("manifest")
    /\ \/ /\ key = "absent"
          /\ rPc' = "dead"
          /\ rEvents' = rEvents \union {"failed"}
       \/ /\ key # "absent"
          /\ rPc' = "opening"
          /\ UNCHANGED rEvents
    /\ UNCHANGED <<senderVars, key, store, tasks, final, toSender, open, left>>

\* store.getStoredIndices()
HeldUpTo == {i \in Chunks : \E j \in stored : i <= j}                \* a slip
Held == stored

\* The rest of onManifest: open the store, take over what it holds, tell the
\* sender.
OpenStore ==
    /\ rPc = "opening"
    /\ rPc' = "receiving"
    /\ toSender' = Push(toSender, <<Reply("ready", Held, FALSE)>>)
    /\ UNCHANGED <<senderVars, key, store, tasks, final, rEvents, toReceiver,
                   open, left>>

\* An await of onManifest rejects, and nobody is told.
OpenFails ==
    /\ rPc = "opening"
    /\ Spend("open")
    /\ rPc' = "dead"
    /\ UNCHANGED <<senderVars, key, store, tasks, final, rEvents, channel>>

OnHeader ==
    /\ ReceiverTakes("chunk")
    /\ pendingHeader' = Head(toReceiver).index
    /\ UNCHANGED <<senderVars, rPc, key, store, writing, rejecting, final,
                   rEvents, toSender, open, left>>

\* handleBinary up to its first await: the bytes go with the pending header.
\* Bytes that are not that chunk's own, or that the key does not open, fail to
\* decrypt or to hash.
OnData ==
    /\ ReceiverTakes("data")
    /\ pendingHeader' = NoHeader
    /\ \/ /\ \/ pendingHeader = NoHeader
             \/ rPc # "receiving"
             \/ pendingHeader \in stored
          /\ UNCHANGED <<writing, rejecting, left>>
       \/ /\ pendingHeader # NoHeader /\ rPc = "receiving"
          /\ pendingHeader \notin stored
          /\ \/ /\ Head(toReceiver).index = pendingHeader /\ key = "right"
                /\ writing' = [writing EXCEPT ![pendingHeader] = @ + 1]
                /\ UNCHANGED <<rejecting, left>>
             \/ /\ Head(toReceiver).index # pendingHeader \/ key # "right"
                /\ rejecting' = [rejecting EXCEPT ![pendingHeader] = @ + 1]
                /\ UNCHANGED <<writing, left>>
             \/ /\ Spend("corrupt")
                /\ rejecting' = [rejecting EXCEPT ![pendingHeader] = @ + 1]
                /\ UNCHANGED writing
    /\ UNCHANGED <<senderVars, rPc, key, store, final, rEvents, toSender, open>>

\* Ask for the chunk again.
RejectChunk(i) ==
    /\ rejecting[i] > 0
    /\ rejecting' = [rejecting EXCEPT ![i] = @ - 1]
    /\ toSender' = Push(toSender, <<Reply("request", {i}, FALSE)>>)
    /\ UNCHANGED <<senderVars, rPc, key, store, pendingHeader, writing, final,
                   rEvents, toReceiver, open, left>>

\* The indices tryFinalize finds missing, and missing.slice(0, 64).
MissingButLast(has) == {i \in Chunks \ has : i + 1 < TotalChunks}   \* a slip
Missing(has) == Chunks \ has
SkipFirstOf(S, n) == {i \in S : Cardinality({j \in S : j < i}) \in 1 .. n - 1} \* a slip
FirstOf(S, n) == {i \in S : Cardinality({j \in S : j < i}) < n}

\* tryFinalize up to its first await, after `has` chunks are stored and
\* completeMessage is (or is not) there.
MayFinalizeAgain(complete) == complete /\ rPc = "receiving"          \* a slip
MayFinalize(complete) == fin = "idle" /\ complete /\ rPc = "receiving"

TryFinalize(has, complete) ==
    \/ /\ ~MayFinalize(complete)
       /\ UNCHANGED <<fin, toSender>>
    \/ /\ MayFinalize(complete) /\ Missing(has) # {}
       /\ toSender' = Push(toSender,
              <<Reply("request", FirstOf(Missing(has), RequestCap), FALSE)>>)
       /\ UNCHANGED fin
    \/ /\ MayFinalize(complete) /\ Missing(has) = {}
       /\ fin' = "assembling"
       /\ UNCHANGED toSender

\* The chunk is decrypted, hashed and put: it replaces what the store had.
StoreChunk(i) ==
    /\ writing[i] > 0
    /\ writing' = [writing EXCEPT ![i] = @ - 1]
    /\ stored' = stored \union {i}
    /\ tainted' = tainted \ {i}
    /\ TryFinalize(stored', gotComplete)
    /\ UNCHANGED <<senderVars, rPc, key, pendingHeader, rejecting, gotComplete,
                   blob, rEvents, toReceiver, open, left>>

\* put, or the hash before it, rejects: nothing catches it, and nothing asks for the
\* chunk before tryFinalize looks for it.
PutFails(i) ==
    /\ writing[i] > 0
    /\ Spend(IF gotComplete THEN "latePut" ELSE "put")
    /\ writing' = [writing EXCEPT ![i] = @ - 1]
    /\ UNCHANGED <<senderVars, rPc, key, store, pendingHeader, rejecting,
                   final, rEvents, channel>>

OnComplete ==
    /\ ReceiverTakes("complete")
    /\ gotComplete' = TRUE
    /\ TryFinalize(stored, TRUE)
    /\ UNCHANGED <<senderVars, rPc, key, store, tasks, blob, rEvents, open,
                   left>>

\* The receiver reports the cancel and goes on with what it has.
OnCancel ==
    /\ ReceiverTakes("cancel")
    /\ rEvents' = rEvents \union {"failed"}
    /\ UNCHANGED <<senderVars, rPc, key, store, tasks, final, toSender, open,
                   left>>

Assemble ==
    /\ fin = "assembling"
    /\ fin' = "hashing"
    /\ blob' = stored \ tainted
    /\ UNCHANGED <<senderVars, rPc, key, store, tasks, gotComplete, rEvents,
                   channel, left>>

\* assemble or hashBlob rejects: `finalized` stays set.
AssembleFails ==
    /\ fin = "assembling"
    /\ Spend("assemble")
    /\ fin' = "stuck"
    /\ UNCHANGED <<senderVars, rPc, key, store, tasks, gotComplete, blob,
                   rEvents, channel>>

\* The hash of the assembled file is the sender's exactly when every chunk is
\* there and intact.
ChunksWereVerified == stored = Chunks                               \* a slip
WholeFileMatches == blob = Chunks

Verify ==
    /\ fin = "hashing"
    /\ toSender' = Push(toSender, <<Reply("verified", {}, WholeFileMatches)>>)
    /\ \/ /\ WholeFileMatches
          /\ fin' = "closing"
          /\ UNCHANGED rEvents
       \/ /\ ~WholeFileMatches
          /\ fin' = "idle"
          /\ rEvents' = rEvents \union {"failed"}
    /\ UNCHANGED <<senderVars, rPc, key, store, tasks, gotComplete, blob,
                   toReceiver, open, left>>

\* ResumeStore.delete has returned.
Deliver ==
    /\ fin = "closing"
    /\ fin' = "done"
    /\ rEvents' = rEvents \union {"done"}
    /\ UNCHANGED <<senderVars, rPc, key, store, tasks, gotComplete, blob,
                   channel, left>>

\* The storage loses or changes bytes it has acknowledged.
Rot(i) ==
    /\ i \in stored \ tainted
    /\ Spend("rot")
    /\ tainted' = tainted \union {i}
    /\ UNCHANGED <<senderVars, rPc, key, stored, tasks, final, rEvents,
                   channel>>

-----------------------------------------------------------------------------
(* The channel has just opened: run() has sent the manifest.  A guest that *)
(* comes back may have any chunks of the file in its store.                *)

Init ==
    /\ sPc = "awaitReady" /\ next = 0 /\ resumeFrom = {}
    /\ resends = [S \in SUBSET Chunks |-> 0]
    /\ paused = FALSE /\ cancelled = FALSE
    /\ listening = TRUE /\ disposed = FALSE /\ sEvents = {}
    /\ rPc = "none"
    /\ key \in Keys
    /\ stored \in SUBSET Chunks
    /\ tainted = {}
    /\ pendingHeader = NoHeader
    /\ writing = [i \in Chunks |-> 0]
    /\ rejecting = [i \in Chunks |-> 0]
    /\ gotComplete = FALSE /\ fin = "idle" /\ blob = {} /\ rEvents = {}
    /\ toReceiver = <<Frame("manifest", 0)>>
    /\ toSender = <<>>
    /\ open = TRUE
    /\ left = Budget

SenderStep == ProcessChunk \/ ResendChunk \/ OnReady \/ OnRequest \/ OnVerified
SenderFault == ReadFails \/ ResendFails \/ ReadyTimeout
UserStep == Pause \/ Resume \/ Cancel \/ Dispose \/ Close
ReceiverStep ==
    \/ OnManifest \/ OpenStore \/ OnHeader \/ OnData \/ OnComplete \/ OnCancel
    \/ Assemble \/ Verify \/ Deliver
    \/ \E i \in Chunks : StoreChunk(i) \/ RejectChunk(i)
ReceiverFault ==
    \/ OpenFails \/ AssembleFails
    \/ \E i \in Chunks : PutFails(i) \/ Rot(i)

Next == SenderStep \/ SenderFault \/ UserStep \/ ReceiverStep \/ ReceiverFault

Spec == Init /\ [][Next]_vars

\* Every promise the code awaits settles, and an open channel delivers.
Fairness ==
    /\ WF_vars(ProcessChunk) /\ WF_vars(ResendChunk)
    /\ WF_vars(OnReady \/ OnRequest \/ OnVerified)
    /\ WF_vars(OnManifest \/ OnHeader \/ OnData \/ OnComplete \/ OnCancel)
    /\ WF_vars(OpenStore) /\ WF_vars(Assemble) /\ WF_vars(Verify)
    /\ WF_vars(Deliver)
    /\ \A i \in Chunks : WF_vars(StoreChunk(i)) /\ WF_vars(RejectChunk(i))

FairSpec == Spec /\ Fairness
-----------------------------------------------------------------------------
(* Properties                                                              *)

SendingOK ==
    /\ sPc \in {"awaitReady", "busy", "paused", "sentAll", "stopped"}
    /\ next \in 0 .. TotalChunks
    /\ sPc = "awaitReady" => next = 0
    /\ sPc \in {"busy", "paused"} => next < TotalChunks
    /\ resumeFrom \in SUBSET Chunks
    /\ resends \in [SUBSET Chunks -> Nat]

SwitchesOK ==
    /\ paused \in BOOLEAN /\ cancelled \in BOOLEAN
    /\ listening \in BOOLEAN /\ disposed \in BOOLEAN
    /\ sEvents \in SUBSET {"done", "failed"}

StoreOK ==
    /\ rPc \in {"none", "opening", "receiving", "dead"}
    /\ key \in Keys
    /\ stored \in SUBSET Chunks /\ tainted \in SUBSET Chunks

TasksOK ==
    /\ pendingHeader \in 0 .. TotalChunks
    /\ writing \in [Chunks -> Nat] /\ rejecting \in [Chunks -> Nat]

FinalOK ==
    /\ gotComplete \in BOOLEAN
    /\ fin \in {"idle", "assembling", "hashing", "closing", "done", "stuck"}
    /\ blob \in SUBSET Chunks
    /\ rEvents \in SUBSET {"done", "failed"}

ChannelOK ==
    /\ toReceiver \in Seq(Frames)
    /\ toSender \in Seq(Replies)
    /\ open \in BOOLEAN
    /\ left \in [Faults -> Nat]

TypeOK == SendingOK /\ SwitchesOK /\ StoreOK /\ TasksOK /\ FinalOK /\ ChannelOK

\* packages/types/src/transfer.ts: "payload chunks are [...] sent immediately
\* after their chunk control frame (the channel is reliable + ordered, so the
\* pairing is unambiguous)".  However the streaming loop and the resend loops
\* interleave, bytes are handled under the header of their own chunk.
PairingUnambiguous ==
    toReceiver # <<>> /\ Head(toReceiver).kind = "data"
        => pendingHeader = Head(toReceiver).index

\* A chunk the sender will skip is one the receiver has: `resumeFrom`, and what
\* a `ready` still under way adds to it, never names a chunk that is not stored.
ResumeIsSound ==
    /\ resumeFrom \subseteq stored
    /\ \A m \in ToSet(toSender) : m.kind = "ready" => m.indices \subseteq stored

\* The sender reports `done` only for a file that was assembled whole and intact
\* at the other end, and a file the receiver saves is such a file.
ToldTheTruth ==
    /\ "done" \in sEvents => fin \in {"closing", "done"} /\ blob = Chunks
    /\ "done" \in rEvents => fin = "done" /\ blob = Chunks

\* The sender reports one outcome: no failure of its loop after `verified`, no
\* `verified` after a failure.
OneVerdict == Cardinality(sEvents) <= 1

\* Unless the storage changed bytes it had acknowledged, the whole-file check
\* never fails: finalizing starts only when every chunk is in the store.
NoFalseAlarm ==
    left["rot"] = Budget["rot"]
        => \A m \in ToSet(toSender) : m.kind = "verified" => m.ok

\* Once `complete` has arrived nothing but its own requests brings the receiver
\* the chunks it misses.  While a chunk is missing and both ends still talk, one
\* of the missing chunks is under way in some form, unless a put or a resend loop
\* failed after `complete`: then the transfer may stall, and neither end is told.
OnItsWay(i) ==
    \/ writing[i] > 0 \/ rejecting[i] > 0
    \/ Frame("data", i) \in ToSet(toReceiver)
    \/ \E m \in ToSet(toSender) : m.kind = "request" /\ i \in m.indices
    \/ \E S \in SUBSET Chunks : i \in S /\ resends[S] > 0

DroppedLate == \E f \in {"latePut", "lateResend"} : left[f] # Budget[f]

NeverForgotten ==
    open /\ listening /\ gotComplete /\ stored # Chunks
    /\ ~DroppedLate
        => \E i \in Chunks \ stored : OnItsWay(i)

\* After cancel() no loop starts on another chunk: a loop that puts a chunk on
\* the channel behind the cancel frame is over with it.
CancelStopsLoops ==
    [][cancelled /\ Len(toReceiver') >= Len(toReceiver) + 2
        => \/ sPc = "busy" /\ sPc' # "busy"
           \/ /\ \E S \in SUBSET Chunks : resends'[S] < resends[S]
              /\ \A S \in SUBSET Chunks : resends'[S] <= resends[S]]_vars

\* The promise of module FileDelivery.
Delivery == INSTANCE FileDelivery WITH
    kept <- stored \ tainted,
    copy <- blob,
    accepted <- fin \in {"closing", "done"},
    delivered <- "done" \in rEvents,
    verdict <- IF sEvents = {} THEN "none"
               ELSE IF sEvents = {"done"} THEN "done" ELSE "failed"

DeliverySpec == Delivery!Spec

\* No user and no fault that nothing makes good ends the transfer.
Unharmed == \A f \in Faults \ {"corrupt", "put", "resend"} : left[f] = Budget[f]
=============================================================================
