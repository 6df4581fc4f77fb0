# A verification project for p2p-web-share

p2p-web-share sends a file from one browser to others over WebRTC. A host page
creates a room at a small signaling server and shares a link; every guest that
opens the link joins the room, gets an offer relayed by the server, and downloads
the file over a data channel of its own, chunk by chunk, encrypted with a key the
server never sees. This directory holds TLA+ modules that model that program, the
TLC configurations that check them on small instances, and TLAPS proofs of the
results that matter most for every size. `PROJECT.json` is the index: which
definition stands for which lines, which run checks what, which mistake each
property would catch.

## 1. Inventory

Paths are relative to the repository (`src/` here). *web* stands for
`apps/frontend/src`, *api* for `apps/backend/src`.

| Component | State | Operations | Interacts with | What is hard | What makes it correct |
|---|---|---|---|---|---|
| **FileSender** `web/webrtc/FileSender.ts` | `resumeFrom`, `cancelled`, `paused`, `finished`, two parked promises, one loop index, any number of `resendChunks` loops | `run`, `pause`, `resume`, `cancel`, `dispose`, handlers of `ready`, `request`, `verified` | FileReceiver over the data channel; SenderSession by events | loops interleave at every await; cancel, dispose and the ready timeout race them | a chunk's header and payload stay together; one outcome; `done` is true; only stored chunks are skipped |
| **Backpressure** `FileSender.applyBackpressure` | `channel.bufferedAmount`, the loops waiting for it | test HIGH_WATER, wait for `bufferedamountlow` | the browser's send buffer | lost wake-ups, loops woken together | the buffer is bounded, no loop waits for ever |
| **FileReceiver** `web/webrtc/FileReceiver.ts` | `received`, `pendingHeader`, `completeMessage`, `finalized`, the store | `onManifest`, `handleBinary` (a task per payload), `tryFinalize` | FileSender, the chunk stores, ResumeStore | tasks overtake each other and `complete`; every await may fail | what is saved is the file; missing chunks are asked for until they are there |
| **Chunk stores** `web/webrtc/storage` | chunks by index in memory, IndexedDB or OPFS; resume records by room | `init`, `put`, `getStoredIndices`, `assemble`; `save`, `load`, `delete`; `createChunkStore` | FileReceiver | reload in the middle, data of an earlier session, two tabs | what it lists it can assemble; nothing put is fetched again |
| **PeerConnection** `web/webrtc/PeerConnection.ts` | signaling state, pending candidates, `remoteDescriptionSet`, `closed` | `start`, `handleSignal`, `restartIce`, `close` | RTCPeerConnection; the peer through the server | offers and candidates arrive in any order of the handlers' awaits; restarts from both sides | no candidate is lost; after the last restart both ends agree |
| **SenderSession** `web/webrtc/SenderSession.ts` | a slot per guest: connection, sender, restart count; the page's list | `start`, `addPeer`, `startSending`, `removePeer`, `cancel`, `dispose` | SignalingClient, PeerConnection, FileSender, the page | guests come, go and come back between awaits; timers outlive slots | one sender per slot; nothing of a removed peer is shown |
| **ReceiverSession** `web/webrtc/ReceiverSession.ts` | one connection, one receiver, the host's peer id | `start`, `onSignal`, `retry`, `dispose` | SignalingClient, PeerConnection, FileReceiver, the page | retry and dispose during awaits; signals of an old connection | after retry a transfer is possible again; nothing survives dispose |
| **SignalingClient** `web/webrtc/SignalingClient.ts` | one socket | `connect`, `createRoom`, `joinRoom`, `relay`, `leave`, `disconnect` | the server | ack timeouts, reconnects that do not rejoin | a request settles |
| **SignalingGateway** `api/signaling/SignalingGateway.ts`, sweep timer in `api/server.ts` | `socket.data`, Socket.IO's rooms | create, join, relay, leave, disconnect, sweep | RoomManager, RateLimiter, clients | a sweep between two handlers, a second join on a socket | broadcasts reach the peers; clients know who is there |
| **RoomManager** `api/signaling/RoomManager.ts` | `rooms`, `peerToRoom` | create, join, leave, touch, sweep | the gateway | two maps that must agree | they do; no ghost peers; idle rooms go |
| **RateLimiter** `api/signaling/RateLimiter.ts` | a window per socket | `tryConsume`, `release` | the gateway | the edge of a window | at most `max` in a window |
| **Sha256Stream** `packages/utils/src/sha256.ts` | a partial block, a byte count | `update`, `digest` | FileSender, hashBlob | block boundaries, padding | the blocks hashed are the padded message |
| **Sizes** `packages/shared/src/constants.ts`, `packages/utils/src/chunking.ts` | none | chunk size, number and ranges | sender and receiver | the last chunk, the message limit | ranges tile the file and fit a message |
| **Hooks** `web/hooks` | React state of a page | session events, start, retry, unmount | sessions, pages | events that come late: after a removal, a verdict, a retry | the pages tell of the transfer what is so, and go on telling it |

Two kinds of concurrency run through all of it. Every program is
single-threaded JavaScript, so a handler is atomic up to its next `await` and
anything may happen at one; and every pair of programs communicates by ordered
messages that a closed connection cuts off. There are no crashes with recovery
apart from the page reload (a new receiver over the old chunk store) and the
restart of the server (which loses every room and tells nobody), no duplicated or
reordered messages within a channel, and timeouts at three places (ready, acks,
ICE restarts). `PROJECT.json` lists the hazards this makes, each at
its line.

## 2. Modules

| Module | Models | Extends / composes |
|---|---|---|
| `FileDelivery` | what a transfer promises, without protocol: chunks are kept or lost, a whole copy may be accepted, only an accepted copy is delivered, and one verdict is told | |
| `Transfer` | FileSender and FileReceiver over one data channel | implements `FileDelivery` |
| `TransferPages` | what both pages show of it: the events of sender and receiver, as the hooks apply them | extends `Transfer` with a row of the host's list and the guest's page |
| `Backpressure` | the loops of one FileSender on one send buffer | |
| `RoomManager` | the registry | |
| `SignalingServer` | the gateway and the sweep timer | extends `RoomManager` |
| `Negotiation` | two PeerConnections, the signals between them and the sessions' ICE restarts | |
| `RateLimiter` | the gateway's limit on a socket's messages | |
| `Resume` | one browser's chunk stores and resume record over reloads, retries and a second tab | composes any number of receivers over shared stores |
| `Sessions` | one room from its first page to its last: a SenderSession, the ReceiverSessions of its guests, their SignalingClients, hooks and pages | over a server as `SignalingServer` describes it, with connections as `Negotiation` and transfers as `Transfer` do, each reduced to what the sessions see of it |
| `FileHash` | the whole-file hash: Sha256Stream fed by the sender's chunks and by hashBlob's windows | |
| `TransferProofs`, `SignalingServerProofs`, `BackpressureProofs`, `NegotiationProofs`, `RateLimiterProofs`, `FileHashProofs`, `ResumeProofs`, `SessionsProofs` | proofs | extend the module they are about; `TransferProofs` is about `TransferPages` as well |
| `MC*` | model values for TLC | extend the module they check |

Definitions marked *a slip* in a module are plausible mistakes; nothing refers to
them, but each is what one property must catch (`mutants` in `PROJECT.json`).

### How state and actions correspond to the code

An action is the code from one `await` (or the entry of a handler) to the next.
`map` in `PROJECT.json` names the lines of every definition.

**Transfer.** `sPc` and `next` are where `FileSender.run` stands and its loop
index. `resends` counts the running `resendChunks` loops by the chunks they have
left, since loops with the same rest are the same. `listening` says that
`onMessage` is registered; `finished`, which only `verified` sets, is recovered
from it. `rPc` is where `onManifest` stands; `writing` and `rejecting` count the
`handleBinary` tasks whose bytes are good or are not, so tasks overtake each other
freely. `fin` is where `tryFinalize` stands, and `finalized` is `fin # "idle"`.
`toReceiver` and `toSender` are the two directions of the channel; when it closes,
any suffix of each is lost. Hashing and decrypting are modelled by what they tell
apart: bytes of the right chunk under the right key, or not. `Budget` says how
often each fault and each user action may happen in a behaviour: damaged bytes, a put
that is rejected before or after `complete`, a store that does not open, does not
assemble or changes bytes, a read, encryption or hash that fails in `run` (`read`,
which reports it) or in a resend loop before or after `complete` (`resend`,
`lateResend`, which nobody hears of), the ready timeout, and what users do.

**TransferPages.** `row` is what the host's page shows of a peer, `page` the
guest's. Every action is one of `Transfer` together with the events its code emits
in it, so a page changes in the step that causes it. `phase` and `count` follow the
code's order of events: `lastStats` of an early `verifying` replaces the counters,
a failure after a success is shown over it. `connection` is what the host's session
hears of the peer connection: when it becomes `failed`, the row does, whatever the
sender has reported. The channel need not close with it, nor the connection fail when
the channel closes. `MostFaults` bounds how many of the faults and user actions, the
failed connection among them, a behaviour holds.

**Backpressure.** One `pc` per loop. A loop that `bufferedamountlow` has woken
pushes before anything but other woken loops runs, as microtasks do.

**RoomManager, SignalingServer.** `open`, `members` and `peerToRoom` are the two
maps, `age` how long a room has been without signaling (saturating just over
`Ttl`), `peerOf` and `roomOf` are `socket.data`, `ioRoom` Socket.IO's own rooms,
and `told` what a client knows when it has read all events sent to it. A handler is
synchronous, so each is one action. Requests that are refused change nothing and
are not actions. `Rejoin` says whether a client may create or join while it is in a
room, which the gateway does not refuse.

**Negotiation.** An RTCPeerConnection queues the operations asked of it; `chain`
holds what an end has asked for, and the code after each `await` runs in the action
that ends the operation. The candidates `flushCandidates` adds one after the other are
asked for together, so what another signal asks for in between comes after them; no
property depends on it. A description is a number that stands for its ICE
credentials. `lost` is the offer whose network path is gone: ICE connects the ends
when they hold each other's descriptions, each has the other's candidate, and they
are not those of the lost path. `StaleTimers` is how many restart timers of the
guest are left from a connection before a retry. Closing a connection is in
`Sessions`.

**Resume.** A receiver is a number, in the order they start; `pc` is the await it
stands at. `database` and `file` are shared, `own` is what only one receiver has:
its Map, or the writable OPFS opened on a copy of the file. A reload ends a
receiver and loses `own`; an interruption leaves its tasks running. A file is its
length and the chunks of it that are not holes. `torn` records that one receiver
closed its writable between another one's two looks at the file, and `verified`
which chunks were ever put: no action looks at either.

**Sessions.** The server handles a request when it is made; what it tells a client
waits in the client's `inbox`, in order, and a connection that drops loses it. A
guest's n-th join is peer `<<g, n>>`. `end` is the host's connection for a peer and
`conn` the guest's one connection, `offer` the offer it works with: the two meet
when both name the same peer. `at` is where `start()` stands, `life` where
`dispose()` does, `leaving` how many retries await their leave. The server never
answers `leave` (it takes the payload for the ack), so each leave ends with the ten
seconds of its timeout; that what is on its way arrives within them is assumed,
unless the fault "slow" happens. A signal that is refused or cannot be made
(`OfferRefused`, `AnswerRefused`: the rate limit, the ten seconds, an operation that
rejects) leaves its end `unheard` without a word, a transfer may end with an error
(`TransferFails`) or without one (`TransferStalls`). `Scenarios` bounds joins and
faults. No action
looks at `overlapped` and `hurried`.

**RateLimiter.** `buckets` as in the code; `accepted` and `refused` record what the
sockets saw.

**FileHash.** `block` keeps what earlier pieces left behind its filled part, as the
code's buffer does; `hashed` stands for the state of the compression function by
everything that went into it.

## 3. Runs and bounds

| Run | What it asks | Bounds, and why they are enough |
|---|---|---|
| `transfer_everything` | pairing of headers and payloads, soundness of resume, one verdict, cancel, refinement of `FileDelivery`, with every fault and user action once in any order | two chunks: enough for two loops on different chunks and a chunk that is skipped while another is not |
| `transfer_storage` | no false success, no false alarm, no missing chunk forgotten, the file arrives and both pages say so for good, a verdict stays on the host's page unless the connection fails | `TransferPages` with three chunks and requests for one (missing chunks beyond the request exist), every key, any two of the faults and user actions but pause, which no page offers; a connection that fails once is one of them |
| `backpressure_buffer` | the buffer's limit, no missed event, loops end | three loops of up to three chunks; HIGH is two chunks, so that loops block together |
| `server_clients` | the registry's maps, `socket.data`, ghosts, broadcasts, what clients know, idle rooms | two rooms of at most three peers, three sockets, four peer ids (a peer id is used once): full rooms, a leave and a new join, a sweep in between |
| `server_ghost` | *violation*: a second create or join on one connection | two sockets |
| `negotiation_recovery` | no candidate lost, no offer unanswered; unless restarts overlap the ends agree and the connection comes back for good | two drops that either end, or both, notice in any order, connections that come back by themselves, one restart attempt, a timer left over from before a retry |
| `negotiation_overlap` | *violation*: both ends notice one drop | one drop |
| `limiter_windows` | at most twice the limit in a window's length, no groundless refusal | limit 2, windows of 3 ticks, three windows |
| `hash_pieces` | whatever the pieces, the padded file is hashed | blocks of 6 cells; every file of up to three blocks and a piece, in chunks from one byte to over two blocks |
| `resume_reloads` | what a receiver tells the sender to skip is there when it assembles; IndexedDB resumes from all that was put; a download that is not interrupted ends | three receivers, two of them at once, two chunks, every browser and store: a session before, one beside, and one after |
| `sessions_rooms` | slots follow the room, answers meet their offers, disposed sessions leave nobody, the page lists the slots, a waiting guest is served or told, unless it is stranded in a way that is listed | two guests, in two scenarios: one retries beside the other, with one fault of the signaling (drop, restart, slow, sweep); one alone tries three times, with any two faults, refused signals and transfers that stall among them |
| `sessions_loop` | *violation*: the claim that the server is out of the loop once the channel is open | one guest, one drop |

A deadlock is no error in any run: transfers, clients and clocks stop when their
budget is spent, and the last receiver of a browser is its last.

**Fairness.** `Transfer` assumes that awaited promises settle and that an open
channel delivers; nothing is assumed of users and faults. `Backpressure` assumes
that an open channel takes bytes in the end, which is what a reliable channel is,
and that reads end. `SignalingServer` assumes that the interval timer fires again
and again and that time passes; nothing is assumed of clients. `Negotiation` assumes
that operations of an RTCPeerConnection end, signals arrive (the signaling
connection is up), timers fire, and ICE connects what can be connected. `Resume`
assumes that awaited promises settle and that an open channel delivers. `Sessions`
assumes the same of awaits, inboxes, timers, transfers that do not stall, and of ICE between two ends
that hold each other's descriptions; nothing of users, faults, reconnects, or of a
connection whose descriptions two offers have tangled. One condition for all of
these steps is enough, for none of them can be repeated for ever.

## 4. Proofs

The theorems hold for every value of the constants. Each rests on an inductive
invariant that TLC checked first.

| Theorem | Property | Argument |
|---|---|---|
| `TransferProofs!TypeCorrect` | `TypeOK` | one lemma per action |
| `TransferProofs!SkippedChunksAreStored` | `ResumeIsSound` | the store only grows, and `ready` is sent from it |
| `TransferProofs!EveryPayloadIsPaired` | `PairingUnambiguous` | `PairedNow`: along the whole queue every payload directly follows its header, and the head's header is the pending one; every push keeps the shape, every cut leaves a prefix of it |
| `TransferProofs!BothEndsTellTheTruth` | `ToldTheTruth` | `TruthInv`: `fin` past the check means the assembled file was whole, a positive `verified` exists only then, and a positive one under way keeps `fin` there |
| `TransferProofs!OnlyOneVerdict` | `OneVerdict` | `VerdictInv`: where `run` stands, which frames the receiver can have seen, and which events were emitted; no `verified` can be under way before `complete` was sent |
| `TransferProofs!OnlyRotAlarms` | `NoFalseAlarm` | `WholeInv`: without rot nothing stored is tainted, and assembling begins with every chunk stored |
| `TransferProofs!ImplementsDelivery` | `DeliverySpec` | refinement: initial states map to initial states and every step to a step or a stutter of `FileDelivery`, from the invariants above |
| `TransferProofs!NothingIsForgotten` | `NeverForgotten` | `GreetedInv`: the manifest is the first frame of a queue, and file frames, replies and tasks exist only once the receiver has answered it, so a frame of bytes is always handled by a receiver that looks whether the file is complete. `RememberedInv` adds what ends a transfer otherwise (a finished one has all chunks, a cancelled one does not listen). A chunk leaves the way it is on only where the code takes it further (`WayStays`), and every step that finds chunks missing after `complete` asks for some, unless a put or a resend loop fails that late, which the property exempts; with the pairing of the queue a chunk's bytes are never dropped for want of a header |
| `TransferProofs!NoChunkAfterCancel` | `CancelStopsLoops` | action property, from `TypeOK`: only a loop lengthens the queue by two frames, and one that finds itself cancelled ends in that step |
| `TransferProofs!PagesWatchATransfer` | | refinement: every step of `TransferPages` is one of `Transfer`, so all of the above holds under the pages |
| `TransferProofs!TheVerdictStays` | `VerdictStays` | action property; `RowInv`: the row has a verdict only after the sender reported one; by `VerdictInv` its loop has ended by then, and it reports no second time. What is left is a connection that fails, which the property names |
| `TransferProofs!ThePagesTellTheTruth` | | `HeardInv` joins each page to its own end's events, and `TruthInv` those to the file: a row that says `completed` is about a guest that holds the whole intact file, a guest's page that says so has saved it |
| `SignalingServerProofs!TypeCorrect`, `RegistryMapsAgree`, `SocketDataSound` | `TypeOK`, `RegistryConsistent`, `SocketDataIsSound` | for any clients (`Rejoin` or not); `SocketsInv` ties `socket.data` to the peers' records |
| `SignalingServerProofs!NoGhosts`, `BroadcastsReachAll`, `ClientsKnowTheirPeers` | `PeersAreConnected`, `BroadcastsReachThePeers`, `EveryoneIsTold` | assuming `~Rejoin`; `ReachInv` adds that Socket.IO's room of an open room is exactly the sockets that stand for its peers, and what was told follows members |
| `BackpressureProofs!NothingIsMissed` | `NoLostDrain` | a loop blocks only at HIGH or above, and every fall through LOW wakes all |
| `BackpressureProofs!BufferIsBounded` | `BufferBounded` | `BoundInv`: the buffer and what the woken loops will add to it stay within the limit; the bound alone is not inductive |
| `NegotiationProofs!TypeCorrect` | `TypeOK` | one step per action; what an operation that ends leaves in `chain` and `wire` is stated once |
| `NegotiationProofs!NoCandidateForgotten` | `CandidatesKept` | `CandidatesFollow`: wherever the description in force is on its way (wire, chain or set), its candidate comes after it, or is buffered for the first one; a claim about the last of these places alone is not inductive |
| `NegotiationProofs!OffersAnswered` | `EveryOfferAnswered` | `OfferArrives`: the last description on its way to the guest is the host's last offer; `AnswerComes`: an offer that waits has its answer, or what will become one, on its way |
| `NegotiationProofs!OneRestartConnects` | `OneRestartAgrees` | `OneRound`: while no offer is made during another one's round, the round is in exactly one of six places (offer sent, to be set, being answered, answer sent, to be set, or over) |
| `RateLimiterProofs!TypeCorrect`, `AtMostTwice`, `NoGroundlessRefusal` | `TypeOK`, `BurstsBounded`, `RefusedForAReason` | `WindowsInv`: the bucket counts the messages of the current window, and at most `Max` lie less than a window's length before it; a look of a window's length sees these two only |
| `FileHashProofs!NothingIsLost`, `BothHashTheFile` | `NothingLost`, `HashOfTheFile` | `Hashing`: a stream that is not finished holds the file's first `totalBytes` bytes, cell by cell, those processed being a whole number of blocks; `totalBytes` is what the chunks or windows so far come to; a finished stream holds the padded file. Each of the three parts of `update` keeps the first (`PieceStashed`, `BlockProcessed`, `PieceProcessed`); `digest` needs one block or two (`OneBlock`, `TwoBlocks`), and the number of zeros either way is the least one because it is below a block (`LeastZeros`) |
| `FileHashProofs!ChunksTileTheFile` | | about `computeTotalChunks` and `chunkRangeAt`: no chunk is empty or too large, each begins where the one before ends, together they are the file |
| `ResumeProofs!Typed`, `StoreHasWhatItLists`, `NothingIsSpoiled` | `TypeOK`, `ListedCanBeAssembled`, `NoFalseAlarm` | `KeptInv`: a file is as never written or whole, since it is closed with all chunks only; a receiver that is about to list an OPFS file still has a copy of it; what is assembled was all received. None of this is inductive alone |
| `ResumeProofs!DatabaseResumes` | `ResumesFromTheDatabase` | `OneKind`: in one browser every record and every receiver has the kind of store that is its first choice, so all that was put is in the database |
| `SessionsProofs!TypeCorrect` | `TypeOK` | one lemma per part of the system; joins tried, under way and made add up |
| `SessionsProofs!PageShowsSlots` | `PageShowsTheSlots` | inductive, once `ListStep` has said which steps touch slots, list and senders |
| `SessionsProofs!NobodyIsLeftBehind` | `DisposedLeavesNothing` | `There`: nobody is in the room without a signaling connection, nor while one of its leaves is awaited, and, while retries do not overlap, nobody twice; a session that was disposed of may still join, so the property alone is not inductive |
| `SessionsProofs!SlotsAreTheRoom` | `SlotsFollowTheRoom` | `Following`: for every peer, that the host has a connection for it differs from its being in the room by exactly what the host has not read (`MadeUp`); of one peer, the coming is told before the going (`TellsInOrder`); an id that is in the room, in a slot or in the inbox has been given out (`KnownOnes`), so no id comes twice. `RoomStep` says first which of six things a step can do to room, slots and inbox |
| `SessionsProofs!AnswersAreMatched` | `AnswersMatch` | `Matching`: an offer a guest is working at or has yet to read is its present peer's, or it is no peer; every answer on its way to the host names its own peer; a guest outside the room has nothing to read. one lemma per kind of step, with `There` for a join while an old leave is awaited |

`server_clients` runs with `Rejoin` false; that the registry and `socket.data` stay
sound when clients rejoin as they like is what the theorems add.

`NoFalseAlarm` of `Resume` and `TypeOK` of `Backpressure` and `Negotiation` are
proved and not run.

Only model-checked: liveness (`Completes`, `LoopsEnd`, `IdleRoomsExpire`,
`Recovers`, `Finishes`, `ServedOrTold`), which is beyond the prover: it needs
fairness and ENABLED. Every invariant and every action property that a passing run
checks is proved. The three properties that fail are counterexamples, not theorems.

Assumptions on the constants are those of the modules (`ASSUME`), which the runs
evaluate; `~Rejoin` is a hypothesis of three theorems, for without it they are false
(`server_ghost`). `FileHash` assumes blocks of more than the two cells of the length,
chunks of at least one byte, and files whose length in bits fits two words; no proof
needs the last of these.

## 5. What the code does not do as documented

* **Ghost peers** (`server_ghost`). A second create or join on one connection
  overwrites `socket.data`; the first peer stays listed with nobody behind it. The
  web client gets there with two overlapping retries.
* **Out of the loop** (`sessions_loop`). The repository's README says of the moment
  the data channel opens: "From here on, the signaling server is out of the loop".
  A guest whose signaling connection drops is taken out of the room; the host hears
  `peer-left` and closes the channel its file is arriving on.
* **Overlapping restarts** (`negotiation_overlap`). When both ends notice one drop,
  two restart offers overlap, and the answer to the first is taken for the answer to
  the second.

What the models show besides, without a run that is expected to fail:

* **The buffer** (`Backpressure`). Loops that one `bufferedamountlow` wakes all push
  without looking at the buffer again, over the HIGH_WATER of the comment in
  `constants.ts`. The buffer is still bounded (`BufferBounded`), by the number of
  loops.
* **Resuming** (`Resume`). Only IndexedDB resumes after a reload. The memory store,
  which every file up to 64 MB gets, and OPFS, whose writable is thrown away, start
  from nothing, although README lines 35 to 36 promise to continue from the last
  verified chunk. What OPFS lists is measured after its writable has copied the
  file: if another receiver of this browser closes its own in between (`torn`),
  chunks are listed that this copy lacks. `clear()` is never called, so the chunks
  of every download stay. Resuming does not need the record: the transfer id finds
  the chunks.
* **Pages** (`TransferPages`). A row of the host's list that says `completed` shows
  0 %, for the counters of the event before it are zero. The guest's badge falls back
  from verifying to transferring when the put of a duplicate ends late; its page may
  say "interrupted" of a file that was saved, when a mismatch is made good late.
* **Chunks nobody asks for again** (`Transfer`, `DroppedLate`). `handleBinary` and
  `resendChunks` are started with `void`, and nothing catches what they throw. A put
  that is rejected after `complete`, or a resend loop that fails to read, encrypt or
  hash a chunk, drops its chunks: no put follows that would look for missing ones, and
  the transfer stalls at both ends without a word. Before `complete` the same is made
  good. So does a rejected `assemble` or hash end it (`fin = "stuck"`), and with a key
  that opens nothing every chunk is asked for for ever.
* **Failed connections** (`TransferPages`, `ConnectionFails`). A connection that fails
  after the guest has confirmed the file turns the row of the host's list from
  `completed` to `failed`, as long as the peer is listed; before a verdict, progress or
  the verdict itself may replace that `failed`, for the sender is not told.
* **Stranded guests** (`Sessions`, `Stranded`). A guest's page waits without a word
  when `connect()` was rejected, when the host is gone, when its connection dropped
  and came back (it is in no room then, and nobody joins again), when the peer
  connection failed for good or its sender did, when its offer or answer was refused
  (`relay` returns false and neither session looks), and when its transfer stalled as
  above. Retry is offered with an error only,
  though a comment in `ReceiverSession.ts` (lines 22 to 25) means it for hard drops.
  A swept room closes a running transfer's page with an error; the host is not told.
* **Lists** (`Sessions`, `PageShowsTheSlots`). A sender that was removed at work
  reports once more, and its peer stays on the host's list; a guest that has
  finished and leaves is no longer counted.
* **Sessions disposed of too early** (`life = "late"`). Before it has a socket a
  session cannot be stopped: it joins the room later and stays.

## 6. Not modelled

Rates and remaining times (display only), JSON and zod validation (both ends
produce valid frames, and an invalid one is dropped without a change of state), the
cryptographic algorithms (modelled by what they tell apart), the HTTP routes,
configuration and logging of the backend, React components and styles, build and
deployment. A clock that is set back, which would lengthen a rate limit's window and
a room's life, is left out.

`Sessions` leaves out full rooms, which a guest sees as a refused join, and counts no
messages: the rate limit is in a module of its own, and what it does to the sessions is
a fault here. A refused join is a refused request; a refused relay is silent, an offer's
or an answer's as `OfferRefused` and `AnswerRefused`, candidates' as `Lose`. It also
leaves out the badges for the state of
a connection, the host's own `createRoom` timing out (as a failed connect), and
React's double start in development, which `main.tsx` does not turn on. A closed
tab is a dropped connection that does not come back.

## 7. Plan

The order is by what a user would miss most. Parts 1 to 8 are done.

1. `FileDelivery`, `Transfer` and their proofs.
2. `RoomManager`, `SignalingServer` and their proofs.
3. `Backpressure` and its proofs.
4. `Negotiation` and its proofs.
5. `RateLimiter` with proofs, `FileHash`.
6. `Sessions` and `TransferPages`.
7. `Resume`, with proofs, and the proofs of `Sessions`.
8. The proofs that were left: `NeverForgotten`, `CancelStopsLoops`, `VerdictStays`,
   `FileHash`, and the two invariants of `Sessions` that need the order of an inbox.
9. Left: that the server of `Sessions` is the one of `SignalingServer`: a refinement
   that needs a history variable for the age of a room, which `Sessions` leaves out;
   a module for the speed meter's window, should anything come to depend on it.
