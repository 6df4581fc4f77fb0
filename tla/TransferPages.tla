----------------------------- MODULE TransferPages -----------------------------
(***************************************************************************)
(* A transfer as its two pages show it: the recipient's row on the host's  *)
(* page and the guest's room page, fed by the events of module Transfer's  *)
(* FileSender and FileReceiver through their sessions and hooks.           *)
(*                                                                         *)
(* A phase event carries no progress: for the host it comes with the zeros *)
(* of lastStats, which replace what the row showed; for the guest with     *)
(* statistics the hook ignores.  Rates and times are left out.  No page    *)
(* calls pause() or resume().                                              *)
(*                                                                         *)
(* The host's session also listens to its connection: one that fails turns *)
(* the row to `failed`, whatever FileSender has reported.  The channel     *)
(* need not close with it, since an ICE restart may bring the connection   *)
(* back, nor need the connection fail when the guest closes the channel.   *)
(***************************************************************************)
EXTENDS Transfer

CONSTANT MostFaults     \* the bound on faults and user actions in one behaviour

ASSUME MostFaultsAssumption == MostFaults \in Nat

VARIABLES
    connection,     \* has the host's connectionState been `failed`; once is the bound
    row,            \* the peer on the host's page, or NoRow
    page            \* the guest's page

pages == <<connection, row, page>>

\* (Definitions marked "a slip" are mistakes the runs must catch; nothing else
\* refers to them.)
Row(phase, count) == [phase |-> phase, count |-> count]
NoRow == Row("absent", 0)

PagesInit ==
    /\ Init
    /\ connection = "connected"
    /\ row = Row("negotiating", 0)
    /\ page = [phase |-> "idle", count |-> 0, error |-> FALSE, done |-> FALSE]

-----------------------------------------------------------------------------
(* The host's page                                                         *)

Forgotten == IF disposed' # disposed THEN NoRow ELSE row            \* peer-left

\* peer-progress: run() emits a phase, or the statistics of a chunk.
PhaseOnly(phase) == Row(phase, 0)
EmitStats(currentChunk) == Row("transferring", currentChunk)

LoopShows(r) ==
    CASE sPc' = "sentAll" /\ sPc # "sentAll" -> PhaseOnly("verifying")
      [] sPc = "awaitReady" /\ sPc' = "busy" -> PhaseOnly("transferring")
      [] next' # next -> EmitStats(next')
      [] OTHER -> r

\* peer-done and peer-failed change a row that is there.
KeepsTheProgress(r) == r                                            \* a slip
VerdictShows(r) ==
    IF sEvents' = sEvents \/ r = NoRow THEN r
    ELSE [r EXCEPT !.phase = IF "done" \in sEvents' \ sEvents THEN "completed"
                             ELSE "failed"]

HostShows ==
    /\ row' = VerdictShows(LoopShows(Forgotten))
    /\ UNCHANGED <<connection, page>>

\* onPeerState: the slot is there until the sender is disposed of.
ConnectionFails ==
    /\ connection = "connected" /\ ~disposed
    /\ connection' = "failed"
    /\ row' = [row EXCEPT !.phase = "failed"]
    /\ UNCHANGED <<vars, page>>

-----------------------------------------------------------------------------
(* The guest's page                                                        *)

Stats(pg) == [pg EXCEPT !.phase = "transferring", !.count = Cardinality(stored')]
Failed(pg) == [pg EXCEPT !.phase = "failed", !.error = TRUE]
Done(pg) == [pg EXCEPT !.phase = "completed", !.done = TRUE]

Finalizing(pg) ==
    IF fin # fin' /\ fin' = "assembling" THEN [pg EXCEPT !.phase = "verifying"] ELSE pg

GuestShows(pg) == page' = pg /\ UNCHANGED <<connection, row>>

\* What the room page is about; the phase only matters before the end.
Shows ==
    IF page.error THEN "interrupted"
    ELSE IF page.done THEN "complete"
    ELSE IF page.phase \in {"transferring", "verifying", "paused"} THEN "progress"
    ELSE "connecting"

-----------------------------------------------------------------------------
Unseen ==
    \/ OnHeader \/ OnData \/ Assemble \/ OpenFails \/ AssembleFails
    \/ \E i \in Chunks : RejectChunk(i) \/ PutFails(i) \/ Rot(i)

GuestStep ==
    \/ OnManifest /\ GuestShows(IF key = "absent" THEN Failed(page) ELSE page)
    \/ OpenStore /\ GuestShows(Stats(page))
    \/ \E i \in Chunks : StoreChunk(i) /\ GuestShows(Finalizing(Stats(page)))
    \/ OnComplete /\ GuestShows(Finalizing(page))
    \/ OnCancel /\ GuestShows(Failed(page))
    \/ Verify /\ GuestShows(IF WholeFileMatches THEN page ELSE Failed(page))
    \/ Deliver /\ GuestShows(Done(page))
    \/ Unseen /\ UNCHANGED pages

HostStep == (SenderStep \/ SenderFault \/ Cancel \/ Dispose \/ Close) /\ HostShows

Faulty == {f \in Faults : left'[f] < Budget[f]}
          \union {c \in {"failed"} : connection' = c}

PagesNext ==
    /\ HostStep \/ GuestStep \/ ConnectionFails
    /\ Cardinality(Faulty) <= MostFaults

PagesSpec == PagesInit /\ [][PagesNext]_<<vars, pages>> /\ Fairness

-----------------------------------------------------------------------------
\* Whoever has the key gets the file, and both pages say so and go on saying so:
\* whatever is damaged on its way, although a chunk cannot be written or sent again at
\* first, and whatever tasks come to their end after the last chunk, unless a user or a
\* fault that nothing makes good ends the transfer, or the connection fails.
Completes ==
    key = "right" /\ [](Unharmed /\ connection = "connected")
        => <>[](row.phase = "completed" /\ Shows = "complete" /\ page.count = TotalChunks)

\* What the sender has reported of a peer's transfer stays in its row for as long as
\* the peer is listed: the loops still at work, late replies and a second verdict put
\* nothing over it.  Only a connection that fails does, and it turns even a transfer
\* that is `completed` to `failed`.
VerdictStays ==
    [][sEvents # {} /\ ~disposed'
           => \/ row' = row
              \/ ConnectionFails /\ row'.phase = "failed"]_<<vars, pages>>
=============================================================================
