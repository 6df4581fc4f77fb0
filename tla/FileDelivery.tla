---------------------------- MODULE FileDelivery ----------------------------
(***************************************************************************)
(* What a transfer promises, whatever the channel, the storage and the two *)
(* users do: the file that the guest is given is assembled from a complete *)
(* and intact set of chunks, and the host is told so once and only after   *)
(* the guest's end has checked it.  README.md states it as "the receiver   *)
(* re-hashes the whole file [...] guaranteeing zero corruption".           *)
(***************************************************************************)
CONSTANT Chunks     \* the chunks of the file

VARIABLES
    kept,           \* chunks the guest holds intact
    copy,           \* chunks intact in the file assembled last
    accepted,       \* the assembled file has passed its check
    delivered,      \* the guest has been given the file
    verdict         \* what the host has been told: "none", "done" or "failed"

vars == <<kept, copy, accepted, delivered, verdict>>

Init ==
    /\ kept \in SUBSET Chunks
    /\ copy = {} /\ ~accepted /\ ~delivered
    /\ verdict = "none"

Keep(i) ==
    /\ kept' = kept \union {i}
    /\ UNCHANGED <<copy, accepted, delivered, verdict>>

Lose(i) ==
    /\ kept' = kept \ {i}
    /\ UNCHANGED <<copy, accepted, delivered, verdict>>

\* A file is assembled again only while none has been accepted.
Assemble ==
    /\ ~accepted
    /\ copy' = kept
    /\ UNCHANGED <<kept, accepted, delivered, verdict>>

Accept ==
    /\ copy = Chunks
    /\ accepted' = TRUE
    /\ UNCHANGED <<kept, copy, delivered, verdict>>

Deliver ==
    /\ accepted
    /\ delivered' = TRUE
    /\ UNCHANGED <<kept, copy, accepted, verdict>>

\* The host hears one verdict, and `done` only about an accepted file.
Tell ==
    /\ verdict = "none"
    /\ verdict' \in IF accepted THEN {"done", "failed"} ELSE {"failed"}
    /\ UNCHANGED <<kept, copy, accepted, delivered>>

Next ==
    \/ \E i \in Chunks : Keep(i) \/ Lose(i)
    \/ Assemble \/ Accept \/ Deliver \/ Tell

Spec == Init /\ [][Next]_vars
=============================================================================
