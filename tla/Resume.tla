------------------------------- MODULE Resume -------------------------------
(***************************************************************************)
(* What a guest's browser keeps of a download over page reloads, retries   *)
(* and a second tab: the three chunk stores, the resume record of the      *)
(* room, and the FileReceivers that use them.                              *)
(*                                                                         *)
(* A room has one host, which makes one manifest: the transfer id and the  *)
(* file behind a room link never change, and a record that is there        *)
(* matches the manifest.  What a receiver saves is therefore told apart by *)
(* the kind of store alone.  Chunks are whole and verified when they are   *)
(* put (module Transfer); a chunk is its index.                            *)
(*                                                                         *)
(* Receivers are the FileReceivers of this browser, in whatever tab: a     *)
(* retry makes a new one while the tasks of the old one go on, a reload    *)
(* ends all of a page's at once.  An action runs from one await to the     *)
(* next.                                                                   *)
(***************************************************************************)
EXTENDS Naturals, FiniteSets

CONSTANTS
    MostReceivers,  \* the bound on how often the link is opened or retried
    AtOnce,         \* the bound on receivers that work at the same time
    TotalChunks,
    None            \* no record, no store

Kinds == {"memory", "indexeddb", "opfs"}

ASSUME MostReceiversAssumption == MostReceivers \in Nat
ASSUME AtOnceAssumption == AtOnce \in Nat
ASSUME TotalChunksAssumption == TotalChunks \in Nat
ASSUME NoneAssumption == None \notin Kinds

Receivers == 1 .. MostReceivers     \* in the order they start in
Chunks == 0 .. TotalChunks - 1

VARIABLES
    browser,        \* what there is: idb, opfs; and of the file: small, short
    record,         \* storageKind in the room's ResumeRecord, or None
    database,       \* chunks in IndexedDB under the transfer id
    file,           \* the OPFS file
    pc,             \* where a receiver stands
    live,           \* its channel is open and it listens
    kind,           \* store.kind
    received,
    writing,        \* chunks in a handleBinary task that awaits put
    own,            \* what its store alone holds: the Map in memory, the writable
    gotComplete,    \* completeMessage is set
    verified,       \* chunks that any receiver has put
    torn            \* a writable was closed between another one's two looks at the file

persistent == <<browser, record, database, file>>
receiver == <<pc, live, kind, received, writing, own, gotComplete>>
vars == <<persistent, receiver, verified, torn>>

\* A file, by its length in chunks and those of them that are not holes.
\* (Definitions marked "a slip" are mistakes the runs must catch; nothing else
\* refers to them.)
Contents == [size : 0 .. TotalChunks, good : SUBSET Chunks]
Nothing == [size |-> 0, good |-> {}]
OneLonger(n, i) == n + 1                                            \* a slip
Longer(n, i) == IF i < n THEN n ELSE i + 1
Write(f, i) == [size |-> Longer(f.size, i), good |-> f.good \union {i}]

Init ==
    /\ browser \in [idb : BOOLEAN, opfs : BOOLEAN, small : BOOLEAN, short : BOOLEAN]
    /\ record = None /\ database = {} /\ file = Nothing
    /\ pc = [a \in Receivers |-> "new"]
    /\ live = [a \in Receivers |-> FALSE]
    /\ kind = [a \in Receivers |-> None]
    /\ received = [a \in Receivers |-> {}]
    /\ writing = [a \in Receivers |-> {}]
    /\ own = [a \in Receivers |-> Nothing]
    /\ gotComplete = [a \in Receivers |-> FALSE]
    /\ verified = {} /\ torn = FALSE

GoTo(a, where) == pc' = [pc EXCEPT ![a] = where]

-----------------------------------------------------------------------------
(* onManifest                                                              *)

Working(a) ==
    /\ pc[a] \notin {"new", "done", "failed", "gone"}
    /\ pc[a] = "receiving" => live[a] \/ writing[a] # {}

Start(a) ==
    /\ pc[a] = "new" /\ \A b \in Receivers : b < a => pc[b] # "new"
    /\ Cardinality({b \in Receivers : Working(b)}) < AtOnce
    /\ GoTo(a, "loading")
    /\ live' = [live EXCEPT ![a] = TRUE]
    /\ UNCHANGED <<persistent, kind, received, writing, own, gotComplete,
                   verified, torn>>

\* createChunkStore: the store of the record if the browser has it.
Possible(k) == \/ k = "memory"
               \/ k = "indexeddb" /\ browser.idb
               \/ k = "opfs" /\ browser.opfs
FirstChoice == IF browser.small THEN "memory"
               ELSE IF browser.idb THEN "indexeddb"
               ELSE IF browser.opfs THEN "opfs" ELSE "memory"
AlwaysTheDatabase(saved) ==                                         \* a slip
    IF saved # None /\ browser.idb THEN "indexeddb" ELSE FirstChoice
StoreKind(saved) ==
    IF saved # None /\ Possible(saved) THEN saved ELSE FirstChoice

\* ResumeStore.load answers null when there is no record, and when it fails.
Load(a) ==
    /\ pc[a] = "loading"
    /\ \E saved \in {record, None} : kind' = [kind EXCEPT ![a] = StoreKind(saved)]
    /\ GoTo(a, "opening")
    /\ UNCHANGED <<persistent, live, received, writing, own, gotComplete,
                   verified, torn>>

\* store.init: OPFS opens its writable on a copy of the file, and looks at the
\* file afterwards.
EmptyWritable(a) == Nothing                                         \* a slip
Writable(a) == IF kind[a] = "opfs" THEN file ELSE Nothing

OpenStore(a) ==
    /\ pc[a] = "opening"
    /\ own' = [own EXCEPT ![a] = Writable(a)]
    /\ GoTo(a, "listing")
    /\ UNCHANGED <<persistent, live, kind, received, writing, gotComplete,
                   verified, torn>>

\* getStoredIndices, for OPFS after init has counted the file's full chunks.
FullChunks(f) ==
    {i \in Chunks : i < f.size /\ ~(browser.short /\ i = TotalChunks - 1)}

Listed(a) == CASE kind[a] = "memory" -> own[a].good
               [] kind[a] = "indexeddb" -> database
               [] kind[a] = "opfs" -> FullChunks(file)

ListStore(a) ==
    /\ pc[a] = "listing"
    /\ received' = [received EXCEPT ![a] = Listed(a)]
    /\ GoTo(a, "saving")
    /\ UNCHANGED <<persistent, live, kind, writing, own, gotComplete,
                   verified, torn>>

\* ResumeStore.save, which may fail without a word, and then `ready`.
Save(a) ==
    /\ pc[a] = "saving"
    /\ record' \in IF browser.idb THEN {kind[a], record} ELSE {record}
    /\ GoTo(a, "receiving")
    /\ UNCHANGED <<browser, database, file, live, kind, received, writing, own,
                   gotComplete, verified, torn>>

-----------------------------------------------------------------------------
(* Chunks come in order; their tasks overtake each other.                  *)

Begun(a) == received[a] \union writing[a]

ChunkArrives(a) ==
    /\ pc[a] = "receiving" /\ live[a]
    /\ \E i \in Chunks \ Begun(a) :
           /\ \A j \in Chunks : j < i => j \in Begun(a)
           /\ writing' = [writing EXCEPT ![a] = @ \union {i}]
    /\ UNCHANGED <<persistent, pc, live, kind, received, own, gotComplete,
                   verified, torn>>

\* put, where it is over: a transaction of its own, the Map, or the writable.
Keep(a, i) ==
    IF kind[a] = "indexeddb"
    THEN database' = database \union {i} /\ UNCHANGED own
    ELSE own' = [own EXCEPT ![a] = Write(@, i)] /\ UNCHANGED database

\* tryFinalize, behind a put or on `complete`.
Finalize(a, has, complete) ==
    IF complete /\ has = Chunks /\ pc[a] = "receiving"
    THEN GoTo(a, "assembling") ELSE UNCHANGED pc

Rest(a, has) == UNCHANGED pc                                        \* a slip
AfterPut(a, has) == Finalize(a, has, gotComplete[a])

Put(a, i) ==
    /\ i \in writing[a]
    /\ Keep(a, i)
    /\ writing' = [writing EXCEPT ![a] = @ \ {i}]
    /\ received' = [received EXCEPT ![a] = @ \union {i}]
    /\ verified' = verified \union {i}
    /\ AfterPut(a, received[a] \union {i})
    /\ UNCHANGED <<browser, record, file, live, kind, gotComplete, torn>>

OnComplete(a) ==
    /\ pc[a] = "receiving" /\ live[a] /\ ~gotComplete[a]
    /\ Begun(a) = Chunks
    /\ gotComplete' = [gotComplete EXCEPT ![a] = TRUE]
    /\ Finalize(a, received[a], TRUE)
    /\ UNCHANGED <<persistent, live, kind, received, writing, own, verified,
                   torn>>

-----------------------------------------------------------------------------
(* assemble and hashBlob: what is hashed is what was assembled.            *)

Conclude(a, whole) == GoTo(a, IF whole THEN "deleting" ELSE "failed")

\* The chunks it finds, in its own Map or in the database; a missing one throws.
Gathered(a) == IF kind[a] = "memory" THEN own[a].good ELSE database

Assemble(a) ==
    /\ pc[a] = "assembling" /\ kind[a] # "opfs"
    /\ Conclude(a, Gathered(a) = Chunks)
    /\ UNCHANGED <<persistent, live, kind, received, writing, own, gotComplete,
                   verified, torn>>

\* OPFS: close() makes the writable's contents the file's.
CloseFile(a) ==
    /\ pc[a] = "assembling" /\ kind[a] = "opfs"
    /\ file' = own[a]
    /\ torn' = (torn \/ \E b \in Receivers \ {a} : kind[b] = "opfs" /\ pc[b] = "listing")
    /\ GoTo(a, "reading")
    /\ UNCHANGED <<browser, record, database, live, kind, received, writing, own,
                   gotComplete, verified>>

ReadFile(a) ==
    /\ pc[a] = "reading"
    /\ Conclude(a, file.good = Chunks)
    /\ UNCHANGED <<persistent, live, kind, received, writing, own, gotComplete,
                   verified, torn>>

\* ResumeStore.delete, which may fail without a word.  The chunks stay.
Delete(a) ==
    /\ pc[a] = "deleting"
    /\ record' \in {None, record}
    /\ GoTo(a, "done")
    /\ UNCHANGED <<browser, database, file, live, kind, received, writing, own,
                   gotComplete, verified, torn>>

-----------------------------------------------------------------------------
(* Interruptions                                                           *)

\* The channel closes, or a retry disposes of the receiver: its tasks go on.
Interrupt(a) ==
    /\ live[a]
    /\ live' = [live EXCEPT ![a] = FALSE]
    /\ UNCHANGED <<persistent, pc, kind, received, writing, own, gotComplete,
                   verified, torn>>

\* The page is reloaded or closed: what was not committed is gone.
Reload(a) ==
    /\ pc[a] \notin {"new", "gone"}
    /\ GoTo(a, "gone")
    /\ live' = [live EXCEPT ![a] = FALSE]
    /\ kind' = [kind EXCEPT ![a] = None]
    /\ received' = [received EXCEPT ![a] = {}]
    /\ writing' = [writing EXCEPT ![a] = {}]
    /\ own' = [own EXCEPT ![a] = Nothing]
    /\ gotComplete' = [gotComplete EXCEPT ![a] = FALSE]
    /\ UNCHANGED <<persistent, verified, torn>>

Step(a) ==
    \/ Load(a) \/ OpenStore(a) \/ ListStore(a) \/ Save(a)
    \/ ChunkArrives(a) \/ OnComplete(a) \/ \E i \in Chunks : Put(a, i)
    \/ Assemble(a) \/ CloseFile(a) \/ ReadFile(a) \/ Delete(a)

Next == \E a \in Receivers : Step(a) \/ Start(a) \/ Interrupt(a) \/ Reload(a)

Spec == Init /\ [][Next]_vars

\* Awaited promises settle and an open channel delivers; users and faults may do
\* as they like.
FairSpec == Spec /\ \A a \in Receivers : WF_vars(Step(a))

-----------------------------------------------------------------------------
Places == {"new", "loading", "opening", "listing", "saving", "receiving",
           "assembling", "reading", "deleting", "done", "failed", "gone"}

TypeOK ==
    /\ browser \in [idb : BOOLEAN, opfs : BOOLEAN, small : BOOLEAN, short : BOOLEAN]
    /\ record \in Kinds \union {None}
    /\ database \subseteq Chunks /\ file \in Contents
    /\ pc \in [Receivers -> Places]
    /\ live \in [Receivers -> BOOLEAN]
    /\ kind \in [Receivers -> Kinds \union {None}]
    /\ received \in [Receivers -> SUBSET Chunks]
    /\ writing \in [Receivers -> SUBSET Chunks]
    /\ own \in [Receivers -> Contents]
    /\ gotComplete \in [Receivers -> BOOLEAN]
    /\ verified \subseteq Chunks /\ torn \in BOOLEAN

\* ChunkStore in types.ts: "Indices already persisted" and "Reassemble the full
\* file".  Whatever other receivers do to the same database or file, and whatever
\* an earlier session left there, the chunks a receiver told the sender to skip are
\* in its own store when it assembles the file.
Held(a) == IF kind[a] = "indexeddb" THEN database ELSE own[a].good

ListedCanBeAssembled ==
    ~torn => \A a \in Receivers :
        pc[a] \in {"saving", "receiving", "assembling"} => received[a] \subseteq Held(a)

\* A receiver that has every chunk never reports a failure: no session spoils what
\* another one assembles.
NoFalseAlarm == ~torn => \A a \in Receivers : pc[a] # "failed"

\* selectStore.ts: "a mid-transfer reload can resume from the last saved chunk".
\* With IndexedDB a receiver starts with every chunk any receiver has put before,
\* also when the record could not be saved or loaded, or was deleted meanwhile.
ResumesFromTheDatabase ==
    [][\A a \in Receivers :
           kind[a] = "indexeddb" /\ pc[a] = "listing" /\ pc'[a] = "saving"
               => verified \subseteq received'[a]]_vars

\* A download that is not interrupted again comes to its end.
Finishes ==
    \A a \in Receivers :
        pc[a] = "loading" ~> pc[a] = "done" \/ ~live[a] \/ torn
=============================================================================
