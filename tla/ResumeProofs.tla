---------------------------- MODULE ResumeProofs ----------------------------
(***************************************************************************)
(* What module Resume says of the chunks a browser keeps, for any number   *)
(* of receivers and chunks.                                                *)
(***************************************************************************)
EXTENDS Resume, TLAPS

\* The length of a file that a chunk is written to stays within the file's.
LEMMA WriteType ==
    ASSUME NEW f \in Contents, NEW i \in Chunks
    PROVE  Write(f, i) \in Contents
BY TotalChunksAssumption DEF Write, Longer, Contents, Chunks

LEMMA NothingType == Nothing \in Contents
BY TotalChunksAssumption DEF Nothing, Contents

LEMMA KindType == FirstChoice \in Kinds /\ \A s \in Kinds \union {None} : StoreKind(s) \in Kinds
BY NoneAssumption DEF FirstChoice, StoreKind, Kinds

\* A receiver that looks at its store has one.
Chosen == \A a \in Receivers :
    pc[a] \notin {"new", "loading", "gone"} => kind[a] \in Kinds

TypeInv == TypeOK /\ Chosen

LEMMA TypeInit == Init => TypeInv
<1> SUFFICES ASSUME Init PROVE TypeInv
  OBVIOUS
<1>1. TypeOK
  <2>1. /\ browser \in [idb : BOOLEAN, opfs : BOOLEAN, small : BOOLEAN, short : BOOLEAN]
        /\ record \in Kinds \union {None}
        /\ database \subseteq Chunks /\ file \in Contents
        /\ verified \subseteq Chunks /\ torn \in BOOLEAN
    BY NothingType DEF Init
  <2>2. /\ pc \in [Receivers -> Places]
        /\ live \in [Receivers -> BOOLEAN]
        /\ gotComplete \in [Receivers -> BOOLEAN]
        /\ kind \in [Receivers -> Kinds \union {None}]
    BY DEF Init, Places
  <2>3. /\ received \in [Receivers -> SUBSET Chunks]
        /\ writing \in [Receivers -> SUBSET Chunks]
        /\ own \in [Receivers -> Contents]
    BY NothingType DEF Init
  <2> QED BY <2>1, <2>2, <2>3 DEF TypeOK
<1>2. Chosen
  BY DEF Init, Chosen
<1> QED BY <1>1, <1>2 DEF TypeInv

LEMMA TypeNext == TypeInv /\ [Next]_vars => TypeInv'
<1> SUFFICES ASSUME TypeInv, [Next]_vars PROVE TypeInv'
  OBVIOUS
<1> USE DEF TypeInv, Chosen, persistent, receiver, GoTo, Places
<1>1. ASSUME NEW a \in Receivers, Start(a) PROVE TypeInv'
  BY <1>1 DEF Start, TypeOK
<1>2. ASSUME NEW a \in Receivers, Load(a) PROVE TypeInv'
  <2>1. PICK saved \in {record, None} : kind' = [kind EXCEPT ![a] = StoreKind(saved)]
    BY <1>2 DEF Load
  <2>2. StoreKind(saved) \in Kinds
    BY <2>1, KindType DEF TypeOK
  <2>3. kind' \in [Receivers -> Kinds \union {None}]
    BY <2>1, <2>2 DEF TypeOK
  <2>4. Chosen'
    BY <1>2, <2>1, <2>2 DEF Load, TypeOK
  <2> QED BY <1>2, <2>3, <2>4 DEF Load, TypeOK
<1>3. ASSUME NEW a \in Receivers, OpenStore(a) PROVE TypeInv'
  BY <1>3, NothingType DEF OpenStore, Writable, TypeOK
<1>4. ASSUME NEW a \in Receivers, ListStore(a) PROVE TypeInv'
  <2>1. Listed(a) \subseteq Chunks
    BY <1>4 DEF ListStore, Listed, FullChunks, TypeOK, Contents, Kinds
  <2> QED BY <1>4, <2>1 DEF ListStore, TypeOK
<1>5. ASSUME NEW a \in Receivers, Save(a) PROVE TypeInv'
  <2>1. record' \in Kinds \union {None}
    BY <1>5 DEF Save, TypeOK
  <2> QED BY <1>5, <2>1 DEF Save, TypeOK
<1>6. ASSUME NEW a \in Receivers, ChunkArrives(a) PROVE TypeInv'
  BY <1>6 DEF ChunkArrives, TypeOK
<1>7. ASSUME NEW a \in Receivers, OnComplete(a) PROVE TypeInv'
  BY <1>7 DEF OnComplete, Finalize, TypeOK
<1>8. ASSUME NEW a \in Receivers, NEW i \in Chunks, Put(a, i) PROVE TypeInv'
  <2>1. /\ database' \subseteq Chunks
        /\ own' \in [Receivers -> Contents]
    BY <1>8, WriteType DEF Put, Keep, TypeOK
  <2>2. pc' \in [Receivers -> Places] /\ Chosen'
    BY <1>8 DEF Put, AfterPut, Finalize, TypeOK
  <2> QED BY <1>8, <2>1, <2>2 DEF Put, TypeOK
<1>9. ASSUME NEW a \in Receivers, Assemble(a) PROVE TypeInv'
  BY <1>9 DEF Assemble, Conclude, TypeOK
<1>10. ASSUME NEW a \in Receivers, CloseFile(a) PROVE TypeInv'
  BY <1>10 DEF CloseFile, TypeOK
<1>11. ASSUME NEW a \in Receivers, ReadFile(a) PROVE TypeInv'
  BY <1>11 DEF ReadFile, Conclude, TypeOK
<1>12. ASSUME NEW a \in Receivers, Delete(a) PROVE TypeInv'
  BY <1>12 DEF Delete, TypeOK
<1>13. ASSUME NEW a \in Receivers, Interrupt(a) PROVE TypeInv'
  BY <1>13 DEF Interrupt, TypeOK
<1>14. ASSUME NEW a \in Receivers, Reload(a) PROVE TypeInv'
  BY <1>14, NothingType DEF Reload, TypeOK
<1>15. ASSUME UNCHANGED vars PROVE TypeInv'
  BY <1>15 DEF vars, TypeOK
<1> QED
  BY <1>1, <1>2, <1>3, <1>4, <1>5, <1>6, <1>7, <1>8, <1>9, <1>10, <1>11, <1>12,
     <1>13, <1>14, <1>15 DEF Next, Step

\* What a receiver notes down of its store is of the kinds the variables have,
\* whatever the browser offers.
THEOREM Typed == Spec => []TypeOK
<1>1. TypeInv => TypeOK
  BY DEF TypeInv
<1> QED BY TypeInit, TypeNext, <1>1, PTL DEF Spec

-----------------------------------------------------------------------------
(* ListedCanBeAssembled is not inductive: what OPFS lists is the file, and  *)
(* what it assembles is a copy that was made an await before.  The two are  *)
(* the same because a file is closed with all its chunks only (so it has no *)
(* holes that would count as chunks), and not between the two looks.        *)

\* A file is as it was never written, or whole.
FileWhole == ~torn => file = Nothing \/ file.good = Chunks

\* The copy a receiver is about to list the chunks of.
CopyFresh == ~torn => \A a \in Receivers :
    pc[a] = "listing" /\ kind[a] = "opfs" => own[a] = file

\* Nothing is assembled before its time.
AllReceived == \A a \in Receivers : pc[a] = "assembling" => received[a] = Chunks

\* What is read back after close() is a whole file.
ReadsWhole == ~torn => \A a \in Receivers : pc[a] = "reading" => file.good = Chunks

\* No chunk is under way before the manifest was dealt with.
NoneBegun == \A a \in Receivers :
    pc[a] \in {"new", "loading", "opening", "listing"} => writing[a] = {}

KeptInv == FileWhole /\ CopyFresh /\ AllReceived /\ ReadsWhole /\ NoneBegun
           /\ ListedCanBeAssembled

LEMMA KeptInit == Init => KeptInv
BY DEF Init, KeptInv, FileWhole, CopyFresh, AllReceived, ReadsWhole,
       NoneBegun, ListedCanBeAssembled

\* What a receiver does with its own state is nobody else's step.
LEMMA Elsewhere ==
    ASSUME TypeInv, NEW a \in Receivers, [Next]_vars
    PROVE  \/ Step(a) \/ Start(a) \/ Interrupt(a) \/ Reload(a)
           \/ /\ pc'[a] = pc[a] /\ kind'[a] = kind[a] /\ own'[a] = own[a]
              /\ received'[a] = received[a] /\ writing'[a] = writing[a]
<1> USE DEF TypeInv, TypeOK, persistent, receiver, GoTo
<1>1. CASE UNCHANGED vars
  BY <1>1 DEF vars
<1>2. ASSUME NEW b \in Receivers, b # a, Step(b)
      PROVE  /\ pc'[a] = pc[a] /\ kind'[a] = kind[a] /\ own'[a] = own[a]
             /\ received'[a] = received[a] /\ writing'[a] = writing[a]
  BY <1>2 DEF Step, Load, OpenStore, ListStore, Save, ChunkArrives, OnComplete, Finalize,
              Put, Keep, AfterPut, Assemble, Conclude, CloseFile, ReadFile, Delete
<1>3. ASSUME NEW b \in Receivers, b # a, Start(b) \/ Interrupt(b) \/ Reload(b)
      PROVE  /\ pc'[a] = pc[a] /\ kind'[a] = kind[a] /\ own'[a] = own[a]
             /\ received'[a] = received[a] /\ writing'[a] = writing[a]
  BY <1>3 DEF Start, Interrupt, Reload
<1> QED BY <1>1, <1>2, <1>3 DEF Next

\* A store only gains chunks while its receiver lives.
LEMMA StoresGrow ==
    ASSUME TypeInv, [Next]_vars, NEW a \in Receivers,
           pc[a] \notin {"new", "loading", "opening"}, pc'[a] # "gone"
    PROVE  kind'[a] = kind[a] /\ Held(a) \subseteq Held(a)'
<1> USE DEF TypeInv, TypeOK, persistent, receiver, GoTo, Places
<1>1. ASSUME NEW b \in Receivers, Start(b) \/ Load(b) \/ OpenStore(b)
      PROVE  kind'[a] = kind[a] /\ Held(a) \subseteq Held(a)'
  <2>1. a # b
    BY <1>1 DEF Start, Load, OpenStore
  <2> QED BY <1>1, <2>1 DEF Start, Load, OpenStore, Held
<1>2. ASSUME NEW b \in Receivers,
             ListStore(b) \/ Save(b) \/ ChunkArrives(b) \/ OnComplete(b) \/ Assemble(b)
                \/ CloseFile(b) \/ ReadFile(b) \/ Delete(b) \/ Interrupt(b)
      PROVE  kind'[a] = kind[a] /\ Held(a) \subseteq Held(a)'
  BY <1>2 DEF ListStore, Save, ChunkArrives, OnComplete, Assemble, CloseFile,
              ReadFile, Delete, Interrupt, Held
<1>3. ASSUME NEW b \in Receivers, NEW i \in Chunks, Put(b, i)
      PROVE  kind'[a] = kind[a] /\ Held(a) \subseteq Held(a)'
  BY <1>3 DEF Put, Keep, Write, Held
<1>4. ASSUME NEW b \in Receivers, Reload(b)
      PROVE  kind'[a] = kind[a] /\ Held(a) \subseteq Held(a)'
  <2>1. a # b
    BY <1>4 DEF Reload
  <2> QED BY <1>4, <2>1 DEF Reload, Held
<1>5. ASSUME UNCHANGED vars PROVE kind'[a] = kind[a] /\ Held(a) \subseteq Held(a)'
  BY <1>5 DEF vars, Held
<1> QED BY <1>1, <1>2, <1>3, <1>4, <1>5 DEF Next, Step

\* Its chunks grow by listing, and by putting them into the store.
LEMMA ListedIsHeld ==
    ASSUME TypeInv, KeptInv, [Next]_vars, ~torn',
           NEW a \in Receivers, pc'[a] \in {"saving", "receiving", "assembling"}
    PROVE  received'[a] \subseteq Held(a)'
<1> USE DEF TypeInv, TypeOK, persistent, receiver, GoTo, Places, Kinds
<1>1. CASE UNCHANGED vars
  BY <1>1 DEF vars, Held, KeptInv, ListedCanBeAssembled
<1>2. ASSUME NEW b \in Receivers, b # a, Step(b) \/ Start(b) \/ Interrupt(b) \/ Reload(b)
      PROVE  received'[a] \subseteq Held(a)'
  <2>1. pc'[a] = pc[a] /\ received'[a] = received[a] /\ ~torn
    BY <1>2 DEF Step, Start, Load, OpenStore, ListStore, Save, ChunkArrives, OnComplete,
                Finalize, Put, AfterPut, Assemble, Conclude, CloseFile, ReadFile,
                Delete, Interrupt, Reload
  <2> QED BY <2>1, StoresGrow DEF KeptInv, ListedCanBeAssembled
<1>3. ASSUME ListStore(a) PROVE received'[a] \subseteq Held(a)'
  <2>1. ~torn /\ received'[a] = Listed(a) /\ UNCHANGED <<kind, own, database>>
    BY <1>3 DEF ListStore
  <2>2. CASE kind[a] = "opfs"
    <3>1. own[a] = file /\ (file = Nothing \/ file.good = Chunks)
      BY <1>3, <2>1, <2>2 DEF ListStore, KeptInv, CopyFresh, FileWhole
    <3>2. FullChunks(file) \subseteq file.good
      BY <3>1, TotalChunksAssumption DEF FullChunks, Nothing, Chunks
    <3> QED BY <2>1, <2>2, <3>1, <3>2 DEF Listed, Held
  <2>3. CASE kind[a] \in {"memory", "indexeddb"}
    BY <2>1, <2>3 DEF Listed, Held
  <2> QED BY <1>3, <2>2, <2>3 DEF ListStore, Chosen
<1>4. ASSUME NEW i \in Chunks, Put(a, i) PROVE received'[a] \subseteq Held(a)'
  <2>1. /\ ~torn /\ pc[a] \in {"saving", "receiving", "assembling"}
        /\ received'[a] = received[a] \union {i}
    BY <1>4 DEF Put, AfterPut, Finalize
  <2>2. i \in Held(a)'
    BY <1>4 DEF Put, Keep, Write, Held
  <2> QED BY <2>1, <2>2, StoresGrow DEF KeptInv, ListedCanBeAssembled
<1>5. ASSUME Step(a), ~ListStore(a), \A i \in Chunks : ~Put(a, i)
      PROVE  received'[a] \subseteq Held(a)'
  <2>1. /\ ~torn /\ pc[a] \in {"saving", "receiving", "assembling"}
        /\ received'[a] = received[a]
    BY <1>5 DEF Step, Load, OpenStore, Save, ChunkArrives, OnComplete, Finalize,
                Assemble, Conclude, CloseFile, ReadFile, Delete
  <2> QED BY <2>1, StoresGrow DEF KeptInv, ListedCanBeAssembled
<1>6. ASSUME Start(a) \/ Interrupt(a) \/ Reload(a) PROVE received'[a] \subseteq Held(a)'
  <2>1. ~torn /\ pc'[a] = pc[a] /\ received'[a] = received[a]
    BY <1>6 DEF Start, Interrupt, Reload
  <2> QED BY <2>1, StoresGrow DEF KeptInv, ListedCanBeAssembled
<1> QED BY <1>1, <1>2, <1>3, <1>4, <1>5, <1>6 DEF Next

LEMMA KeptNext == TypeInv /\ KeptInv /\ [Next]_vars => KeptInv'
<1> SUFFICES ASSUME TypeInv, KeptInv, [Next]_vars PROVE KeptInv'
  OBVIOUS
<1> USE DEF TypeInv, TypeOK, persistent, receiver, GoTo, Places
<1>1. ListedCanBeAssembled'
  BY ListedIsHeld DEF ListedCanBeAssembled
<1>2. ASSUME NEW b \in Receivers, CloseFile(b), ~torn'
      PROVE  /\ file'.good = Chunks
             /\ \A a \in Receivers : ~(pc'[a] = "listing" /\ kind'[a] = "opfs")
  <2>1. received[b] = Chunks /\ Held(b) = own[b].good /\ received[b] \subseteq Held(b)
    BY <1>2 DEF CloseFile, KeptInv, AllReceived, ListedCanBeAssembled, Held
  <2>2. own[b].good = Chunks
    <3>1. own[b] \in Contents
      OBVIOUS
    <3>2. own[b].good \subseteq Chunks
      BY <3>1 DEF Contents
    <3> QED BY <2>1, <3>2
  <2>3. ASSUME NEW a \in Receivers PROVE ~(pc'[a] = "listing" /\ kind'[a] = "opfs")
    <3>1. CASE a = b
      BY <1>2, <3>1 DEF CloseFile
    <3>2. CASE a # b
      BY <1>2, <3>2 DEF CloseFile
    <3> QED BY <3>1, <3>2
  <2> QED BY <1>2, <2>2, <2>3 DEF CloseFile
<1>3. ASSUME ~torn', \A b \in Receivers : ~CloseFile(b)
      PROVE  ~torn /\ file' = file
  BY <1>3 DEF Next, Step, Start, Load, OpenStore, ListStore, Save, ChunkArrives,
              OnComplete, Put, Assemble, ReadFile, Delete, Interrupt, Reload, vars
<1>4. FileWhole'
  BY <1>2, <1>3 DEF KeptInv, FileWhole
<1>5. CopyFresh'
  <2> SUFFICES ASSUME ~torn', NEW a \in Receivers, pc'[a] = "listing", kind'[a] = "opfs"
               PROVE  own'[a] = file'
    BY DEF CopyFresh
  <2>1. \A b \in Receivers : ~CloseFile(b)
    BY <1>2
  <2>2. ~torn /\ file' = file
    BY <1>3, <2>1
  <2>3. CASE OpenStore(a)
    BY <2>2, <2>3 DEF OpenStore, Writable
  <2>4. CASE ~OpenStore(a)
    <3>1. pc[a] = "listing" /\ kind[a] = "opfs" /\ own'[a] = own[a]
      <4>1. CASE UNCHANGED vars
        BY <4>1 DEF vars
      <4>2. ASSUME NEW b \in Receivers, b # a,
                   Step(b) \/ Start(b) \/ Interrupt(b) \/ Reload(b)
            PROVE  pc[a] = "listing" /\ kind[a] = "opfs" /\ own'[a] = own[a]
        BY <4>2 DEF Step, Start, Load, OpenStore, ListStore, Save, ChunkArrives,
                    OnComplete, Finalize, Put, Keep, AfterPut, Assemble, Conclude,
                    CloseFile, ReadFile, Delete, Interrupt, Reload
      <4>3. ASSUME NEW i \in Chunks, Put(a, i)
            PROVE  pc[a] = "listing" /\ kind[a] = "opfs" /\ own'[a] = own[a]
        <5>1. pc[a] = "listing"
          BY <4>3 DEF Put, AfterPut, Finalize
        <5> QED BY <5>1, <4>3 DEF Put, KeptInv, NoneBegun
      <4>4. ASSUME Step(a), \A i \in Chunks : ~Put(a, i)
            PROVE  pc[a] = "listing" /\ kind[a] = "opfs" /\ own'[a] = own[a]
        BY <4>4, <2>4 DEF Step, Load, ListStore, Save, ChunkArrives, OnComplete, Finalize,
                    Assemble, Conclude, CloseFile, ReadFile, Delete
      <4>5. ASSUME Start(a) \/ Interrupt(a) \/ Reload(a)
            PROVE  pc[a] = "listing" /\ kind[a] = "opfs" /\ own'[a] = own[a]
        BY <4>5 DEF Start, Interrupt, Reload
      <4> QED BY <4>1, <4>2, <4>3, <4>4, <4>5 DEF Next
    <3> QED BY <3>1, <2>2 DEF KeptInv, CopyFresh
  <2> QED BY <2>3, <2>4
<1>6. AllReceived'
  <2> SUFFICES ASSUME NEW a \in Receivers, pc'[a] = "assembling"
               PROVE  received'[a] = Chunks
    BY DEF AllReceived
  <2>1. ASSUME NEW i \in Chunks, Put(a, i) PROVE received'[a] = Chunks
    BY <2>1 DEF Put, AfterPut, Finalize, KeptInv, AllReceived
  <2>2. ASSUME OnComplete(a) PROVE received'[a] = Chunks
    BY <2>2 DEF OnComplete, Finalize
  <2>3. ASSUME ~OnComplete(a), \A i \in Chunks : ~Put(a, i)
        PROVE  pc[a] = "assembling" /\ received'[a] = received[a]
    BY <2>3, Elsewhere DEF Step, Start, Load, OpenStore, ListStore, Save, ChunkArrives,
                Assemble, Conclude, CloseFile, ReadFile, Delete, Interrupt, Reload
  <2> QED BY <2>1, <2>2, <2>3 DEF KeptInv, AllReceived
<1>7. ReadsWhole'
  <2> SUFFICES ASSUME ~torn', NEW a \in Receivers, pc'[a] = "reading",
                      \A b \in Receivers : ~CloseFile(b)
               PROVE  file'.good = Chunks
    BY <1>2 DEF ReadsWhole
  <2>1. pc[a] = "reading"
    BY DEF Next, Step, Start, Load, OpenStore, ListStore, Save, ChunkArrives, OnComplete,
           Finalize, Put, AfterPut, Assemble, Conclude, CloseFile, ReadFile, Delete,
           Interrupt, Reload, vars
  <2> QED BY <2>1, <1>3 DEF KeptInv, ReadsWhole
<1>8. NoneBegun'
  <2> SUFFICES ASSUME NEW a \in Receivers,
                      pc'[a] \in {"new", "loading", "opening", "listing"}
               PROVE  writing'[a] = {}
    BY DEF NoneBegun
  <2>1. ASSUME NEW i \in Chunks, Put(a, i)
        PROVE  FALSE
    <3>1. pc[a] = pc'[a]
      BY <2>1 DEF Put, AfterPut, Finalize
    <3> QED BY <3>1, <2>1 DEF Put, KeptInv, NoneBegun
  <2>2. /\ pc[a] \in {"new", "loading", "opening", "listing"}
        /\ writing'[a] \subseteq writing[a]
    BY <2>1, Elsewhere DEF Step, Start, Load, OpenStore, ListStore, Save, ChunkArrives,
                OnComplete, Finalize, Assemble, Conclude, CloseFile, ReadFile, Delete,
                Interrupt, Reload
  <2> QED BY <2>2 DEF KeptInv, NoneBegun
<1> QED BY <1>1, <1>4, <1>5, <1>6, <1>7, <1>8 DEF KeptInv

\* Whatever other receivers do to the same database or file, the chunks a receiver
\* told the sender to skip are in its own store when it assembles the file.
THEOREM StoreHasWhatItLists == Spec => []ListedCanBeAssembled
<1>1. KeptInv => ListedCanBeAssembled
  BY DEF KeptInv
<1> QED BY TypeInit, TypeNext, KeptInit, KeptNext, <1>1, PTL DEF Spec

-----------------------------------------------------------------------------
(* No false alarm: what was received is assembled.                         *)

LEMMA WholeWhenAssembled ==
    ASSUME TypeInv, KeptInv, ~torn, NEW a \in Receivers, pc[a] = "assembling"
    PROVE  Held(a) = Chunks
<1>1. received[a] = Chunks /\ received[a] \subseteq Held(a)
  BY DEF KeptInv, AllReceived, ListedCanBeAssembled
<1>2. Held(a) \subseteq Chunks
  BY DEF Held, TypeInv, TypeOK, Contents
<1> QED BY <1>1, <1>2

LEMMA AlarmNext ==
    TypeInv /\ KeptInv /\ NoFalseAlarm /\ [Next]_vars => NoFalseAlarm'
<1> SUFFICES ASSUME TypeInv, KeptInv, NoFalseAlarm, [Next]_vars, ~torn',
                    NEW a \in Receivers, pc'[a] = "failed"
             PROVE  FALSE
  BY DEF NoFalseAlarm
<1> USE DEF TypeInv, TypeOK, persistent, receiver, GoTo, Places
<1>1. ~torn /\ pc[a] # "failed"
  BY DEF NoFalseAlarm, Next, Step, Start, Load, OpenStore, ListStore, Save, ChunkArrives,
         OnComplete, Put, Assemble, CloseFile, ReadFile, Delete, Interrupt, Reload, vars
<1>2. Assemble(a) \/ ReadFile(a)
  BY <1>1, Elsewhere DEF Step, Start, Load, OpenStore, ListStore, Save, ChunkArrives,
              OnComplete, Finalize, Put, AfterPut, CloseFile, Delete, Interrupt, Reload
<1>3. CASE Assemble(a)
  <2>1. kind[a] \in {"memory", "indexeddb"}
    BY <1>3 DEF Assemble, Chosen, Kinds
  <2>2. Gathered(a) = Chunks
    BY <2>1, <1>1, <1>3, WholeWhenAssembled DEF Assemble, Gathered, Held
  <2> QED BY <1>3, <2>2 DEF Assemble, Conclude
<1>4. CASE ReadFile(a)
  BY <1>1, <1>4 DEF ReadFile, Conclude, KeptInv, ReadsWhole
<1> QED BY <1>2, <1>3, <1>4

\* No session spoils what another one assembles: a receiver that has every chunk
\* does not report a failure.
THEOREM NothingIsSpoiled == Spec => []NoFalseAlarm
<1>1. Init => NoFalseAlarm
  BY DEF Init, NoFalseAlarm
<1> QED BY TypeInit, TypeNext, KeptInit, KeptNext, AlarmNext, <1>1, PTL DEF Spec

-----------------------------------------------------------------------------
(* Resuming: every receiver of a browser uses the same kind of store, since *)
(* what a record says was the first choice of the session that saved it.    *)

OneKind ==
    /\ record \in {None, FirstChoice}
    /\ \A a \in Receivers : kind[a] \in {None, FirstChoice}
    /\ \A a \in Receivers : writing[a] # {} => kind[a] # None
    /\ FirstChoice = "indexeddb" => verified \subseteq database

LEMMA OneKindInit == Init => OneKind
BY DEF Init, OneKind

LEMMA SameChoice == [Next]_vars => FirstChoice' = FirstChoice
<1> SUFFICES ASSUME [Next]_vars PROVE browser' = browser
  BY DEF FirstChoice
<1> QED
  BY DEF Next, Step, Start, Load, OpenStore, ListStore, Save, ChunkArrives, OnComplete,
         Put, Assemble, CloseFile, ReadFile, Delete, Interrupt, Reload, vars, persistent

LEMMA OneKindNext == TypeInv /\ OneKind /\ [Next]_vars => OneKind'
<1> SUFFICES ASSUME TypeInv, OneKind, [Next]_vars PROVE OneKind'
  OBVIOUS
<1> USE SameChoice DEF TypeInv, TypeOK, persistent, receiver, GoTo, OneKind
<1>1. ASSUME NEW a \in Receivers, Load(a) PROVE OneKind'
  <2>1. PICK saved \in {record, None} : kind' = [kind EXCEPT ![a] = StoreKind(saved)]
    BY <1>1 DEF Load
  <2>2. StoreKind(saved) = FirstChoice
    BY <2>1 DEF StoreKind
  <2>3. FirstChoice # None
    BY KindType, NoneAssumption
  <2> QED BY <1>1, <2>1, <2>2, <2>3 DEF Load
<1>2. ASSUME NEW a \in Receivers, Start(a) \/ OpenStore(a) \/ ListStore(a) \/ OnComplete(a)
                \/ Assemble(a) \/ CloseFile(a) \/ ReadFile(a) \/ Interrupt(a)
      PROVE  OneKind'
  BY <1>2 DEF Start, OpenStore, ListStore, OnComplete, Assemble, CloseFile, ReadFile,
              Interrupt
<1>3. ASSUME NEW a \in Receivers, Save(a) PROVE OneKind'
  BY <1>3, KindType DEF Save
<1>4. ASSUME NEW a \in Receivers, ChunkArrives(a) PROVE OneKind'
  <2>1. kind[a] # None
    BY <1>4, NoneAssumption DEF ChunkArrives, Chosen
  <2> QED BY <1>4, <2>1 DEF ChunkArrives
<1>5. ASSUME NEW a \in Receivers, NEW i \in Chunks, Put(a, i) PROVE OneKind'
  <2>1. kind[a] = FirstChoice
    BY <1>5 DEF Put
  <2>2. FirstChoice = "indexeddb" => verified' \subseteq database'
    BY <1>5, <2>1 DEF Put, Keep
  <2>3. /\ record' = record /\ kind' = kind
        /\ \A b \in Receivers : writing'[b] \subseteq writing[b]
    BY <1>5 DEF Put
  <2> QED BY <2>2, <2>3
<1>6. ASSUME NEW a \in Receivers, Delete(a) PROVE OneKind'
  BY <1>6 DEF Delete
<1>7. ASSUME NEW a \in Receivers, Reload(a) PROVE OneKind'
  BY <1>7 DEF Reload
<1>8. CASE UNCHANGED vars
  BY <1>8 DEF vars
<1> QED BY <1>1, <1>2, <1>3, <1>4, <1>5, <1>6, <1>7, <1>8 DEF Next, Step

\* With IndexedDB a receiver starts with every chunk any receiver has put before, also
\* when the record could not be saved or loaded, or was deleted meanwhile.
THEOREM DatabaseResumes == Spec => ResumesFromTheDatabase
<1> DEFINE Resumes == \A a \in Receivers :
               kind[a] = "indexeddb" /\ pc[a] = "listing" /\ pc'[a] = "saving"
                   => verified \subseteq received'[a]
<1>1. ASSUME TypeInv, OneKind, [Next]_vars PROVE [Resumes]_vars
  <2> SUFFICES ASSUME NEW a \in Receivers, kind[a] = "indexeddb", pc[a] = "listing",
                      pc'[a] = "saving"
               PROVE  verified \subseteq received'[a]
    OBVIOUS
  <2> USE <1>1 DEF TypeInv, TypeOK, persistent, receiver, GoTo, Places, Kinds
  <2>1. ListStore(a)
    BY DEF Next, Step, Start, Load, OpenStore, ListStore, Save, ChunkArrives, OnComplete,
           Finalize, Put, AfterPut, Assemble, Conclude, CloseFile, ReadFile, Delete,
           Interrupt, Reload, vars
  <2>2. FirstChoice = "indexeddb"
    BY NoneAssumption DEF OneKind
  <2> QED BY <2>1, <2>2 DEF ListStore, Listed, OneKind
<1> QED BY TypeInit, TypeNext, OneKindInit, OneKindNext, <1>1, PTL
        DEF Spec, ResumesFromTheDatabase
=============================================================================
