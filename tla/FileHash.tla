------------------------------ MODULE FileHash -------------------------------
(***************************************************************************)
(* The hash of a whole file, computed twice: by the sender, chunk by chunk *)
(* as it sends, and by the receiver, window by window over what it stored. *)
(* Both feed a Sha256Stream, whose blocks must be those of the padded file *)
(* whatever pieces the file came in.                                       *)
(*                                                                         *)
(* A byte of the file is its position; the compression function is left    *)
(* out: a stream's result is the sequence of bytes in the blocks it        *)
(* processed.  A 32-bit word of the length takes one cell of a block.      *)
(***************************************************************************)
EXTENDS Integers, Sequences

CONSTANTS
    BlockSize,      \* 64
    WordValues,     \* 2^32
    FileSizes,      \* sizes of files
    ChunkSizes,     \* chunk sizes of manifests
    MinWindow       \* the least window of hashBlob

ASSUME BlockAssumption == BlockSize \in Nat /\ BlockSize > 2
ASSUME SizesAssumption ==
    /\ FileSizes \subseteq Nat /\ ChunkSizes \subseteq Nat \ {0}
    /\ WordValues \in Nat \ {0} /\ MinWindow \in Nat \ {0}
    /\ \A size \in FileSizes : size * 8 < WordValues * WordValues

Sides == {"sender", "receiver"}

VARIABLES
    size,           \* the file's
    chunkSize,      \* the manifest's
    at,             \* per side: the next chunk's index, or hashBlob's offset
    block,          \* per stream: the partial block, with what earlier ones left
    blockLength,    \* per stream: how much of it is filled
    totalBytes,     \* per stream
    hashed,         \* per stream: the bytes of the blocks processed
    finalized       \* per stream

stream == <<block, blockLength, totalBytes, hashed, finalized>>
vars == <<size, chunkSize, at, stream>>

Cell(kind, value) == [kind |-> kind, value |-> value]
Zero == Cell("zero", 0)
File(from, to) == [i \in 1 .. to - from |-> Cell("byte", from + i)]
Lesser(a, b) == IF a < b THEN a ELSE b
Greater(a, b) == IF a < b THEN b ELSE a

Init ==
    /\ size \in FileSizes /\ chunkSize \in ChunkSizes
    /\ at = [s \in Sides |-> 0]
    /\ block = [s \in Sides |-> [i \in 1 .. BlockSize |-> Zero]]
    /\ blockLength = [s \in Sides |-> 0]
    /\ totalBytes = [s \in Sides |-> 0]
    /\ hashed = [s \in Sides |-> <<>>]
    /\ finalized = [s \in Sides |-> FALSE]

-----------------------------------------------------------------------------
(* Sha256Stream                                                            *)

\* `b` with `data` written after its first n cells.  (Definitions marked "a slip"
\* are mistakes the runs must catch; nothing else refers to them.)
FromTheStart(b, n, data) ==                                         \* a slip
    [i \in 1 .. BlockSize |-> IF i <= Len(data) THEN data[i] ELSE b[i]]
Written(b, n, data) ==
    [i \in 1 .. BlockSize |-> IF n < i /\ i <= n + Len(data) THEN data[i - n] ELSE b[i]]

\* processBlock: the stream's value after more blocks, which stands for all that
\* went into it.
Processed(value, blocks) == value \o blocks

\* update: top up a partial block, process whole ones, stash the rest.
TopUp(s, data) ==
    IF blockLength[s] = 0 THEN 0 ELSE Lesser(Len(data), BlockSize - blockLength[s])
WholeBlocks(s, data) == ((Len(data) - TopUp(s, data)) \div BlockSize) * BlockSize

Update(s, data) ==
    LET top == TopUp(s, data)
        topped == Written(block[s], blockLength[s], SubSeq(data, 1, top))
        full == blockLength[s] + top = BlockSize
        filled == IF full THEN 0 ELSE blockLength[s] + top
        whole == WholeBlocks(s, data)
        rest == SubSeq(data, top + whole + 1, Len(data))
    IN  /\ ~finalized[s]
        /\ totalBytes' = [totalBytes EXCEPT ![s] = @ + Len(data)]
        /\ hashed' = [hashed EXCEPT ![s] =
               Processed(Processed(@, IF full THEN topped ELSE <<>>),
                         SubSeq(data, top + 1, top + whole))]
        /\ block' = [block EXCEPT ![s] = Written(topped, filled, rest)]
        /\ blockLength' = [blockLength EXCEPT ![s] = filled + Len(rest)]
        /\ UNCHANGED finalized

\* digest: a one, zeros up to the length's place in this block or in the next.
Zeros(n) == [i \in 1 .. n |-> Zero]
LengthWords(bytes) == <<Cell("word", (bytes * 8) \div WordValues),
                        Cell("word", (bytes * 8) % WordValues)>>
Overfull(n) == n >= BlockSize - 2                                   \* a slip
NeedsAnother(n) == n > BlockSize - 2

Digest(s) ==
    LET marked == Written(block[s], blockLength[s], <<Cell("one", 0)>>)
        n == blockLength[s] + 1
        another == NeedsAnother(n)
        first == IF another THEN Written(marked, n, Zeros(BlockSize - n)) ELSE <<>>
        begun == IF another THEN 0 ELSE n
        last == Written(Written(IF another THEN first ELSE marked, begun,
                                Zeros(BlockSize - 2 - begun)),
                        BlockSize - 2, LengthWords(totalBytes[s]))
    IN  /\ ~finalized[s]
        /\ hashed' = [hashed EXCEPT ![s] = Processed(Processed(@, first), last)]
        /\ block' = [block EXCEPT ![s] = last]
        /\ blockLength' = [blockLength EXCEPT ![s] = BlockSize - 2]
        /\ finalized' = [finalized EXCEPT ![s] = TRUE]
        /\ UNCHANGED totalBytes

-----------------------------------------------------------------------------
(* The two sides                                                           *)

\* computeTotalChunks and chunkRangeAt
WholeChunks == size \div chunkSize                                  \* a slip
TotalChunks == (size + chunkSize - 1) \div chunkSize
ChunkRangeAt(index) == LET start == index * chunkSize
                       IN  <<start, Lesser(start + chunkSize, size)>>

\* FileSender.run hashes every chunk, also those it does not send.
HashChunk ==
    /\ at["sender"] < TotalChunks
    /\ LET range == ChunkRangeAt(at["sender"]) IN Update("sender", File(range[1], range[2]))
    /\ at' = [at EXCEPT !["sender"] = @ + 1]
    /\ UNCHANGED <<size, chunkSize>>

FinishFile ==
    /\ at["sender"] >= TotalChunks
    /\ Digest("sender")
    /\ UNCHANGED <<size, chunkSize, at>>

\* hashBlob
Window == Greater(chunkSize, MinWindow)

HashWindow ==
    /\ at["receiver"] < size
    /\ Update("receiver", File(at["receiver"], Lesser(at["receiver"] + Window, size)))
    /\ at' = [at EXCEPT !["receiver"] = @ + Window]
    /\ UNCHANGED <<size, chunkSize>>

FinishBlob ==
    /\ at["receiver"] >= size
    /\ Digest("receiver")
    /\ UNCHANGED <<size, chunkSize, at>>

Next == HashChunk \/ FinishFile \/ HashWindow \/ FinishBlob

Spec == Init /\ [][Next]_vars

-----------------------------------------------------------------------------
\* Sha256Stream.update: what was processed and what waits in the partial block
\* are the bytes of the file so far: none is lost, hashed twice or overwritten
\* where a piece ends inside a block.
NothingLost == \A s \in Sides : ~finalized[s] =>
    hashed[s] \o SubSeq(block[s], 1, blockLength[s]) = File(0, totalBytes[s])

\* FIPS 180-4, 5.1.1: the message, a one, the least number of zeros, the length.
Padded ==
    LET k == CHOOSE n \in 0 .. BlockSize - 1 : (size + 1 + n + 2) % BlockSize = 0
    IN  File(0, size) \o <<Cell("one", 0)>> \o Zeros(k) \o LengthWords(size)

\* Whatever the chunk size and the window, both sides hash the whole file with
\* its padding, so their hashes agree.
HashOfTheFile == \A s \in Sides : finalized[s] => hashed[s] = Padded
=============================================================================
