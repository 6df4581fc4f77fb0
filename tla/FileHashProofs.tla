--------------------------- MODULE FileHashProofs ---------------------------
(***************************************************************************)
(* Theorems about module FileHash, for blocks, files, chunks and windows   *)
(* of any size: the streams of the two sides lose nothing, and both hash   *)
(* the whole file with its padding.                                        *)
(*                                                                         *)
(* A stream is followed cell by cell (Fed): what was processed and what    *)
(* waits in the partial block are the file's first totalBytes bytes, and   *)
(* what was processed is a whole number of blocks.  Each of update's three *)
(* parts keeps it (PieceStashed, BlockProcessed, PieceProcessed), and      *)
(* digest turns it into the padded message (OneBlock, TwoBlocks).          *)
(***************************************************************************)
EXTENDS FileHash, SequenceTheorems, TLAPS

Cells == [kind : {"zero", "byte", "one", "word"}, value : Nat]
Blocks == [1 .. BlockSize -> Cells]

LEMMA CellTypes ==
    \A kind \in {"zero", "byte", "one", "word"}, n \in Nat : Cell(kind, n) \in Cells
BY DEF Cell, Cells

LEMMA Division ==
    ASSUME NEW a \in Nat, NEW b \in Nat \ {0}
    PROVE  /\ a \div b \in Nat /\ a % b \in 0 .. b - 1
           /\ a = (a \div b) * b + (a % b)
OBVIOUS

\* A multiple of b between -b and b is zero.
LEMMA SmallMultiple ==
    ASSUME NEW b \in Nat \ {0}, NEW d \in Int, d * b < b, d * b > -b
    PROVE  d = 0
<1>1. CASE d >= 1
  <2>1. d * b >= 1 * b
    BY <1>1
  <2> QED BY <2>1
<1>2. CASE d <= -1
  <2>1. d * b <= (-1) * b
    BY <1>2
  <2> QED BY <2>1
<1> QED BY <1>1, <1>2

\* A function from 1 .. n is a sequence.
LEMMA Sequence ==
    ASSUME NEW n \in Nat, NEW S, NEW f \in [1 .. n -> S]
    PROVE  f \in Seq(S) /\ Len(f) = n
OBVIOUS

LEMMA BlockIsSequence == \A b \in Blocks : b \in Seq(Cells) /\ Len(b) = BlockSize
BY Sequence, BlockAssumption DEF Blocks

LEMMA FileIsSequence ==
    ASSUME NEW from \in Nat, NEW to \in Nat, from <= to
    PROVE  /\ File(from, to) \in Seq(Cells) /\ Len(File(from, to)) = to - from
           /\ \A i \in 1 .. to - from : File(from, to)[i] = Cell("byte", from + i)
<1>1. \A i \in 1 .. to - from : Cell("byte", from + i) \in Cells
  BY CellTypes
<1>2. File(from, to) \in [1 .. to - from -> Cells]
  BY <1>1 DEF File
<1>3. to - from \in Nat
  OBVIOUS
<1> QED BY <1>2, <1>3, Sequence DEF File

LEMMA ZerosAreSequence ==
    ASSUME NEW n \in Nat
    PROVE  /\ Zeros(n) \in Seq(Cells) /\ Len(Zeros(n)) = n
           /\ \A i \in 1 .. n : Zeros(n)[i] = Zero
<1>1. Zeros(n) \in [1 .. n -> Cells]
  BY CellTypes DEF Zeros, Zero
<1> QED BY <1>1, Sequence DEF Zeros

LEMMA Writing ==
    ASSUME NEW b \in Blocks, NEW n \in Nat, NEW data \in Seq(Cells), n + Len(data) <= BlockSize
    PROVE  /\ Written(b, n, data) \in Blocks
           /\ \A i \in 1 .. n : Written(b, n, data)[i] = b[i]
           /\ \A i \in 1 .. Len(data) : Written(b, n, data)[n + i] = data[i]
           /\ \A i \in n + Len(data) + 1 .. BlockSize : Written(b, n, data)[i] = b[i]
<1>1. /\ Len(data) \in Nat /\ BlockSize \in Nat
      /\ \A i \in 1 .. Len(data) : data[i] \in Cells
  BY BlockAssumption
<1>2. \A i \in 1 .. BlockSize : n < i /\ i <= n + Len(data) => i - n \in 1 .. Len(data)
  BY <1>1
<1>3. Written(b, n, data) \in Blocks
  BY <1>1, <1>2 DEF Written, Blocks
<1>4. \A i \in 1 .. n : i \in 1 .. BlockSize /\ ~(n < i)
  BY <1>1
<1>5. \A i \in 1 .. Len(data) :
          n + i \in 1 .. BlockSize /\ n < n + i /\ n + i <= n + Len(data) /\ (n + i) - n = i
  BY <1>1
<1>6. \A i \in n + Len(data) + 1 .. BlockSize : i \in 1 .. BlockSize /\ ~(i <= n + Len(data))
  BY <1>1
<1> QED BY <1>3, <1>4, <1>5, <1>6 DEF Written

LEMMA Joined ==
    ASSUME NEW a \in Seq(Cells), NEW b \in Seq(Cells)
    PROVE  /\ a \o b \in Seq(Cells) /\ Len(a \o b) = Len(a) + Len(b)
           /\ \A i \in 1 .. Len(a) : (a \o b)[i] = a[i]
           /\ \A i \in Len(a) + 1 .. Len(a) + Len(b) : (a \o b)[i] = b[i - Len(a)]
OBVIOUS

-----------------------------------------------------------------------------
(* Sha256Stream.update.  What a stream holds is the file's first t bytes,    *)
(* cell by cell: h is what was processed, n cells of b wait.                 *)

Fed(h, b, n, t) ==
    /\ t = Len(h) + n
    /\ \A i \in 1 .. Len(h) : h[i] = Cell("byte", i)
    /\ \A i \in 1 .. n : b[i] = Cell("byte", Len(h) + i)

\* A full block is processed.
LEMMA BlockProcessed ==
    ASSUME NEW h \in Seq(Cells), NEW b \in Blocks, NEW t \in Nat, Fed(h, b, BlockSize, t)
    PROVE  /\ h \o b \in Seq(Cells) /\ Len(h \o b) = Len(h) + BlockSize
           /\ \A b2 \in Blocks : Fed(h \o b, b2, 0, t)
<1>1. b \in Seq(Cells) /\ Len(b) = BlockSize /\ Len(h) \in Nat /\ BlockSize \in Nat
  BY BlockIsSequence, BlockAssumption
<1>2. /\ h \o b \in Seq(Cells) /\ Len(h \o b) = Len(h) + Len(b)
      /\ \A i \in 1 .. Len(h) : (h \o b)[i] = h[i]
      /\ \A i \in Len(h) + 1 .. Len(h) + Len(b) : (h \o b)[i] = b[i - Len(h)]
  BY <1>1
<1>3. ASSUME NEW i \in 1 .. Len(h) + BlockSize PROVE (h \o b)[i] = Cell("byte", i)
  <2>1. CASE i <= Len(h)
    BY <1>1, <1>2, <2>1 DEF Fed
  <2>2. CASE i > Len(h)
    <3>1. i - Len(h) \in 1 .. BlockSize /\ Len(h) + (i - Len(h)) = i
      BY <1>1, <2>2
    <3>2. (h \o b)[i] = b[i - Len(h)]
      BY <1>1, <1>2, <2>2
    <3> QED BY <3>1, <3>2 DEF Fed
  <2> QED BY <1>1, <2>1, <2>2
<1> QED BY <1>1, <1>2, <1>3 DEF Fed

\* A piece of the data is where it was in the file.
LEMMA Piece ==
    ASSUME NEW data \in Seq(Cells), NEW t \in Nat,
           \A i \in 1 .. Len(data) : data[i] = Cell("byte", t + i),
           NEW m \in Nat, NEW k \in Nat, m <= k, k <= Len(data),
           NEW d, d = SubSeq(data, m + 1, k)
    PROVE  /\ d \in Seq(Cells) /\ Len(d) = k - m
           /\ \A i \in 1 .. Len(d) : d[i] = Cell("byte", t + m + i)
<1>1. \A i \in m + 1 .. k : data[i] \in Cells
  OBVIOUS
<1>2. /\ d \in Seq(Cells) /\ Len(d) = IF m + 1 <= k THEN k - (m + 1) + 1 ELSE 0
      /\ \A i \in 1 .. k - (m + 1) + 1 : d[i] = data[m + 1 + i - 1]
  BY <1>1, SubSeqProperties
<1>3. Len(d) = k - m
  BY <1>2
<1>4. ASSUME NEW i \in 1 .. Len(d) PROVE d[i] = Cell("byte", t + m + i)
  <2>1. i \in 1 .. k - (m + 1) + 1 /\ m + i \in 1 .. Len(data) /\ m + 1 + i - 1 = m + i
    BY <1>3
  <2>2. d[i] = data[m + i]
    BY <1>2, <2>1
  <2>3. data[m + i] = Cell("byte", t + (m + i)) /\ t + (m + i) = t + m + i
    BY <2>1
  <2> QED BY <2>2, <2>3
<1> QED BY <1>2, <1>3, <1>4

\* A piece of the data is processed as it is, when nothing waits.
LEMMA PieceProcessed ==
    ASSUME NEW h \in Seq(Cells), NEW b, NEW t \in Nat, Fed(h, b, 0, t),
           NEW d \in Seq(Cells), \A i \in 1 .. Len(d) : d[i] = Cell("byte", t + i)
    PROVE  /\ h \o d \in Seq(Cells) /\ Len(h \o d) = Len(h) + Len(d)
           /\ Fed(h \o d, b, 0, t + Len(d))
<1>1. Len(h) \in Nat /\ Len(d) \in Nat /\ t = Len(h)
  BY DEF Fed
<1>2. /\ h \o d \in Seq(Cells) /\ Len(h \o d) = Len(h) + Len(d)
      /\ \A i \in 1 .. Len(h) : (h \o d)[i] = h[i]
      /\ \A i \in Len(h) + 1 .. Len(h) + Len(d) : (h \o d)[i] = d[i - Len(h)]
  OBVIOUS
<1>3. ASSUME NEW i \in 1 .. Len(h) + Len(d) PROVE (h \o d)[i] = Cell("byte", i)
  <2>1. CASE i <= Len(h)
    <3>1. i \in 1 .. Len(h)
      BY <1>1, <2>1
    <3>2. (h \o d)[i] = h[i]
      BY <1>2, <3>1
    <3>3. h[i] = Cell("byte", i)
      BY <3>1, Zenon DEF Fed
    <3> QED BY <3>2, <3>3
  <2>2. CASE i > Len(h)
    <3>1. /\ i - Len(h) \in 1 .. Len(d) /\ t + (i - Len(h)) = i
          /\ i \in Len(h) + 1 .. Len(h) + Len(d)
      BY <1>1, <2>2
    <3>2. (h \o d)[i] = d[i - Len(h)]
      BY <1>2, <3>1
    <3>3. d[i - Len(h)] = Cell("byte", t + (i - Len(h)))
      BY <3>1
    <3> QED BY <3>1, <3>2, <3>3
  <2> QED BY <1>1, <2>1, <2>2
<1> QED BY <1>1, <1>2, <1>3 DEF Fed

\* A piece of the data is stashed behind what waits.
LEMMA PieceStashed ==
    ASSUME NEW h \in Seq(Cells), NEW b \in Blocks, NEW n \in Nat, NEW t \in Nat, Fed(h, b, n, t),
           NEW d \in Seq(Cells), n + Len(d) <= BlockSize,
           \A i \in 1 .. Len(d) : d[i] = Cell("byte", t + i)
    PROVE  /\ Written(b, n, d) \in Blocks
           /\ Fed(h, Written(b, n, d), n + Len(d), t + Len(d))
<1> DEFINE w == Written(b, n, d)
<1>1. Len(h) \in Nat /\ Len(d) \in Nat /\ t = Len(h) + n
  BY DEF Fed
<1>2. /\ w \in Blocks /\ \A i \in 1 .. n : w[i] = b[i]
      /\ \A i \in 1 .. Len(d) : w[n + i] = d[i]
  BY Writing
<1> HIDE DEF w
<1>3. ASSUME NEW i \in 1 .. n + Len(d) PROVE w[i] = Cell("byte", Len(h) + i)
  <2>1. CASE i <= n
    BY <1>1, <1>2, <2>1 DEF Fed
  <2>2. CASE i > n
    <3>1. i - n \in 1 .. Len(d) /\ n + (i - n) = i /\ t + (i - n) = Len(h) + i
      BY <1>1, <2>2
    <3> QED BY <1>2, <3>1
  <2> QED BY <1>1, <2>1, <2>2
<1>4. Fed(h, w, n + Len(d), t + Len(d))
  BY <1>1, <1>3 DEF Fed
<1> QED BY <1>2, <1>4 DEF w

-----------------------------------------------------------------------------
(* The whole of update: a partial block is topped up, and processed when it  *)
(* is full; what is left of the data is processed in whole blocks and its    *)
(* rest stashed, which happens to an empty block or with nothing left.       *)

WholeNumber(n) == \E k \in Nat : n = k * BlockSize

LEMMA AnotherBlock ==
    ASSUME NEW n \in Nat, WholeNumber(n), NEW k \in Nat
    PROVE  WholeNumber(n + k * BlockSize) /\ WholeNumber(n + BlockSize)
<1>1. PICK j \in Nat : n = j * BlockSize
  BY DEF WholeNumber
<1>2. n + k * BlockSize = (j + k) * BlockSize /\ n + BlockSize = (j + 1) * BlockSize
  BY <1>1, BlockAssumption
<1>3. j + k \in Nat /\ j + 1 \in Nat
  OBVIOUS
<1> QED BY <1>2, <1>3 DEF WholeNumber

Holds(s) ==
    /\ Fed(hashed[s], block[s], blockLength[s], totalBytes[s])
    /\ WholeNumber(Len(hashed[s]))

\* The domains of the streams' variables.
Streams ==
    /\ block \in [Sides -> Blocks] /\ blockLength \in [Sides -> 0 .. BlockSize - 1]
    /\ totalBytes \in [Sides -> Nat] /\ hashed \in [Sides -> Seq(Cells)]
    /\ finalized \in [Sides -> BOOLEAN]

LEMMA Whole ==
    ASSUME NEW s \in Sides, Streams, NEW data \in Seq(Cells)
    PROVE  /\ TopUp(s, data) \in 0 .. Len(data)
           /\ \E k \in Nat : WholeBlocks(s, data) = k * BlockSize
           /\ WholeBlocks(s, data) \in 0 .. Len(data) - TopUp(s, data)
           /\ Len(data) - TopUp(s, data) < WholeBlocks(s, data) + BlockSize
<1>1. Len(data) \in Nat /\ blockLength[s] \in 0 .. BlockSize - 1 /\ BlockSize \in Nat \ {0}
  BY BlockAssumption DEF Streams
<1>2. TopUp(s, data) \in 0 .. Len(data)
  BY <1>1 DEF TopUp, Lesser
<1>3. PICK a \in Nat : a = Len(data) - TopUp(s, data)
  BY <1>1, <1>2
<1>4. /\ a \div BlockSize \in Nat /\ a % BlockSize \in 0 .. BlockSize - 1
      /\ a = (a \div BlockSize) * BlockSize + (a % BlockSize)
  BY <1>1, Division
<1>5. WholeBlocks(s, data) = (a \div BlockSize) * BlockSize
  BY <1>3 DEF WholeBlocks
<1>6. PICK k \in Nat : k = a \div BlockSize
  BY <1>4
<1>7. k * BlockSize \in Nat
  BY <1>1
<1>8. WholeBlocks(s, data) = k * BlockSize /\ a < k * BlockSize + BlockSize /\ k * BlockSize <= a
  BY <1>1, <1>4, <1>5, <1>6, <1>7
<1>9. WholeBlocks(s, data) \in 0 .. a /\ a < WholeBlocks(s, data) + BlockSize
  BY <1>7, <1>8
<1> QED BY <1>2, <1>3, <1>8, <1>9

LEMMA UpdateFeeds ==
    ASSUME Streams, NEW s \in Sides, Holds(s), NEW data \in Seq(Cells), Update(s, data),
           \A i \in 1 .. Len(data) : data[i] = Cell("byte", totalBytes[s] + i)
    PROVE  /\ Streams' /\ Holds(s)' /\ totalBytes'[s] = totalBytes[s] + Len(data)
           /\ finalized' = finalized /\ ~finalized[s]
           /\ \A r \in Sides \ {s} :
                  /\ block'[r] = block[r] /\ blockLength'[r] = blockLength[r]
                  /\ totalBytes'[r] = totalBytes[r] /\ hashed'[r] = hashed[r]
<1>1. PICK h \in Seq(Cells), b \in Blocks, n \in 0 .. BlockSize - 1, t \in Nat :
          /\ h = hashed[s] /\ b = block[s] /\ n = blockLength[s] /\ t = totalBytes[s]
          /\ Fed(h, b, n, t) /\ WholeNumber(Len(h))
  BY DEF Streams, Holds
<1>2. \A i \in 1 .. Len(data) : data[i] = Cell("byte", t + i)
  BY <1>1
<1>3. PICK top \in Nat, whole \in Nat :
          /\ top = TopUp(s, data) /\ whole = WholeBlocks(s, data)
          /\ top <= Len(data) /\ whole <= Len(data) - top /\ Len(data) - top < whole + BlockSize
  <2>1. TopUp(s, data) \in Nat /\ WholeBlocks(s, data) \in Nat /\ Len(data) \in Nat
        /\ TopUp(s, data) <= Len(data)
    BY Whole
  <2> QED BY <2>1, Whole
<1>4. \E k \in Nat : whole = k * BlockSize
  BY <1>3, Whole
<1>5. /\ top = IF n = 0 THEN 0 ELSE Lesser(Len(data), BlockSize - n)
      /\ BlockSize \in Nat /\ BlockSize > 2 /\ Len(data) \in Nat /\ Len(h) \in Nat
  BY <1>1, <1>3, BlockAssumption DEF TopUp
<1>6. PICK d1, d2, d3 : /\ d1 = SubSeq(data, 1, top)
                        /\ d2 = SubSeq(data, top + 1, top + whole)
                        /\ d3 = SubSeq(data, top + whole + 1, Len(data))
  OBVIOUS
<1>7. /\ top + whole \in Nat /\ top <= top + whole /\ top + whole <= Len(data)
      /\ top + whole - top = whole
  BY <1>3, <1>5
<1>8. /\ d1 \in Seq(Cells) /\ Len(d1) = top
      /\ \A i \in 1 .. Len(d1) : d1[i] = Cell("byte", t + i)
  <2>1. d1 = SubSeq(data, 0 + 1, top)
    BY <1>6
  <2>2. 0 \in Nat /\ 0 <= top
    OBVIOUS
  <2>3. /\ d1 \in Seq(Cells) /\ Len(d1) = top - 0
        /\ \A i \in 1 .. Len(d1) : d1[i] = Cell("byte", t + 0 + i)
    BY <1>2, <1>3, <2>1, <2>2, Piece
  <2> QED BY <2>3
<1>9. /\ d2 \in Seq(Cells) /\ Len(d2) = whole
      /\ \A i \in 1 .. Len(d2) : d2[i] = Cell("byte", t + top + i)
  <2>1. d2 = SubSeq(data, top + 1, top + whole)
    BY <1>6
  <2>2. /\ d2 \in Seq(Cells) /\ Len(d2) = top + whole - top
        /\ \A i \in 1 .. Len(d2) : d2[i] = Cell("byte", t + top + i)
    BY <1>2, <1>7, <2>1, Piece
  <2> QED BY <1>7, <2>2
<1>10. /\ d3 \in Seq(Cells) /\ Len(d3) = Len(data) - (top + whole)
       /\ \A i \in 1 .. Len(d3) : d3[i] = Cell("byte", t + (top + whole) + i)
  <2>1. d3 = SubSeq(data, (top + whole) + 1, Len(data))
    BY <1>6
  <2>2. Len(data) \in Nat /\ Len(data) <= Len(data)
    OBVIOUS
  <2> QED BY ONLY <1>2, <1>7, <2>1, <2>2, Piece, data \in Seq(Cells), t \in Nat
<1>11. /\ n \in Nat /\ n < BlockSize /\ n + top <= BlockSize
       /\ n + top = 0 \/ n + top = BlockSize \/ (whole = 0 /\ top = Len(data))
  <2>1. n \in Nat /\ n < BlockSize
    BY <1>5
  <2>2. CASE n = 0
    BY <1>5, <2>2
  <2>3. CASE n > 0 /\ Len(data) < BlockSize - n
    <3>1. top = Len(data)
      BY <1>5, <2>3 DEF Lesser
    <3>2. whole = 0
      BY ONLY <1>7, <3>1, whole \in Nat, Len(data) \in Nat
    <3>3. n + top <= BlockSize
      BY <1>5, <2>1, <2>3, <3>1
    <3> QED BY <2>1, <3>1, <3>2, <3>3
  <2>4. CASE n > 0 /\ ~(Len(data) < BlockSize - n)
    <3>1. top = BlockSize - n
      BY <1>5, <2>4 DEF Lesser
    <3> QED BY <1>5, <2>1, <3>1
  <2> QED BY <2>1, <2>2, <2>3, <2>4
<1> DEFINE topped == Written(b, n, d1)
           full == n + top = BlockSize
           filled == IF full THEN 0 ELSE n + top
           h1 == h \o (IF full THEN topped ELSE <<>>)
           h2 == h1 \o d2
           b2 == Written(topped, filled, d3)
<1>12. topped \in Blocks /\ Fed(h, topped, n + top, t + top)
  <2>1. n + Len(d1) <= BlockSize
    BY <1>8, <1>11
  <2>2. topped \in Blocks /\ Fed(h, topped, n + Len(d1), t + Len(d1))
    BY <1>1, <1>8, <1>11, <2>1, PieceStashed
  <2> QED BY <1>8, <2>2
<1> HIDE DEF topped
<1>13. /\ h1 \in Seq(Cells) /\ Fed(h1, topped, filled, t + top) /\ WholeNumber(Len(h1))
       /\ t + top \in Nat
  <2>1. t + top \in Nat
    BY <1>3
  <2>2. CASE full
    <3>1. Fed(h, topped, BlockSize, t + top)
      BY <1>12, <2>2
    <3>2. /\ h \o topped \in Seq(Cells) /\ Len(h \o topped) = Len(h) + BlockSize
          /\ Fed(h \o topped, topped, 0, t + top)
      BY <1>12, <2>1, <3>1, BlockProcessed
    <3>3. WholeNumber(Len(h \o topped))
      BY <1>1, <1>5, <3>2, AnotherBlock
    <3>4. h1 = h \o topped /\ filled = 0
      BY <2>2
    <3> QED BY <2>1, <3>2, <3>3, <3>4
  <2>3. CASE ~full
    <3>1. h1 = h /\ filled = n + top
      BY <2>3
    <3> QED BY <1>1, <1>12, <2>1, <3>1
  <2> QED BY <2>2, <2>3
<1>14. filled \in 0 .. BlockSize - 1 /\ (filled = 0 \/ (whole = 0 /\ Len(d3) = 0))
  <2>1. n + top \in Nat /\ BlockSize \in Nat /\ BlockSize > 2
    BY <1>3, <1>5, <1>11
  <2>2. filled \in 0 .. BlockSize - 1
    BY <1>11, <2>1
  <2>3. Len(data) - (Len(data) + 0) = 0
    BY <1>5
  <2> QED BY <1>10, <1>11, <2>2, <2>3
<1> HIDE DEF h1, filled
<1>15. t + top + whole \in Nat /\ t + top + whole = t + (top + whole)
      /\ t + top + whole + Len(d3) = t + Len(data)
  <2>1. Len(d3) = Len(data) - (top + whole)
    BY <1>10
  <2> QED BY ONLY <1>5, <2>1, t \in Nat, top \in Nat, whole \in Nat
<1>16. /\ h2 \in Seq(Cells) /\ Fed(h2, topped, filled, t + top + whole) /\ WholeNumber(Len(h2))
  <2>1. CASE filled = 0
    <3>1. Fed(h1, topped, 0, t + top)
      BY <1>13, <2>1
    <3>2. /\ h2 \in Seq(Cells) /\ Len(h2) = Len(h1) + Len(d2)
          /\ Fed(h2, topped, 0, t + top + Len(d2))
      BY <1>9, <1>13, <3>1, PieceProcessed
    <3>3. PICK k \in Nat : whole = k * BlockSize
      BY <1>4
    <3>4. Len(h1) \in Nat /\ Len(h2) = Len(h1) + k * BlockSize
      BY <1>9, <1>13, <3>2, <3>3
    <3>5. WholeNumber(Len(h1) + k * BlockSize)
      BY <1>13, <3>4, AnotherBlock
    <3> QED BY <1>9, <2>1, <3>2, <3>4, <3>5
  <2>2. CASE filled # 0
    <3>1. whole = 0 /\ d2 = <<>>
      BY <1>9, <1>14, <2>2, EmptySeq
    <3>2. h2 = h1 /\ t + top + whole = t + top
      BY <1>13, <3>1
    <3> QED BY <1>13, <3>1, <3>2
  <2> QED BY <2>1, <2>2
<1>17. /\ b2 \in Blocks /\ Fed(h2, b2, filled + Len(d3), t + Len(data))
       /\ filled + Len(d3) \in 0 .. BlockSize - 1
  <2>1. filled + Len(d3) \in 0 .. BlockSize - 1 /\ filled \in Nat /\ filled + Len(d3) <= BlockSize
    <3>1. Len(d3) \in 0 .. BlockSize - 1
      BY <1>3, <1>5, <1>10
    <3> QED BY <1>5, <1>14, <3>1
  <2> HIDE DEF h2
  <2>2. \A i \in 1 .. Len(d3) : d3[i] = Cell("byte", t + top + whole + i)
    BY <1>10, <1>15
  <2>3. /\ b2 \in Blocks /\ Fed(h2, b2, filled + Len(d3), t + top + whole + Len(d3))
    BY <1>10, <1>12, <1>16, <1>15, <2>1, <2>2, PieceStashed
  <2> QED BY <1>15, <2>1, <2>3
<1>18. /\ ~finalized[s] /\ finalized' = finalized
       /\ totalBytes' = [totalBytes EXCEPT ![s] = t + Len(data)]
       /\ hashed' = [hashed EXCEPT ![s] = h2]
       /\ block' = [block EXCEPT ![s] = b2]
       /\ blockLength' = [blockLength EXCEPT ![s] = filled + Len(d3)]
  BY <1>1, <1>3, <1>6 DEF Update, Processed, h1, filled, topped
<1> HIDE DEF h2, b2
<1>19. Streams'
  BY <1>5, <1>16, <1>17, <1>18 DEF Streams
<1>20. /\ totalBytes'[s] = t + Len(data) /\ hashed'[s] = h2 /\ block'[s] = b2
       /\ blockLength'[s] = filled + Len(d3)
  BY <1>18 DEF Streams
<1>21. Holds(s)'
  BY <1>16, <1>17, <1>20 DEF Holds
<1>22. totalBytes'[s] = totalBytes[s] + Len(data)
  BY <1>1, <1>20
<1> QED BY <1>18, <1>19, <1>21, <1>22 DEF Streams

-----------------------------------------------------------------------------
(* Sha256Stream.digest, against the padding of FIPS 180-4.                   *)

One == Cell("one", 0)

\* Cell i of a message of t bytes that is padded to length l.
PaddedCell(t, l, i) ==
    IF i <= t THEN Cell("byte", i)
    ELSE IF i = t + 1 THEN One
    ELSE IF i <= l - 2 THEN Zero
    ELSE LengthWords(t)[i - (l - 2)]

IsPadded(h, t, l) ==
    h \in Seq(Cells) /\ Len(h) = l /\ \A i \in 1 .. l : h[i] = PaddedCell(t, l, i)

LEMMA WordsAreSequence ==
    ASSUME NEW t \in Nat
    PROVE  LengthWords(t) \in Seq(Cells) /\ Len(LengthWords(t)) = 2
<1>1. t * 8 \in Nat /\ WordValues \in Nat \ {0}
  BY SizesAssumption
<1>2. (t * 8) \div WordValues \in Nat /\ (t * 8) % WordValues \in Nat
  BY <1>1, Division
<1> QED BY <1>2, CellTypes DEF LengthWords

LEMMA OneIsCell == One \in Cells /\ Zero \in Cells
BY CellTypes DEF One, Zero

\* The least number of zeros is the only one that is less than a block.
LEMMA LeastZeros ==
    ASSUME NEW t \in Nat, NEW z \in 0 .. BlockSize - 1, WholeNumber(t + 1 + z + 2)
    PROVE  z = CHOOSE n \in 0 .. BlockSize - 1 : (t + 1 + n + 2) % BlockSize = 0
<1>1. BlockSize \in Nat \ {0} /\ z \in Nat
  BY BlockAssumption
<1>2. PICK j \in Nat : t + 1 + z + 2 = j * BlockSize
  BY DEF WholeNumber
<1>3. PICK a \in Nat : a = t + 1 + z + 2
  BY <1>1
<1>4. /\ a \div BlockSize \in Nat /\ a % BlockSize \in 0 .. BlockSize - 1
      /\ a = (a \div BlockSize) * BlockSize + (a % BlockSize)
  BY <1>1, Division
<1>5. PICK q \in Nat, r \in 0 .. BlockSize - 1 :
          q = a \div BlockSize /\ r = a % BlockSize /\ a = q * BlockSize + r
  BY <1>4
<1>6. r = (j - q) * BlockSize /\ r < BlockSize /\ r > -BlockSize /\ j - q \in Int
  BY <1>1, <1>2, <1>3, <1>5
<1>7. j - q = 0
  BY <1>1, <1>6, SmallMultiple
<1>8. r = 0
  BY <1>1, <1>6, <1>7
<1>9. (t + 1 + z + 2) % BlockSize = 0
  BY <1>3, <1>5, <1>8
<1>10. ASSUME NEW n \in 0 .. BlockSize - 1, (t + 1 + n + 2) % BlockSize = 0
       PROVE  n = z
  <2>1. PICK c \in Nat : c = t + 1 + n + 2
    BY <1>1
  <2>2. /\ c \div BlockSize \in Nat /\ c = (c \div BlockSize) * BlockSize + (c % BlockSize)
        /\ c % BlockSize = 0
    BY <1>1, <1>10, <2>1, Division
  <2>3. PICK p \in Nat : c = p * BlockSize
    <3>1. c = (c \div BlockSize) * BlockSize
      BY <1>1, <2>2
    <3> QED BY <2>2, <3>1
  <2>4. n - z = (p - j) * BlockSize /\ n - z < BlockSize /\ n - z > -BlockSize /\ p - j \in Int
    BY <1>1, <1>2, <2>1, <2>3
  <2>5. p - j = 0
    BY <1>1, <2>4, SmallMultiple
  <2> QED BY <1>1, <2>4, <2>5
<1> QED BY <1>9, <1>10

LEMMA PaddedMessage ==
    ASSUME size \in Nat, NEW z \in 0 .. BlockSize - 1, WholeNumber(size + 1 + z + 2)
    PROVE  IsPadded(Padded, size, size + 1 + z + 2)
<1> DEFINE s0 == File(0, size)
           s1 == s0 \o <<One>>
           s2 == s1 \o Zeros(z)
           s3 == s2 \o LengthWords(size)
<1>1. BlockSize \in Nat /\ z \in Nat /\ size - 0 = size /\ 0 <= size /\ 0 \in Nat
  BY BlockAssumption
<1>2. Padded = s3
  BY LeastZeros DEF Padded, One
<1>3. /\ s0 \in Seq(Cells) /\ Len(s0) = size
      /\ \A i \in 1 .. size : s0[i] = Cell("byte", i)
  <2>1. /\ s0 \in Seq(Cells) /\ Len(s0) = size - 0
        /\ \A i \in 1 .. size - 0 : s0[i] = Cell("byte", 0 + i)
    BY <1>1, FileIsSequence
  <2>2. \A i \in 1 .. size : 0 + i = i
    OBVIOUS
  <2> QED BY <1>1, <2>1, <2>2
<1> HIDE DEF s0
<1>4. /\ s1 \in Seq(Cells) /\ Len(s1) = size + 1
      /\ \A i \in 1 .. size : s1[i] = s0[i]
      /\ s1[size + 1] = One
  BY <1>3, OneIsCell
<1> HIDE DEF s1
<1>5. /\ Zeros(z) \in Seq(Cells) /\ Len(Zeros(z)) = z /\ \A i \in 1 .. z : Zeros(z)[i] = Zero
  BY <1>1, ZerosAreSequence
<1>6. /\ s2 \in Seq(Cells) /\ Len(s2) = size + 1 + z
      /\ \A i \in 1 .. size + 1 : s2[i] = s1[i]
      /\ \A i \in size + 2 .. size + 1 + z : s2[i] = Zero
  <2>1. /\ s2 \in Seq(Cells) /\ Len(s2) = Len(s1) + Len(Zeros(z))
        /\ \A i \in 1 .. Len(s1) : s2[i] = s1[i]
        /\ \A i \in Len(s1) + 1 .. Len(s1) + Len(Zeros(z)) : s2[i] = Zeros(z)[i - Len(s1)]
    BY <1>4, <1>5
  <2>2. \A i \in size + 2 .. size + 1 + z :
            i - (size + 1) \in 1 .. z /\ i \in (size + 1) + 1 .. (size + 1) + z
    BY <1>1
  <2> QED BY <1>4, <1>5, <2>1, <2>2
<1> HIDE DEF s2
<1>7. LengthWords(size) \in Seq(Cells) /\ Len(LengthWords(size)) = 2
  BY WordsAreSequence
<1>8. /\ s3 \in Seq(Cells) /\ Len(s3) = size + 1 + z + 2
      /\ \A i \in 1 .. size + 1 + z : s3[i] = s2[i]
      /\ \A i \in size + 1 + z + 1 .. size + 1 + z + 2 :
             s3[i] = LengthWords(size)[i - (size + 1 + z)]
  <2>1. /\ s3 \in Seq(Cells) /\ Len(s3) = Len(s2) + Len(LengthWords(size))
        /\ \A i \in 1 .. Len(s2) : s3[i] = s2[i]
        /\ \A i \in Len(s2) + 1 .. Len(s2) + Len(LengthWords(size)) :
               s3[i] = LengthWords(size)[i - Len(s2)]
    BY <1>6, <1>7, Joined
  <2> QED BY <1>6, <1>7, <2>1, Zenon
<1> HIDE DEF s3
<1>9. ASSUME NEW i \in 1 .. size + 1 + z + 2
      PROVE  s3[i] = PaddedCell(size, size + 1 + z + 2, i)
  <2>1. CASE i <= size
    <3>1. i \in 1 .. size /\ i \in 1 .. size + 1 /\ i \in 1 .. size + 1 + z
      BY <1>1, <2>1
    <3> QED BY <1>3, <1>4, <1>6, <1>8, <2>1, <3>1 DEF PaddedCell
  <2>2. CASE i = size + 1
    <3>1. i \in 1 .. size + 1 /\ i \in 1 .. size + 1 + z /\ ~(i <= size)
      BY <1>1, <2>2
    <3> QED BY <1>4, <1>6, <1>8, <2>2, <3>1 DEF PaddedCell
  <2>3. CASE i \in size + 2 .. size + 1 + z
    <3>1. i \in 1 .. size + 1 + z /\ ~(i <= size) /\ i # size + 1 /\ i <= (size + 1 + z + 2) - 2
      BY <1>1, <2>3
    <3> QED BY <1>6, <1>8, <2>3, <3>1 DEF PaddedCell
  <2>4. CASE i \in size + 1 + z + 1 .. size + 1 + z + 2
    <3>1. /\ ~(i <= size) /\ i # size + 1 /\ ~(i <= (size + 1 + z + 2) - 2)
          /\ (size + 1 + z + 2) - 2 = size + 1 + z
      BY <1>1, <2>4
    <3> QED BY <1>8, <2>4, <3>1 DEF PaddedCell
  <2> QED BY <1>1, <2>1, <2>2, <2>3, <2>4
<1> QED BY <1>2, <1>8, <1>9 DEF IsPadded

\* The block that ends a message of t bytes: n cells of m, zeros, the length.
LastOf(m, n, t) ==
    Written(Written(m, n, Zeros(BlockSize - 2 - n)), BlockSize - 2, LengthWords(t))

EndsIn(w, m, n, t) ==
    /\ w \in Blocks
    /\ \A i \in 1 .. n : w[i] = m[i]
    /\ \A i \in n + 1 .. BlockSize - 2 : w[i] = Zero
    /\ \A i \in BlockSize - 1 .. BlockSize : w[i] = LengthWords(t)[i - (BlockSize - 2)]

LEMMA LastBlock ==
    ASSUME NEW m \in Blocks, NEW n \in 0 .. BlockSize - 2, NEW t \in Nat
    PROVE  EndsIn(LastOf(m, n, t), m, n, t)
<1> DEFINE w == LastOf(m, n, t)
<1>1. PICK k \in Nat, e \in Nat :
          /\ k = BlockSize - 2 - n /\ e = BlockSize - 2 /\ n + k = e
          /\ BlockSize \in Nat /\ n \in Nat
  <2>1. /\ BlockSize - 2 - n \in Nat /\ BlockSize - 2 \in Nat /\ n \in Nat /\ BlockSize \in Nat
        /\ n + (BlockSize - 2 - n) = BlockSize - 2
    BY BlockAssumption
  <2> QED BY ONLY <2>1
<1>2. PICK y \in Seq(Cells) : y = Zeros(k) /\ Len(y) = k /\ \A i \in 1 .. k : y[i] = Zero
  BY ZerosAreSequence
<1>3. PICK v : v = Written(m, n, y)
  OBVIOUS
<1>4. /\ v \in Blocks /\ \A i \in 1 .. n : v[i] = m[i]
      /\ \A i \in 1 .. k : v[n + i] = Zero
  <2>1. n \in Nat /\ n + Len(y) <= BlockSize
    BY <1>1, <1>2
  <2>2. /\ v \in Blocks /\ \A i \in 1 .. n : v[i] = m[i]
        /\ \A i \in 1 .. Len(y) : v[n + i] = y[i]
    BY <1>3, <2>1, Writing
  <2> QED BY <1>2, <2>2
<1>5. PICK u \in Seq(Cells) : u = LengthWords(t) /\ Len(u) = 2
  BY WordsAreSequence
<1>6. w = Written(v, e, u)
  BY <1>1, <1>2, <1>3, <1>5 DEF LastOf
<1> HIDE DEF w
<1>7. /\ w \in Blocks /\ \A i \in 1 .. e : w[i] = v[i]
      /\ \A i \in 1 .. 2 : w[e + i] = u[i]
  <2>1. e + Len(u) <= BlockSize
    BY <1>1, <1>5
  <2>2. /\ w \in Blocks /\ \A i \in 1 .. e : w[i] = v[i]
        /\ \A i \in 1 .. Len(u) : w[e + i] = u[i]
    BY <1>4, <1>6, <2>1, Writing
  <2> QED BY <1>5, <2>2
<1>8. ASSUME NEW i \in 1 .. n PROVE w[i] = m[i]
  <2>1. i \in 1 .. e
    BY <1>1
  <2> QED BY <1>4, <1>7, <2>1
<1>9. ASSUME NEW i \in n + 1 .. BlockSize - 2 PROVE w[i] = Zero
  <2>1. i \in 1 .. e /\ i - n \in 1 .. k /\ n + (i - n) = i
    BY <1>1
  <2> QED BY <1>4, <1>7, <2>1
<1>10. ASSUME NEW i \in BlockSize - 1 .. BlockSize
       PROVE  w[i] = LengthWords(t)[i - (BlockSize - 2)]
  <2>1. i - e \in 1 .. 2 /\ e + (i - e) = i /\ BlockSize - 2 = e
    BY <1>1
  <2> QED BY <1>5, <1>7, <2>1
<1>11. EndsIn(w, m, n, t)
  BY <1>7, <1>8, <1>9, <1>10 DEF EndsIn
<1> QED BY <1>11 DEF w

\* The one goes behind what waits.
LEMMA Marked ==
    ASSUME NEW b \in Blocks, NEW n \in 0 .. BlockSize - 1, NEW m, m = Written(b, n, <<One>>)
    PROVE  /\ m \in Blocks /\ \A i \in 1 .. n : m[i] = b[i]
           /\ m[n + 1] = One
<1>1. PICK d \in Seq(Cells) : d = <<One>> /\ Len(d) = 1 /\ d[1] = One
  <2>1. <<One>> \in Seq(Cells) /\ Len(<<One>>) = 1 /\ <<One>>[1] = One
    BY OneIsCell
  <2> QED BY <2>1
<1>2. n \in Nat /\ n + Len(d) <= BlockSize /\ 1 \in 1 .. Len(d)
  BY <1>1, BlockAssumption
<1>3. m = Written(b, n, d)
  BY <1>1
<1>4. /\ m \in Blocks /\ \A i \in 1 .. n : m[i] = b[i]
      /\ \A i \in 1 .. Len(d) : m[n + i] = d[i]
  <2>1. /\ Written(b, n, d) \in Blocks /\ \A i \in 1 .. n : Written(b, n, d)[i] = b[i]
        /\ \A i \in 1 .. Len(d) : Written(b, n, d)[n + i] = d[i]
    BY <1>2, Writing
  <2> QED BY <1>3, <2>1
<1> QED BY <1>1, <1>2, <1>4

\* A message that ends in the block it waits in.
LEMMA OneBlock ==
    ASSUME NEW h \in Seq(Cells), NEW b \in Blocks, NEW n \in 0 .. BlockSize - 3,
           NEW t \in Nat, Fed(h, b, n, t),
           NEW m, m = Written(b, n, <<One>>), NEW w, w = LastOf(m, n + 1, t)
    PROVE  w \in Blocks /\ IsPadded(h \o w, t, Len(h) + BlockSize)
<1>1. /\ BlockSize \in Nat /\ BlockSize > 2 /\ Len(h) \in Nat /\ t = Len(h) + n
      /\ n \in 0 .. BlockSize - 1 /\ n + 1 \in 0 .. BlockSize - 2
  BY BlockAssumption DEF Fed
<1>2. m \in Blocks /\ (\A i \in 1 .. n : m[i] = b[i]) /\ m[n + 1] = One
  BY <1>1, Marked
<1>3. /\ w \in Blocks
      /\ \A i \in 1 .. n + 1 : w[i] = m[i]
      /\ \A i \in (n + 1) + 1 .. BlockSize - 2 : w[i] = Zero
      /\ \A i \in BlockSize - 1 .. BlockSize : w[i] = LengthWords(t)[i - (BlockSize - 2)]
  BY <1>1, <1>2, LastBlock DEF EndsIn
<1>4. w \in Seq(Cells) /\ Len(w) = BlockSize
  BY <1>3, BlockIsSequence
<1>5. PICK g, l : g = h \o w /\ l = Len(h) + BlockSize
  OBVIOUS
<1>6. /\ g \in Seq(Cells) /\ Len(g) = l
      /\ \A i \in 1 .. Len(h) : g[i] = h[i]
      /\ \A i \in Len(h) + 1 .. l : g[i] = w[i - Len(h)]
  <2>1. /\ g \in Seq(Cells) /\ Len(g) = Len(h) + Len(w)
        /\ \A i \in 1 .. Len(h) : g[i] = h[i]
        /\ \A i \in Len(h) + 1 .. Len(h) + Len(w) : g[i] = w[i - Len(h)]
    BY <1>4, <1>5, Joined
  <2> QED BY <1>4, <1>5, <2>1
<1>7. ASSUME NEW i \in 1 .. l PROVE g[i] = PaddedCell(t, l, i)
  <2>1. CASE i \in 1 .. Len(h)
    <3>1. i <= t
      BY <1>1, <2>1
    <3>2. h[i] = Cell("byte", i)
      BY <2>1 DEF Fed
    <3> QED BY <1>6, <2>1, <3>1, <3>2 DEF PaddedCell
  <2>2. CASE i \in Len(h) + 1 .. l
    <3>1. PICK j \in 1 .. BlockSize : j = i - Len(h) /\ i = Len(h) + j
      <4>1. i - Len(h) \in 1 .. BlockSize /\ i = Len(h) + (i - Len(h))
        BY <1>1, <1>5, <2>2
      <4> QED BY <4>1
    <3>2. g[i] = w[j]
      BY <1>6, <2>2, <3>1
    <3>3. CASE j \in 1 .. n
      <4>1. i <= t /\ j \in 1 .. n + 1
        BY <1>1, <3>1, <3>3
      <4>2. b[j] = Cell("byte", i)
        BY <3>1, <3>3 DEF Fed
      <4> QED BY <1>2, <1>3, <3>2, <3>3, <4>1, <4>2 DEF PaddedCell
    <3>4. CASE j = n + 1
      <4>1. ~(i <= t) /\ i = t + 1 /\ j \in 1 .. n + 1
        BY <1>1, <3>1, <3>4
      <4> QED BY <1>2, <1>3, <3>2, <3>4, <4>1 DEF PaddedCell
    <3>5. CASE j \in (n + 1) + 1 .. BlockSize - 2
      <4>1. ~(i <= t) /\ i # t + 1 /\ i <= l - 2
        BY <1>1, <1>5, <3>1, <3>5
      <4> QED BY <1>3, <3>2, <3>5, <4>1 DEF PaddedCell
    <3>6. CASE j \in BlockSize - 1 .. BlockSize
      <4>1. ~(i <= t) /\ i # t + 1 /\ ~(i <= l - 2) /\ i - (l - 2) = j - (BlockSize - 2)
        BY <1>1, <1>5, <3>1, <3>6
      <4> QED BY <1>3, <3>2, <3>6, <4>1 DEF PaddedCell
    <3> QED BY <1>1, <3>3, <3>4, <3>5, <3>6
  <2> QED BY <1>1, <2>1, <2>2
<1> QED BY <1>3, <1>5, <1>6, <1>7 DEF IsPadded

\* A message whose length does not fit into that block.
LEMMA TwoBlocks ==
    ASSUME NEW h \in Seq(Cells), NEW b \in Blocks, NEW n \in BlockSize - 2 .. BlockSize - 1,
           NEW t \in Nat, Fed(h, b, n, t),
           NEW m, m = Written(b, n, <<One>>),
           NEW f, f = Written(m, n + 1, Zeros(BlockSize - (n + 1))),
           NEW w, w = LastOf(f, 0, t)
    PROVE  w \in Blocks /\ IsPadded((h \o f) \o w, t, Len(h) + BlockSize + BlockSize)
<1>1. /\ BlockSize \in Nat /\ BlockSize > 2 /\ Len(h) \in Nat /\ t = Len(h) + n
      /\ n \in 0 .. BlockSize - 1 /\ n + 1 \in Nat /\ 0 \in 0 .. BlockSize - 2
  BY BlockAssumption DEF Fed
<1>2. m \in Blocks /\ (\A i \in 1 .. n : m[i] = b[i]) /\ m[n + 1] = One
  BY <1>1, Marked
<1>3. PICK k \in Nat : k = BlockSize - (n + 1) /\ (n + 1) + k = BlockSize
  BY <1>1
<1>4. PICK y \in Seq(Cells) : y = Zeros(k) /\ Len(y) = k /\ \A i \in 1 .. k : y[i] = Zero
  BY ZerosAreSequence
<1>5. /\ f \in Blocks /\ \A i \in 1 .. n + 1 : f[i] = m[i]
      /\ \A i \in (n + 1) + 1 .. BlockSize : f[i] = Zero
  <2>1. f = Written(m, n + 1, y) /\ (n + 1) + Len(y) <= BlockSize
    BY <1>1, <1>3, <1>4
  <2>2. /\ f \in Blocks /\ \A i \in 1 .. n + 1 : f[i] = m[i]
        /\ \A i \in 1 .. Len(y) : f[(n + 1) + i] = y[i]
    <3>1. PICK n1 \in Nat : n1 = n + 1
      BY <1>1
    <3>2. f = Written(m, n1, y) /\ n1 + Len(y) <= BlockSize
      BY <2>1, <3>1
    <3>3. /\ Written(m, n1, y) \in Blocks /\ \A i \in 1 .. n1 : Written(m, n1, y)[i] = m[i]
          /\ \A i \in 1 .. Len(y) : Written(m, n1, y)[n1 + i] = y[i]
      BY <1>2, <3>2, Writing
    <3> QED BY <3>1, <3>2, <3>3
  <2>3. ASSUME NEW i \in (n + 1) + 1 .. BlockSize PROVE f[i] = Zero
    <3>1. i - (n + 1) \in 1 .. k /\ (n + 1) + (i - (n + 1)) = i
      BY <1>1, <1>3
    <3> QED BY <1>4, <2>2, <3>1
  <2> QED BY <2>2, <2>3
<1>6. /\ w \in Blocks
      /\ \A i \in 0 + 1 .. BlockSize - 2 : w[i] = Zero
      /\ \A i \in BlockSize - 1 .. BlockSize : w[i] = LengthWords(t)[i - (BlockSize - 2)]
  BY <1>1, <1>5, LastBlock DEF EndsIn
<1>7. /\ w \in Seq(Cells) /\ Len(w) = BlockSize /\ f \in Seq(Cells) /\ Len(f) = BlockSize
  BY <1>5, <1>6, BlockIsSequence
<1>8. PICK e : e = h \o f
  OBVIOUS
<1>9. /\ e \in Seq(Cells) /\ Len(e) = Len(h) + BlockSize
      /\ \A i \in 1 .. Len(h) : e[i] = h[i]
      /\ \A i \in Len(h) + 1 .. Len(h) + BlockSize : e[i] = f[i - Len(h)]
  <2>1. /\ e \in Seq(Cells) /\ Len(e) = Len(h) + Len(f)
        /\ \A i \in 1 .. Len(h) : e[i] = h[i]
        /\ \A i \in Len(h) + 1 .. Len(h) + Len(f) : e[i] = f[i - Len(h)]
    BY <1>7, <1>8, Joined
  <2> QED BY <1>7, <2>1
<1>10. PICK g, l : g = e \o w /\ l = Len(h) + BlockSize + BlockSize
  OBVIOUS
<1>11. /\ g \in Seq(Cells) /\ Len(g) = l
       /\ \A i \in 1 .. Len(h) + BlockSize : g[i] = e[i]
       /\ \A i \in Len(h) + BlockSize + 1 .. l : g[i] = w[i - (Len(h) + BlockSize)]
  <2>1. /\ g \in Seq(Cells) /\ Len(g) = Len(e) + Len(w)
        /\ \A i \in 1 .. Len(e) : g[i] = e[i]
        /\ \A i \in Len(e) + 1 .. Len(e) + Len(w) : g[i] = w[i - Len(e)]
    <3>1. g = e \o w /\ w \in Seq(Cells) /\ e \in Seq(Cells)
      BY <1>7, <1>9, <1>10
    <3> QED BY ONLY <3>1, Joined
  <2> QED BY <1>7, <1>9, <1>10, <2>1
<1>12. ASSUME NEW i \in 1 .. l PROVE g[i] = PaddedCell(t, l, i)
  <2>1. CASE i \in 1 .. Len(h)
    <3>1. i <= t /\ i \in 1 .. Len(h) + BlockSize
      BY <1>1, <2>1
    <3>2. h[i] = Cell("byte", i)
      BY <2>1 DEF Fed
    <3> QED BY <1>9, <1>11, <2>1, <3>1, <3>2 DEF PaddedCell
  <2>2. CASE i \in Len(h) + 1 .. Len(h) + BlockSize
    <3>1. PICK j \in 1 .. BlockSize : j = i - Len(h) /\ i = Len(h) + j
      BY <1>1, <2>2
    <3>2. i \in 1 .. Len(h) + BlockSize /\ i <= l - 2
      BY <1>1, <1>10, <2>2
    <3>3. g[i] = f[j]
      BY <1>9, <1>11, <2>2, <3>1, <3>2
    <3>4. CASE j \in 1 .. n
      <4>1. i <= t /\ j \in 1 .. n + 1
        BY <1>1, <3>1, <3>4
      <4>2. b[j] = Cell("byte", i)
        BY <3>1, <3>4 DEF Fed
      <4> QED BY <1>2, <1>5, <3>3, <3>4, <4>1, <4>2 DEF PaddedCell
    <3>5. CASE j = n + 1
      <4>1. ~(i <= t) /\ i = t + 1 /\ j \in 1 .. n + 1
        BY <1>1, <3>1, <3>5
      <4> QED BY <1>2, <1>5, <3>3, <3>5, <4>1 DEF PaddedCell
    <3>6. CASE j \in (n + 1) + 1 .. BlockSize
      <4>1. ~(i <= t) /\ i # t + 1
        BY <1>1, <3>1, <3>6
      <4> QED BY <1>5, <3>2, <3>3, <3>6, <4>1 DEF PaddedCell
    <3> QED BY <1>1, <3>4, <3>5, <3>6
  <2>3. CASE i \in Len(h) + BlockSize + 1 .. l
    <3>1. PICK j \in 1 .. BlockSize : j = i - (Len(h) + BlockSize) /\ i = Len(h) + BlockSize + j
      <4>1. /\ i - (Len(h) + BlockSize) \in 1 .. BlockSize
            /\ i = Len(h) + BlockSize + (i - (Len(h) + BlockSize))
        BY <1>1, <1>10, <2>3
      <4> QED BY <4>1
    <3>2. g[i] = w[j] /\ ~(i <= t) /\ i # t + 1
      <4>1. n + 1 <= BlockSize /\ i >= Len(h) + BlockSize + 1
        BY <1>1, <3>1
      <4>2. ~(i <= t) /\ i # t + 1
        BY <1>1, <3>1, <4>1
      <4> QED BY <1>11, <2>3, <3>1, <4>2
    <3>3. CASE j \in 0 + 1 .. BlockSize - 2
      <4>1. i <= l - 2
        BY <1>1, <1>10, <3>1, <3>3
      <4> QED BY <1>6, <3>2, <3>3, <4>1 DEF PaddedCell
    <3>4. CASE j \in BlockSize - 1 .. BlockSize
      <4>1. ~(i <= l - 2) /\ i - (l - 2) = j - (BlockSize - 2)
        BY <1>1, <1>10, <3>1, <3>4
      <4> QED BY <1>6, <3>2, <3>4, <4>1 DEF PaddedCell
    <3> QED BY <1>1, <3>3, <3>4
  <2>4. /\ Len(h) \in Nat /\ BlockSize \in Nat /\ l = Len(h) + BlockSize + BlockSize
        /\ i \in 1 .. l
    BY <1>1, <1>10
  <2>5. i \in 1 .. Len(h) \/ i \in Len(h) + 1 .. Len(h) + BlockSize
        \/ i \in Len(h) + BlockSize + 1 .. l
    BY ONLY <2>4
  <2> QED BY <2>1, <2>2, <2>3, <2>5
<1> QED BY <1>6, <1>8, <1>10, <1>11, <1>12 DEF IsPadded

LEMMA SamePadding ==
    ASSUME NEW t, NEW l, NEW g, NEW h, IsPadded(g, t, l), IsPadded(h, t, l)
    PROVE  g = h
<1>1. g \in Seq(Cells) /\ h \in Seq(Cells) /\ Len(g) = Len(h)
  BY DEF IsPadded
<1>2. \A i \in 1 .. Len(g) : g[i] = h[i]
  BY DEF IsPadded
<1> QED BY <1>1, <1>2, SeqEqual

\* A message whose length in blocks is whole, whatever the blocks were.
LEMMA PaddingIsWhole ==
    ASSUME size \in Nat, NEW z \in 0 .. BlockSize - 1, NEW g, NEW l,
           IsPadded(g, size, l), WholeNumber(l), l = size + 1 + z + 2
    PROVE  g = Padded
BY PaddedMessage, SamePadding

LEMMA DigestPads ==
    ASSUME Streams, NEW s \in Sides, Holds(s), Digest(s),
           size \in Nat, totalBytes[s] = size
    PROVE  /\ Streams' /\ hashed'[s] = Padded /\ totalBytes' = totalBytes
           /\ ~finalized[s] /\ finalized' = [finalized EXCEPT ![s] = TRUE]
           /\ \A r \in Sides \ {s} :
                  /\ block'[r] = block[r] /\ blockLength'[r] = blockLength[r]
                  /\ hashed'[r] = hashed[r]
<1>1. PICK h \in Seq(Cells), b \in Blocks, n \in 0 .. BlockSize - 1, t \in Nat :
          /\ h = hashed[s] /\ b = block[s] /\ n = blockLength[s] /\ t = size
          /\ Fed(h, b, n, t) /\ WholeNumber(Len(h)) /\ t = totalBytes[s]
  BY DEF Streams, Holds
<1>2. /\ BlockSize \in Nat /\ BlockSize > 2 /\ Len(h) \in Nat /\ n \in Nat /\ t = Len(h) + n
      /\ n < BlockSize /\ size = Len(h) + n
  BY <1>1, BlockAssumption DEF Fed
<1>3. PICK m : m = Written(b, n, <<One>>)
  OBVIOUS
<1>4. PICK w \in Blocks, g \in Seq(Cells) :
          /\ g = Padded /\ hashed' = [hashed EXCEPT ![s] = g]
          /\ block' = [block EXCEPT ![s] = w]
  <2>1. CASE n <= BlockSize - 3
    <3>1. PICK w : w = LastOf(m, n + 1, t)
      OBVIOUS
    <3>2. w \in Blocks /\ IsPadded(h \o w, t, Len(h) + BlockSize)
      <4>1. n \in 0 .. BlockSize - 3
        BY <1>2, <2>1
      <4> QED BY <1>1, <1>3, <3>1, <4>1, OneBlock
    <3>3. PICK z \in 0 .. BlockSize - 1 : z = BlockSize - 3 - n
      BY <1>2, <2>1
    <3>4. Len(h) + BlockSize = size + 1 + z + 2
      BY <1>2, <3>3
    <3>5. WholeNumber(Len(h) + BlockSize)
      BY <1>1, <1>2, AnotherBlock
    <3>6. h \o w = Padded
      BY <1>1, <3>2, <3>4, <3>5, PaddingIsWhole
    <3>7. ~NeedsAnother(n + 1)
      BY <1>2, <2>1 DEF NeedsAnother
    <3>8. /\ hashed' = [hashed EXCEPT ![s] = (h \o <<>>) \o w]
          /\ block' = [block EXCEPT ![s] = w]
      BY <1>1, <1>3, <3>1, <3>7 DEF Digest, Processed, One, LastOf
    <3>9. h \o <<>> = h
      OBVIOUS
    <3> QED BY <3>2, <3>6, <3>8, <3>9 DEF IsPadded
  <2>2. CASE ~(n <= BlockSize - 3)
    <3>1. PICK f : f = Written(m, n + 1, Zeros(BlockSize - (n + 1)))
      OBVIOUS
    <3>2. PICK w : w = LastOf(f, 0, t)
      OBVIOUS
    <3>3. w \in Blocks /\ IsPadded((h \o f) \o w, t, Len(h) + BlockSize + BlockSize)
      <4>1. n \in BlockSize - 2 .. BlockSize - 1
        BY <1>2, <2>2
      <4> QED BY <1>1, <1>3, <3>1, <3>2, <4>1, TwoBlocks
    <3>4. PICK z \in 0 .. BlockSize - 1 : z = BlockSize + BlockSize - 3 - n
      <4>1. BlockSize + BlockSize - 3 - n \in 0 .. BlockSize - 1
        BY <1>2, <2>2
      <4> QED BY <4>1
    <3>5. Len(h) + BlockSize + BlockSize = size + 1 + z + 2
      BY <1>2, <3>4
    <3>6. WholeNumber(Len(h) + BlockSize + BlockSize)
      <4>1. PICK l \in Nat : l = Len(h) + BlockSize
        BY <1>2
      <4>2. WholeNumber(l)
        BY <1>1, <1>2, <4>1, AnotherBlock
      <4>3. WholeNumber(l + BlockSize)
        BY <1>2, <4>2, AnotherBlock
      <4> QED BY <4>1, <4>3
    <3>7. (h \o f) \o w = Padded
      BY <1>1, <3>3, <3>5, <3>6, PaddingIsWhole
    <3>8. NeedsAnother(n + 1)
      BY <1>2, <2>2 DEF NeedsAnother
    <3>9. /\ hashed' = [hashed EXCEPT ![s] = (h \o f) \o w]
          /\ block' = [block EXCEPT ![s] = w]
      BY <1>1, <1>3, <3>1, <3>2, <3>8 DEF Digest, Processed, One, LastOf
    <3> QED BY <3>3, <3>7, <3>9 DEF IsPadded
  <2> QED BY <2>1, <2>2
<1>5. /\ ~finalized[s] /\ finalized' = [finalized EXCEPT ![s] = TRUE] /\ totalBytes' = totalBytes
      /\ blockLength' = [blockLength EXCEPT ![s] = BlockSize - 2]
  BY DEF Digest
<1>6. Streams'
  BY <1>2, <1>4, <1>5 DEF Streams
<1>7. hashed'[s] = Padded
  BY <1>4 DEF Streams
<1> QED BY <1>4, <1>5, <1>6, <1>7 DEF Streams

-----------------------------------------------------------------------------
(* The two sides.                                                            *)

LEMMA Products ==
    ASSUME NEW a \in Nat, NEW b \in Nat, NEW c \in Nat, a <= b
    PROVE  a * c \in Nat /\ b * c \in Nat /\ a * c <= b * c
<1>1. PICK d \in Nat : b = a + d
  <2>1. b - a \in Nat /\ b = a + (b - a)
    OBVIOUS
  <2> QED BY <2>1
<1>2. b * c = a * c + d * c
  BY <1>1
<1>3. a * c \in Nat /\ d * c \in Nat
  OBVIOUS
<1> QED BY <1>2, <1>3

\* The chunks before the last cover less than the file, all of them the whole.
LEMMA ChunksCover ==
    ASSUME size \in Nat, chunkSize \in Nat \ {0}, NEW a \in Nat
    PROVE  /\ a * chunkSize \in Nat /\ (a + 1) * chunkSize = a * chunkSize + chunkSize
           /\ a < TotalChunks => a * chunkSize < size
           /\ a >= TotalChunks => a * chunkSize >= size
<1>1. PICK c \in Nat : c = chunkSize /\ c > 0
  OBVIOUS
<1>2. PICK n \in Nat : n = size + c - 1
  <2>1. size + c - 1 \in Nat
    BY <1>1
  <2> QED BY <2>1
<1>3. /\ n \div c \in Nat /\ n % c \in 0 .. c - 1 /\ n = (n \div c) * c + (n % c)
  BY <1>1, Division
<1>4. PICK q \in Nat, r \in 0 .. c - 1 : q = n \div c /\ n = q * c + r
  BY <1>3
<1>5. TotalChunks = q
  BY <1>1, <1>2, <1>4 DEF TotalChunks
<1>6. PICK e \in Nat : e = q * c
  OBVIOUS
<1>7. n = e + r
  BY <1>4, <1>6
<1>8. a * c \in Nat /\ (a + 1) * c = a * c + c
  OBVIOUS
<1>9. ASSUME a < q PROVE a * c < size
  <2>1. a + 1 \in Nat /\ a + 1 <= q
    BY <1>9
  <2>2. (a + 1) * c <= e
    BY <1>6, <2>1, Products
  <2> QED BY <1>1, <1>2, <1>7, <1>8, <2>2
<1>10. ASSUME a >= q PROVE a * c >= size
  <2>1. e <= a * c
    BY <1>6, <1>10, Products
  <2> QED BY <1>1, <1>2, <1>7, <1>8, <2>1
<1>11. a < q \/ a >= q
  OBVIOUS
<1> QED BY <1>1, <1>5, <1>8, <1>9, <1>10

\* computeTotalChunks and chunkRangeAt: the chunks of a file are not empty, none
\* is larger than the manifest says, each begins where the one before it ends,
\* and together they are the whole file.
THEOREM ChunksTileTheFile ==
    ASSUME size \in Nat, chunkSize \in Nat \ {0}
    PROVE  /\ TotalChunks \in Nat /\ (TotalChunks = 0 <=> size = 0)
           /\ \A i \in Nat : i < TotalChunks =>
                 /\ ChunkRangeAt(i)[1] < ChunkRangeAt(i)[2]
                 /\ ChunkRangeAt(i)[2] <= ChunkRangeAt(i)[1] + chunkSize
                 /\ ChunkRangeAt(i)[2] = IF i + 1 < TotalChunks THEN ChunkRangeAt(i + 1)[1]
                                         ELSE size
           /\ ChunkRangeAt(0)[1] = 0
<1>1. TotalChunks \in Nat
  <2>1. size + chunkSize - 1 \in Nat
    OBVIOUS
  <2> QED BY <2>1, Division DEF TotalChunks
<1>2. 0 * chunkSize = 0 /\ (0 < TotalChunks => 0 < size) /\ (0 >= TotalChunks => 0 >= size)
  <2>1. 0 * chunkSize = 0
    OBVIOUS
  <2> QED BY <2>1, ChunksCover
<1>3. ASSUME NEW i \in Nat, i < TotalChunks
      PROVE  /\ ChunkRangeAt(i)[1] < ChunkRangeAt(i)[2]
             /\ ChunkRangeAt(i)[2] <= ChunkRangeAt(i)[1] + chunkSize
             /\ ChunkRangeAt(i)[2] = IF i + 1 < TotalChunks THEN ChunkRangeAt(i + 1)[1]
                                     ELSE size
  <2>1. PICK from \in Nat : from = i * chunkSize /\ from < size
    BY <1>3, ChunksCover
  <2>2. (i + 1) * chunkSize = from + chunkSize
    BY <2>1, ChunksCover
  <2>3. ChunkRangeAt(i) = <<from, Lesser(from + chunkSize, size)>>
    BY <2>1 DEF ChunkRangeAt
  <2>4. ChunkRangeAt(i + 1)[1] = from + chunkSize
    BY <2>2 DEF ChunkRangeAt
  <2>5. i + 1 < TotalChunks => from + chunkSize < size
    BY <2>2, ChunksCover
  <2>6. i + 1 >= TotalChunks => from + chunkSize >= size
    BY <2>2, ChunksCover
  <2>7. i + 1 < TotalChunks \/ i + 1 >= TotalChunks
    BY <1>1
  <2> QED BY <1>1, <2>1, <2>3, <2>4, <2>5, <2>6, <2>7 DEF Lesser
<1>4. ChunkRangeAt(0)[1] = 0
  BY <1>2 DEF ChunkRangeAt
<1>5. TotalChunks = 0 <=> size = 0
  BY <1>1, <1>2
<1> QED BY <1>1, <1>3, <1>4, <1>5

\* What the two sides have fed, and that their streams are what they were fed.
Hashing ==
    /\ size \in FileSizes /\ chunkSize \in ChunkSizes /\ at \in [Sides -> Nat] /\ Streams
    /\ totalBytes["sender"] = Lesser(at["sender"] * chunkSize, size)
    /\ totalBytes["receiver"] = Lesser(at["receiver"], size)
    /\ \A s \in Sides : ~finalized[s] => Holds(s)
    /\ HashOfTheFile

LEMMA HashingInit == Init => Hashing
<1> SUFFICES ASSUME Init PROVE Hashing
  OBVIOUS
<1>1. size \in Nat /\ chunkSize \in Nat \ {0} /\ BlockSize \in Nat /\ BlockSize > 2
  BY SizesAssumption, BlockAssumption DEF Init
<1>2. size \in FileSizes /\ chunkSize \in ChunkSizes /\ at \in [Sides -> Nat] /\ Streams
  <2>1. [i \in 1 .. BlockSize |-> Zero] \in Blocks
    BY OneIsCell DEF Blocks
  <2> QED BY <1>1, <2>1 DEF Init, Streams
<1>3. 0 * chunkSize = 0
  BY <1>1
<1>4. /\ totalBytes["sender"] = Lesser(at["sender"] * chunkSize, size)
      /\ totalBytes["receiver"] = Lesser(at["receiver"], size)
  BY <1>1, <1>3 DEF Init, Sides, Lesser
<1>5. ASSUME NEW s \in Sides PROVE Holds(s)
  <2>1. 0 = 0 * BlockSize
    BY <1>1
  <2> QED BY <2>1 DEF Init, Holds, Fed, WholeNumber
<1>6. HashOfTheFile
  BY DEF Init, HashOfTheFile
<1> QED BY <1>2, <1>4, <1>5, <1>6 DEF Hashing

\* A side that takes the file's next bytes.
LEMMA FeedStep ==
    ASSUME Hashing, NEW s \in Sides, NEW to \in Nat, totalBytes[s] <= to,
           Update(s, File(totalBytes[s], to)), UNCHANGED size
    PROVE  /\ Streams' /\ totalBytes'[s] = to
           /\ \A r \in Sides \ {s} : totalBytes'[r] = totalBytes[r]
           /\ \A r \in Sides : ~finalized'[r] => Holds(r)'
           /\ HashOfTheFile'
<1>1. Streams /\ totalBytes[s] \in Nat
  BY DEF Hashing, Streams
<1>2. PICK data \in Seq(Cells) :
          /\ data = File(totalBytes[s], to) /\ Len(data) = to - totalBytes[s]
          /\ \A i \in 1 .. Len(data) : data[i] = Cell("byte", totalBytes[s] + i)
  BY <1>1, FileIsSequence
<1>3. Holds(s) /\ Update(s, data)
  BY <1>2 DEF Hashing, Update
<1>4. /\ Streams' /\ Holds(s)' /\ totalBytes'[s] = totalBytes[s] + Len(data)
      /\ finalized' = finalized /\ ~finalized[s]
      /\ \A r \in Sides \ {s} :
             /\ block'[r] = block[r] /\ blockLength'[r] = blockLength[r]
             /\ totalBytes'[r] = totalBytes[r] /\ hashed'[r] = hashed[r]
  BY <1>1, <1>2, <1>3, UpdateFeeds
<1>5. totalBytes'[s] = to
  BY <1>1, <1>2, <1>4
<1>6. ASSUME NEW r \in Sides, ~finalized'[r] PROVE Holds(r)'
  <2>1. CASE r = s
    BY <1>4, <2>1
  <2>2. CASE r # s
    <3>1. Holds(r)
      BY <1>4, <1>6 DEF Hashing
    <3> QED BY <1>4, <2>2, <3>1 DEF Holds
  <2> QED BY <2>1, <2>2
<1>7. Padded' = Padded
  BY DEF Padded
<1>8. ASSUME NEW r \in Sides, finalized'[r] PROVE hashed'[r] = Padded'
  BY <1>4, <1>7, <1>8 DEF Hashing, HashOfTheFile
<1> QED BY <1>4, <1>5, <1>6, <1>8 DEF HashOfTheFile

\* A side that has taken all of it.
LEMMA EndStep ==
    ASSUME Hashing, NEW s \in Sides, totalBytes[s] = size, Digest(s), UNCHANGED size
    PROVE  /\ Streams' /\ totalBytes' = totalBytes
           /\ \A r \in Sides : ~finalized'[r] => Holds(r)'
           /\ HashOfTheFile'
<1>1. Streams /\ size \in Nat /\ Holds(s)
  BY SizesAssumption DEF Hashing, Digest
<1>2. /\ Streams' /\ hashed'[s] = Padded /\ totalBytes' = totalBytes
      /\ ~finalized[s] /\ finalized' = [finalized EXCEPT ![s] = TRUE]
      /\ \A r \in Sides \ {s} :
             /\ block'[r] = block[r] /\ blockLength'[r] = blockLength[r]
             /\ hashed'[r] = hashed[r]
  BY <1>1, DigestPads
<1>3. finalized'[s] /\ \A r \in Sides \ {s} : finalized'[r] = finalized[r]
  BY <1>1, <1>2 DEF Streams
<1>4. ASSUME NEW r \in Sides, ~finalized'[r] PROVE Holds(r)'
  <2>1. r # s /\ Holds(r)
    BY <1>3, <1>4 DEF Hashing
  <2> QED BY <1>2, <2>1 DEF Holds
<1>5. Padded' = Padded
  BY DEF Padded
<1>6. ASSUME NEW r \in Sides, finalized'[r] PROVE hashed'[r] = Padded'
  BY <1>2, <1>3, <1>5, <1>6 DEF Hashing, HashOfTheFile
<1> QED BY <1>2, <1>4, <1>6 DEF HashOfTheFile

LEMMA HashingStep == Hashing /\ [Next]_vars => Hashing'
<1> SUFFICES ASSUME Hashing, [Next]_vars PROVE Hashing'
  OBVIOUS
<1>1. /\ size \in Nat /\ chunkSize \in Nat \ {0} /\ at["sender"] \in Nat /\ at["receiver"] \in Nat
      /\ "sender" \in Sides /\ "receiver" \in Sides /\ at \in [Sides -> Nat]
      /\ size \in FileSizes /\ chunkSize \in ChunkSizes
  BY SizesAssumption DEF Hashing, Sides
<1>2. CASE HashChunk
  <2>1. PICK a \in Nat, from \in Nat, to \in Nat :
            /\ a = at["sender"] /\ from = a * chunkSize /\ to = Lesser(from + chunkSize, size)
    <3>1. at["sender"] * chunkSize \in Nat
      BY <1>1, ChunksCover
    <3>2. Lesser(at["sender"] * chunkSize + chunkSize, size) \in Nat
      BY <1>1, <3>1 DEF Lesser
    <3> QED BY <1>1, <3>1, <3>2
  <2>2. from < size /\ (a + 1) * chunkSize = from + chunkSize
    BY <1>1, <1>2, <2>1, ChunksCover DEF HashChunk
  <2>3. totalBytes["sender"] = from /\ from <= to
    BY <1>1, <2>1, <2>2 DEF Hashing, Lesser
  <2>4. Update("sender", File(totalBytes["sender"], to)) /\ UNCHANGED size
    BY <1>2, <2>1, <2>3 DEF HashChunk, ChunkRangeAt
  <2>5. /\ Streams' /\ totalBytes'["sender"] = to
        /\ totalBytes'["receiver"] = totalBytes["receiver"]
        /\ \A r \in Sides : ~finalized'[r] => Holds(r)'
        /\ HashOfTheFile'
    BY <1>1, <2>3, <2>4, FeedStep
  <2>6. /\ at' = [at EXCEPT !["sender"] = a + 1] /\ UNCHANGED <<size, chunkSize>>
    BY <1>2, <2>1 DEF HashChunk
  <2>7. at' \in [Sides -> Nat] /\ at'["sender"] = a + 1 /\ at'["receiver"] = at["receiver"]
    BY <1>1, <2>6
  <2>8. totalBytes'["sender"] = Lesser(at'["sender"] * chunkSize', size')
    BY <2>1, <2>2, <2>5, <2>6, <2>7
  <2>9. totalBytes'["receiver"] = Lesser(at'["receiver"], size')
    BY <2>5, <2>6, <2>7 DEF Hashing
  <2> QED BY <1>1, <2>5, <2>6, <2>7, <2>8, <2>9 DEF Hashing
<1>3. CASE FinishFile
  <2>1. at["sender"] * chunkSize \in Nat /\ at["sender"] * chunkSize >= size
    BY <1>1, <1>3, ChunksCover DEF FinishFile
  <2>2. totalBytes["sender"] = size
    BY <1>1, <2>1 DEF Hashing, Lesser
  <2>3. Digest("sender") /\ UNCHANGED <<size, chunkSize, at>>
    BY <1>3 DEF FinishFile
  <2>4. /\ Streams' /\ totalBytes' = totalBytes
        /\ \A r \in Sides : ~finalized'[r] => Holds(r)'
        /\ HashOfTheFile'
    BY <1>1, <2>2, <2>3, EndStep
  <2> QED BY <2>3, <2>4 DEF Hashing
<1>4. CASE HashWindow
  <2>1. Window \in Nat /\ Window > 0
    BY <1>1, SizesAssumption DEF Window, Greater
  <2>2. PICK a \in Nat, to \in Nat : a = at["receiver"] /\ to = Lesser(a + Window, size)
    BY <1>1, <2>1 DEF Lesser
  <2>3. totalBytes["receiver"] = a /\ a <= to
    BY <1>1, <1>4, <2>1, <2>2 DEF Hashing, HashWindow, Lesser
  <2>4. Update("receiver", File(totalBytes["receiver"], to)) /\ UNCHANGED size
    BY <1>4, <2>2, <2>3 DEF HashWindow
  <2>5. /\ Streams' /\ totalBytes'["receiver"] = to
        /\ totalBytes'["sender"] = totalBytes["sender"]
        /\ \A r \in Sides : ~finalized'[r] => Holds(r)'
        /\ HashOfTheFile'
    BY <1>1, <2>3, <2>4, FeedStep
  <2>6. at' = [at EXCEPT !["receiver"] = a + Window] /\ UNCHANGED <<size, chunkSize>>
    BY <1>4, <2>2 DEF HashWindow
  <2>7. /\ at' \in [Sides -> Nat] /\ at'["receiver"] = a + Window
        /\ at'["sender"] = at["sender"]
    BY <1>1, <2>1, <2>6
  <2>8. totalBytes'["sender"] = Lesser(at'["sender"] * chunkSize', size')
    BY <2>5, <2>6, <2>7 DEF Hashing
  <2>9. totalBytes'["receiver"] = Lesser(at'["receiver"], size')
    BY <2>2, <2>5, <2>6, <2>7
  <2> QED BY <1>1, <2>5, <2>6, <2>7, <2>8, <2>9 DEF Hashing
<1>5. CASE FinishBlob
  <2>1. totalBytes["receiver"] = size
    BY <1>1, <1>5 DEF Hashing, Lesser, FinishBlob
  <2>2. Digest("receiver") /\ UNCHANGED <<size, chunkSize, at>>
    BY <1>5 DEF FinishBlob
  <2>3. /\ Streams' /\ totalBytes' = totalBytes
        /\ \A r \in Sides : ~finalized'[r] => Holds(r)'
        /\ HashOfTheFile'
    BY <1>1, <2>1, <2>2, EndStep
  <2> QED BY <2>2, <2>3 DEF Hashing
<1>6. CASE UNCHANGED vars
  BY <1>6 DEF vars, stream, Hashing, Streams, Holds, HashOfTheFile, Padded
<1> QED BY <1>2, <1>3, <1>4, <1>5, <1>6 DEF Next

LEMMA AlwaysHashing == Spec => []Hashing
<1> QED BY HashingInit, HashingStep, PTL DEF Spec

\* Sha256Stream.update loses nothing: at any point between two pieces, what was
\* processed and what waits in the partial block are the file's bytes so far, for
\* blocks, files, chunks and windows of every size.
THEOREM NothingIsLost == Spec => []NothingLost
<1>1. ASSUME Hashing PROVE NothingLost
  <2> SUFFICES ASSUME NEW s \in Sides, ~finalized[s]
               PROVE  hashed[s] \o SubSeq(block[s], 1, blockLength[s]) = File(0, totalBytes[s])
    BY DEF NothingLost
  <2>1. PICK h \in Seq(Cells), b \in Blocks, n \in 0 .. BlockSize - 1, t \in Nat :
            /\ h = hashed[s] /\ b = block[s] /\ n = blockLength[s] /\ t = totalBytes[s]
            /\ Fed(h, b, n, t)
    BY <1>1 DEF Hashing, Streams, Holds
  <2>2. b \in Seq(Cells) /\ Len(b) = BlockSize /\ BlockSize \in Nat /\ n \in Nat /\ n <= Len(b)
    BY BlockIsSequence, BlockAssumption
  <2>3. PICK d : d = SubSeq(b, 1, n)
    OBVIOUS
  <2>4. /\ d \in Seq(Cells) /\ Len(d) = n
        /\ \A i \in 1 .. n : d[i] = b[i]
    BY <2>2, <2>3
  <2>5. PICK g : g = h \o d
    OBVIOUS
  <2>6. /\ g \in Seq(Cells) /\ Len(g) = Len(h) + n /\ t = Len(h) + n /\ Len(h) \in Nat
        /\ \A i \in 1 .. Len(h) : g[i] = h[i]
        /\ \A i \in Len(h) + 1 .. Len(h) + n : g[i] = d[i - Len(h)]
    <3>1. /\ g \in Seq(Cells) /\ Len(g) = Len(h) + Len(d)
          /\ \A i \in 1 .. Len(h) : g[i] = h[i]
          /\ \A i \in Len(h) + 1 .. Len(h) + Len(d) : g[i] = d[i - Len(h)]
      BY <2>4, <2>5, Joined
    <3> QED BY <2>1, <2>4, <3>1 DEF Fed
  <2>7. ASSUME NEW i \in 1 .. t PROVE g[i] = Cell("byte", i)
    <3>1. CASE i \in 1 .. Len(h)
      BY <2>1, <2>6, <3>1 DEF Fed
    <3>2. CASE i \in Len(h) + 1 .. Len(h) + n
      <4>1. i - Len(h) \in 1 .. n /\ Len(h) + (i - Len(h)) = i
        BY <2>2, <2>6, <3>2
      <4>2. b[i - Len(h)] = Cell("byte", Len(h) + (i - Len(h)))
        BY <2>1, <4>1 DEF Fed
      <4> QED BY <2>4, <2>6, <3>2, <4>1, <4>2
    <3> QED BY <2>2, <2>6, <3>1, <3>2
  <2>8. PICK f : f = File(0, t)
    OBVIOUS
  <2>9. f \in Seq(Cells) /\ Len(f) = t /\ \A i \in 1 .. t : f[i] = Cell("byte", i)
    <3>1. 0 \in Nat /\ 0 <= t /\ t - 0 = t
      OBVIOUS
    <3>2. f \in Seq(Cells) /\ Len(f) = t - 0 /\ \A i \in 1 .. t - 0 : f[i] = Cell("byte", 0 + i)
      BY <2>8, <3>1, FileIsSequence
    <3>3. \A i \in 1 .. t : 0 + i = i
      OBVIOUS
    <3> QED BY <3>1, <3>2, <3>3
  <2>10. g = f
    BY <2>6, <2>7, <2>9, SeqEqual
  <2> QED BY <2>1, <2>3, <2>5, <2>8, <2>10
<1> QED BY <1>1, AlwaysHashing, PTL

\* The sender's hash of its chunks and the receiver's of its windows are both the
\* hash of the whole file, padded as FIPS 180-4 asks: a file that arrived whole is
\* never taken for a damaged one because the two sides cut it differently.
THEOREM BothHashTheFile == Spec => []HashOfTheFile
<1>1. Hashing => HashOfTheFile
  BY DEF Hashing
<1> QED BY <1>1, AlwaysHashing, PTL
=============================================================================
