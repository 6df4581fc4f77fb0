----------------------------- MODULE MCFileHash ------------------------------
(* Values for FileHash: files of up to three blocks and a piece, in chunks   *)
(* from less than a block to more than two.                                  *)
EXTENDS FileHash

SomeSizes == 0 .. 3 * BlockSize + 2
SomeChunks == {1, BlockSize - 1, BlockSize, BlockSize + 1, 2 * BlockSize + 3}
=============================================================================
