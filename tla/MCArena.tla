------------------------------ MODULE MCArena ------------------------------
(***************************************************************************)
(* The arena's cycles on four chunks: the struct, the first block and up  *)
(* to two appended ones.  A small size_t (0..31) and a small layout: an    *)
(* 8-byte smallest block of which 4 bytes are header.  Allocations of 4    *)
(* (a node), 6, 10 and 26 bytes give blocks of three sizes and retained    *)
(* blocks that do not fit; 0, 29 and 31 meet every guard of the sizes.     *)
(***************************************************************************)
EXTENDS ArenaCycles

CONSTANTS c1, c2, c3, c4

MCChunk == {c1, c2, c3, c4}
ChunkSymmetry == Permutations(MCChunk)
MCBlockSizeArg == {0, 3}
MCRequest == {0, 5, 9, 26, 29, 31}
=============================================================================
