----------------------------- MODULE BlockInfo -----------------------------
(***************************************************************************)
(* The two ways libtransmission cuts a torrent's bytes: into pieces, which *)
(* are hashed, and into blocks, which are requested (block-info.h).  The   *)
(* two grids need not be aligned, so that a block may straddle two pieces. *)
(* Everything the download bookkeeping has to get right about "edge        *)
(* blocks" comes from BlockSpan below.                                     *)
(***************************************************************************)
EXTENDS Integers

CONSTANTS TotalSize,   \* bytes in the torrent
          PieceSize,   \* bytes in a piece (the last one may be shorter)
          BlockSize    \* bytes in a block, 16 KiB in the program

(* tr_block_info::init_sizes asserts that a piece is no smaller than a     *)
(* block; a torrent with metainfo has at least one byte here.              *)
ASSUME SizeAssumption ==
    /\ TotalSize \in Nat \ {0}
    /\ BlockSize \in Nat \ {0}
    /\ PieceSize \in Nat
    /\ PieceSize >= BlockSize

PieceCount == (TotalSize + PieceSize - 1) \div PieceSize
BlockCount == (TotalSize + BlockSize - 1) \div BlockSize

Pieces == 0 .. PieceCount - 1
Blocks == 0 .. BlockCount - 1

(* First byte and past-the-end byte of a piece.                            *)
PieceBegin(p) == p * PieceSize
PieceEnd(p)   == IF (p + 1) * PieceSize < TotalSize THEN (p + 1) * PieceSize
                                                    ELSE TotalSize

(* byte_loc(i).block                                                       *)
BlockOfByte(i) == i \div BlockSize

(* block_span_for_piece: the blocks of the first and the last byte of the  *)
(* piece and those between.  A span is kept as the set of its blocks.      *)
BlockSpan ==
    [p \in Pieces |-> {b \in Blocks : /\ BlockOfByte(PieceBegin(p)) <= b
                                     /\ b <= BlockOfByte(PieceEnd(p) - 1)}]

=============================================================================
