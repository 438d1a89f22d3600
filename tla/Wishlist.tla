------------------------------ MODULE Wishlist ------------------------------
(***************************************************************************)
(* The swarm's wishlist (peer-mgr-wishlist.h/.cc): which blocks could be   *)
(* requested next.  A candidate is a wanted piece that is not complete; it *)
(* owns a span of blocks, and of those keeps the set of the unrequested.   *)
(* A block that straddles two candidate pieces is owned by exactly one of  *)
(* them, so that it is not asked for twice; most of the code below hands   *)
(* such blocks from one owner to the other.                                *)
(*                                                                         *)
(* This module says what each event handler does to the four fields, as    *)
(* operators from their old values to their new ones: one handler of the   *)
(* program often runs several of them.  A piece that is no candidate has   *)
(* an empty span, nothing unrequested and replication zero.  The walks     *)
(* over begin and end indices that compute the same, and the order of the  *)
(* candidates, which decides what is asked for first, are in WishlistList. *)
(***************************************************************************)
EXTENDS BlockInfo

VARIABLES candidates,    \* the pieces that have a Candidate
          block_span,    \* Candidate::block_span, the blocks it owns
          unrequested,   \* Candidate::unrequested
          replication    \* Candidate::replication

wishlistVars == <<candidates, block_span, unrequested, replication>>

NoBlocks == [c \in Pieces |-> {}]

(* find_by_block: the pieces whose candidate owns b.                       *)
Owners(b) == {c \in candidates : b \in block_span[c]}

(* Mutant: as if the blocks were reset in every candidate, owner or not.   *)
ResetBlocksAnywhere(unreq, B) == [c \in Pieces |-> unreq[c] \cup B]

(* reset_block, reset_blocks_bitfield: the blocks B of the owners become   *)
(* requestable again; blocks nobody owns are ignored.                      *)
ResetBlocks(unreq, B) ==
    [c \in Pieces |-> unreq[c] \cup (B \cap block_span[c])]

(* on_got_block, requested_block_span: the blocks B are no longer          *)
(* requestable.                                                            *)
TakeBlocks(unreq, B) == [c \in Pieces |-> unreq[c] \ B]

(* next: what may be asked of a peer that has the pieces P.                *)
Available(cands, unreq, repl, P) ==
    UNION {unreq[c] : c \in {d \in cands \cap P : repl[d] # 0}}

(* inc_replication(_bitfield), dec_replication(_bitfield) over the pieces P *)
AddReplication(P, n) ==
    [c \in Pieces |-> IF c \in candidates \cap P THEN replication[c] + n
                                                 ELSE replication[c]]

-----------------------------------------------------------------------------
(* candidate_list_upkeep with the pieces Target as those that are wanted   *)
(* and not complete, the blocks Have as those we have, and Counts[c] as the *)
(* number of peers and webseeds that have piece c.                         *)

Retained(Target) == candidates \cap Target
Fresh(Target)    == Target \ candidates
Dropped(Target)  == candidates \ Target

(* "If the previous (next) candidate was consecutive with this candidate": *)
(* the neighbours of a dropped candidate get their edge blocks back.       *)
DroppedBelow(Target, c) == {d \in Dropped(Target) : d = c - 1}   \* mutant
DroppedBeside(Target, c) == {d \in Dropped(Target) : d = c - 1 \/ d = c + 1}

UpkeepSpan(Target) ==
    [c \in Pieces |->
        IF c \in Retained(Target)
        THEN block_span[c] \cup
             (BlockSpan[c] \cap UNION {BlockSpan[d] : d \in DroppedBeside(Target, c)})
        ELSE IF c \in Fresh(Target)
        THEN (BlockSpan[c] \ UNION {block_span[d] : d \in Retained(Target)})
                \ UNION {BlockSpan[d] : d \in {e \in Fresh(Target) : e < c}}
        ELSE {}]

UpkeepUnrequested(Target, Have) ==
    [c \in Pieces |->
        IF c \in Retained(Target)
        THEN unrequested[c] \cup
             (BlockSpan[c] \cap UNION {unrequested[d] : d \in DroppedBeside(Target, c)})
        ELSE IF c \in Fresh(Target)
        THEN UpkeepSpan(Target)[c] \ Have
        ELSE {}]

UpkeepReplication(Target, Counts) ==
    [c \in Pieces |-> IF c \in Retained(Target) THEN replication[c]
                      ELSE IF c \in Fresh(Target) THEN Counts[c] ELSE 0]

-----------------------------------------------------------------------------
(* The end of a block's reception.  The pieces Good have just passed their *)
(* checksum and leave the list (on_piece_completed); the pieces Bad, at    *)
(* most one, failed it, their blocks are lost, and they are made           *)
(* candidates anew (on_got_bad_piece): a bad piece owns the blocks its     *)
(* neighbours do not own, and an edge block that a neighbour owns is       *)
(* requestable again there.                                                *)

CheckedCandidates(Good, Bad) == (candidates \ Good) \cup Bad

(* Mutant: a bad piece owns all of its blocks again.                       *)
CheckedSpanWhole(Good, Bad) ==
    [c \in Pieces |-> IF c \in Bad THEN BlockSpan[c]
                      ELSE IF c \in Good THEN {} ELSE block_span[c]]

CheckedSpan(Good, Bad) ==
    [c \in Pieces |->
        IF c \in Bad
        THEN BlockSpan[c] \ UNION {block_span[d] : d \in candidates \ (Good \cup Bad)}
        ELSE IF c \in Good THEN {} ELSE block_span[c]]

CheckedUnrequested(unreq, Good, Bad) ==
    [c \in Pieces |->
        IF c \in Bad
        THEN CheckedSpan(Good, Bad)[c]
        ELSE IF c \in Good THEN {}
        ELSE unreq[c] \cup (block_span[c] \cap UNION {BlockSpan[d] : d \in Bad})]

(* Mutant: nobody is counted for a piece that comes back.                  *)
CheckedReplicationZero(Good, Bad, Counts) ==
    [c \in Pieces |-> IF c \in Good \cup Bad THEN 0 ELSE replication[c]]

CheckedReplication(Good, Bad, Counts) ==
    [c \in Pieces |-> IF c \in Bad THEN Counts[c]
                      ELSE IF c \in Good THEN 0 ELSE replication[c]]

-----------------------------------------------------------------------------
(* Types, and what makes the functions a representation of the list: a     *)
(* candidate owns blocks of its piece, its unrequested blocks are among    *)
(* those it owns, and a piece that is no candidate has neither.            *)
WishlistTypeOK ==
    /\ candidates \subseteq Pieces
    /\ block_span \in [Pieces -> SUBSET Blocks]
    /\ unrequested \in [Pieces -> SUBSET Blocks]
    /\ replication \in [Pieces -> Int]
    /\ \A c \in Pieces : /\ block_span[c] \subseteq BlockSpan[c]
                         /\ unrequested[c] \subseteq block_span[c]
                         /\ c \notin candidates => block_span[c] = {}

(* No block is owned by two candidates, whatever order pieces were wanted, *)
(* unwanted, completed and lost in: find_by_block has one answer, and an   *)
(* edge block is on the list once.                                         *)
SpansDisjoint == \A c, d \in candidates :
    c # d => block_span[c] \cap block_span[d] = {}

=============================================================================
