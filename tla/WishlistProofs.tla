--------------------------- MODULE WishlistProofs ---------------------------
(***************************************************************************)
(* What the handlers of the wishlist preserve, for every torrent size,     *)
(* piece size and block size.  Everything rests on one fact about the two  *)
(* grids: a piece is no smaller than a block, so that a block straddles at *)
(* most two pieces, and these are neighbours.                              *)
(***************************************************************************)
EXTENDS Wishlist, TLAPS

-----------------------------------------------------------------------------
(* The four properties, of any list of candidates cs with the spans sp and *)
(* the unrequested blocks un.                                              *)

Proper(cs, sp, un) ==
    /\ cs \subseteq Pieces
    /\ sp \in [Pieces -> SUBSET Blocks]
    /\ un \in [Pieces -> SUBSET Blocks]
    /\ \A c \in Pieces : sp[c] \subseteq BlockSpan[c]
    /\ \A c \in Pieces : un[c] \subseteq sp[c]
    /\ \A c \in Pieces : c \notin cs => sp[c] = {}

Disjoint(cs, sp) == \A c, d \in cs : c # d => sp[c] \cap sp[d] = {}

(* Every block of the pieces P outside H has an owner.                     *)
Owned(cs, sp, H, P) ==
    \A c \in P : \A b \in BlockSpan[c] \ H : \E d \in cs : b \in sp[d]

(* Every block with an owner is in H, unrequested or in A.                 *)
Accounted(cs, sp, un, H, A) ==
    \A c \in cs : sp[c] \subseteq H \cup un[c] \cup A

-----------------------------------------------------------------------------
(* What the quotient of a division by a positive number is.                *)
LEMMA DivBounds ==
    ASSUME NEW x \in Int, NEW n \in Nat \ {0}
    PROVE  /\ x \div n \in Int
           /\ n * (x \div n) <= x
           /\ x < n * (x \div n) + n
OBVIOUS

(* Numbers that are a block apart are in different blocks.                 *)
LEMMA DivStep ==
    ASSUME NEW x \in Int, NEW y \in Int, NEW n \in Nat \ {0}, x + n <= y
    PROVE  x \div n < y \div n
<1> DEFINE q == x \div n
           r == y \div n
<1>1. q \in Int /\ r \in Int /\ n * q <= x /\ y < n * r + n
  BY DivBounds
<1>2. SUFFICES ASSUME r <= q PROVE FALSE
  BY <1>1
<1>3. n * r <= n * q
  BY <1>1, <1>2
<1> QED
  BY <1>1, <1>3

(* Two pieces that share a block are neighbours.                           *)
LEMMA SharedBlock ==
    ASSUME NEW c \in Pieces, NEW d \in Pieces, c < d,
           NEW b \in BlockSpan[c], b \in BlockSpan[d]
    PROVE  d = c + 1
<1> USE SizeAssumption
<1>1. c \in Int /\ d \in Int /\ c >= 0
  BY DEF Pieces
<1> DEFINE x == PieceEnd(c) - 1
           y == PieceBegin(d)
<1>2. b \in Int /\ b <= x \div BlockSize /\ y \div BlockSize <= b
  BY DEF BlockSpan, Blocks, BlockOfByte
<1>3. SUFFICES ASSUME c + 2 <= d PROVE FALSE
  BY <1>1
<1>4. (c + 1) * PieceSize \in Int /\ d * PieceSize \in Int
  BY <1>1
<1>5. x \in Int /\ x <= (c + 1) * PieceSize - 1
  BY <1>4 DEF PieceEnd
<1>6. (c + 1) * PieceSize + PieceSize <= d * PieceSize
  BY <1>1, <1>3
<1>7. y \in Int /\ x + BlockSize <= y
  BY <1>4, <1>5, <1>6 DEF PieceBegin
<1>8. x \div BlockSize < y \div BlockSize
  BY <1>5, <1>7, DivStep
<1>9. x \div BlockSize \in Int /\ y \div BlockSize \in Int
  BY <1>5, <1>7, DivBounds
<1> QED
  BY <1>2, <1>8, <1>9

(* No three pieces share a block.                                          *)
LEMMA AtMostTwoPieces ==
    ASSUME NEW c \in Pieces, NEW d \in Pieces, NEW e \in Pieces,
           c # d, d # e, c # e,
           NEW b \in BlockSpan[c], b \in BlockSpan[d], b \in BlockSpan[e]
    PROVE  FALSE
<1>1. c \in Int /\ d \in Int /\ e \in Int
  BY DEF Pieces
<1>2. \A i, j \in {c, d, e} : i < j => j = i + 1
  BY SharedBlock
<1> QED
  BY <1>1, <1>2

(* A dropped candidate that shares a block with c is beside c.             *)
LEMMA SharedIsBeside ==
    ASSUME NEW c \in Pieces, NEW d \in Pieces, c # d,
           NEW b \in BlockSpan[c], b \in BlockSpan[d]
    PROVE  d = c - 1 \/ d = c + 1
<1>1. c \in Int /\ d \in Int
  BY DEF Pieces
<1>2. CASE c < d
  BY <1>2, SharedBlock
<1>3. CASE d < c
  BY <1>1, <1>3, SharedBlock
<1> QED
  BY <1>1, <1>2, <1>3

-----------------------------------------------------------------------------
(* The upkeep of the list keeps it proper, whatever pieces it is for.      *)
LEMMA UpkeepProper ==
    ASSUME Proper(candidates, block_span, unrequested),
           NEW Target \in SUBSET Pieces, NEW H
    PROVE  Proper(Target, UpkeepSpan(Target), UpkeepUnrequested(Target, H))
<1> DEFINE sp == UpkeepSpan(Target)
           un == UpkeepUnrequested(Target, H)
<1> USE DEF Proper
<1>1. BlockSpan \in [Pieces -> SUBSET Blocks]
  BY DEF BlockSpan
<1>2. \A c \in Pieces : sp[c] \subseteq BlockSpan[c]
  BY DEF UpkeepSpan, Retained, Fresh
<1>3. \A c \in Pieces : un[c] \subseteq sp[c]
  <2> SUFFICES ASSUME NEW c \in Pieces, NEW b \in un[c] PROVE b \in sp[c]
    OBVIOUS
  <2>1. CASE c \in Retained(Target)
    <3>1. b \in unrequested[c] \/ \E d \in DroppedBeside(Target, c) :
             b \in BlockSpan[c] /\ b \in unrequested[d]
      BY <2>1 DEF UpkeepUnrequested
    <3>2. \A d \in DroppedBeside(Target, c) : unrequested[d] \subseteq BlockSpan[d]
      BY DEF DroppedBeside, Dropped
    <3> QED
      BY <2>1, <3>1, <3>2 DEF UpkeepSpan
  <2>2. CASE c \notin Retained(Target)
    BY <2>2 DEF UpkeepUnrequested
  <2> QED
    BY <2>1, <2>2
<1>4. sp \in [Pieces -> SUBSET Blocks] /\ un \in [Pieces -> SUBSET Blocks]
  <2>1. sp = [c \in Pieces |-> sp[c]] /\ un = [c \in Pieces |-> un[c]]
    BY DEF UpkeepSpan, UpkeepUnrequested
  <2>2. \A c \in Pieces : sp[c] \in SUBSET Blocks /\ un[c] \in SUBSET Blocks
    BY <1>1, <1>2, <1>3
  <2> HIDE DEF sp, un
  <2> QED
    BY <2>1, <2>2
<1>5. \A c \in Pieces : c \notin Target => sp[c] = {}
  BY DEF UpkeepSpan, Retained, Fresh
<1> QED
  BY <1>2, <1>3, <1>4, <1>5

(* It gives no block to two candidates.                                    *)
LEMMA UpkeepDisjoint ==
    ASSUME Proper(candidates, block_span, unrequested),
           Disjoint(candidates, block_span),
           NEW Target \in SUBSET Pieces
    PROVE  Disjoint(Target, UpkeepSpan(Target))
<1> DEFINE sp == UpkeepSpan(Target)
<1> SUFFICES ASSUME NEW c \in Target, NEW d \in Target, c # d,
                    NEW b \in sp[c], b \in sp[d]
             PROVE  FALSE
  BY DEF Disjoint
<1> USE DEF Proper
<1>1. \A e \in Pieces : sp[e] \subseteq BlockSpan[e]
  BY UpkeepProper
<1>2. b \in BlockSpan[c] /\ b \in BlockSpan[d]
  BY <1>1
<1>3. \A e \in Pieces \ {c, d} : b \notin BlockSpan[e]
  BY <1>2, AtMostTwoPieces
<1>4. \A i \in {c, d} : i \in Retained(Target) => b \in block_span[i]
  <2> SUFFICES ASSUME NEW i \in {c, d}, i \in Retained(Target), b \notin block_span[i]
               PROVE  FALSE
    OBVIOUS
  <2>1. PICK e \in DroppedBeside(Target, i) : b \in BlockSpan[e]
    BY DEF UpkeepSpan
  <2>2. e \in Pieces \ {c, d}
    BY <2>1 DEF DroppedBeside, Dropped
  <2> QED
    BY <1>3, <2>1, <2>2
<1>5. \A i \in {c, d} : i \in Retained(Target) \/ i \in Fresh(Target)
  BY DEF Retained, Fresh
<1>6. \A i, j \in {c, d} : i \in Retained(Target) /\ j \in Fresh(Target) => FALSE
  <2> SUFFICES ASSUME NEW i \in {c, d}, NEW j \in {c, d},
                      i \in Retained(Target), j \in Fresh(Target)
               PROVE  FALSE
    OBVIOUS
  <2>1. j \notin Retained(Target)
    BY DEF Retained, Fresh
  <2>2. b \notin block_span[i]
    BY <2>1 DEF UpkeepSpan
  <2> QED
    BY <1>4, <2>2
<1>7. CASE c \in Retained(Target) /\ d \in Retained(Target)
  BY <1>4, <1>7 DEF Disjoint, Retained
<1>8. CASE c \in Fresh(Target) /\ d \in Fresh(Target)
  <2>1. c \notin Retained(Target) /\ d \notin Retained(Target)
    BY <1>8 DEF Retained, Fresh
  <2>2. ~ c < d
    BY <1>2, <1>8, <2>1 DEF UpkeepSpan
  <2>3. ~ d < c
    BY <1>2, <1>8, <2>1 DEF UpkeepSpan
  <2> QED
    BY <2>2, <2>3 DEF Pieces
<1> QED
  BY <1>5, <1>6, <1>7, <1>8

(* It leaves no missing block of its candidates without an owner.          *)
LEMMA UpkeepOwned ==
    ASSUME Proper(candidates, block_span, unrequested), NEW H,
           Owned(candidates, block_span, H, candidates),
           NEW Target \in SUBSET Pieces
    PROVE  Owned(Target, UpkeepSpan(Target), H, Target)
<1> DEFINE sp == UpkeepSpan(Target)
<1> SUFFICES ASSUME NEW c \in Target, NEW b \in BlockSpan[c] \ H
             PROVE  \E d \in Target : b \in sp[d]
  BY DEF Owned
<1> USE DEF Proper
<1>1. \A d \in Retained(Target) : b \in block_span[d] => b \in sp[d]
  BY DEF UpkeepSpan, Retained
<1>2. Retained(Target) \subseteq Target
  BY DEF Retained
<1>3. CASE c \in Retained(Target)
  <2>1. PICK d \in candidates : b \in block_span[d]
    BY <1>3 DEF Owned, Retained
  <2>2. CASE d \in Target
    BY <1>1, <2>1, <2>2 DEF Retained
  <2>3. CASE d \notin Target
    <3>1. b \in BlockSpan[d] /\ c # d /\ d \in Pieces
      BY <2>1, <2>3
    <3>2. d \in DroppedBeside(Target, c)
      BY <2>3, <3>1, SharedIsBeside DEF DroppedBeside, Dropped
    <3>3. b \in sp[c]
      BY <1>3, <3>1, <3>2 DEF UpkeepSpan
    <3> QED
      BY <3>3
  <2> QED
    BY <2>2, <2>3
<1>4. CASE c \in Fresh(Target)
  <2>1. CASE \E d \in Retained(Target) : b \in block_span[d]
    BY <1>1, <1>2, <2>1
  <2>2. CASE \A d \in Retained(Target) : b \notin block_span[d]
    <3>1. \A e \in Fresh(Target) : b \in BlockSpan[e] =>
             b \in sp[e] \/ \E f \in Fresh(Target) : f < e /\ b \in BlockSpan[f]
      BY <2>2 DEF UpkeepSpan, Retained, Fresh
    <3>2. Fresh(Target) \subseteq Target
      BY DEF Fresh
    <3>3. SUFFICES ASSUME b \notin sp[c] PROVE \E d \in Target : b \in sp[d]
      OBVIOUS
    <3>4. PICK e \in Fresh(Target) : e < c /\ b \in BlockSpan[e]
      BY <1>4, <3>1, <3>3
    <3>5. \A f \in Fresh(Target) : f < e => b \notin BlockSpan[f]
      BY <3>2, <3>4, AtMostTwoPieces DEF Pieces
    <3> QED
      BY <3>1, <3>2, <3>4, <3>5
  <2> QED
    BY <2>1, <2>2
<1> QED
  BY <1>3, <1>4 DEF Retained, Fresh

(* And it loses no block: one that was neither in H nor in A becomes       *)
(* unrequested with its new owner.                                         *)
LEMMA UpkeepAccounted ==
    ASSUME Proper(candidates, block_span, unrequested), NEW H, NEW A,
           Owned(candidates, block_span, H, candidates),
           Accounted(candidates, block_span, unrequested, H, A),
           NEW Target \in SUBSET Pieces
    PROVE  Accounted(Target, UpkeepSpan(Target), UpkeepUnrequested(Target, H), H, A)
<1> DEFINE sp == UpkeepSpan(Target)
           un == UpkeepUnrequested(Target, H)
<1> SUFFICES ASSUME NEW c \in Target, NEW b \in sp[c], b \notin H, b \notin A
             PROVE  b \in un[c]
  BY DEF Accounted
<1> USE DEF Proper
<1>1. CASE c \in Retained(Target)
  <2>1. c \in candidates /\ c \in Pieces
    BY <1>1 DEF Retained
  <2>2. unrequested[c] \subseteq un[c]
    BY <1>1 DEF UpkeepUnrequested
  <2>3. CASE b \in block_span[c]
    BY <2>1, <2>2, <2>3 DEF Accounted
  <2>4. CASE b \notin block_span[c]
    <3>1. PICK d \in DroppedBeside(Target, c) : b \in BlockSpan[c] /\ b \in BlockSpan[d]
      BY <1>1, <2>4 DEF UpkeepSpan
    <3>2. d \in candidates /\ d \in Pieces /\ d # c
      BY <2>1, <3>1 DEF DroppedBeside, Dropped
    <3>3. PICK o \in candidates : b \in block_span[o]
      BY <2>1, <3>1 DEF Owned
    <3>4. o = d
      BY <2>1, <2>4, <3>1, <3>2, <3>3, AtMostTwoPieces
    <3>5. b \in unrequested[d]
      BY <3>3, <3>4 DEF Accounted
    <3> QED
      BY <1>1, <2>1, <3>1, <3>5 DEF UpkeepUnrequested
  <2> QED
    BY <2>3, <2>4
<1>2. CASE c \in Fresh(Target)
  BY <1>2 DEF UpkeepUnrequested, Retained, Fresh
<1> QED
  BY <1>1, <1>2 DEF Retained, Fresh

-----------------------------------------------------------------------------
(* The blocks H, b among them, have arrived; of the pieces they complete,  *)
(* Good have passed their checksum and Bad, at most one, have failed it.   *)
Verdict(H, Good, Bad) ==
    /\ Good \subseteq Pieces /\ Bad \subseteq Pieces
    /\ Good \cap Bad = {}
    /\ \A c, d \in Bad : c = d
    /\ \A c \in Good : BlockSpan[c] \subseteq H

(* What is left of the blocks H when the pieces Bad have lost theirs.      *)
Left(H, Bad) == H \ UNION {BlockSpan[c] : c \in Bad}

(* A verdict keeps the list proper.                                        *)
LEMMA CheckedProper ==
    ASSUME NEW unreq, Proper(candidates, block_span, unreq),
           NEW H, NEW Good, NEW Bad, Verdict(H, Good, Bad)
    PROVE  Proper(CheckedCandidates(Good, Bad), CheckedSpan(Good, Bad),
                  CheckedUnrequested(unreq, Good, Bad))
<1> DEFINE sp == CheckedSpan(Good, Bad)
           un == CheckedUnrequested(unreq, Good, Bad)
<1> USE DEF Proper, Verdict
<1>1. BlockSpan \in [Pieces -> SUBSET Blocks]
  BY DEF BlockSpan
<1>2. \A c \in Pieces : sp[c] \subseteq BlockSpan[c]
  BY DEF CheckedSpan
<1>3. \A c \in Pieces : un[c] \subseteq sp[c]
  BY DEF CheckedUnrequested, CheckedSpan
<1>4. sp \in [Pieces -> SUBSET Blocks] /\ un \in [Pieces -> SUBSET Blocks]
  <2>1. sp = [c \in Pieces |-> sp[c]] /\ un = [c \in Pieces |-> un[c]]
    BY DEF CheckedSpan, CheckedUnrequested
  <2>2. \A c \in Pieces : sp[c] \in SUBSET Blocks /\ un[c] \in SUBSET Blocks
    BY <1>1, <1>2, <1>3
  <2> HIDE DEF sp, un
  <2> QED
    BY <2>1, <2>2
<1>5. \A c \in Pieces : c \notin CheckedCandidates(Good, Bad) => sp[c] = {}
  BY DEF CheckedSpan, CheckedCandidates
<1> QED
  BY <1>2, <1>3, <1>4, <1>5 DEF CheckedCandidates

(* A bad piece comes back without the blocks that its neighbours own.      *)
LEMMA CheckedDisjoint ==
    ASSUME NEW unreq, Proper(candidates, block_span, unreq),
           Disjoint(candidates, block_span),
           NEW H, NEW Good, NEW Bad, Verdict(H, Good, Bad)
    PROVE  Disjoint(CheckedCandidates(Good, Bad), CheckedSpan(Good, Bad))
<1> DEFINE sp == CheckedSpan(Good, Bad)
<1> SUFFICES ASSUME NEW c \in CheckedCandidates(Good, Bad),
                    NEW d \in CheckedCandidates(Good, Bad), c # d,
                    NEW b \in sp[c], b \in sp[d]
             PROVE  FALSE
  BY DEF Disjoint
<1> USE DEF Proper, Verdict, CheckedCandidates
<1>1. \A i \in {c, d} : i \in Pieces /\ (i \in Bad \/ (i \in candidates \ (Good \cup Bad)
                                             /\ b \in block_span[i]))
  BY DEF CheckedSpan
<1>2. \A i, j \in {c, d} : i \in Bad /\ j \notin Bad => FALSE
  <2> SUFFICES ASSUME NEW i \in {c, d}, NEW j \in {c, d}, i \in Bad, j \notin Bad
               PROVE  FALSE
    OBVIOUS
  <2>1. b \notin block_span[j]
    BY <1>1 DEF CheckedSpan
  <2> QED
    BY <1>1, <2>1
<1> QED
  BY <1>1, <1>2 DEF Disjoint

(* Every block that is missing afterwards has an owner, in the pieces P    *)
(* that were covered before, the candidates among them, and in Bad.        *)
LEMMA CheckedOwned ==
    ASSUME NEW unreq, Proper(candidates, block_span, unreq),
           NEW H, NEW Good, NEW Bad, Verdict(H, Good, Bad), NEW P \in SUBSET Pieces,
           Owned(candidates, block_span, H, P)
    PROVE  Owned(CheckedCandidates(Good, Bad), CheckedSpan(Good, Bad),
                 Left(H, Bad), P \cup Bad)
<1> DEFINE sp == CheckedSpan(Good, Bad)
           cs == CheckedCandidates(Good, Bad)
<1> SUFFICES ASSUME NEW c \in P \cup Bad, NEW b \in BlockSpan[c] \ Left(H, Bad)
             PROVE  \E d \in cs : b \in sp[d]
  BY DEF Owned
<1> USE DEF Proper, Verdict
<1>1. \A d \in candidates \ (Good \cup Bad) : d \in cs /\ sp[d] = block_span[d]
  BY DEF CheckedSpan, CheckedCandidates
<1>2. \A d \in Bad : b \in BlockSpan[d] => \E e \in cs : b \in sp[e]
  <2> SUFFICES ASSUME NEW d \in Bad, b \in BlockSpan[d] PROVE \E e \in cs : b \in sp[e]
    OBVIOUS
  <2>1. CASE \E e \in candidates \ (Good \cup Bad) : b \in block_span[e]
    BY <1>1, <2>1
  <2>2. CASE \A e \in candidates \ (Good \cup Bad) : b \notin block_span[e]
    <3>1. d \in cs /\ d \in Pieces
      BY DEF CheckedCandidates
    <3>2. b \in sp[d]
      BY <2>2, <3>1 DEF CheckedSpan
    <3> QED
      BY <3>1, <3>2
  <2> QED
    BY <2>1, <2>2
<1>3. CASE b \in H
  BY <1>2, <1>3 DEF Left
<1>4. CASE b \notin H
  <2>1. CASE c \in Bad
    BY <1>2, <2>1
  <2>2. CASE c \notin Bad
    <3>1. PICK d \in candidates : b \in block_span[d]
      BY <1>4, <2>2 DEF Owned
    <3>2. b \in BlockSpan[d] /\ d \notin Good
      BY <1>4, <3>1
    <3> QED
      BY <1>1, <1>2, <3>1, <3>2
  <2> QED
    BY <2>1, <2>2
<1> QED
  BY <1>3, <1>4

(* The blocks that are lost with a bad piece are unrequested with their    *)
(* owners.                                                                 *)
LEMMA CheckedAccounted ==
    ASSUME NEW unreq, Proper(candidates, block_span, unreq), NEW A,
           NEW H, NEW Good, NEW Bad, Verdict(H, Good, Bad),
           Accounted(candidates, block_span, unreq, H, A)
    PROVE  Accounted(CheckedCandidates(Good, Bad), CheckedSpan(Good, Bad),
                     CheckedUnrequested(unreq, Good, Bad), Left(H, Bad), A)
<1> DEFINE sp == CheckedSpan(Good, Bad)
           un == CheckedUnrequested(unreq, Good, Bad)
<1> SUFFICES ASSUME NEW c \in CheckedCandidates(Good, Bad),
                    NEW b \in sp[c], b \notin Left(H, Bad), b \notin A
             PROVE  b \in un[c]
  BY DEF Accounted
<1> USE DEF Proper, Verdict
<1>1. c \in Pieces
  BY DEF CheckedCandidates
<1>2. CASE c \in Bad
  BY <1>1, <1>2 DEF CheckedUnrequested
<1>3. CASE c \notin Bad
  <2>1. c \in candidates /\ c \notin Good /\ b \in block_span[c]
    BY <1>1, <1>3 DEF CheckedCandidates, CheckedSpan
  <2>2. b \in unreq[c] \/ b \in UNION {BlockSpan[d] : d \in Bad}
    BY <2>1 DEF Accounted, Left
  <2> QED
    BY <1>1, <1>3, <2>1, <2>2 DEF CheckedUnrequested
<1> QED
  BY <1>2, <1>3

-----------------------------------------------------------------------------
(* Requesting blocks, and giving blocks back, keeps the list proper.       *)
LEMMA TakeProper ==
    ASSUME NEW cs, NEW sp, NEW un, Proper(cs, sp, un), NEW S
    PROVE  Proper(cs, sp, TakeBlocks(un, S))
BY DEF Proper, TakeBlocks

(* See TakeProper.                                                         *)
LEMMA ResetProper ==
    ASSUME NEW unreq, Proper(candidates, block_span, unreq), NEW B
    PROVE  Proper(candidates, block_span, ResetBlocks(unreq, B))
BY DEF Proper, ResetBlocks

(* Blocks that are requested stay accounted for by the requests S, and     *)
(* blocks that arrive by having arrived.                                   *)
LEMMA TakeAccounted ==
    ASSUME NEW cs, NEW sp, NEW un, Proper(cs, sp, un), NEW H, NEW A, NEW S,
           Accounted(cs, sp, un, H, A), NEW H2, NEW A2,
           H \cup A \cup S \subseteq H2 \cup A2
    PROVE  Accounted(cs, sp, TakeBlocks(un, S), H2, A2)
BY DEF Proper, Accounted, TakeBlocks

(* Blocks that are given back may leave the requests.                      *)
LEMMA ResetAccounted ==
    ASSUME NEW unreq, Proper(candidates, block_span, unreq), NEW H, NEW A, NEW B,
           Accounted(candidates, block_span, unreq, H, A), NEW A2, A \ B \subseteq A2
    PROVE  Accounted(candidates, block_span, ResetBlocks(unreq, B), H, A2)
BY DEF Proper, Accounted, ResetBlocks

=============================================================================
