-------------------------- MODULE WishlistListProofs -------------------------
EXTENDS WishlistList, FiniteSetTheorems, WellFoundedInduction, TLAPS

(* What WishlistList keeps of the candidate list, for every number of      *)
(* pieces, blocks and peers.  Each handler is a fold over the list (a      *)
(* search, a sort, a walk of candidate_list_upkeep); first it is shown     *)
(* what the handler does to the SET of candidates (the *Turns lemmas for   *)
(* the handlers that keep the candidates, BadPieceIs and UpkeepIs for the  *)
(* two that make them anew) and that it leaves the list sorted, then that  *)
(* this keeps the invariants ListInv and OrderInv.                         *)

-----------------------------------------------------------------------------
(* Numbers: least and greatest elements, and induction up to n.            *)

(* A set of naturals has a least element.                                  *)
LEMMA LeastOf ==
    ASSUME NEW S, S \subseteq Nat, S # {}
    PROVE  \E x \in S : \A y \in S : x <= y
<1> DEFINE R == OpToRel(<, Nat)
<1>1. IsWellFoundedOn(R, Nat)
  BY NatLessThanWellFounded
<1>2. \A x, y \in Nat : y < x => <<y, x>> \in R
  BY DEF OpToRel
<1> HIDE DEF R
<1>3. PICK x \in S : \A y \in S : ~(<<y, x>> \in R)
  BY <1>1, WFMin
<1>4. ASSUME NEW y \in S PROVE x <= y
  <2>1. x \in Nat /\ y \in Nat /\ ~(y < x)
    BY <1>2, <1>3
  <2> QED BY <2>1
<1> QED BY <1>4

(* Induction up to n: a set with 0 that goes from i - 1 to i has all of 0  *)
(* .. n.                                                                   *)
LEMMA UpTo ==
    ASSUME NEW n \in Nat, NEW S, 0 \in S,
           \A i \in 1 .. n : i - 1 \in S => i \in S
    PROVE  0 .. n \subseteq S
<1> DEFINE B == {i \in 0 .. n : i \notin S}
<1>1. SUFFICES ASSUME B # {} PROVE FALSE
  OBVIOUS
<1>2. PICK x \in B : \A y \in B : x <= y
  <2>1. B \subseteq Nat
    OBVIOUS
  <2> HIDE DEF B
  <2> QED BY <1>1, <2>1, LeastOf
<1>3. x \in 1 .. n /\ x - 1 \in 0 .. n /\ ~(x <= x - 1)
  OBVIOUS
<1>4. x - 1 \notin B
  BY <1>2, <1>3
<1> QED BY <1>3, <1>4

(* A bounded set of naturals has a greatest element.                       *)
LEMMA GreatestOf ==
    ASSUME NEW n \in Nat, NEW S, S \subseteq 0 .. n, S # {}
    PROVE  \E x \in S : \A y \in S : y <= x
<1> DEFINE C == {n - y : y \in S}
<1>0. \A y \in S : y \in 0 .. n
  OBVIOUS
<1>1. C \subseteq Nat /\ C # {}
  <2>1. \A y \in S : n - y \in Nat
    BY <1>0
  <2>2. \A y \in S : n - y \in C
    OBVIOUS
  <2> QED BY <2>1, <2>2
<1>2. PICK z \in C : \A y \in C : z <= y
  <2> HIDE DEF C
  <2> QED BY <1>1, LeastOf
<1>3. PICK x \in S : z = n - x
  OBVIOUS
<1>4. ASSUME NEW y \in S PROVE y <= x
  <2>1. n - y \in C
    OBVIOUS
  <2> HIDE DEF C
  <2>2. n - x <= n - y
    BY <1>2, <1>3, <2>1
  <2>3. x \in 0 .. n /\ y \in 0 .. n
    BY <1>0
  <2> QED BY <2>2, <2>3
<1> QED BY <1>4

(* Max is the greatest element.                                            *)
LEMMA MaxOf ==
    ASSUME NEW n \in Nat, NEW S, S \subseteq 0 .. n, S # {}
    PROVE  Max(S) \in S /\ \A y \in S : y <= Max(S)
<1>1. PICK x \in S : \A y \in S : x >= y
  <2>1. PICK x \in S : \A y \in S : y <= x
    BY GreatestOf
  <2>2. \A y \in S : x >= y
    <3>1. \A y \in S : y \in Int /\ x \in Int
      OBVIOUS
    <3> QED BY <2>1, <3>1
  <2> QED BY <2>2
<1>2. Max(S) \in S /\ \A y \in S : Max(S) >= y
  BY <1>1 DEF Max
<1>3. \A y \in S : y \in Int
  OBVIOUS
<1> HIDE DEF Max
<1> QED BY <1>2, <1>3

(* Min is the least element.                                               *)
LEMMA MinOf ==
    ASSUME NEW S, S \subseteq Nat, S # {}
    PROVE  Min(S) \in S /\ \A y \in S : Min(S) <= y
<1>1. PICK x \in S : \A y \in S : x <= y
  BY LeastOf
<1> QED BY <1>1 DEF Min

(* What holds at the start of a sequence of values and goes from each to   *)
(* the next holds for all of them.                                         *)
LEMMA Stays ==
    ASSUME NEW n \in Nat, NEW after, NEW Q, after[0] \in Q[0],
           \A k \in 1 .. n : after[k - 1] \in Q[k - 1] => after[k] \in Q[k]
    PROVE  \A k \in 0 .. n : after[k] \in Q[k]
<1> DEFINE S == {k \in 0 .. n : after[k] \in Q[k]}
<1>1. 0 \in S
  OBVIOUS
<1>2. \A k \in 1 .. n : k - 1 \in S => k \in S
  OBVIOUS
<1> HIDE DEF S
<1>3. 0 .. n \subseteq S
  BY <1>1, <1>2, UpTo
<1> QED BY <1>3 DEF S

-----------------------------------------------------------------------------
(* Folds.  FoldLeft goes through the indices of the sequence as a function *)
(* of the set of those that are still to be taken, the greatest first;     *)
(* that there is such a function is what has to be shown.                  *)

(* The greatest of some indices up to k, when k is one of them.            *)
LEMMA MaxIs ==
    ASSUME NEW k \in Nat, NEW s, s \subseteq 1 .. k, k \in s
    PROVE  Max(s) = k
<1>1. s \subseteq 0 .. k /\ s # {}
  OBVIOUS
<1>2. Max(s) \in s /\ k <= Max(s)
  BY <1>1, MaxOf
<1>3. Max(s) \in 1 .. k
  BY <1>2
<1> QED BY <1>2, <1>3

Folds(f, g, b, n) ==
    \A s \in SUBSET (1 .. n) :
        f[s] = IF s = {} THEN b ELSE g[<<f[s \ {Max(s)}], Max(s)>>]

(* A function that folds g over every subset of 1 .. n exists, so that     *)
(* the CHOOSE in the community modules' folds has a witness.               *)
LEMMA FoldExists ==
    ASSUME NEW n \in Nat, NEW U, NEW b \in U, NEW g \in [U \X (1 .. n) -> U]
    PROVE  \E f \in [SUBSET (1 .. n) -> U] : Folds(f, g, b, n)
<1> DEFINE S == {k \in 0 .. n : \E f \in [SUBSET (1 .. k) -> U] : Folds(f, g, b, k)}
<1>1. 0 \in S
  <2> DEFINE f == [s \in SUBSET (1 .. 0) |-> b]
  <2>1. f \in [SUBSET (1 .. 0) -> U] /\ \A s \in SUBSET (1 .. 0) : s = {} /\ f[s] = b
    OBVIOUS
  <2> HIDE DEF f
  <2>2. Folds(f, g, b, 0)
    BY <2>1 DEF Folds
  <2> QED BY <2>1, <2>2
<1>2. ASSUME NEW k \in 1 .. n, k - 1 \in S PROVE k \in S
  <2>1. PICK f \in [SUBSET (1 .. (k - 1)) -> U] : Folds(f, g, b, k - 1)
    BY <1>2
  <2> DEFINE h == [s \in SUBSET (1 .. k) |-> IF k \in s THEN g[<<f[s \ {k}], k>>] ELSE f[s]]
  <2>2. ASSUME NEW s \in SUBSET (1 .. k)
        PROVE  s \ {k} \in SUBSET (1 .. (k - 1)) /\ (k \notin s => s \in SUBSET (1 .. (k - 1)))
    OBVIOUS
  <2>3. ASSUME NEW s \in SUBSET (1 .. k) PROVE h[s] \in U
    BY <2>2
  <2>4. h \in [SUBSET (1 .. k) -> U]
    BY <2>3
  <2>5. ASSUME NEW s \in SUBSET (1 .. k)
        PROVE  h[s] = IF s = {} THEN b ELSE g[<<h[s \ {Max(s)}], Max(s)>>]
    <3>1. CASE k \in s
      <4>1. Max(s) = k
        <5>1. k \in Nat /\ s \subseteq 1 .. k
          OBVIOUS
        <5> QED BY ONLY <3>1, <5>1, MaxIs
      <4>2. s # {} /\ h[s \ {k}] = f[s \ {k}] /\ h[s] = g[<<f[s \ {k}], k>>]
        BY <2>2, <3>1
      <4> HIDE DEF h
      <4> QED BY <4>1, <4>2
    <3>2. CASE k \notin s
      <4>1. s \in SUBSET (1 .. (k - 1)) /\ h[s] = f[s]
        BY <2>2, <3>2
      <4>2. f[s] = IF s = {} THEN b ELSE g[<<f[s \ {Max(s)}], Max(s)>>]
        BY <2>1, <4>1 DEF Folds
      <4>3. h[s \ {Max(s)}] = f[s \ {Max(s)}]
        BY <3>2
      <4> HIDE DEF h
      <4> QED BY <4>1, <4>2, <4>3
    <3> QED BY <3>1, <3>2
  <2> HIDE DEF h
  <2>6. Folds(h, g, b, k)
    BY <2>5 DEF Folds
  <2>7. k \in 0 .. n
    OBVIOUS
  <2> QED BY <2>4, <2>6, <2>7
<1> HIDE DEF S
<1>3. 0 .. n \subseteq S
  BY <1>1, <1>2, UpTo
<1>4. n \in S
  BY <1>3
<1> QED BY <1>4 DEF S

(* Taking one index after the other.                                       *)
LEMMA FoldOrder ==
    ASSUME NEW n \in Nat
    PROVE  /\ \A k \in 1 .. n : /\ 1 .. k # {} /\ Max(1 .. k) = k
                                /\ (1 .. k) \ {k} = 1 .. (k - 1)
                                /\ 1 .. k \in SUBSET (1 .. n)
           /\ 1 .. 0 = {}
<1>1. ASSUME NEW k \in 1 .. n PROVE Max(1 .. k) = k
  BY MaxIs
<1> QED BY <1>1

-----------------------------------------------------------------------------
(* The two grids.                                                          *)

(* What division rounds down.                                              *)
LEMMA DivBounds ==
    ASSUME NEW x \in Int, NEW n \in Nat \ {0}
    PROVE  /\ x \div n \in Int
           /\ n * (x \div n) <= x
           /\ x < n * (x \div n) + n
OBVIOUS

(* Numbers that are a block apart are in different blocks.                 *)
LEMMA DivStep ==
    ASSUME NEW x \in Int, NEW y \in Int, NEW n \in Nat \ {0}, x + n <= y
    PROVE  x \div n < y \div n
<1> DEFINE q == x \div n
           r == y \div n
<1>1. q \in Int /\ r \in Int /\ n * q <= x /\ y < n * r + n
  BY DivBounds
<1>2. SUFFICES ASSUME r <= q PROVE FALSE
  BY <1>1
<1>3. n * r <= n * q
  BY <1>1, <1>2
<1> QED
  BY <1>1, <1>3

(* Division keeps the order.                                               *)
LEMMA DivOrder ==
    ASSUME NEW x \in Int, NEW y \in Int, NEW n \in Nat \ {0}, x <= y
    PROVE  x \div n <= y \div n
<1>1. x \div n \in Int /\ y \div n \in Int /\ (y + n) \div n \in Int
  BY DivBounds
<1>2. x \div n < (y + n) \div n
  BY DivStep
<1>3. (y + n) \div n = y \div n + 1
  <2> DEFINE q == y \div n
             r == (y + n) \div n
  <2>1. q \in Int /\ n * q <= y /\ y < n * q + n
    BY DivBounds
  <2>2. r \in Int /\ n * r <= y + n /\ y + n < n * r + n
    BY DivBounds
  <2> HIDE DEF q, r
  <2>3. CASE r <= q
    <3>1. n * r <= n * q
      BY <2>1, <2>2, <2>3
    <3> QED BY <2>1, <2>2, <3>1
  <2>4. CASE q + 2 <= r
    <3>1. n * (q + 2) <= n * r /\ n * (q + 2) = n * q + n + n
      BY <2>1, <2>2, <2>4
    <3> QED BY <2>1, <2>2, <3>1
  <2>5. r = q + 1
    BY <2>1, <2>2, <2>3, <2>4
  <2> QED BY <2>5 DEF q, r
<1> QED BY <1>1, <1>2, <1>3

(* The bytes of a piece.                                                   *)
LEMMA PieceBytes ==
    ASSUME NEW c \in Pieces
    PROVE  /\ PieceBegin(c) \in Nat /\ PieceEnd(c) \in Int
           /\ PieceBegin(c) <= PieceEnd(c) - 1 /\ PieceEnd(c) <= TotalSize
           /\ \A d \in Pieces : d = c + 1 => PieceEnd(c) = PieceBegin(d)
           /\ \A d \in Pieces : c < d => PieceBegin(c) + BlockSize <= PieceBegin(d)
           /\ \A d \in Pieces : c + 2 <= d => PieceEnd(c) + BlockSize <= PieceBegin(d)
<1> USE SizeAssumption
<1> DEFINE P == PieceSize
           n == PieceCount
<1>1. P \in Nat \ {0} /\ TotalSize \in Nat \ {0} /\ BlockSize \in Nat \ {0} /\ BlockSize <= P
  OBVIOUS
<1>2. n \in Int /\ P * n <= TotalSize + P - 1
  <2>1. TotalSize + P - 1 \in Int
    BY <1>1
  <2> QED BY <1>1, <2>1, DivBounds DEF PieceCount
<1>3. c \in Nat /\ c <= n - 1
  BY <1>2 DEF Pieces
<1> HIDE DEF n, P
<1>4. ASSUME NEW d \in Pieces PROVE d \in Nat /\ d * P \in Nat /\ d * P <= TotalSize - 1
  <2>1. d \in Nat /\ d <= n - 1
    BY <1>2 DEF Pieces, n
  <2>2. P * d <= P * (n - 1) /\ P * (n - 1) = P * n - P /\ P * d = d * P
    BY <1>1, <1>2, <2>1
  <2>3. P * n \in Int /\ P * d \in Nat
    BY <1>1, <1>2, <2>1
  <2> QED BY <1>1, <1>2, <2>1, <2>2, <2>3
<1>5. (c + 1) * P = c * P + P /\ c * P \in Nat /\ (c + 1) * P \in Nat
  BY <1>1, <1>3
<1>6. PieceBegin(c) = c * P /\ PieceEnd(c) = IF (c + 1) * P < TotalSize THEN (c + 1) * P ELSE TotalSize
  BY DEF PieceBegin, PieceEnd, P
<1>7. ASSUME NEW d \in Pieces, d = c + 1 PROVE PieceEnd(c) = PieceBegin(d)
  <2>1. PieceBegin(d) = (c + 1) * P
    BY <1>7 DEF PieceBegin, P
  <2> QED BY <1>1, <1>4, <1>5, <1>6, <1>7, <2>1
<1>8. ASSUME NEW d \in Pieces, c < d PROVE PieceBegin(c) + BlockSize <= PieceBegin(d)
  <2>1. (c + 1) * P <= d * P
    <3>1. c + 1 <= d /\ d \in Nat
      BY <1>3, <1>4, <1>8
    <3> QED BY <1>1, <1>3, <3>1
  <2>2. PieceBegin(d) = d * P
    BY DEF PieceBegin, P
  <2> QED BY <1>1, <1>4, <1>5, <1>6, <2>1, <2>2
<1>9. ASSUME NEW d \in Pieces, c + 2 <= d PROVE PieceEnd(c) + BlockSize <= PieceBegin(d)
  <2>1. (c + 2) * P <= d * P /\ (c + 2) * P = (c + 1) * P + P
    <3>1. d \in Nat
      BY <1>4
    <3> QED BY <1>1, <1>3, <1>9, <3>1
  <2>2. PieceBegin(d) = d * P /\ d * P \in Nat
    BY <1>4 DEF PieceBegin, P
  <2>3. PieceEnd(c) <= (c + 1) * P
    BY <1>1, <1>5, <1>6
  <2>4. PieceEnd(c) \in Int
    BY <1>1, <1>5, <1>6
  <2> QED BY <1>1, <1>5, <2>1, <2>2, <2>3, <2>4
<1>10. PieceBegin(c) <= PieceEnd(c) - 1 /\ PieceEnd(c) <= TotalSize /\ PieceEnd(c) \in Int
  BY <1>1, <1>4, <1>5, <1>6
<1> QED BY <1>5, <1>6, <1>7, <1>8, <1>9, <1>10

(* The blocks of a piece: pieces that are neighbours share at most one,    *)
(* others none.                                                            *)
LEMMA RawSpan ==
    ASSUME NEW c \in Pieces
    PROVE  /\ RawBegin(c) \in Nat /\ RawEnd(c) \in Nat
           /\ RawBegin(c) < RawEnd(c) /\ RawEnd(c) <= BlockCount
           /\ BlockCount \in Nat
           /\ BlockSpan[c] = RawBegin(c) .. RawEnd(c) - 1
<1> USE SizeAssumption
<1> DEFINE x == PieceBegin(c)
           y == PieceEnd(c) - 1
           b == x \div BlockSize
           e == y \div BlockSize
<1>1. x \in Nat /\ y \in Int /\ x <= y /\ y <= TotalSize - 1
  BY PieceBytes
<1>2. RawBegin(c) = b /\ RawEnd(c) = e + 1
  BY DEF RawBegin, RawEnd, BlockOfByte
<1> HIDE DEF x, y
<1>3. b \in Int /\ e \in Int /\ b <= e
  BY <1>1, DivOrder, DivBounds
<1>4. 0 <= b
  <2>1. 0 \div BlockSize = 0
    <3> DEFINE z == 0 \div BlockSize
    <3>1. z \in Int /\ BlockSize * z <= 0 /\ 0 < BlockSize * z + BlockSize
      BY DivBounds
    <3> HIDE DEF z
    <3>2. CASE z >= 1
      <4>1. BlockSize * z >= BlockSize * 1
        BY <3>1, <3>2
      <4> QED BY <3>1, <4>1
    <3>3. CASE z <= -1
      <4>1. BlockSize * z <= BlockSize * (-1)
        BY <3>1, <3>3
      <4> QED BY <3>1, <4>1
    <3>4. z = 0
      BY <3>1, <3>2, <3>3
    <3> QED BY <3>4 DEF z
  <2>2. 0 \div BlockSize <= x \div BlockSize
    BY <1>1, DivOrder
  <2> QED BY <2>1, <2>2
<1>5. e < BlockCount /\ BlockCount \in Int
  <2>1. y + BlockSize <= TotalSize + BlockSize - 1 /\ TotalSize + BlockSize - 1 \in Int
    BY <1>1
  <2> QED BY <1>1, <2>1, DivStep, DivBounds DEF BlockCount
<1>6. BlockSpan[c] = {k \in Blocks : b <= k /\ k <= e}
  BY DEF BlockSpan, BlockOfByte, x, y
<1> HIDE DEF b, e
<1>7. BlockSpan[c] = b .. e
  BY <1>3, <1>4, <1>5, <1>6 DEF Blocks
<1> QED BY <1>2, <1>3, <1>4, <1>5, <1>7

(* Raw spans of neighbours share at most the edge block; those of pieces   *)
(* further apart share none.                                               *)
LEMMA RawNeighbours ==
    ASSUME NEW c \in Pieces, NEW d \in Pieces
    PROVE  /\ d = c + 1 => /\ RawBegin(c) < RawBegin(d)
                           /\ RawEnd(c) \in {RawBegin(d), RawBegin(d) + 1}
           /\ c + 2 <= d => RawEnd(c) <= RawBegin(d)
<1> USE SizeAssumption
<1> DEFINE x == PieceBegin(c)
           y == PieceEnd(c)
           z == PieceBegin(d)
           B == BlockSize
<1>1. x \in Nat /\ y \in Int /\ z \in Nat /\ x <= y - 1 /\ B \in Nat \ {0}
      /\ (d = c + 1 => y = z) /\ (c < d => x + B <= z) /\ (c + 2 <= d => y + B <= z)
  BY PieceBytes
<1>2. RawBegin(c) = x \div B /\ RawEnd(c) = (y - 1) \div B + 1 /\ RawBegin(d) = z \div B
  BY DEF RawBegin, RawEnd, BlockOfByte
<1>0. c \in Int /\ d \in Int
  BY DEF Pieces
<1> HIDE DEF x, y, z, B
<1>3. x \div B \in Int /\ (y - 1) \div B \in Int /\ z \div B \in Int
  BY <1>1, DivBounds
<1>4. ASSUME d = c + 1 PROVE x \div B < z \div B /\ (y - 1) \div B + 1 \in {z \div B, z \div B + 1}
  <2>1. c < d /\ y = z /\ x + B <= z
    BY <1>0, <1>1, <1>4
  <2>2. x \div B < z \div B
    BY <1>1, <2>1, DivStep
  <2>3. (y - 1) \div B <= z \div B
    BY <1>1, <2>1, DivOrder
  <2>4. z \div B <= (y - 1) \div B + 1
    <3> DEFINE p == (y - 1) \div B
               q == z \div B
    <3>1. p \in Int /\ y - 1 < B * p + B /\ q \in Int /\ B * q <= z
      BY <1>1, DivBounds
    <3> HIDE DEF p, q
    <3>2. CASE p + 2 <= q
      <4>1. B * (p + 2) <= B * q /\ B * (p + 2) = B * p + B + B /\ B * p \in Int /\ B * q \in Int
        BY <1>1, <3>1, <3>2
      <4> QED BY <1>1, <2>1, <3>1, <4>1
    <3>3. CASE q <= p + 1
      BY <3>3 DEF p, q
    <3>4. q <= p + 1 \/ p + 2 <= q
      BY <3>1
    <3> QED BY <3>2, <3>3, <3>4
  <2> QED BY <1>3, <2>2, <2>3, <2>4
<1>5. ASSUME c + 2 <= d PROVE (y - 1) \div B + 1 <= z \div B
  <2>1. (y - 1) + B <= z
    BY <1>1, <1>5
  <2>2. (y - 1) \div B < z \div B
    BY <1>1, <2>1, DivStep
  <2> QED BY <1>3, <2>2
<1> QED BY <1>2, <1>4, <1>5

-----------------------------------------------------------------------------
(* Sequences.                                                              *)

(* m is s with x inserted behind the first k elements.                     *)
With(m, T, s, k, x) ==
    /\ m \in Seq(T) /\ Len(m) = Len(s) + 1
    /\ \A i \in 1 .. Len(s) + 1 : m[i] = IF i <= k THEN s[i] ELSE IF i = k + 1 THEN x ELSE s[i - 1]

(* InsertAt, by index and as a set.                                        *)
LEMMA Inserted ==
    ASSUME NEW T, NEW s \in Seq(T), NEW k \in 0 .. Len(s), NEW x \in T
    PROVE  With(InsertAt(s, k + 1, x), T, s, k, x)
<1> DEFINE a == SubSeq(s, 1, (k + 1) - 1)
           b == SubSeq(s, k + 1, Len(s))
<1>1. k \in Nat /\ Len(s) \in Nat /\ k <= Len(s)
  OBVIOUS
<1>2. a \in Seq(T) /\ Len(a) = k /\ \A i \in 1 .. k : a[i] = s[i]
  BY <1>1
<1>3. b \in Seq(T) /\ Len(b) = Len(s) - k /\ \A i \in 1 .. Len(s) - k : b[i] = s[k + i]
  BY <1>1
<1>4. InsertAt(s, k + 1, x) = (a \o <<x>>) \o b
  BY DEF InsertAt
<1> HIDE DEF a, b
<1> DEFINE d == a \o <<x>>
<1>5. d \in Seq(T) /\ Len(d) = k + 1 /\ \A i \in 1 .. k + 1 : d[i] = IF i <= k THEN s[i] ELSE x
  BY <1>1, <1>2
<1> HIDE DEF d
<1>6. d \o b \in Seq(T) /\ Len(d \o b) = Len(s) + 1
  <2>1. \A u, v \in Seq(T) : u \o v \in Seq(T) /\ Len(u \o v) = Len(u) + Len(v)
    OBVIOUS
  <2>2. d \o b \in Seq(T) /\ Len(d \o b) = Len(d) + Len(b)
    BY <1>3, <1>5, <2>1
  <2>3. Len(d) + Len(b) = Len(s) + 1
    BY <1>1, <1>3, <1>5
  <2> QED BY <2>2, <2>3
<1>7. ASSUME NEW i \in 1 .. Len(s) + 1
      PROVE  (d \o b)[i] = IF i <= k THEN s[i] ELSE IF i = k + 1 THEN x ELSE s[i - 1]
  <2>1. CASE i <= k + 1
    <3>1. i \in 1 .. k + 1
      BY <1>1, <2>1
    <3>2. (d \o b)[i] = d[i]
      BY <1>1, <1>3, <1>5, <3>1
    <3>3. i <= k \/ i = k + 1
      BY <1>1, <2>1
    <3> QED BY <1>1, <1>5, <3>1, <3>2, <3>3
  <2>2. CASE ~(i <= k + 1)
    <3>1. i - (k + 1) \in 1 .. Len(s) - k /\ k + (i - (k + 1)) = i - 1 /\ ~(i <= k) /\ i # k + 1
      BY <1>1, <2>2
    <3>2. (d \o b)[i] = b[i - (k + 1)]
      BY <1>1, <1>3, <1>5, <2>2, <3>1
    <3> QED BY <1>3, <3>1, <3>2
  <2> QED BY <2>1, <2>2
<1> DEFINE m == InsertAt(s, k + 1, x)
<1>8. m = d \o b
  BY <1>4 DEF d
<1> HIDE DEF m
<1>9. m \in Seq(T) /\ Len(m) = Len(s) + 1
      /\ \A i \in 1 .. Len(s) + 1 : m[i] = IF i <= k THEN s[i] ELSE IF i = k + 1 THEN x ELSE s[i - 1]
  BY ONLY <1>6, <1>7, <1>8
<1> QED BY <1>9 DEF m, With

(* m is s without its kth element.                                         *)
Without(m, T, s, k) ==
    /\ m \in Seq(T) /\ Len(m) = Len(s) - 1
    /\ \A i \in 1 .. Len(s) - 1 : m[i] = IF i < k THEN s[i] ELSE s[i + 1]

(* RemoveAt, by index and as a set.                                        *)
LEMMA Removed ==
    ASSUME NEW T, NEW s \in Seq(T), NEW k \in 1 .. Len(s)
    PROVE  Without(RemoveAt(s, k), T, s, k)
<1> DEFINE a == SubSeq(s, 1, k - 1)
           b == SubSeq(s, k + 1, Len(s))
<1>1. k \in Nat /\ 1 <= k /\ Len(s) \in Nat /\ k <= Len(s)
  OBVIOUS
<1>2. a \in Seq(T) /\ Len(a) = k - 1 /\ \A i \in 1 .. k - 1 : a[i] = s[i]
  BY <1>1
<1>3. b \in Seq(T) /\ Len(b) = Len(s) - k /\ \A i \in 1 .. Len(s) - k : b[i] = s[k + i]
  BY <1>1
<1>4. RemoveAt(s, k) = a \o b
  BY DEF RemoveAt
<1> HIDE DEF a, b
<1>5. a \o b \in Seq(T) /\ Len(a \o b) = Len(s) - 1
  <2>1. \A x, y \in Seq(T) : x \o y \in Seq(T) /\ Len(x \o y) = Len(x) + Len(y)
    OBVIOUS
  <2>2. a \o b \in Seq(T) /\ Len(a \o b) = Len(a) + Len(b)
    BY <1>2, <1>3, <2>1
  <2>3. Len(a) + Len(b) = Len(s) - 1
    BY <1>1, <1>2, <1>3
  <2> QED BY <2>2, <2>3
<1>6. ASSUME NEW i \in 1 .. Len(s) - 1
      PROVE  (a \o b)[i] = IF i < k THEN s[i] ELSE s[i + 1]
  <2>1. CASE i < k
    BY <1>1, <1>2, <1>3, <2>1
  <2>2. CASE ~(i < k)
    <3>1. i - (k - 1) \in 1 .. Len(s) - k /\ k + (i - (k - 1)) = i + 1
      BY <1>1, <2>2
    <3>2. (a \o b)[i] = b[i - (k - 1)]
      BY <1>1, <1>2, <1>3, <2>2
    <3> QED BY <1>3, <2>2, <3>1, <3>2
  <2> QED BY <2>1, <2>2
<1> DEFINE m == RemoveAt(s, k)
<1>7. m = a \o b
  BY <1>4
<1> HIDE DEF m
<1>8. m \in Seq(T) /\ Len(m) = Len(s) - 1
      /\ \A i \in 1 .. Len(s) - 1 : m[i] = IF i < k THEN s[i] ELSE s[i + 1]
  BY ONLY <1>5, <1>6, <1>7
<1> QED BY <1>8 DEF m, Without

(* One element moves, and those between give way.                          *)
MovedIndex(i, k, j) ==
    IF j = k + 1 THEN i
    ELSE LET h == IF j <= k THEN j ELSE j - 1 IN IF h < i THEN h ELSE h + 1

(* Taking an element out and putting it in elsewhere, by index.            *)
LEMMA Moved ==
    ASSUME NEW T, NEW s \in Seq(T), NEW i \in 1 .. Len(s), NEW k \in 0 .. Len(s) - 1
    PROVE  LET m == InsertAt(RemoveAt(s, i), k + 1, s[i])
           IN  /\ m \in Seq(T) /\ Len(m) = Len(s)
               /\ \A j \in 1 .. Len(s) : /\ MovedIndex(i, k, j) \in 1 .. Len(s)
                                         /\ m[j] = s[MovedIndex(i, k, j)]
<1> DEFINE r == RemoveAt(s, i)
           m == InsertAt(r, k + 1, s[i])
           n == Len(s)
<1>1. n \in Nat /\ i \in 1 .. n /\ k \in 0 .. n - 1 /\ s[i] \in T
  OBVIOUS
<1>2. r \in Seq(T) /\ Len(r) = n - 1 /\ \A j \in 1 .. n - 1 : r[j] = IF j < i THEN s[j] ELSE s[j + 1]
  BY Removed DEF Without
<1> HIDE DEF r, n
<1>3. m \in Seq(T) /\ Len(m) = Len(r) + 1
      /\ \A j \in 1 .. Len(r) + 1 : m[j] = IF j <= k THEN r[j] ELSE IF j = k + 1 THEN s[i] ELSE r[j - 1]
  <2>1. k \in 0 .. Len(r)
    BY <1>1, <1>2
  <2>2. r \in Seq(T) /\ s[i] \in T
    BY <1>1, <1>2
  <2>3. With(m, T, r, k, s[i])
    BY <2>1, <2>2, Inserted
  <2> HIDE DEF m
  <2> QED BY <2>3 DEF With
<1> HIDE DEF m
<1>4. Len(r) + 1 = n
  BY <1>1, <1>2
<1>5. ASSUME NEW j \in 1 .. n PROVE MovedIndex(i, k, j) \in 1 .. n /\ m[j] = s[MovedIndex(i, k, j)]
  <2>0. i \in Int /\ k \in Int /\ j \in Int /\ 1 <= i /\ i <= n /\ 0 <= k /\ k < n /\ 1 <= j /\ j <= n
    BY <1>1
  <2>1. CASE j = k + 1
    BY <1>1, <1>3, <1>4, <2>0, <2>1 DEF MovedIndex
  <2>2. CASE j <= k
    <3>1. j \in 1 .. n - 1 /\ m[j] = r[j] /\ j # k + 1
      BY <1>3, <1>4, <2>0, <2>2
    <3>2. m[j] = IF j < i THEN s[j] ELSE s[j + 1]
      BY <1>2, <3>1
    <3>3. MovedIndex(i, k, j) = IF j < i THEN j ELSE j + 1
      BY <2>2, <3>1 DEF MovedIndex
    <3> QED BY <1>1, <2>0, <2>2, <3>2, <3>3
  <2>3. CASE j > k + 1
    <3>1. j - 1 \in 1 .. n - 1 /\ m[j] = r[j - 1] /\ j # k + 1 /\ ~(j <= k)
      BY <1>3, <1>4, <2>0, <2>3
    <3>2. m[j] = IF j - 1 < i THEN s[j - 1] ELSE s[(j - 1) + 1]
      BY <1>2, <3>1
    <3>3. MovedIndex(i, k, j) = IF j - 1 < i THEN j - 1 ELSE (j - 1) + 1
      BY <3>1 DEF MovedIndex
    <3> QED BY <1>1, <2>0, <2>3, <3>2, <3>3
  <2> QED BY <2>0, <2>1, <2>2, <2>3
<1> QED BY <1>3, <1>4, <1>5 DEF m, n, r

-----------------------------------------------------------------------------
(* Lists of candidates.                                                    *)

Cands == [piece : Pieces, begin : Int, end : Int, unrequested : SUBSET Blocks,
          replication : Int, priority : {0, 1}, salt : Int, is_sequential : BOOLEAN]

(* A piece is listed once.                                                 *)
Keyed(l) == \A i, j \in DOMAIN l : l[i].piece = l[j].piece => i = j

Lists == {l \in Seq(Cands) : Keyed(l)}

(* m lists the same candidates as l, in any order.                         *)
Same(l, m) == m \in Lists /\ ToSet(m) = ToSet(l)

(* A list of candidates by index and as a set.                             *)
LEMMA ListFacts ==
    ASSUME NEW l \in Seq(Cands)
    PROVE  /\ Len(l) \in Nat /\ DOMAIN l = 1 .. Len(l)
           /\ \A i \in 1 .. Len(l) : l[i] \in Cands /\ l[i] \in ToSet(l)
           /\ ToSet(l) = {l[i] : i \in 1 .. Len(l)}
           /\ ToSet(l) \subseteq Cands
BY DEF ToSet

(* The candidates of a piece are one.                                      *)
LEMMA OneEach ==
    ASSUME NEW l \in Lists, NEW x \in ToSet(l), NEW y \in ToSet(l), x.piece = y.piece
    PROVE  x = y
BY DEF Lists, Keyed, ToSet

(* A candidate moved within the list leaves the same candidates, one of    *)
(* each piece.                                                             *)
LEMMA MovedSame ==
    ASSUME NEW l \in Lists, NEW i \in 1 .. Len(l), NEW k \in 0 .. Len(l) - 1
    PROVE  Same(l, InsertAt(RemoveAt(l, i), k + 1, l[i]))
<1> DEFINE m == InsertAt(RemoveAt(l, i), k + 1, l[i])
           n == Len(l)
           p(j) == MovedIndex(i, k, j)
<1>1. l \in Seq(Cands) /\ Keyed(l) /\ n \in Nat /\ DOMAIN l = 1 .. n
  BY DEF Lists
<1>2. m \in Seq(Cands) /\ Len(m) = n /\ \A j \in 1 .. n : p(j) \in 1 .. n /\ m[j] = l[p(j)]
  BY <1>1, Moved
<1>3. DOMAIN m = 1 .. n
  BY <1>2
<1> HIDE DEF m, n
<1>4. n \in Nat /\ i \in 1 .. n /\ k \in 0 .. n - 1
  BY DEF n
<1>5. ASSUME NEW j \in 1 .. n, NEW h \in 1 .. n, p(j) = p(h) PROVE j = h
  BY <1>4, <1>5 DEF MovedIndex
<1>6. ASSUME NEW q \in 1 .. n PROVE \E j \in 1 .. n : p(j) = q
  <2>1. CASE q = i
    <3>1. k + 1 \in 1 .. n /\ p(k + 1) = i
      BY <1>4 DEF MovedIndex
    <3> QED BY <2>1, <3>1
  <2>2. CASE q # i
    <3> DEFINE h == IF q < i THEN q ELSE q - 1
               j == IF h <= k THEN h ELSE h + 1
    <3>1. h \in 1 .. n - 1 /\ (IF h < i THEN h ELSE h + 1) = q
      BY <1>4, <2>2
    <3> HIDE DEF h
    <3>2. j \in 1 .. n /\ j # k + 1 /\ (IF j <= k THEN j ELSE j - 1) = h
      BY <1>4, <3>1
    <3> HIDE DEF j
    <3>3. p(j) = q
      BY <3>1, <3>2 DEF MovedIndex
    <3> QED BY <3>2, <3>3
  <2> QED BY <2>1, <2>2
<1> HIDE DEF p
<1>7. ToSet(m) = ToSet(l)
  <2>1. ASSUME NEW j \in 1 .. n PROVE m[j] \in ToSet(l)
    BY <1>1, <1>2 DEF ToSet
  <2>2. ASSUME NEW q \in 1 .. n PROVE \E j \in 1 .. n : m[j] = l[q]
    BY <1>2, <1>6
  <2>3. ToSet(m) = {m[j] : j \in 1 .. n} /\ ToSet(l) = {l[j] : j \in 1 .. n}
    BY <1>1, <1>3 DEF ToSet
  <2> QED BY <2>1, <2>2, <2>3
<1>8. Keyed(m)
  <2>1. ASSUME NEW j \in 1 .. n, NEW h \in 1 .. n, m[j].piece = m[h].piece PROVE j = h
    <3>1. p(j) \in 1 .. n /\ p(h) \in 1 .. n /\ m[j] = l[p(j)] /\ m[h] = l[p(h)]
      BY <1>2
    <3>2. p(j) = p(h)
      BY <1>1, <2>1, <3>1 DEF Keyed
    <3> QED BY <1>5, <3>2
  <2> QED BY <1>3, <2>1 DEF Keyed
<1> QED BY <1>2, <1>7, <1>8 DEF Same, Lists, m

(* A candidate of a new piece is inserted.                                 *)
LEMMA InsertedList ==
    ASSUME NEW l \in Lists, NEW k \in 0 .. Len(l), NEW x \in Cands,
           \A y \in ToSet(l) : y.piece # x.piece
    PROVE  LET m == InsertAt(l, k + 1, x)
           IN  m \in Lists /\ ToSet(m) = ToSet(l) \cup {x} /\ Len(m) = Len(l) + 1
<1> DEFINE m == InsertAt(l, k + 1, x)
           n == Len(l)
<1>1. l \in Seq(Cands) /\ Keyed(l) /\ n \in Nat /\ DOMAIN l = 1 .. n
  BY DEF Lists
<1>2. With(m, Cands, l, k, x)
  BY <1>1, Inserted
<1> HIDE DEF m
<1>3. m \in Seq(Cands) /\ Len(m) = n + 1 /\ DOMAIN m = 1 .. n + 1
      /\ \A i \in 1 .. n + 1 : m[i] = IF i <= k THEN l[i] ELSE IF i = k + 1 THEN x ELSE l[i - 1]
  BY <1>1, <1>2 DEF With
<1> HIDE DEF n
<1>4. k \in 0 .. n
  BY DEF n
<1> DEFINE p(i) == IF i <= k THEN i ELSE i - 1
<1>5. ASSUME NEW i \in 1 .. n + 1, i # k + 1 PROVE p(i) \in 1 .. n /\ m[i] = l[p(i)]
  BY <1>1, <1>3, <1>4, <1>5
<1>6. k + 1 \in 1 .. n + 1 /\ m[k + 1] = x
  BY <1>1, <1>3, <1>4
<1>7. ASSUME NEW q \in 1 .. n PROVE \E i \in 1 .. n + 1 : i # k + 1 /\ p(i) = q
  <2> DEFINE i == IF q <= k THEN q ELSE q + 1
  <2>1. i \in 1 .. n + 1 /\ i # k + 1 /\ p(i) = q
    BY <1>1, <1>4
  <2> QED BY <2>1
<1>8. ASSUME NEW i \in 1 .. n + 1, NEW j \in 1 .. n + 1, i # k + 1, j # k + 1, p(i) = p(j) PROVE i = j
  BY <1>1, <1>4, <1>8
<1> HIDE DEF p
<1>9. ToSet(m) = ToSet(l) \cup {x}
  <2>1. ASSUME NEW i \in 1 .. n + 1 PROVE m[i] \in ToSet(l) \cup {x}
    BY <1>1, <1>5, <1>6 DEF ToSet
  <2>2. ASSUME NEW q \in 1 .. n PROVE \E i \in 1 .. n + 1 : m[i] = l[q]
    BY <1>5, <1>7
  <2>3. \E i \in 1 .. n + 1 : m[i] = x
    BY <1>6
  <2>4. ToSet(m) = {m[j] : j \in 1 .. n + 1} /\ ToSet(l) = {l[j] : j \in 1 .. n}
    BY <1>1, <1>3 DEF ToSet
  <2> QED BY <2>1, <2>2, <2>3, <2>4
<1>10. Keyed(m)
  <2> SUFFICES ASSUME NEW i \in 1 .. n + 1, NEW j \in 1 .. n + 1, m[i].piece = m[j].piece PROVE i = j
    BY <1>3 DEF Keyed
  <2>1. \A q \in 1 .. n : l[q].piece # x.piece
    BY <1>1 DEF ToSet
  <2>2. CASE i = k + 1 \/ j = k + 1
    BY <1>5, <1>6, <2>1, <2>2
  <2>3. CASE i # k + 1 /\ j # k + 1
    BY <1>1, <1>5, <1>8, <2>3 DEF Keyed
  <2> QED BY <2>2, <2>3
<1> QED BY <1>3, <1>9, <1>10 DEF Lists, m, n

(* The candidate at i leaves.                                              *)
LEMMA RemovedList ==
    ASSUME NEW l \in Lists, NEW i \in 1 .. Len(l)
    PROVE  LET m == RemoveAt(l, i)
           IN  m \in Lists /\ ToSet(m) = {x \in ToSet(l) : x.piece # l[i].piece}
<1> DEFINE m == RemoveAt(l, i)
           n == Len(l)
           p(j) == IF j < i THEN j ELSE j + 1
<1>1. l \in Seq(Cands) /\ Keyed(l) /\ n \in Nat /\ DOMAIN l = 1 .. n /\ i \in 1 .. n
  BY DEF Lists
<1>2. Without(m, Cands, l, i)
  BY <1>1, Removed
<1> HIDE DEF m
<1>3. m \in Seq(Cands) /\ DOMAIN m = 1 .. n - 1 /\ \A j \in 1 .. n - 1 : m[j] = l[p(j)]
  BY <1>1, <1>2 DEF Without
<1> HIDE DEF n
<1>4. ASSUME NEW j \in 1 .. n - 1 PROVE p(j) \in 1 .. n /\ p(j) # i
  BY <1>1
<1>5. ASSUME NEW j \in 1 .. n - 1, NEW h \in 1 .. n - 1, p(j) = p(h) PROVE j = h
  BY <1>1, <1>5
<1>6. ASSUME NEW q \in 1 .. n, q # i PROVE \E j \in 1 .. n - 1 : p(j) = q
  <2> DEFINE j == IF q < i THEN q ELSE q - 1
  <2>1. j \in 1 .. n - 1 /\ p(j) = q
    BY <1>1, <1>6
  <2> QED BY <2>1
<1> HIDE DEF p
<1>7. \A q \in 1 .. n : l[q].piece = l[i].piece <=> q = i
  BY <1>1 DEF Keyed
<1>8. ToSet(m) = {x \in ToSet(l) : x.piece # l[i].piece}
  <2>1. ASSUME NEW j \in 1 .. n - 1 PROVE m[j] \in ToSet(l) /\ m[j].piece # l[i].piece
    BY <1>1, <1>3, <1>4, <1>7 DEF ToSet
  <2>2. ASSUME NEW q \in 1 .. n, l[q].piece # l[i].piece PROVE \E j \in 1 .. n - 1 : m[j] = l[q]
    BY <1>3, <1>6, <1>7, <2>2
  <2>3. ToSet(m) = {m[j] : j \in 1 .. n - 1} /\ ToSet(l) = {l[j] : j \in 1 .. n}
    BY <1>1, <1>3 DEF ToSet
  <2> QED BY <2>1, <2>2, <2>3
<1>9. Keyed(m)
  BY <1>1, <1>3, <1>4, <1>5 DEF Keyed
<1> QED BY <1>3, <1>8, <1>9 DEF Lists, m

(* Looking up a piece, or a block.                                         *)
LEMMA Selected ==
    ASSUME NEW n \in Nat, NEW I, I \subseteq 1 .. n, NEW i, i = IF I # {} THEN Min(I) ELSE 0
    PROVE  i \in 0 .. n /\ (i # 0 => i \in I) /\ (i = 0 => I = {})
<1>1. CASE I = {}
  BY <1>1
<1>2. CASE I # {}
  <2>1. I \subseteq Nat
    OBVIOUS
  <2>2. Min(I) \in I
    BY <1>2, <2>1, MinOf
  <2>3. Min(I) \in 1 .. n
    BY <2>2
  <2> QED BY <1>2, <2>2, <2>3
<1> QED BY <1>1, <1>2

(* find_by_piece returns the candidate of the piece, or none when there    *)
(* is none.                                                                *)
LEMMA FoundPiece ==
    ASSUME NEW l \in Seq(Cands), NEW c
    PROVE  LET i == FindPiece(l, c)
           IN  /\ i \in 0 .. Len(l)
               /\ i # 0 => i \in 1 .. Len(l) /\ l[i].piece = c
               /\ i = 0 => \A x \in ToSet(l) : x.piece # c
<1> DEFINE I == {i \in 1 .. Len(l) : l[i].piece = c}
           i == FindPiece(l, c)
<1>1. i = IF I # {} THEN Min(I) ELSE 0
  BY DEF FindPiece, SelectInSeq
<1>2. I \subseteq 1 .. Len(l) /\ Len(l) \in Nat
  OBVIOUS
<1> HIDE DEF I, i
<1>3. i \in 0 .. Len(l) /\ (i # 0 => i \in I) /\ (i = 0 => I = {})
  BY <1>1, <1>2, Selected
<1>4. I = {} => \A x \in ToSet(l) : x.piece # c
  BY DEF I, ToSet
<1> QED BY <1>3, <1>4 DEF I, i

Owns(e, b) == e.begin <= b /\ b < e.end

(* find_by_block returns a candidate whose span has the block, or none     *)
(* when there is none.                                                     *)
LEMMA FoundBlock ==
    ASSUME NEW l \in Seq(Cands), NEW b
    PROVE  LET i == FindBlock(l, b)
           IN  /\ i \in 0 .. Len(l)
               /\ i # 0 => i \in 1 .. Len(l) /\ Owns(l[i], b)
               /\ i = 0 => \A x \in ToSet(l) : ~Owns(x, b)
<1> DEFINE I == {i \in 1 .. Len(l) : l[i].begin <= b /\ b < l[i].end}
           i == FindBlock(l, b)
<1>1. i = IF I # {} THEN Min(I) ELSE 0
  BY DEF FindBlock, SelectInSeq
<1>2. I \subseteq 1 .. Len(l) /\ Len(l) \in Nat
  OBVIOUS
<1> HIDE DEF I, i
<1>3. i \in 0 .. Len(l) /\ (i # 0 => i \in I) /\ (i = 0 => I = {})
  BY <1>1, <1>2, Selected
<1>4. I = {} => \A x \in ToSet(l) : ~Owns(x, b)
  BY DEF I, ToSet, Owns
<1> QED BY <1>3, <1>4 DEF I, i, Owns

(* What lower_bound finds lies between its ends.                           *)
LEMMA BoundRange ==
    ASSUME NEW l, NEW m \in Nat, NEW n \in Nat, NEW x, m <= n + 1
    PROVE  LowerBound(l, m, n, x) \in 0 .. n - m + 1
<1> DEFINE S == {k \in m .. n : Less(l[k], x)}
<1>1. IsFiniteSet(m .. n) /\ Cardinality(m .. n) = n - m + 1
  <2>1. m .. n = {} \/ m <= n
    OBVIOUS
  <2> QED BY <2>1, FS_Interval
<1>2. S \subseteq m .. n
  OBVIOUS
<1> HIDE DEF S
<1>3. IsFiniteSet(S) /\ Cardinality(S) <= Cardinality(m .. n)
  BY <1>1, <1>2, FS_Subset
<1>4. Cardinality(S) \in Nat
  BY <1>3, FS_CardinalityType
<1> QED BY <1>1, <1>3, <1>4 DEF LowerBound, S

(* resort_piece moves a candidate, and that is all.                        *)
LEMMA ResortSame ==
    ASSUME NEW l \in Lists, NEW i \in 1 .. Len(l)
    PROVE  Same(l, Resort(l, i))
<1> DEFINE x == l[i]
           n == Len(l)
           p == LowerBound(l, 1, i - 1, x)
           q == LowerBound(l, i + 1, n, x)
<1>1. l \in Seq(Cands) /\ n \in Nat /\ i \in 1 .. n
  BY DEF Lists
<1>2. p \in 0 .. n - 1
  <2>1. p \in 0 .. (i - 1) - 1 + 1
    BY BoundRange
  <2> HIDE DEF p
  <2> QED BY <1>1, <2>1
<1>3. q \in 0 .. n - (i + 1) + 1
  <2>1. i + 1 <= n + 1 /\ i + 1 \in Nat /\ n \in Nat
    BY <1>1
  <2> HIDE DEF n
  <2> QED BY <2>1, BoundRange
<1>4. Same(l, InsertAt(RemoveAt(l, i), p + 1, x))
  <2> HIDE DEF p
  <2> QED BY <1>2, MovedSame
<1>5. i < n => Same(l, InsertAt(RemoveAt(l, i), i + q, x))
  <2> HIDE DEF q
  <2>1. (i - 1) + q \in 0 .. n - 1 /\ ((i - 1) + q) + 1 = i + q
    BY <1>1, <1>3
  <2>2. Same(l, InsertAt(RemoveAt(l, i), ((i - 1) + q) + 1, x))
    BY <2>1, MovedSame
  <2> QED BY <2>1, <2>2
<1>6. Same(l, l)
  BY DEF Same
<1>7. 1 + p = p + 1
  BY <1>2
<1> HIDE DEF p, q
<1>8. Resort(l, i) \in {l, InsertAt(RemoveAt(l, i), 1 + p, x), InsertAt(RemoveAt(l, i), i + q, x)}
      /\ (Resort(l, i) = l \/ Resort(l, i) = InsertAt(RemoveAt(l, i), 1 + p, x) \/ i < n)
  BY DEF Resort, p, q
<1> QED BY <1>4, <1>5, <1>6, <1>7, <1>8

-----------------------------------------------------------------------------
(* What an operation makes of each candidate by itself.                    *)

Becomes(l, m, F) == m \in Lists /\ ToSet(m) = {F[x] : x \in ToSet(l)}

Fits(F) == \A x \in Cands : F[x] \in Cands /\ F[x].piece = x.piece

TakeFrom(S) == [x \in Cands |-> [x EXCEPT !.unrequested = @ \ S]]
GiveBack(B) == [x \in Cands |-> [x EXCEPT !.unrequested = @ \cup ((x.begin .. x.end - 1) \cap B)]]
Counted(P, n) ==
    [x \in Cands |-> IF x.piece \in P THEN [x EXCEPT !.replication = @ + n] ELSE x]
Weighed(h) == [x \in Cands |-> [x EXCEPT !.priority = IF x.piece \in h THEN 1 ELSE 0]]
Salted(random, seq, from) ==
    [x \in Cands |-> [x EXCEPT !.salt = Salt(x.piece, random, seq, from)]]

(* Requesting blocks makes a candidate of the same piece.                  *)
LEMMA TakeFits == ASSUME NEW S PROVE Fits(TakeFrom(S))
BY DEF Fits, TakeFrom, Cands

(* So does giving blocks back,                                             *)
LEMMA GiveFits == ASSUME NEW B, B \subseteq Blocks PROVE Fits(GiveBack(B))
BY DEF Fits, GiveBack, Cands

(* so does counting a peer,                                                *)
LEMMA CountFits == ASSUME NEW P, NEW n \in Int PROVE Fits(Counted(P, n))
BY DEF Fits, Counted, Cands

(* and so does setting the priority.                                       *)
LEMMA WeighFits == ASSUME NEW h PROVE Fits(Weighed(h))
BY DEF Fits, Weighed, Cands

(* One candidate changes.                                                  *)
Replaced(l, i, x, m) ==
    /\ m \in Lists /\ Len(m) = Len(l) /\ m[i] = x
    /\ \A j \in 1 .. Len(l) : j # i => m[j] = l[j]
    /\ ToSet(m) = (ToSet(l) \ {l[i]}) \cup {x}

(* Changing one candidate, by index and as a set.                          *)
LEMMA Changed ==
    ASSUME NEW l \in Lists, NEW i \in 1 .. Len(l), NEW x \in Cands, x.piece = l[i].piece
    PROVE  Replaced(l, i, x, [l EXCEPT ![i] = x])
<1> DEFINE m == [l EXCEPT ![i] = x]
<1>1. l \in Seq(Cands) /\ Keyed(l) /\ Len(l) \in Nat /\ DOMAIN l = 1 .. Len(l)
  BY DEF Lists
<1>2. m \in Seq(Cands) /\ Len(m) = Len(l) /\ DOMAIN m = 1 .. Len(l)
      /\ \A j \in 1 .. Len(l) : m[j] = IF j = i THEN x ELSE l[j]
  BY <1>1
<1> HIDE DEF m
<1>3. Keyed(m)
  BY <1>1, <1>2 DEF Keyed
<1>4. ToSet(m) = (ToSet(l) \ {l[i]}) \cup {x}
  <2>1. \A j \in 1 .. Len(l) : l[j] = l[i] => j = i
    BY <1>1 DEF Keyed
  <2>2. ToSet(m) = {m[j] : j \in 1 .. Len(l)} /\ ToSet(l) = {l[j] : j \in 1 .. Len(l)}
    BY <1>1, <1>2 DEF ToSet
  <2> QED BY <1>2, <2>1, <2>2
<1>5. Replaced(l, i, x, m)
  BY <1>2, <1>3, <1>4 DEF Lists, Replaced
<1> QED BY <1>5 DEF m

(* All candidates change.                                                  *)
LEMMA Mapped ==
    ASSUME NEW l \in Lists, NEW F, Fits(F)
    PROVE  Becomes(l, [i \in DOMAIN l |-> F[l[i]]], F)
<1> DEFINE m == [i \in DOMAIN l |-> F[l[i]]]
<1>1. l \in Seq(Cands) /\ Keyed(l) /\ Len(l) \in Nat /\ DOMAIN l = 1 .. Len(l)
  BY DEF Lists
<1>2. m \in Seq(Cands) /\ DOMAIN m = 1 .. Len(l) /\ \A j \in 1 .. Len(l) : m[j] = F[l[j]]
  BY <1>1 DEF Fits
<1> HIDE DEF m
<1>3. Keyed(m)
  BY <1>1, <1>2 DEF Keyed, Fits
<1>4. ToSet(m) = {F[x] : x \in ToSet(l)}
  BY <1>1, <1>2 DEF ToSet
<1> QED BY <1>2, <1>3, <1>4 DEF Becomes, Lists, m

-----------------------------------------------------------------------------
(* Sorting.  An order is given as the set of the pairs <<x, y>> with x     *)
(* before y.                                                               *)

LessPairs  == {p \in Cands \X Cands : Less(p[1], p[2])}
PiecePairs == {p \in Cands \X Cands : p[1].piece < p[2].piece}

Spot(R, s, x) == LET I == {i \in 1 .. Len(s) : <<x, s[i]>> \notin R}
                 IN  IF I # {} THEN Max(I) ELSE 0

SortSteps(R, l, after, n) ==
    /\ after[0] = <<>>
    /\ \A k \in 1 .. n : after[k] = InsertAt(after[k - 1], Spot(R, after[k - 1], l[k]) + 1, l[k])

(* The spot is in the list; what lies behind it comes after x, and the     *)
(* element at it does not.                                                 *)
LEMMA SpotRange ==
    ASSUME NEW R, NEW T, NEW s \in Seq(T), NEW x
    PROVE  /\ Spot(R, s, x) \in 0 .. Len(s)
           /\ \A i \in 1 .. Len(s) : i > Spot(R, s, x) => <<x, s[i]>> \in R
           /\ Spot(R, s, x) # 0 => <<x, s[Spot(R, s, x)]>> \notin R
<1> DEFINE I == {i \in 1 .. Len(s) : <<x, s[i]>> \notin R}
           k == Spot(R, s, x)
<1>1. k = IF I # {} THEN Max(I) ELSE 0
  BY DEF Spot
<1>2. I \subseteq 0 .. Len(s) /\ Len(s) \in Nat
  OBVIOUS
<1>3. \A i \in 1 .. Len(s) : i \notin I => <<x, s[i]>> \in R
  OBVIOUS
<1>4. \A i \in I : i \in 1 .. Len(s) /\ <<x, s[i]>> \notin R
  OBVIOUS
<1> HIDE DEF I, k
<1>5. CASE I = {}
  BY <1>1, <1>2, <1>3, <1>5 DEF k
<1>6. CASE I # {}
  <2>1. k \in I /\ \A i \in I : i <= k
    BY <1>1, <1>2, <1>6, MaxOf
  <2>2. k \in 1 .. Len(s) /\ <<x, s[k]>> \notin R
    BY <1>4, <2>1
  <2>3. ASSUME NEW i \in 1 .. Len(s), i > k PROVE <<x, s[i]>> \in R
    BY <1>2, <1>3, <2>1, <2>2, <2>3
  <2> QED BY <2>2, <2>3 DEF k
<1> QED BY <1>5, <1>6

SpotLess(s, x)  == SelectLastInSeq(s, LAMBDA y : ~Less(x, y))
SpotPiece(s, x) == SelectLastInSeq(s, LAMBDA y : ~(x.piece < y.piece))

(* The two searches of the code, by operator<=> and by piece, are spots.   *)
LEMMA SpotsAre ==
    ASSUME NEW s \in Seq(Cands), NEW x \in Cands
    PROVE  SpotLess(s, x) = Spot(LessPairs, s, x) /\ SpotPiece(s, x) = Spot(PiecePairs, s, x)
<1>1. \A i \in 1 .. Len(s) : s[i] \in Cands
  OBVIOUS
<1>2. \A i \in 1 .. Len(s) : /\ ~Less(x, s[i]) <=> <<x, s[i]>> \notin LessPairs
                             /\ ~(x.piece < s[i].piece) <=> <<x, s[i]>> \notin PiecePairs
  BY <1>1 DEF LessPairs, PiecePairs
<1>3. {i \in 1 .. Len(s) : ~Less(x, s[i])} = {i \in 1 .. Len(s) : <<x, s[i]>> \notin LessPairs}
      /\ {i \in 1 .. Len(s) : ~(x.piece < s[i].piece)} = {i \in 1 .. Len(s) : <<x, s[i]>> \notin PiecePairs}
  BY <1>2
<1> QED BY <1>3 DEF SpotLess, SpotPiece, SelectLastInSeq, Spot

SortFold(l, h) ==
    h = [s \in SUBSET DOMAIN l |->
            IF s = {} THEN <<>>
            ELSE InsertAt(h[s \ {Max(s)}], SpotLess(h[s \ {Max(s)}], l[Max(s)]) + 1, l[Max(s)])]

(* Sort, as the fold it is defined by.                                     *)
LEMMA SortIs ==
    ASSUME NEW l
    PROVE  Sort(l) = (CHOOSE h : SortFold(l, h))[DOMAIN l]
BY Zenon DEF Sort, FoldLeft, MapThenFoldSet, Insert, SpotLess, SortFold

(* m has what l[1], ..., l[k] are, each once.                              *)
Holds(l, k, m) ==
    /\ m \in Lists /\ Len(m) = k
    /\ ToSet(m) = {l[j] : j \in 1 .. k}

Ordered(R, m) == \A i, j \in 1 .. Len(m) : i < j => <<m[j], m[i]>> \notin R

WeakOrder(R, S) ==
    /\ \A x, y \in S : <<x, y>> \in R => <<y, x>> \notin R
    /\ \A x, y, z \in S : <<x, y>> \notin R /\ <<y, z>> \notin R => <<x, z>> \notin R

(* An element goes in behind those it is not before.                       *)
LEMMA InsertOrdered ==
    ASSUME NEW R, NEW S, WeakOrder(R, S), NEW s \in Seq(S), NEW x \in S, Ordered(R, s)
    PROVE  Ordered(R, InsertAt(s, Spot(R, s, x) + 1, x))
<1> DEFINE k == Spot(R, s, x)
           m == InsertAt(s, k + 1, x)
           n == Len(s)
<1>1. n \in Nat /\ k \in 0 .. n /\ (\A i \in 1 .. n : i > k => <<x, s[i]>> \in R)
      /\ (k # 0 => <<x, s[k]>> \notin R)
  <2>1. Len(s) \in Nat
    OBVIOUS
  <2> QED BY ONLY <2>1, s \in Seq(S), SpotRange
<1>2. With(m, S, s, k, x)
  BY <1>1, Inserted
<1>3. \A i \in 1 .. n : s[i] \in S
  OBVIOUS
<1> HIDE DEF m, k
<1>4. Len(m) = n + 1 /\ \A i \in 1 .. n + 1 : m[i] = IF i <= k THEN s[i] ELSE IF i = k + 1 THEN x ELSE s[i - 1]
  BY <1>2 DEF With
<1>5. \A i, j \in 1 .. n : i < j => <<s[j], s[i]>> \notin R
  BY DEF Ordered
<1>6. \A i \in 1 .. n : i <= k => <<x, s[i]>> \notin R
  <2> SUFFICES ASSUME NEW i \in 1 .. n, i <= k PROVE <<x, s[i]>> \notin R
    OBVIOUS
  <2>1. k \in 1 .. n /\ k # 0
    BY <1>1
  <2>2. CASE i = k
    BY <1>1, <2>1, <2>2
  <2>3. CASE i # k
    <3>1. i < k
      BY <1>1, <2>3
    <3>2. <<s[k], s[i]>> \notin R
      BY <1>5, <2>1, <3>1
    <3> QED BY <1>1, <1>3, <2>1, <3>2 DEF WeakOrder
  <2> QED BY <2>2, <2>3
<1>7. \A i \in 1 .. n : i > k => <<s[i], x>> \notin R
  BY <1>1, <1>3 DEF WeakOrder
<1>8. ASSUME NEW i \in 1 .. n + 1, NEW j \in 1 .. n + 1, i < j PROVE <<m[j], m[i]>> \notin R
  <2>1. k \in Nat /\ i \in Nat /\ j \in Nat
    BY <1>1
  <2>2. CASE j <= k
    <3>1. i \in 1 .. n /\ j \in 1 .. n /\ m[i] = s[i] /\ m[j] = s[j]
      BY <1>1, <1>4, <1>8, <2>1, <2>2
    <3> QED BY <1>5, <1>8, <3>1
  <2>3. CASE j = k + 1
    <3>1. i \in 1 .. n /\ i <= k /\ m[i] = s[i] /\ m[j] = x
      BY <1>1, <1>4, <1>8, <2>1, <2>3
    <3> QED BY <1>6, <3>1
  <2>4. CASE j > k + 1 /\ i <= k
    <3>1. i \in 1 .. n /\ j - 1 \in 1 .. n /\ i < j - 1 /\ m[i] = s[i] /\ m[j] = s[j - 1]
      BY <1>1, <1>4, <1>8, <2>1, <2>4
    <3> QED BY <1>5, <3>1
  <2>5. CASE j > k + 1 /\ i = k + 1
    <3>1. j - 1 \in 1 .. n /\ j - 1 > k /\ m[i] = x /\ m[j] = s[j - 1]
      BY <1>1, <1>4, <1>8, <2>1, <2>5
    <3> QED BY <1>7, <3>1
  <2>6. CASE j > k + 1 /\ i > k + 1
    <3>1. i - 1 \in 1 .. n /\ j - 1 \in 1 .. n /\ i - 1 < j - 1 /\ m[i] = s[i - 1] /\ m[j] = s[j - 1]
      BY <1>1, <1>4, <1>8, <2>1, <2>6
    <3> QED BY <1>5, <3>1
  <2> QED BY <2>1, <2>2, <2>3, <2>4, <2>5, <2>6
<1>9. \A i, j \in 1 .. Len(m) : i < j => <<m[j], m[i]>> \notin R
  BY <1>4, <1>8
<1> QED BY <1>9 DEF Ordered, m, k

(* The steps of an insertion sort hold what they have taken, in order.     *)
LEMMA StepsHold ==
    ASSUME NEW R, NEW l \in Lists, NEW after, SortSteps(R, l, after, Len(l))
    PROVE  /\ Same(l, after[Len(l)])
           /\ Len(after[Len(l)]) = Len(l)
           /\ WeakOrder(R, ToSet(l)) => Ordered(R, after[Len(l)])
<1> DEFINE n == Len(l)
           S == ToSet(l)
           Good(k) == {h \in Lists : Holds(l, k, h) /\ (WeakOrder(R, S) => Ordered(R, h))}
           Q == [k \in 0 .. n |-> Good(k)]
<1>1. l \in Seq(Cands) /\ Keyed(l) /\ n \in Nat /\ DOMAIN l = 1 .. n /\ S = {l[j] : j \in 1 .. n}
      /\ \A j \in 1 .. n : l[j] \in Cands /\ l[j] \in S
  BY ListFacts DEF Lists
<1>2. after[0] \in Q[0]
  <2>1. after[0] = <<>> /\ <<>> \in Seq(Cands) /\ Len(<<>>) = 0 /\ DOMAIN <<>> = {}
    BY DEF SortSteps
  <2>2. <<>> \in Lists
    BY <2>1 DEF Lists, Keyed
  <2>3. ToSet(<<>>) = {}
    BY <2>1 DEF ToSet
  <2>4. {l[j] : j \in 1 .. 0} = {}
    OBVIOUS
  <2>5. Holds(l, 0, <<>>) /\ Ordered(R, <<>>)
    BY <2>1, <2>2, <2>3, <2>4 DEF Holds, Ordered
  <2>6. 0 \in 0 .. n
    BY <1>1
  <2> QED BY <2>1, <2>2, <2>5, <2>6
<1>3. ASSUME NEW k \in 1 .. n, after[k - 1] \in Q[k - 1] PROVE after[k] \in Q[k]
  <2> DEFINE s == after[k - 1]
             x == l[k]
             p == Spot(R, s, x)
             m == InsertAt(s, p + 1, x)
  <2>1. k - 1 \in 0 .. n /\ k \in 0 .. n /\ k \in Int
    BY <1>1
  <2>2. s \in Lists /\ Holds(l, k - 1, s) /\ (WeakOrder(R, S) => Ordered(R, s))
    <3>1. Q[k - 1] = Good(k - 1)
      BY ONLY <2>1
    <3> HIDE DEF Q, S
    <3> QED BY <1>3, <3>1
  <2>3. s \in Seq(Cands) /\ ToSet(s) = {l[j] : j \in 1 .. k - 1} /\ Len(s) = k - 1
    BY <2>2 DEF Holds, Lists
  <2>4. x \in Cands /\ x \in S /\ ToSet(s) \subseteq S
    <3>1. \A j \in 1 .. k - 1 : j \in 1 .. n
      BY <1>1
    <3> QED BY <1>1, <2>3, <3>1
  <2>5. \A y \in ToSet(s) : y.piece # x.piece
    <3> SUFFICES ASSUME NEW j \in 1 .. k - 1, l[j].piece = l[k].piece PROVE FALSE
      BY <2>3
    <3>1. j \in 1 .. n /\ j # k
      BY <1>1
    <3> QED BY <1>1, <3>1 DEF Keyed
  <2>6. p \in 0 .. Len(s)
    BY <2>3, SpotRange
  <2>7. after[k] = m
    BY <1>3 DEF SortSteps
  <2> HIDE DEF p, S
  <2>8. m \in Lists /\ ToSet(m) = ToSet(s) \cup {x} /\ Len(m) = Len(s) + 1
    BY <2>2, <2>4, <2>5, <2>6, InsertedList
  <2>9. {l[j] : j \in 1 .. k} = {l[j] : j \in 1 .. k - 1} \cup {l[k]}
    <3>1. \A j : j \in 1 .. k <=> j \in 1 .. k - 1 \/ j = k
      BY <2>1, <1>1
    <3> QED BY <3>1
  <2>10. WeakOrder(R, S) => Ordered(R, m)
    <3> HAVE WeakOrder(R, S)
    <3>1. s \in Seq(S)
      <4>1. \A j \in 1 .. k - 1 : s[j] \in S
        <5>1. \A j \in DOMAIN s : s[j] \in ToSet(s)
          BY DEF ToSet
        <5> QED BY <2>3, <2>4, <5>1
      <4> QED BY <2>3, <4>1
    <3>2. Ordered(R, s)
      BY <2>2
    <3> QED BY <2>4, <3>1, <3>2, InsertOrdered DEF p
  <2>11. Len(m) = k
    BY <2>3, <2>8, <2>1
  <2> HIDE DEF m, s, x
  <2>12. Holds(l, k, m)
    BY <2>3, <2>8, <2>9, <2>11 DEF Holds, x
  <2> QED BY <2>1, <2>7, <2>8, <2>10, <2>12
<1>4. after[n] \in Q[n]
  <2> HIDE DEF Q
  <2>1. \A k \in 0 .. n : after[k] \in Q[k]
    BY <1>1, <1>2, <1>3, Stays
  <2>2. n \in 0 .. n
    BY <1>1
  <2> QED BY <2>1, <2>2
<1>5. after[n] \in Lists /\ Holds(l, n, after[n]) /\ (WeakOrder(R, S) => Ordered(R, after[n]))
  <2>1. n \in 0 .. n
    BY <1>1
  <2>2. Q[n] = Good(n)
    BY ONLY <2>1
  <2> HIDE DEF Q, S
  <2> QED BY <1>4, <2>2
<1> QED BY <1>1, <1>5 DEF Holds, Same

InsertsBy(R, l, h) == \A s \in SUBSET (1 .. Len(l)) :
    h[s] = IF s = {} THEN <<>>
           ELSE InsertAt(h[s \ {Max(s)}], Spot(R, h[s \ {Max(s)}], l[Max(s)]) + 1, l[Max(s)])

(* A fold that inserts every element sorts the first k of them after k     *)
(* steps.                                                                  *)
LEMMA SortFoldSteps ==
    ASSUME NEW R, NEW l \in Seq(Cands), NEW h, InsertsBy(R, l, h)
    PROVE  \E after : SortSteps(R, l, after, Len(l)) /\ after[Len(l)] = h[1 .. Len(l)]
<1> DEFINE n == Len(l)
           after == [k \in 0 .. n |-> h[1 .. k]]
<1>1. n \in Nat
  OBVIOUS
<1>2. n \in 0 .. n /\ 0 \in 0 .. n /\ \A k \in 1 .. n : k \in 0 .. n /\ k - 1 \in 0 .. n
  BY <1>1
<1>3. after[0] = <<>>
  <2>1. 1 .. 0 = {} /\ {} \in SUBSET (1 .. Len(l))
    OBVIOUS
  <2>2. h[{}] = <<>>
    BY <2>1 DEF InsertsBy
  <2> QED BY <1>2, <2>1, <2>2
<1>4. ASSUME NEW k \in 1 .. n
      PROVE  after[k] = InsertAt(after[k - 1], Spot(R, after[k - 1], l[k]) + 1, l[k])
  <2>1. /\ 1 .. k # {} /\ Max(1 .. k) = k /\ (1 .. k) \ {k} = 1 .. (k - 1)
        /\ 1 .. k \in SUBSET (1 .. n)
    BY <1>1, FoldOrder
  <2>2. h[1 .. k] = InsertAt(h[1 .. (k - 1)], Spot(R, h[1 .. (k - 1)], l[k]) + 1, l[k])
    BY <2>1 DEF InsertsBy
  <2>3. after[k] = h[1 .. k] /\ after[k - 1] = h[1 .. (k - 1)]
    BY <1>2
  <2> QED BY <2>2, <2>3
<1>5. after[n] = h[1 .. n]
  BY <1>2
<1> HIDE DEF after
<1> QED BY <1>3, <1>4, <1>5 DEF SortSteps

(* The function that inserts l[1], l[2], ... in the order R.               *)
LEMMA SortFoldExists ==
    ASSUME NEW R, NEW l \in Seq(Cands)
    PROVE  \E h \in [SUBSET (1 .. Len(l)) -> Seq(Cands)] : InsertsBy(R, l, h)
<1> DEFINE n == Len(l)
           U == Seq(Cands)
           In(s, k) == InsertAt(s, Spot(R, s, l[k]) + 1, l[k])
           g == [p \in U \X (1 .. n) |-> In(p[1], p[2])]
<1>1. n \in Nat /\ <<>> \in U /\ \A k \in 1 .. n : l[k] \in Cands
  OBVIOUS
<1>2. ASSUME NEW s \in U, NEW k \in 1 .. n PROVE In(s, k) \in U
  <2>1. Spot(R, s, l[k]) \in 0 .. Len(s)
    BY SpotRange
  <2> QED BY <1>1, <2>1, Inserted DEF With
<1>3. g \in [U \X (1 .. n) -> U]
  <2>1. \A p \in U \X (1 .. n) : In(p[1], p[2]) \in U
    BY <1>2
  <2> HIDE DEF In, U, n
  <2> QED BY <2>1
<1>4. \A s \in U : \A k \in 1 .. n : g[<<s, k>>] = In(s, k)
  <2> HIDE DEF In, U, n
  <2> QED OBVIOUS
<1> HIDE DEF g, In
<1>5. PICK h \in [SUBSET (1 .. n) -> U] : Folds(h, g, <<>>, n)
  <2> HIDE DEF U
  <2> QED BY <1>1, <1>3, FoldExists
<1>6. ASSUME NEW s \in SUBSET (1 .. n)
      PROVE  h[s] = IF s = {} THEN <<>> ELSE In(h[s \ {Max(s)}], Max(s))
  <2>1. h[s] = IF s = {} THEN <<>> ELSE g[<<h[s \ {Max(s)}], Max(s)>>]
    BY <1>5 DEF Folds
  <2>2. CASE s = {}
    BY <2>1, <2>2
  <2>3. CASE s # {}
    <3>1. Max(s) \in s
      <4>1. s \subseteq 0 .. n
        BY <1>1
      <4> QED BY <1>1, <2>3, <4>1, MaxOf
    <3>2. Max(s) \in 1 .. n /\ s \ {Max(s)} \in SUBSET (1 .. n)
      BY <3>1
    <3>3. h[s \ {Max(s)}] \in U
      BY <3>2
    <3> QED BY <1>4, <2>1, <2>3, <3>2, <3>3
  <2> QED BY <2>2, <2>3
<1>7. InsertsBy(R, l, h)
  BY <1>6 DEF In, InsertsBy
<1> QED BY <1>5, <1>7

(* The two sorts that are used, by operator<=> and by piece.               *)
SpotBy(byPiece, s, x) == IF byPiece THEN SpotPiece(s, x) ELSE SpotLess(s, x)
Pairs(byPiece) == IF byPiece THEN PiecePairs ELSE LessPairs

(* Either search is a spot of its relation.                                *)
LEMMA SpotByIs ==
    ASSUME NEW byPiece \in BOOLEAN, NEW s \in Seq(Cands), NEW x \in Cands
    PROVE  SpotBy(byPiece, s, x) = Spot(Pairs(byPiece), s, x)
<1>1. SpotLess(s, x) = Spot(LessPairs, s, x) /\ SpotPiece(s, x) = Spot(PiecePairs, s, x)
  BY SpotsAre
<1>2. CASE byPiece
  <2>1. SpotBy(byPiece, s, x) = SpotPiece(s, x) /\ Pairs(byPiece) = PiecePairs
    BY <1>2 DEF SpotBy, Pairs
  <2> QED BY <1>1, <2>1
<1>3. CASE ~byPiece
  <2>1. SpotBy(byPiece, s, x) = SpotLess(s, x) /\ Pairs(byPiece) = LessPairs
    BY <1>3 DEF SpotBy, Pairs
  <2> QED BY <1>1, <2>1
<1> QED BY <1>2, <1>3

Inserting(byPiece, l, n, h) ==
    /\ h[{}] = <<>>
    /\ \A s \in SUBSET (1 .. n) : s # {} =>
        h[s] = InsertAt(h[s \ {Max(s)}], SpotBy(byPiece, h[s \ {Max(s)}], l[Max(s)]) + 1, l[Max(s)])

(* Two functions that insert the same elements agree.                      *)
LEMMA SameFold ==
    ASSUME NEW byPiece, NEW l, NEW n \in Nat, NEW f, NEW h,
           Inserting(byPiece, l, n, f), Inserting(byPiece, l, n, h)
    PROVE  h[1 .. n] = f[1 .. n]
<1> DEFINE after == [k \in 0 .. n |-> h[1 .. k]]
           Q == [k \in 0 .. n |-> {f[1 .. k]}]
<1>1. after[0] \in Q[0]
  <2>1. 1 .. 0 = {} /\ h[{}] = f[{}] /\ 0 \in 0 .. n
    BY DEF Inserting
  <2> QED BY <2>1
<1>2. ASSUME NEW k \in 1 .. n, after[k - 1] \in Q[k - 1] PROVE after[k] \in Q[k]
  <2>1. /\ 1 .. k # {} /\ Max(1 .. k) = k /\ (1 .. k) \ {k} = 1 .. (k - 1)
        /\ 1 .. k \in SUBSET (1 .. n)
    BY FoldOrder
  <2>2. k \in 0 .. n /\ k - 1 \in 0 .. n
    OBVIOUS
  <2>3. h[1 .. (k - 1)] = f[1 .. (k - 1)]
    BY <1>2, <2>2
  <2>4. f[1 .. k] = InsertAt(f[1 .. (k - 1)], SpotBy(byPiece, f[1 .. (k - 1)], l[k]) + 1, l[k])
    BY <2>1 DEF Inserting
  <2>5. h[1 .. k] = InsertAt(h[1 .. (k - 1)], SpotBy(byPiece, h[1 .. (k - 1)], l[k]) + 1, l[k])
    BY <2>1 DEF Inserting
  <2>6. h[1 .. k] = f[1 .. k]
    BY <2>3, <2>4, <2>5
  <2> QED BY <2>2, <2>6
<1>3. \A k \in 0 .. n : after[k] \in Q[k]
  <2> HIDE DEF after, Q
  <2> QED BY <1>1, <1>2, Stays
<1>4. n \in 0 .. n
  OBVIOUS
<1> QED BY <1>3, <1>4

(* A function that inserts every element exists.                           *)
LEMMA InsertingExists ==
    ASSUME NEW byPiece \in BOOLEAN, NEW l \in Seq(Cands)
    PROVE  \E f \in [SUBSET (1 .. Len(l)) -> Seq(Cands)] :
               Inserting(byPiece, l, Len(l), f) /\ InsertsBy(Pairs(byPiece), l, f)
<1> DEFINE n == Len(l)
<1>1. n \in Nat /\ \A j \in 1 .. n : l[j] \in Cands
  OBVIOUS
<1>2. PICK f \in [SUBSET (1 .. n) -> Seq(Cands)] : InsertsBy(Pairs(byPiece), l, f)
  BY SortFoldExists
<1>3. ASSUME NEW s \in SUBSET (1 .. n), s # {}
      PROVE  f[s] = InsertAt(f[s \ {Max(s)}], SpotBy(byPiece, f[s \ {Max(s)}], l[Max(s)]) + 1, l[Max(s)])
  <2>1. Max(s) \in s
    <3>1. s \subseteq 0 .. n
      BY <1>1
    <3> QED BY <1>1, <1>3, <3>1, MaxOf
  <2>2. l[Max(s)] \in Cands /\ f[s \ {Max(s)}] \in Seq(Cands)
    <3>1. Max(s) \in 1 .. n /\ s \ {Max(s)} \in SUBSET (1 .. n)
      BY <2>1
    <3> QED BY <1>1, <3>1
  <2>3. SpotBy(byPiece, f[s \ {Max(s)}], l[Max(s)]) = Spot(Pairs(byPiece), f[s \ {Max(s)}], l[Max(s)])
    BY <2>2, SpotByIs
  <2> QED BY <1>2, <1>3, <2>3 DEF InsertsBy
<1>4. f[{}] = <<>>
  <2>1. {} \in SUBSET (1 .. n)
    OBVIOUS
  <2> QED BY <1>2, <2>1 DEF InsertsBy
<1>5. Inserting(byPiece, l, n, f)
  BY <1>3, <1>4 DEF Inserting
<1> QED BY <1>2, <1>5

(* Inserting every element keeps the candidates and puts them in order.    *)
LEMMA InsertingSorts ==
    ASSUME NEW byPiece \in BOOLEAN, NEW l \in Lists, NEW h, Inserting(byPiece, l, Len(l), h)
    PROVE  LET m == h[1 .. Len(l)] IN
           /\ Same(l, m) /\ Len(m) = Len(l)
           /\ WeakOrder(Pairs(byPiece), ToSet(l)) => Ordered(Pairs(byPiece), m)
<1> DEFINE n == Len(l)
           R == Pairs(byPiece)
<1>1. l \in Seq(Cands) /\ n \in Nat
  BY DEF Lists
<1>2. PICK f \in [SUBSET (1 .. n) -> Seq(Cands)] : Inserting(byPiece, l, n, f) /\ InsertsBy(R, l, f)
  BY <1>1, InsertingExists
<1>3. h[1 .. n] = f[1 .. n]
  BY <1>1, <1>2, SameFold
<1>4. PICK after : SortSteps(R, l, after, n) /\ after[n] = f[1 .. n]
  BY <1>1, <1>2, SortFoldSteps
<1>5. /\ Same(l, after[n]) /\ Len(after[n]) = n
      /\ WeakOrder(R, ToSet(l)) => Ordered(R, after[n])
  BY <1>4, StepsHold
<1> QED BY <1>3, <1>4, <1>5

SortFoldPiece(l, h) ==
    h = [s \in SUBSET DOMAIN l |->
            IF s = {} THEN <<>>
            ELSE InsertAt(h[s \ {Max(s)}], SpotPiece(h[s \ {Max(s)}], l[Max(s)]) + 1, l[Max(s)])]

(* SortByPiece, as the fold it is defined by.                              *)
LEMMA SortByPieceIs ==
    ASSUME NEW l
    PROVE  SortByPiece(l) = (CHOOSE h : SortFoldPiece(l, h))[DOMAIN l]
BY Zenon DEF SortByPiece, FoldLeft, MapThenFoldSet, Insert, SpotPiece, SortFoldPiece

(* A recursion that some function satisfies: the one it is read with does. *)
LEMMA FoldsInsert ==
    ASSUME NEW l \in Seq(Cands)
    PROVE  /\ \E h : Inserting(FALSE, l, Len(l), h) /\ Sort(l) = h[1 .. Len(l)]
           /\ \E h : Inserting(TRUE, l, Len(l), h) /\ SortByPiece(l) = h[1 .. Len(l)]
<1> DEFINE n == Len(l)
<1>1. DOMAIN l = 1 .. n /\ {} \in SUBSET (1 .. n)
  OBVIOUS
<1>2. \E h : Inserting(FALSE, l, n, h) /\ Sort(l) = h[1 .. n]
  <2>1. PICK p \in BOOLEAN : p = FALSE
    OBVIOUS
  <2>2. PICK f \in [SUBSET (1 .. n) -> Seq(Cands)] : Inserting(p, l, n, f)
    BY InsertingExists
  <2>3. \A s, x : SpotBy(p, s, x) = SpotLess(s, x)
    BY <2>1 DEF SpotBy
  <2>4. SortFold(l, f)
    <3>1. f = [s \in SUBSET (1 .. n) |-> f[s]]
      BY <2>2
    <3>2. \A s \in SUBSET (1 .. n) : f[s] = IF s = {} THEN <<>>
             ELSE InsertAt(f[s \ {Max(s)}], SpotLess(f[s \ {Max(s)}], l[Max(s)]) + 1, l[Max(s)])
      BY <2>2, <2>3 DEF Inserting
    <3> QED BY <1>1, <3>1, <3>2 DEF SortFold
  <2> DEFINE h == CHOOSE x : SortFold(l, x)
  <2>5. SortFold(l, h)
    BY <2>4
  <2>6. Sort(l) = h[1 .. n]
    BY <1>1, SortIs
  <2> HIDE DEF h
  <2>7. Inserting(p, l, n, h)
    BY <1>1, <2>3, <2>5 DEF SortFold, Inserting
  <2> QED BY <2>1, <2>6, <2>7
<1>3. \E h : Inserting(TRUE, l, n, h) /\ SortByPiece(l) = h[1 .. n]
  <2>1. PICK p \in BOOLEAN : p = TRUE
    OBVIOUS
  <2>2. PICK f \in [SUBSET (1 .. n) -> Seq(Cands)] : Inserting(p, l, n, f)
    BY InsertingExists
  <2>3. \A s, x : SpotBy(p, s, x) = SpotPiece(s, x)
    BY <2>1 DEF SpotBy
  <2>4. SortFoldPiece(l, f)
    <3>1. f = [s \in SUBSET (1 .. n) |-> f[s]]
      BY <2>2
    <3>2. \A s \in SUBSET (1 .. n) : f[s] = IF s = {} THEN <<>>
             ELSE InsertAt(f[s \ {Max(s)}], SpotPiece(f[s \ {Max(s)}], l[Max(s)]) + 1, l[Max(s)])
      BY <2>2, <2>3 DEF Inserting
    <3> QED BY <1>1, <3>1, <3>2 DEF SortFoldPiece
  <2> DEFINE h == CHOOSE x : SortFoldPiece(l, x)
  <2>5. SortFoldPiece(l, h)
    BY <2>4
  <2>6. SortByPiece(l) = h[1 .. n]
    BY <1>1, SortByPieceIs
  <2> HIDE DEF h
  <2>7. Inserting(p, l, n, h)
    BY <1>1, <2>3, <2>5 DEF SortFoldPiece, Inserting
  <2> QED BY <2>1, <2>6, <2>7
<1> QED BY <1>2, <1>3

(* std::ranges::sort: the same candidates, and in order if it is one.      *)
LEMMA SortSame ==
    ASSUME NEW l \in Lists
    PROVE  /\ Same(l, Sort(l)) /\ Len(Sort(l)) = Len(l)
           /\ WeakOrder(LessPairs, ToSet(l)) => Ordered(LessPairs, Sort(l))
<1>1. l \in Seq(Cands)
  BY DEF Lists
<1>2. PICK p \in BOOLEAN : p = FALSE
  OBVIOUS
<1>3. PICK h : Inserting(p, l, Len(l), h) /\ Sort(l) = h[1 .. Len(l)]
  BY <1>1, <1>2, FoldsInsert
<1>4. Pairs(p) = LessPairs
  BY <1>2 DEF Pairs
<1> QED BY <1>3, <1>4, InsertingSorts

(* Sorting by piece keeps the candidates and puts the pieces in ascending  *)
(* order.                                                                  *)
LEMMA SortByPieceSame ==
    ASSUME NEW l \in Lists
    PROVE  LET m == SortByPiece(l)
           IN  /\ Same(l, m) /\ Len(m) = Len(l)
               /\ \A i, j \in 1 .. Len(m) : i < j => m[i].piece < m[j].piece
<1> DEFINE m == SortByPiece(l)
<1>1. l \in Seq(Cands) /\ ToSet(l) \subseteq Cands
  BY ListFacts DEF Lists
<1>2. PICK p \in BOOLEAN : p = TRUE
  OBVIOUS
<1>3. PICK h : Inserting(p, l, Len(l), h) /\ m = h[1 .. Len(l)]
  BY <1>1, <1>2, FoldsInsert
<1>4. Pairs(p) = PiecePairs
  BY <1>2 DEF Pairs
<1> HIDE DEF m
<1>5. WeakOrder(PiecePairs, ToSet(l))
  <2>1. \A x \in ToSet(l) : x \in Cands /\ x.piece \in Int
    BY <1>1 DEF Cands, Pieces
  <2>2. \A x, y \in ToSet(l) : <<x, y>> \in PiecePairs <=> x.piece < y.piece
    BY <2>1 DEF PiecePairs
  <2> QED BY <2>1, <2>2 DEF WeakOrder
<1>6. Same(l, m) /\ Len(m) = Len(l) /\ Ordered(PiecePairs, m)
  BY <1>3, <1>4, <1>5, InsertingSorts
<1>7. ASSUME NEW i \in 1 .. Len(m), NEW j \in 1 .. Len(m), i < j PROVE m[i].piece < m[j].piece
  <2>1. m \in Seq(Cands) /\ Keyed(m)
    BY <1>6 DEF Same, Lists
  <2>2. m[i] \in Cands /\ m[j] \in Cands /\ DOMAIN m = 1 .. Len(m)
    BY <2>1
  <2>3. m[i].piece \in Int /\ m[j].piece \in Int
    BY <2>2 DEF Cands, Pieces
  <2>4. ~(m[j].piece < m[i].piece)
    BY <1>6, <1>7, <2>2 DEF Ordered, PiecePairs
  <2>5. m[i].piece # m[j].piece
    BY <1>7, <2>1, <2>2 DEF Keyed
  <2> QED BY <2>3, <2>4, <2>5
<1> QED BY <1>6, <1>7 DEF m

-----------------------------------------------------------------------------
(* The order of the candidates, and resort_piece.                          *)

(* operator<=> orders candidates that were made in the same mode: it is    *)
(* then one comparison of four numbers.                                    *)
LEMMA LessIsWeakOrder ==
    ASSUME NEW S, S \subseteq Cands,
           \A x, y \in S : x.is_sequential = y.is_sequential,
           \A x \in S : Cardinality(x.unrequested) \in Int
    PROVE  WeakOrder(LessPairs, S)
<1>1. \A x \in S : x \in Cands /\ x.priority \in Int /\ x.replication \in Int /\ x.salt \in Int
  BY DEF Cands
<1>2. \A x, y \in S : <<x, y>> \in LessPairs <=> Less(x, y)
  BY <1>1 DEF LessPairs
<1> DEFINE n(x) == Cardinality(x.unrequested)
<1>3. \A x \in S : n(x) \in Int
  OBVIOUS
<1>4. \A x, y \in S : Less(x, y) <=>
          IF ~x.is_sequential /\ n(x) # n(y) THEN n(x) < n(y)
          ELSE IF x.priority # y.priority THEN x.priority > y.priority
          ELSE IF x.replication # y.replication THEN x.replication < y.replication
          ELSE x.salt < y.salt
  BY DEF Less
<1> HIDE DEF n
<1>5. ASSUME NEW x \in S, NEW y \in S, Less(x, y) PROVE ~Less(y, x)
  <2>1. x.is_sequential = y.is_sequential
    OBVIOUS
  <2>2. n(x) \in Int /\ n(y) \in Int
    BY <1>3
  <2>3. /\ x.priority \in Int /\ x.replication \in Int /\ x.salt \in Int
        /\ y.priority \in Int /\ y.replication \in Int /\ y.salt \in Int
    BY <1>1
  <2>4. IF ~x.is_sequential /\ n(x) # n(y) THEN n(x) < n(y)
        ELSE IF x.priority # y.priority THEN x.priority > y.priority
        ELSE IF x.replication # y.replication THEN x.replication < y.replication
        ELSE x.salt < y.salt
    BY <1>4, <1>5
  <2>5. ~ IF ~y.is_sequential /\ n(y) # n(x) THEN n(y) < n(x)
        ELSE IF y.priority # x.priority THEN y.priority > x.priority
        ELSE IF y.replication # x.replication THEN y.replication < x.replication
        ELSE y.salt < x.salt
    BY ONLY <2>1, <2>2, <2>3, <2>4
  <2> QED BY <1>4, <2>5
<1>6. ASSUME NEW x \in S, NEW y \in S, NEW z \in S, ~Less(x, y), ~Less(y, z) PROVE ~Less(x, z)
  <2>1. x.is_sequential = y.is_sequential /\ y.is_sequential = z.is_sequential
    OBVIOUS
  <2> QED BY <1>1, <1>3, <1>4, <1>6, <2>1
<1> QED BY <1>2, <1>5, <1>6 DEF WeakOrder

(* The numbers up to one of them, counted.                                 *)
LEMMA Prefix ==
    ASSUME NEW m \in Nat, NEW n \in Nat, NEW S, S \subseteq m .. n,
           \A i \in S : \A j \in m .. i : j \in S
    PROVE  Cardinality(S) \in Nat /\ S = m .. m + Cardinality(S) - 1
<1>1. CASE S = {}
  <2>1. Cardinality(S) = 0
    BY <1>1, FS_EmptySet
  <2> QED BY <1>1, <2>1
<1>2. CASE S # {}
  <2>1. S \subseteq 0 .. n
    OBVIOUS
  <2>2. PICK x \in S : \A y \in S : y <= x
    BY <1>2, <2>1, GreatestOf
  <2>3. x \in m .. n
    OBVIOUS
  <2>4. S = m .. x
    <3>1. m .. x \subseteq S
      BY <2>2
    <3>2. \A y \in S : y \in m .. n /\ y <= x
      BY <2>2
    <3>3. \A y \in S : y \in m .. x
      <4> SUFFICES ASSUME NEW y \in S PROVE y \in m .. x
        OBVIOUS
      <4>1. y \in m .. n /\ y <= x
        BY <3>2
      <4> QED BY <2>3, <4>1
    <3> QED BY <3>1, <3>3
  <2>5. Cardinality(S) = x - m + 1
    BY <2>3, <2>4, FS_Interval
  <2> QED BY <2>3, <2>4, <2>5
<1> QED BY <1>1, <1>2

(* All but the candidate at i are in order.                                *)
OrderedBut(R, l, i) ==
    \A j, k \in 1 .. Len(l) : j < k /\ j # i /\ k # i => <<l[k], l[j]>> \notin R

(* Resorting one candidate of a list that is in order but for it, to its   *)
(* spot among the others, puts the list in order.                          *)
LEMMA MovedOrdered ==
    ASSUME NEW R, NEW T, NEW l \in Seq(T), NEW i \in 1 .. Len(l), NEW k \in 0 .. Len(l) - 1,
           OrderedBut(R, l, i),
           \A j \in 1 .. Len(l) : j # i =>
               IF (IF j < i THEN j ELSE j - 1) <= k THEN <<l[i], l[j]>> \notin R
                                                    ELSE <<l[j], l[i]>> \notin R
    PROVE  Ordered(R, InsertAt(RemoveAt(l, i), k + 1, l[i]))
<1> DEFINE m == InsertAt(RemoveAt(l, i), k + 1, l[i])
           n == Len(l)
           p(j) == MovedIndex(i, k, j)
<1>1. n \in Nat /\ Len(m) = n /\ \A j \in 1 .. n : p(j) \in 1 .. n /\ m[j] = l[p(j)]
  BY Moved
<1> HIDE DEF m
<1>2. ASSUME NEW a \in 1 .. n, NEW b \in 1 .. n, a < b PROVE <<m[b], m[a]>> \notin R
  <2>1. m[a] = l[p(a)] /\ m[b] = l[p(b)] /\ p(a) \in 1 .. n /\ p(b) \in 1 .. n
    BY <1>1
  <2>2. i \in 1 .. n /\ k \in 0 .. n - 1
    OBVIOUS
  <2>3. CASE a = k + 1
    <3>1. p(a) = i /\ p(b) # i /\ ~((IF p(b) < i THEN p(b) ELSE p(b) - 1) <= k)
      BY ONLY <1>1, <1>2, <2>2, <2>3 DEF MovedIndex
    <3> QED BY <2>1, <3>1
  <2>4. CASE b = k + 1
    <3>1. p(b) = i /\ p(a) # i /\ (IF p(a) < i THEN p(a) ELSE p(a) - 1) <= k
      BY ONLY <1>1, <1>2, <2>2, <2>4 DEF MovedIndex
    <3> QED BY <2>1, <3>1
  <2>5. CASE a # k + 1 /\ b # k + 1
    <3>1. p(a) < p(b) /\ p(a) # i /\ p(b) # i
      BY ONLY <1>1, <1>2, <2>2, <2>5 DEF MovedIndex
    <3> QED BY <2>1, <3>1 DEF OrderedBut
  <2> QED BY <2>3, <2>4, <2>5
<1>3. Ordered(R, m)
  <2> HIDE DEF n
  <2>1. Len(m) = n
    BY <1>1
  <2> QED BY <1>2, <2>1 DEF Ordered
<1> QED BY <1>3 DEF m

(* Moving the one candidate that changed puts a sorted list in order.      *)
LEMMA ResortOrdered ==
    ASSUME NEW l \in Lists, NEW i \in 1 .. Len(l), WeakOrder(LessPairs, ToSet(l)),
           OrderedBut(LessPairs, l, i)
    PROVE  Ordered(LessPairs, Resort(l, i))
<1> DEFINE n == Len(l)
           R == LessPairs
           x == l[i]
           A == {k \in 1 .. i - 1 : Less(l[k], x)}
           B == {k \in i + 1 .. n : Less(l[k], x)}
           p == Cardinality(A)
           q == Cardinality(B)
<1>1. l \in Seq(Cands) /\ n \in Nat /\ i \in 1 .. n /\ \A j \in 1 .. n : l[j] \in Cands /\ l[j] \in ToSet(l)
  BY ListFacts DEF Lists
<1>2. \A j, k \in 1 .. n : <<l[j], l[k]>> \in R <=> Less(l[j], l[k])
  BY <1>1 DEF LessPairs
<1>3. \A j, k \in 1 .. n : Less(l[j], l[k]) => ~Less(l[k], l[j])
  BY <1>1, <1>2 DEF WeakOrder
<1>4. \A h, j, k \in 1 .. n : ~Less(l[h], l[j]) /\ ~Less(l[j], l[k]) => ~Less(l[h], l[k])
  BY <1>1, <1>2 DEF WeakOrder
<1>5. \A j, k \in 1 .. n : j < k /\ j # i /\ k # i => ~Less(l[k], l[j])
  BY <1>2 DEF OrderedBut
<1> HIDE DEF R, n
<1>6. CASE i > 1 /\ Less(l[i], l[i - 1])
  <2>1. i - 1 \in 1 .. n /\ i - 1 \in Nat /\ 1 .. i - 1 \subseteq 1 .. n
    BY <1>1, <1>6
  <2>2. p \in Nat /\ A = 1 .. p /\ p <= i - 1
    <3>1. ASSUME NEW a \in A, NEW b \in 1 .. a PROVE b \in A
      <4>1. a \in 1 .. i - 1 /\ Less(l[a], x) /\ b \in 1 .. i - 1
        BY <2>1
      <4>2. CASE a = b
        BY <4>2
      <4>3. CASE a # b
        <5>1. b < a /\ a \in 1 .. n /\ b \in 1 .. n /\ a # i /\ b # i
          BY <2>1, <4>1, <4>3
        <5>2. ~Less(l[a], l[b])
          BY <1>5, <5>1
        <5>3. Less(l[b], x)
          BY <1>1, <1>4, <4>1, <5>1, <5>2
        <5> QED BY <4>1, <5>3
      <4> QED BY <4>2, <4>3
    <3>2. 1 \in Nat /\ A \subseteq 1 .. i - 1
      OBVIOUS
    <3> HIDE DEF A
    <3>3. p \in Nat /\ A = 1 .. 1 + p - 1
      BY <2>1, <3>1, <3>2, Prefix
    <3> HIDE DEF p
    <3>4. 1 + p - 1 = p
      BY <3>3
    <3>5. p <= i - 1
      <4>1. p = 0 \/ p \in 1 .. p
        BY <3>3
      <4>2. p = 0 \/ p \in 1 .. i - 1
        BY <3>2, <3>3, <3>4, <4>1
      <4> QED BY <2>1, <4>2
    <3> QED BY <3>3, <3>4, <3>5
  <2>3. Resort(l, i) = InsertAt(RemoveAt(l, i), 1 + p, l[i])
    BY <1>6 DEF Resort, LowerBound
  <2>4. \A j \in 1 .. i - 1 : j <= p <=> Less(l[j], x)
    <3>1. \A j \in 1 .. i - 1 : j \in A <=> Less(l[j], x)
      OBVIOUS
    <3> HIDE DEF A, p
    <3> QED BY <2>1, <2>2, <3>1
  <2> HIDE DEF A, p
  <2>5. ASSUME NEW j \in 1 .. n, j # i
        PROVE  IF (IF j < i THEN j ELSE j - 1) <= p THEN <<l[i], l[j]>> \notin R
                                                    ELSE <<l[j], l[i]>> \notin R
    <3>1. CASE j < i
      <4>1. j \in 1 .. i - 1
        BY <1>1, <3>1
      <4> QED BY <1>1, <1>2, <1>3, <2>4, <3>1, <4>1
    <3>2. CASE ~(j < i)
      <4>1. i < j /\ i - 1 < j /\ i - 1 # i /\ ~(j - 1 <= p)
        BY <1>1, <2>2, <2>5, <3>2
      <4>2. ~Less(l[j], l[i - 1])
        BY <1>5, <2>1, <2>5, <4>1
      <4>3. ~Less(l[i - 1], l[i])
        BY <1>1, <1>3, <1>6, <2>1
      <4>4. ~Less(l[j], l[i])
        BY <1>1, <1>4, <2>1, <4>2, <4>3
      <4> QED BY <1>1, <1>2, <3>2, <4>1, <4>4
    <3> QED BY <3>1, <3>2
  <2>6. p \in 0 .. n - 1 /\ 1 + p = p + 1
    BY <1>1, <2>2
  <2>7. Ordered(R, InsertAt(RemoveAt(l, i), p + 1, l[i]))
    BY <1>1, <2>5, <2>6, MovedOrdered DEF n, R
  <2> QED BY <2>3, <2>6, <2>7 DEF R
<1>7. CASE ~(i > 1 /\ Less(l[i], l[i - 1])) /\ i < Len(l) /\ Less(l[i + 1], l[i])
  <2>1. i + 1 \in 1 .. n /\ i + 1 \in Nat /\ i + 1 .. n \subseteq 1 .. n /\ i < n
    BY <1>1, <1>7 DEF n
  <2>2. q \in Nat /\ B = i + 1 .. i + q /\ i + q <= n /\ q >= 1
    <3>1. ASSUME NEW a \in B, NEW b \in i + 1 .. a PROVE b \in B
      <4>1. a \in i + 1 .. n /\ Less(l[a], x) /\ b \in i + 1 .. n
        <5>1. a \in i + 1 .. n /\ Less(l[a], x)
          OBVIOUS
        <5>2. b \in i + 1 .. a
          OBVIOUS
        <5> QED BY <1>1, <2>1, <5>1, <5>2
      <4>2. CASE a = b
        BY <4>2
      <4>3. CASE a # b
        <5>1. b < a /\ a \in 1 .. n /\ b \in 1 .. n /\ a # i /\ b # i
          BY <2>1, <4>1, <4>3
        <5>2. ~Less(l[a], l[b])
          BY <1>5, <5>1
        <5>3. Less(l[b], x)
          BY <1>1, <1>4, <4>1, <5>1, <5>2
        <5> QED BY <4>1, <5>3
      <4> QED BY <4>2, <4>3
    <3>2. B \subseteq i + 1 .. n /\ i + 1 \in B
      BY <1>7, <2>1 DEF n
    <3> HIDE DEF B
    <3>3. q \in Nat /\ B = i + 1 .. (i + 1) + q - 1
      BY <1>1, <2>1, <3>1, <3>2, Prefix
    <3> HIDE DEF q
    <3>4. (i + 1) + q - 1 = i + q
      BY <3>3, <2>1
    <3>5. q >= 1
      BY <2>1, <3>2, <3>3, <3>4
    <3>6. i + q <= n
      <4>1. i + q \in i + 1 .. i + q
        BY <2>1, <3>3, <3>5
      <4>2. i + q \in i + 1 .. n
        BY <3>2, <3>3, <3>4, <4>1
      <4> QED BY <2>1, <4>2
    <3> QED BY <3>3, <3>4, <3>5, <3>6
  <2>3. Resort(l, i) = InsertAt(RemoveAt(l, i), i + q, l[i])
    <3>1. LowerBound(l, i + 1, Len(l), l[i]) = q
      BY DEF LowerBound, n
    <3> HIDE DEF q
    <3> QED BY ONLY <1>7, <3>1 DEF Resort
  <2>4. \A j \in i + 1 .. n : j <= i + q <=> Less(l[j], x)
    <3>1. \A j \in i + 1 .. n : j \in B <=> Less(l[j], x)
      OBVIOUS
    <3> HIDE DEF B, q
    <3> QED BY <2>1, <2>2, <3>1
  <2> HIDE DEF B, q
  <2>5. ASSUME NEW j \in 1 .. n, j # i
        PROVE  IF (IF j < i THEN j ELSE j - 1) <= i + q - 1 THEN <<l[i], l[j]>> \notin R
                                                    ELSE <<l[j], l[i]>> \notin R
    <3>1. CASE j < i
      <4>1. j <= i + q - 1 /\ j < i + 1
        BY <1>1, <2>2, <3>1
      <4>2. ~Less(l[i + 1], l[j])
        BY <1>5, <2>1, <2>5, <4>1
      <4>3. ~Less(l[i], l[i + 1])
        BY <1>1, <1>3, <1>7, <2>1
      <4>4. ~Less(l[i], l[j])
        BY <1>1, <1>4, <2>1, <4>2, <4>3
      <4> QED BY <1>1, <1>2, <3>1, <4>1, <4>4
    <3>2. CASE ~(j < i)
      <4>1. j \in i + 1 .. n /\ (j - 1 <= i + q - 1 <=> j <= i + q)
        BY <1>1, <2>2, <2>5, <3>2
      <4> QED BY <1>1, <1>2, <1>3, <2>4, <3>2, <4>1
    <3> QED BY <3>1, <3>2
  <2>6. i + q - 1 \in 0 .. n - 1 /\ (i + q - 1) + 1 = i + q
    BY <1>1, <2>2
  <2>7. Ordered(R, InsertAt(RemoveAt(l, i), (i + q - 1) + 1, l[i]))
    BY <1>1, <2>5, <2>6, MovedOrdered DEF n, R
  <2> QED BY <2>3, <2>6, <2>7 DEF R
<1>8. CASE ~(i > 1 /\ Less(l[i], l[i - 1])) /\ ~(i < Len(l) /\ Less(l[i + 1], l[i]))
  <2>1. Resort(l, i) = l
    BY <1>8 DEF Resort
  <2>2. ASSUME NEW a \in 1 .. n, NEW b \in 1 .. n, a < b PROVE ~Less(l[b], l[a])
    <3>1. CASE b = i
      <4>1. i > 1 /\ i - 1 \in 1 .. n /\ ~Less(l[i], l[i - 1]) /\ (a = i - 1 \/ a < i - 1)
        BY <1>1, <1>8, <2>2, <3>1
      <4>2. CASE a = i - 1
        BY <3>1, <4>1, <4>2
      <4>3. CASE a < i - 1
        <5>1. ~Less(l[i - 1], l[a])
          BY <1>1, <1>5, <4>1, <4>3
        <5> QED BY <1>4, <3>1, <4>1, <5>1
      <4> QED BY <4>1, <4>2, <4>3
    <3>2. CASE a = i
      <4>1. i < Len(l) /\ i + 1 \in 1 .. n /\ ~Less(l[i + 1], l[i]) /\ (b = i + 1 \/ i + 1 < b)
        BY <1>1, <1>8, <2>2, <3>2 DEF n
      <4>2. CASE b = i + 1
        BY <3>2, <4>1, <4>2
      <4>3. CASE i + 1 < b
        <5>1. ~Less(l[b], l[i + 1])
          BY <1>1, <1>5, <4>1, <4>3
        <5> QED BY <1>4, <3>2, <4>1, <5>1
      <4> QED BY <4>1, <4>2, <4>3
    <3>3. CASE a # i /\ b # i
      BY <1>5, <2>2, <3>3
    <3> QED BY <3>1, <3>2, <3>3
  <2>3. Ordered(R, l)
    BY <1>2, <2>2 DEF Ordered, n
  <2> QED BY <2>1, <2>3 DEF R
<1> QED BY <1>6, <1>7, <1>8

-----------------------------------------------------------------------------
(* What the candidates of a list are, whatever their order.                *)

(* Where the span of a candidate may begin and end: a piece owns all of    *)
(* its blocks, but for those it shares with its neighbours.                *)
LowEdges(c)  == {RawBegin(c)} \cup {RawEnd(d) : d \in {e \in Pieces : e + 1 = c}}
HighEdges(c) == {RawEnd(c)} \cup {RawBegin(d) : d \in {e \in Pieces : e = c + 1}}

Sound(x) ==
    /\ x \in Cands
    /\ x.begin \in LowEdges(x.piece) /\ x.end \in HighEdges(x.piece)
    /\ x.unrequested \subseteq x.begin .. x.end - 1

Meet(E) == \A x, y \in E : y.piece = x.piece + 1 => y.begin = x.end

AllSound(E) == (\A x \in E : Sound(x)) /\ Meet(E)

(* Where a sound candidate of the piece may begin.                         *)
LEMMA LowEdge ==
    ASSUME NEW c \in Pieces, NEW b \in LowEdges(c)
    PROVE  /\ b \in Nat /\ RawBegin(c) <= b /\ b <= RawBegin(c) + 1 /\ b <= RawEnd(c)
           /\ \A d \in Pieces : d = c + 1 => b <= RawBegin(d)
<1>1. c \in Int /\ RawBegin(c) \in Nat /\ RawEnd(c) \in Nat /\ RawBegin(c) < RawEnd(c)
  BY RawSpan DEF Pieces
<1>2. \A d \in Pieces : d \in Int /\ RawBegin(d) \in Nat /\ RawEnd(d) \in Nat
  BY RawSpan DEF Pieces
<1>3. \A d \in Pieces : d = c + 1 => RawBegin(c) < RawBegin(d)
  BY RawNeighbours
<1>4. CASE b = RawBegin(c)
  BY <1>1, <1>2, <1>3, <1>4
<1>5. ASSUME NEW e \in Pieces, e + 1 = c, b = RawEnd(e)
      PROVE  /\ b \in Nat /\ RawBegin(c) <= b /\ b <= RawBegin(c) + 1 /\ b <= RawEnd(c)
             /\ \A d \in Pieces : d = c + 1 => b <= RawBegin(d)
  <2>1. RawEnd(e) \in {RawBegin(c), RawBegin(c) + 1}
    <3>1. c = e + 1
      BY <1>5
    <3> QED BY <3>1, RawNeighbours
  <2>2. b \in Nat /\ RawBegin(c) <= b /\ b <= RawBegin(c) + 1 /\ b <= RawEnd(c)
    BY <1>1, <1>5, <2>1
  <2>3. ASSUME NEW d \in Pieces, d = c + 1 PROVE b <= RawBegin(d)
    <3>1. e + 2 <= d
      BY <1>2, <1>5, <2>3
    <3> QED BY <1>5, <3>1, RawNeighbours
  <2> QED BY <2>2, <2>3
<1> QED BY <1>4, <1>5 DEF LowEdges

(* Where a sound candidate of the piece may end.                           *)
LEMMA HighEdge ==
    ASSUME NEW c \in Pieces, NEW e \in HighEdges(c)
    PROVE  /\ e \in Nat /\ RawBegin(c) < e /\ RawEnd(c) <= e + 1 /\ e <= RawEnd(c)
           /\ \A d \in Pieces : d + 1 = c => RawEnd(d) <= e
           /\ \A b \in LowEdges(c) : b <= e
<1>1. c \in Int /\ RawBegin(c) \in Nat /\ RawEnd(c) \in Nat /\ RawBegin(c) < RawEnd(c)
  BY RawSpan DEF Pieces
<1>2. \A d \in Pieces : d \in Int /\ RawBegin(d) \in Nat /\ RawEnd(d) \in Nat
  BY RawSpan DEF Pieces
<1>3. \A b \in LowEdges(c) : /\ b \in Nat /\ b <= RawEnd(c)
                             /\ \A d \in Pieces : d = c + 1 => b <= RawBegin(d)
  BY LowEdge
<1>4. \A d \in Pieces : d + 1 = c => RawEnd(d) \in LowEdges(c)
  BY DEF LowEdges
<1>5. /\ e \in Nat /\ RawBegin(c) < e /\ RawEnd(c) <= e + 1 /\ e <= RawEnd(c)
      /\ \A b \in LowEdges(c) : b <= e
  <2>1. CASE e = RawEnd(c)
    BY <1>1, <1>3, <2>1
  <2>2. ASSUME NEW d \in Pieces, d = c + 1, e = RawBegin(d)
        PROVE  /\ e \in Nat /\ RawBegin(c) < e /\ RawEnd(c) <= e + 1 /\ e <= RawEnd(c)
               /\ \A b \in LowEdges(c) : b <= e
    <3>1. RawBegin(c) < RawBegin(d) /\ RawEnd(c) \in {RawBegin(d), RawBegin(d) + 1}
      BY <2>2, RawNeighbours
    <3> QED BY <1>1, <1>2, <1>3, <2>2, <3>1
  <2> QED BY <2>1, <2>2 DEF HighEdges
<1> QED BY <1>4, <1>5

(* What soundness says of the span of a candidate.                         *)
LEMMA SoundSpan ==
    ASSUME NEW x, Sound(x)
    PROVE  /\ x \in Cands /\ x.piece \in Pieces /\ x.piece \in Int
           /\ x.begin \in Nat /\ x.end \in Nat
           /\ RawBegin(x.piece) <= x.begin /\ x.begin <= x.end /\ x.end <= RawEnd(x.piece)
           /\ RawBegin(x.piece) \in Nat /\ RawEnd(x.piece) \in Nat
           /\ \A b \in x.unrequested : b \in Int /\ Owns(x, b)
<1>1. x \in Cands /\ x.piece \in Pieces /\ x.begin \in LowEdges(x.piece) /\ x.end \in HighEdges(x.piece)
      /\ x.unrequested \subseteq x.begin .. x.end - 1
  BY DEF Sound, Cands
<1>2. x.begin \in Nat /\ RawBegin(x.piece) <= x.begin
  BY <1>1, LowEdge
<1>3. x.end \in Nat /\ x.end <= RawEnd(x.piece) /\ x.begin <= x.end
  BY <1>1, HighEdge
<1>4. x.piece \in Int /\ RawBegin(x.piece) \in Nat /\ RawEnd(x.piece) \in Nat
  BY <1>1, RawSpan DEF Pieces
<1>5. \A b \in x.unrequested : b \in Int /\ Owns(x, b)
  <2> SUFFICES ASSUME NEW b \in x.unrequested PROVE b \in Int /\ Owns(x, b)
    OBVIOUS
  <2>1. b \in x.begin .. x.end - 1
    BY <1>1
  <2> QED BY <1>2, <1>3, <2>1 DEF Owns
<1> QED BY <1>1, <1>2, <1>3, <1>4, <1>5

(* No block is owned twice.                                                *)
LEMMA Apart ==
    ASSUME NEW E, AllSound(E), NEW x \in E, NEW y \in E, x.piece < y.piece,
           NEW b \in Int, Owns(x, b), Owns(y, b)
    PROVE  FALSE
<1>1. Sound(x) /\ Sound(y) /\ Meet(E)
  BY DEF AllSound
<1>2. /\ x.piece \in Pieces /\ y.piece \in Pieces /\ x.piece \in Int /\ y.piece \in Int
      /\ x.end \in Nat /\ y.begin \in Nat /\ x.end <= RawEnd(x.piece) /\ RawBegin(y.piece) <= y.begin
      /\ RawEnd(x.piece) \in Nat /\ RawBegin(y.piece) \in Nat
  BY <1>1, SoundSpan
<1>3. CASE y.piece = x.piece + 1
  <2>1. y.begin = x.end
    BY <1>1, <1>3 DEF Meet
  <2> QED BY <1>2, <2>1 DEF Owns
<1>4. CASE x.piece + 2 <= y.piece
  <2>1. RawEnd(x.piece) <= RawBegin(y.piece)
    BY <1>2, <1>4, RawNeighbours
  <2> QED BY <1>2, <2>1 DEF Owns
<1> QED BY <1>2, <1>3, <1>4

(* Candidates that are sound and meet never own the same block.            *)
LEMMA OneOwner ==
    ASSUME NEW l \in Lists, AllSound(ToSet(l)), NEW x \in ToSet(l), NEW y \in ToSet(l),
           NEW b \in Int, Owns(x, b), Owns(y, b)
    PROVE  x = y
<1>1. x.piece \in Int /\ y.piece \in Int
  BY SoundSpan DEF AllSound
<1>2. x.piece = y.piece
  BY <1>1, Apart
<1> QED BY <1>2, OneEach

-----------------------------------------------------------------------------
(* Handlers that change some candidates and put them in their places.      *)

SameMode(E) == \A x, y \in E : x.is_sequential = y.is_sequential

InOrder(l) == Ordered(LessPairs, l)

(* Candidates of one mode, sequential or not, are weakly ordered by        *)
(* operator<=>.                                                            *)
LEMMA ModeIsOrder ==
    ASSUME NEW E, E \subseteq Cands, SameMode(E)
    PROVE  WeakOrder(LessPairs, E)
<1>1. \A x \in E : Cardinality(x.unrequested) \in Int
  <2> SUFFICES ASSUME NEW x \in E PROVE Cardinality(x.unrequested) \in Int
    OBVIOUS
  <2>1. x.unrequested \subseteq Blocks
    BY DEF Cands
  <2>2. IsFiniteSet(Blocks)
    <3>1. BlockCount - 1 \in Int
      BY SizeAssumption DEF BlockCount
    <3> QED BY <3>1, FS_Interval DEF Blocks
  <2>3. IsFiniteSet(x.unrequested)
    BY <2>1, <2>2, FS_Subset
  <2> QED BY <2>3, FS_CardinalityType
<1> QED BY <1>1, LessIsWeakOrder DEF SameMode

(* The candidates become what F makes of them, and a list that was in      *)
(* order is so again.                                                      *)
Turns(l, m, F) ==
    /\ Becomes(l, m, F)
    /\ SameMode(ToSet(l)) /\ InOrder(l) => InOrder(m)

(* One candidate changes and is moved.                                     *)
LEMMA ChangedTurns ==
    ASSUME NEW l \in Lists, NEW F, Fits(F), \A x \in Cands : F[x].is_sequential = x.is_sequential,
           NEW i \in 1 .. Len(l), \A y \in ToSet(l) : y # l[i] => F[y] = y
    PROVE  Turns(l, Resort([l EXCEPT ![i] = F[l[i]]], i), F)
<1> DEFINE x == l[i]
           m == [l EXCEPT ![i] = F[x]]
<1>1. x \in Cands /\ x \in ToSet(l) /\ ToSet(l) \subseteq Cands /\ Len(l) \in Nat
      /\ \A j \in 1 .. Len(l) : l[j] \in Cands /\ l[j] \in ToSet(l)
  BY ListFacts DEF Lists
<1>2. F[x] \in Cands /\ F[x].piece = x.piece
  BY <1>1 DEF Fits
<1> HIDE DEF x
<1>3. m \in Lists /\ Len(m) = Len(l) /\ m[i] = F[x]
      /\ (\A j \in 1 .. Len(l) : j # i => m[j] = l[j])
      /\ ToSet(m) = (ToSet(l) \ {x}) \cup {F[x]}
  <2>1. Replaced(l, i, F[x], m)
    BY <1>2, Changed DEF x
  <2> QED BY <2>1 DEF Replaced, x
<1> HIDE DEF m
<1>4. ToSet(m) = {F[y] : y \in ToSet(l)}
  BY <1>1, <1>3 DEF x
<1>5. Same(m, Resort(m, i))
  BY <1>3, ResortSame
<1>6. Becomes(l, Resort(m, i), F)
  BY <1>4, <1>5 DEF Becomes, Same
<1>7. ASSUME SameMode(ToSet(l)), InOrder(l) PROVE InOrder(Resort(m, i))
  <2>1. SameMode(ToSet(m))
    BY <1>1, <1>4, <1>7 DEF SameMode
  <2>2. WeakOrder(LessPairs, ToSet(m))
    <3>1. ToSet(m) \subseteq Cands
      BY <1>3, ListFacts DEF Lists
    <3> QED BY <2>1, <3>1, ModeIsOrder
  <2>3. OrderedBut(LessPairs, m, i)
    BY <1>3, <1>7 DEF OrderedBut, InOrder, Ordered
  <2> QED BY <1>3, <2>2, <2>3, ResortOrdered DEF InOrder
<1> QED BY <1>6, <1>7 DEF Turns, m, x

(* All candidates change, and are sorted.                                  *)
LEMMA SortedTurns ==
    ASSUME NEW l \in Lists, NEW F, Fits(F), \A x \in Cands : F[x].is_sequential = x.is_sequential
    PROVE  Turns(l, Sort([i \in DOMAIN l |-> F[l[i]]]), F)
<1> DEFINE m == [i \in DOMAIN l |-> F[l[i]]]
<1>1. m \in Lists /\ ToSet(m) = {F[x] : x \in ToSet(l)}
  BY Mapped DEF Becomes
<1> HIDE DEF m
<1>2. Same(m, Sort(m)) /\ (WeakOrder(LessPairs, ToSet(m)) => Ordered(LessPairs, Sort(m)))
  BY <1>1, SortSame
<1>3. Becomes(l, Sort(m), F)
  BY <1>1, <1>2 DEF Becomes, Same
<1>4. ASSUME SameMode(ToSet(l)) PROVE InOrder(Sort(m))
  <2>1. ToSet(l) \subseteq Cands /\ ToSet(m) \subseteq Cands
    BY <1>1, ListFacts DEF Lists
  <2>2. SameMode(ToSet(m))
    BY <1>1, <1>4, <2>1 DEF SameMode
  <2> QED BY <1>2, <2>1, <2>2, ModeIsOrder DEF InOrder
<1> QED BY <1>3, <1>4 DEF Turns, m

(* Nothing changes.                                                        *)
LEMMA SameTurns ==
    ASSUME NEW l \in Lists, NEW F, \A x \in ToSet(l) : F[x] = x
    PROVE  Turns(l, l, F)
<1>1. ToSet(l) = {F[x] : x \in ToSet(l)}
  OBVIOUS
<1> QED BY <1>1 DEF Turns, Becomes

-----------------------------------------------------------------------------
(* The handlers of one event.                                              *)

(* on_got_block requests the block of the candidate that owns it and of    *)
(* no other.                                                               *)
LEMMA GotBlockTurns ==
    ASSUME NEW l \in Lists, AllSound(ToSet(l)), NEW b \in Int
    PROVE  Turns(l, GotBlock(l, b), TakeFrom({b}))
<1> DEFINE i == FindBlock(l, b)
           F == TakeFrom({b})
<1>1. l \in Seq(Cands) /\ ToSet(l) \subseteq Cands /\ \A j \in 1 .. Len(l) : l[j] \in Cands /\ l[j] \in ToSet(l)
  BY ListFacts DEF Lists
<1>2. /\ i \in 0 .. Len(l)
      /\ i # 0 => i \in 1 .. Len(l) /\ Owns(l[i], b)
      /\ i = 0 => \A x \in ToSet(l) : ~Owns(x, b)
  BY <1>1, FoundBlock
<1> HIDE DEF i
<1>3. Fits(F) /\ \A x \in Cands : /\ F[x].is_sequential = x.is_sequential
                                  /\ F[x] = [x EXCEPT !.unrequested = @ \ {b}]
  BY TakeFits DEF TakeFrom, Cands
<1>4. ASSUME NEW x \in ToSet(l), ~Owns(x, b) PROVE F[x] = x
  <2>1. b \notin x.unrequested
    BY <1>4, SoundSpan DEF AllSound
  <2>2. F[x] = [x EXCEPT !.unrequested = x.unrequested \ {b}] /\ x.unrequested \ {b} = x.unrequested
    BY <1>1, <1>3, <2>1
  <2>3. x \in Cands
    BY <1>1
  <2> HIDE DEF F
  <2> QED BY <2>2, <2>3 DEF Cands
<1> HIDE DEF F
<1>5. CASE i = 0
  <2>1. GotBlock(l, b) = l
    BY <1>5 DEF GotBlock, i
  <2>2. Turns(l, l, F)
    BY <1>2, <1>4, <1>5, SameTurns
  <2> QED BY <2>1, <2>2 DEF F
<1>6. CASE i # 0
  <2>1. GotBlock(l, b) = Resort([l EXCEPT ![i] = F[l[i]]], i)
    <3>1. GotBlock(l, b) = Resort([l EXCEPT ![i] = [l[i] EXCEPT !.unrequested = @ \ {b}]], i)
      BY <1>6 DEF GotBlock, i
    <3>2. F[l[i]] = [l[i] EXCEPT !.unrequested = @ \ {b}]
      BY <1>1, <1>2, <1>3, <1>6
    <3> QED BY <3>1, <3>2
  <2>2. \A y \in ToSet(l) : y # l[i] => F[y] = y
    <3> SUFFICES ASSUME NEW y \in ToSet(l), y # l[i] PROVE F[y] = y
      OBVIOUS
    <3>1. ~Owns(y, b)
      BY <1>1, <1>2, <1>6, OneOwner
    <3> QED BY <1>4, <3>1
  <2>3. Turns(l, Resort([l EXCEPT ![i] = F[l[i]]], i), F)
    BY <1>2, <1>3, <1>6, <2>2, ChangedTurns
  <2> QED BY <2>1, <2>3 DEF F
<1> QED BY <1>5, <1>6

(* on_got_reject gives the block back to the candidate that owns it.       *)
LEMMA ResetBlockTurns ==
    ASSUME NEW l \in Lists, AllSound(ToSet(l)), NEW b \in Blocks
    PROVE  Turns(l, ResetBlock(l, b), GiveBack({b}))
<1> DEFINE i == FindBlock(l, b)
           F == GiveBack({b})
<1>1. l \in Seq(Cands) /\ ToSet(l) \subseteq Cands /\ b \in Int
      /\ \A j \in 1 .. Len(l) : l[j] \in Cands /\ l[j] \in ToSet(l)
  BY ListFacts DEF Lists, Blocks
<1>2. /\ i \in 0 .. Len(l)
      /\ i # 0 => i \in 1 .. Len(l) /\ Owns(l[i], b)
      /\ i = 0 => \A x \in ToSet(l) : ~Owns(x, b)
  BY <1>1, FoundBlock
<1> HIDE DEF i
<1>3. Fits(F) /\ \A x \in Cands :
          /\ F[x].is_sequential = x.is_sequential
          /\ F[x] = [x EXCEPT !.unrequested = @ \cup ((x.begin .. x.end - 1) \cap {b})]
  BY GiveFits DEF GiveBack, Cands
<1> HIDE DEF F
<1>4. ASSUME NEW x \in ToSet(l), ~Owns(x, b) PROVE F[x] = x
  <2>1. x.begin \in Nat /\ x.end \in Nat /\ x \in Cands
    BY SoundSpan DEF AllSound
  <2>2. (x.begin .. x.end - 1) \cap {b} = {}
    BY <1>1, <1>4, <2>1 DEF Owns
  <2>3. F[x] = [x EXCEPT !.unrequested = x.unrequested]
    BY <1>3, <2>1, <2>2
  <2> QED BY <2>1, <2>3 DEF Cands
<1>5. CASE i = 0
  <2>1. ResetBlock(l, b) = l
    BY <1>5 DEF ResetBlock, i
  <2>2. Turns(l, l, F)
    BY <1>2, <1>4, <1>5, SameTurns
  <2> QED BY <2>1, <2>2 DEF F
<1>6. CASE i # 0
  <2>1. ResetBlock(l, b) = Resort([l EXCEPT ![i] = F[l[i]]], i)
    <3>1. ResetBlock(l, b) = Resort([l EXCEPT ![i] = [l[i] EXCEPT !.unrequested = @ \cup {b}]], i)
      BY <1>6 DEF ResetBlock, i
    <3>2. (l[i].begin .. l[i].end - 1) \cap {b} = {b}
      <4>1. l[i].begin \in Nat /\ l[i].end \in Nat
        BY <1>1, <1>2, <1>6, SoundSpan DEF AllSound
      <4> QED BY <1>1, <1>2, <1>6, <4>1 DEF Owns
    <3>3. F[l[i]] = [l[i] EXCEPT !.unrequested = @ \cup {b}]
      BY <1>1, <1>2, <1>3, <1>6, <3>2
    <3> QED BY <3>1, <3>3
  <2>2. \A y \in ToSet(l) : y # l[i] => F[y] = y
    <3> SUFFICES ASSUME NEW y \in ToSet(l), y # l[i] PROVE F[y] = y
      OBVIOUS
    <3>1. ~Owns(y, b)
      BY <1>1, <1>2, <1>6, OneOwner
    <3> QED BY <1>4, <3>1
  <2>3. Turns(l, Resort([l EXCEPT ![i] = F[l[i]]], i), F)
    BY <1>2, <1>3, <1>6, <2>2, ChangedTurns
  <2> QED BY <2>1, <2>3 DEF F
<1> QED BY <1>5, <1>6

(* on_got_have counts the peer in the candidate of the piece.              *)
LEMMA CountPieceTurns ==
    ASSUME NEW l \in Lists, NEW c
    PROVE  Turns(l, CountPiece(l, c), Counted({c}, 1))
<1> DEFINE i == FindPiece(l, c)
           F == Counted({c}, 1)
<1>1. l \in Seq(Cands) /\ ToSet(l) \subseteq Cands
      /\ \A j \in 1 .. Len(l) : l[j] \in Cands /\ l[j] \in ToSet(l)
  BY ListFacts DEF Lists
<1>2. /\ i \in 0 .. Len(l)
      /\ i # 0 => i \in 1 .. Len(l) /\ l[i].piece = c
      /\ i = 0 => \A x \in ToSet(l) : x.piece # c
  BY <1>1, FoundPiece
<1> HIDE DEF i
<1>3. Fits(F) /\ \A x \in Cands :
          /\ F[x].is_sequential = x.is_sequential
          /\ x.piece # c => F[x] = x
          /\ x.piece = c => F[x] = [x EXCEPT !.replication = @ + 1]
  <2>1. 1 \in Int
    OBVIOUS
  <2> QED BY <2>1, CountFits DEF Counted, Cands
<1> HIDE DEF F
<1>4. CASE i = 0
  <2>1. CountPiece(l, c) = l
    BY <1>4 DEF CountPiece, i
  <2>2. Turns(l, l, F)
    BY <1>1, <1>2, <1>3, <1>4, SameTurns
  <2> QED BY <2>1, <2>2 DEF F
<1>5. CASE i # 0
  <2>1. CountPiece(l, c) = Resort([l EXCEPT ![i] = F[l[i]]], i)
    <3>1. CountPiece(l, c) = Resort([l EXCEPT ![i] = [l[i] EXCEPT !.replication = @ + 1]], i)
      BY <1>5 DEF CountPiece, i
    <3>2. F[l[i]] = [l[i] EXCEPT !.replication = @ + 1]
      BY <1>1, <1>2, <1>3, <1>5
    <3> QED BY <3>1, <3>2
  <2>2. \A y \in ToSet(l) : y # l[i] => F[y] = y
    <3> SUFFICES ASSUME NEW y \in ToSet(l), y # l[i] PROVE F[y] = y
      OBVIOUS
    <3>1. y.piece # c
      BY <1>1, <1>2, <1>5, OneEach
    <3> QED BY <1>1, <1>3, <3>1
  <2>3. Turns(l, Resort([l EXCEPT ![i] = F[l[i]]], i), F)
    BY <1>2, <1>3, <1>5, <2>2, ChangedTurns
  <2> QED BY <2>1, <2>3 DEF F
<1> QED BY <1>4, <1>5

(* on_got_choke and peer_disconnect give all the blocks back.              *)
LEMMA ResetBlocksTurns ==
    ASSUME NEW l \in Lists, NEW B \in SUBSET Blocks
    PROVE  Turns(l, ResetBlocks(l, B), GiveBack(B))
<1> DEFINE F == GiveBack(B)
<1>1. \A j \in DOMAIN l : l[j] \in Cands
  BY ListFacts DEF Lists
<1>2. Fits(F) /\ \A x \in Cands : F[x].is_sequential = x.is_sequential
  BY GiveFits DEF GiveBack, Cands
<1>3. \A j \in DOMAIN l : F[l[j]] = [l[j] EXCEPT !.unrequested = @ \cup ((l[j].begin .. l[j].end - 1) \cap B)]
  BY <1>1 DEF GiveBack
<1>4. ResetBlocks(l, B) = Sort([j \in DOMAIN l |-> F[l[j]]])
  <2> HIDE DEF F
  <2>1. [j \in DOMAIN l |-> F[l[j]]] = [j \in DOMAIN l |-> [l[j] EXCEPT !.unrequested = @ \cup ((l[j].begin .. l[j].end - 1) \cap B)]]
    BY <1>3
  <2> QED BY <2>1 DEF ResetBlocks
<1> HIDE DEF F
<1>5. Turns(l, Sort([j \in DOMAIN l |-> F[l[j]]]), F)
  BY <1>2, SortedTurns
<1> QED BY <1>4, <1>5 DEF F

(* When every candidate is counted alike, none of them moves.              *)
LEMMA CountBitfieldTurns ==
    ASSUME NEW l \in Lists, NEW P \in SUBSET Pieces, NEW n \in Int
    PROVE  Turns(l, CountBitfield(l, P, n), Counted(P, n))
<1> DEFINE F == Counted(P, n)
           m == [j \in DOMAIN l |-> F[l[j]]]
<1>1. l \in Seq(Cands) /\ DOMAIN l = 1 .. Len(l) /\ ToSet(l) \subseteq Cands
      /\ \A j \in DOMAIN l : l[j] \in Cands /\ l[j] \in ToSet(l)
  BY ListFacts DEF Lists
<1>2. Fits(F) /\ \A x \in Cands : /\ F[x].is_sequential = x.is_sequential
                                  /\ F[x] = IF x.piece \in P THEN [x EXCEPT !.replication = @ + n] ELSE x
  BY CountFits DEF Counted, Cands
<1> HIDE DEF F
<1>3. \A j \in DOMAIN l : F[l[j]] = IF l[j].piece \in P THEN [l[j] EXCEPT !.replication = @ + n] ELSE l[j]
  BY <1>1, <1>2
<1>4. m = [j \in DOMAIN l |-> IF l[j].piece \in P THEN [l[j] EXCEPT !.replication = @ + n] ELSE l[j]]
  BY <1>3
<1>5. CountBitfield(l, P, n) = IF P \in {{}, Pieces} THEN m ELSE Sort(m)
  <2> HIDE DEF m
  <2> QED BY <1>4 DEF CountBitfield
<1>6. CASE P \in {{}, Pieces}
  <2>1. Becomes(l, m, F)
    BY <1>2, Mapped
  <2>2. ASSUME SameMode(ToSet(l)), InOrder(l) PROVE InOrder(m)
    <3>1. Len(m) = Len(l) /\ \A j \in 1 .. Len(l) : m[j] = F[l[j]] /\ m[j] \in Cands
      BY <1>1, <1>2 DEF Fits
    <3>2. PICK k \in Int : \A x \in Cands : F[x] = [x EXCEPT !.replication = @ + k]
      <4>1. CASE P = {}
        <5>1. \A x \in Cands : F[x] = [x EXCEPT !.replication = @ + 0]
          <6> SUFFICES ASSUME NEW x \in Cands PROVE F[x] = [x EXCEPT !.replication = @ + 0]
            OBVIOUS
          <6>1. F[x] = x /\ x.replication + 0 = x.replication
            BY <1>2, <4>1 DEF Cands
          <6> QED BY <6>1 DEF Cands
        <5>2. 0 \in Int
          OBVIOUS
        <5> QED BY <5>1, <5>2, Zenon
      <4>2. CASE P = Pieces
        <5>1. \A x \in Cands : x.piece \in P
          BY <4>2 DEF Cands
        <5> QED BY <1>2, <5>1
      <4> QED BY <1>6, <4>1, <4>2
    <3> HIDE DEF m
    <3>3. \A i, j \in 1 .. Len(l) : Less(m[i], m[j]) <=> Less(l[i], l[j])
      <4> SUFFICES ASSUME NEW i \in 1 .. Len(l), NEW j \in 1 .. Len(l)
                   PROVE  Less(m[i], m[j]) <=> Less(l[i], l[j])
        OBVIOUS
      <4>1. l[i] \in Cands /\ l[j] \in Cands
        BY <1>1
      <4>2. \A h \in {i, j} : /\ m[h].unrequested = l[h].unrequested
                              /\ m[h].is_sequential = l[h].is_sequential
                              /\ m[h].priority = l[h].priority /\ m[h].salt = l[h].salt
                              /\ m[h].replication = l[h].replication + k
                              /\ l[h].replication \in Int
        <5> SUFFICES ASSUME NEW h \in {i, j}
                     PROVE  /\ m[h].unrequested = l[h].unrequested
                            /\ m[h].is_sequential = l[h].is_sequential
                            /\ m[h].priority = l[h].priority /\ m[h].salt = l[h].salt
                            /\ m[h].replication = l[h].replication + k
                            /\ l[h].replication \in Int
          OBVIOUS
        <5>1. l[h] \in Cands /\ m[h] = [l[h] EXCEPT !.replication = @ + k]
          BY <3>1, <3>2, <4>1
        <5> QED BY <5>1 DEF Cands
      <4>3. (m[i].replication # m[j].replication <=> l[i].replication # l[j].replication)
            /\ (m[i].replication < m[j].replication <=> l[i].replication < l[j].replication)
        BY <4>2
      <4> QED BY <4>2, <4>3 DEF Less
    <3>4. \A i, j \in 1 .. Len(l) : <<m[i], m[j]>> \in LessPairs <=> <<l[i], l[j]>> \in LessPairs
      BY <1>1, <3>1, <3>3 DEF LessPairs
    <3> QED BY <2>2, <3>1, <3>4 DEF InOrder, Ordered
  <2> QED BY <1>5, <1>6, <2>1, <2>2 DEF Turns, F
<1>7. CASE P \notin {{}, Pieces}
  <2>1. Turns(l, Sort(m), F)
    BY <1>2, SortedTurns
  <2> QED BY <1>5, <1>7, <2>1 DEF F
<1> QED BY <1>6, <1>7

(* A piece that is complete leaves the list.                               *)
LEMMA RemovePieceIs ==
    ASSUME NEW l \in Lists, NEW c
    PROVE  LET m == RemovePiece(l, c)
           IN  /\ m \in Lists /\ ToSet(m) = {x \in ToSet(l) : x.piece # c}
               /\ InOrder(l) => InOrder(m)
<1> DEFINE i == FindPiece(l, c)
           n == Len(l)
<1>1. l \in Seq(Cands) /\ n \in Nat
  BY DEF Lists
<1>2. /\ i \in 0 .. n
      /\ i # 0 => i \in 1 .. n /\ l[i].piece = c
      /\ i = 0 => \A x \in ToSet(l) : x.piece # c
  BY <1>1, FoundPiece
<1>3. RemovePiece(l, c) = IF i = 0 THEN l ELSE RemoveAt(l, i)
  BY DEF RemovePiece
<1> HIDE DEF i
<1>4. CASE i = 0
  BY <1>2, <1>3, <1>4
<1>5. CASE i # 0
  <2> DEFINE m == RemoveAt(l, i)
  <2>1. m \in Lists /\ ToSet(m) = {x \in ToSet(l) : x.piece # c}
    BY <1>2, <1>5, RemovedList
  <2>2. Without(m, Cands, l, i)
    BY <1>1, <1>2, <1>5, Removed
  <2> HIDE DEF m
  <2>3. Len(m) = n - 1 /\ \A j \in 1 .. n - 1 : m[j] = IF j < i THEN l[j] ELSE l[j + 1]
    BY <2>2 DEF Without
  <2>4. ASSUME InOrder(l) PROVE InOrder(m)
    <3>1. ASSUME NEW a \in 1 .. n - 1, NEW b \in 1 .. n - 1, a < b PROVE <<m[b], m[a]>> \notin LessPairs
      <4> DEFINE f(j) == IF j < i THEN j ELSE j + 1
      <4>1. f(a) \in 1 .. n /\ f(b) \in 1 .. n /\ f(a) < f(b)
        BY <1>1, <1>2, <1>5, <3>1
      <4>2. m[a] = l[f(a)] /\ m[b] = l[f(b)]
        BY <2>3
      <4> HIDE DEF f
      <4> QED BY <2>4, <4>1, <4>2 DEF InOrder, Ordered
    <3> QED BY <2>3, <3>1 DEF InOrder, Ordered
  <2> QED BY <1>3, <1>5, <2>1, <2>4 DEF m
<1> QED BY <1>4, <1>5

-----------------------------------------------------------------------------
(* requested_block_span, from owner to owner.                              *)

TakeOwner(span, w, b) ==
    LET i == FindBlock(w.list, b)
    IN  IF b < w.block THEN w
        ELSE IF i = 0 THEN [w EXCEPT !.block = span.end]
        ELSE [list  |-> Resort([w.list EXCEPT ![i].unrequested = @ \ (span.begin .. span.end - 1)], i),
              block |-> w.list[i].end]

InSpan(span) == [i \in 1 .. span.end - span.begin |-> span.begin + i - 1]

SpanFold(l, span, h) ==
    h = [s \in SUBSET DOMAIN InSpan(span) |->
            IF s = {} THEN [list |-> l, block |-> span.begin]
            ELSE TakeOwner(span, h[s \ {Max(s)}], InSpan(span)[Max(s)])]

(* requested_block_span, as the fold it is defined by.                     *)
LEMMA SpanFoldIs ==
    ASSUME NEW l, NEW span
    PROVE  RequestedSpan(l, span) = (CHOOSE h : SpanFold(l, span, h))[DOMAIN InSpan(span)].list
BY Zenon DEF RequestedSpan, FoldLeft, MapThenFoldSet, SpanFold, TakeOwner, InSpan

SpanWalks == [list : Lists, block : Int]

Spans == [begin : Int, end : Int]

(* An owner whose blocks are taken.                                        *)
LEMMA TakeOwnerIs ==
    ASSUME NEW span \in Spans, NEW w \in SpanWalks, NEW b \in Int
    PROVE  LET i == FindBlock(w.list, b)
               F == TakeFrom(span.begin .. span.end - 1)
               v == TakeOwner(span, w, b)
           IN  /\ v \in SpanWalks
               /\ b < w.block => v = w
               /\ b >= w.block /\ i = 0 => v.list = w.list /\ v.block = span.end
               /\ b >= w.block /\ i # 0 =>
                    /\ i \in 1 .. Len(w.list) /\ v.block = w.list[i].end
                    /\ v.list = Resort([w.list EXCEPT ![i] = F[w.list[i]]], i)
<1> DEFINE i == FindBlock(w.list, b)
           F == TakeFrom(span.begin .. span.end - 1)
           v == TakeOwner(span, w, b)
<1>1. w.list \in Lists /\ w.block \in Int /\ span.end \in Int /\ w.list \in Seq(Cands)
  BY DEF SpanWalks, Spans, Lists
<1>2. i \in 0 .. Len(w.list) /\ (i # 0 => i \in 1 .. Len(w.list))
  BY <1>1, FoundBlock
<1> HIDE DEF i
<1>3. Fits(F)
  BY TakeFits
<1>4. CASE b < w.block
  BY <1>1, <1>4 DEF TakeOwner
<1>5. CASE b >= w.block /\ i = 0
  <2>1. v = [w EXCEPT !.block = span.end]
    BY <1>1, <1>5 DEF TakeOwner, i
  <2>2. v \in SpanWalks /\ v.list = w.list /\ v.block = span.end
    BY <1>1, <2>1 DEF SpanWalks
  <2> QED BY <1>1, <1>5, <2>2 DEF i
<1>6. CASE b >= w.block /\ i # 0
  <2> DEFINE x == w.list[i]
             m == [w.list EXCEPT ![i] = F[x]]
  <2>1. i \in 1 .. Len(w.list) /\ x \in Cands
    BY <1>1, <1>2, <1>6
  <2>2. F[x] = [x EXCEPT !.unrequested = @ \ (span.begin .. span.end - 1)]
    BY <2>1 DEF TakeFrom
  <2>3. v = [list |-> Resort([w.list EXCEPT ![i] = [x EXCEPT !.unrequested = @ \ (span.begin .. span.end - 1)]], i),
             block |-> x.end]
    BY <1>1, <1>6 DEF TakeOwner, i
  <2>4. v = [list |-> Resort(m, i), block |-> x.end]
    BY <2>2, <2>3
  <2> HIDE DEF v, F
  <2>5. Replaced(w.list, i, F[x], m)
    BY <1>1, <1>3, <2>1, Changed DEF Fits
  <2> HIDE DEF m
  <2>6. m \in Lists /\ i \in 1 .. Len(m)
    BY <2>1, <2>5 DEF Replaced
  <2>7. Resort(m, i) \in Lists
    BY <2>6, ResortSame DEF Same
  <2>8. x.end \in Int
    BY <2>1 DEF Cands
  <2>9. v \in SpanWalks /\ v.block = x.end /\ v.list = Resort(m, i)
    BY <2>4, <2>7, <2>8 DEF SpanWalks
  <2> QED BY <1>1, <1>6, <2>1, <2>9 DEF m, i, v, F
<1> QED BY <1>1, <1>4, <1>5, <1>6

SpanSteps(l, span, after, n) ==
    /\ after[0] = [list |-> l, block |-> span.begin]
    /\ \A k \in 1 .. n : after[k] = TakeOwner(span, after[k - 1], span.begin + k - 1)

(* The fold, block by block.                                               *)
LEMMA SpanIsWalked ==
    ASSUME NEW l \in Lists, NEW span \in Spans, span.begin <= span.end
    PROVE  \E after : /\ SpanSteps(l, span, after, span.end - span.begin)
                      /\ RequestedSpan(l, span) = after[span.end - span.begin].list
<1> DEFINE n == span.end - span.begin
           U == SpanWalks
           b0 == [list |-> l, block |-> span.begin]
           g == [p \in U \X (1 .. n) |-> TakeOwner(span, p[1], span.begin + p[2] - 1)]
<1>1. n \in Nat /\ b0 \in U /\ span.begin \in Int
  BY DEF Spans, SpanWalks
<1>2. DOMAIN InSpan(span) = 1 .. n /\ \A k \in 1 .. n : InSpan(span)[k] = span.begin + k - 1
  BY DEF InSpan
<1> HIDE DEF n, b0
<1>3. g \in [U \X (1 .. n) -> U] /\ \A w \in U, k \in 1 .. n : g[<<w, k>>] = TakeOwner(span, w, span.begin + k - 1)
  <2>1. \A p \in U \X (1 .. n) : TakeOwner(span, p[1], span.begin + p[2] - 1) \in U
    <3> SUFFICES ASSUME NEW w \in U, NEW k \in 1 .. n PROVE TakeOwner(span, w, span.begin + k - 1) \in U
      OBVIOUS
    <3>1. span.begin + k - 1 \in Int
      BY <1>1
    <3> QED BY <3>1, TakeOwnerIs
  <2> HIDE DEF U
  <2> QED BY <2>1
<1> HIDE DEF g
<1>4. PICK f \in [SUBSET (1 .. n) -> U] : Folds(f, g, b0, n)
  BY <1>1, <1>3, FoldExists
<1>5. SpanFold(l, span, f)
  <2>1. ASSUME NEW s \in SUBSET (1 .. n)
        PROVE  f[s] = IF s = {} THEN b0 ELSE TakeOwner(span, f[s \ {Max(s)}], InSpan(span)[Max(s)])
    <3>1. f[s] = IF s = {} THEN b0 ELSE g[<<f[s \ {Max(s)}], Max(s)>>]
      BY <1>4 DEF Folds
    <3>2. CASE s = {}
      BY <3>1, <3>2
    <3>3. CASE s # {}
      <4>1. Max(s) \in s
        <5>1. s \subseteq 0 .. n
          BY <1>1
        <5> QED BY <1>1, <3>3, <5>1, MaxOf
      <4>2. Max(s) \in 1 .. n /\ f[s \ {Max(s)}] \in U
        BY <1>4, <4>1
      <4> QED BY <1>2, <1>3, <3>1, <3>3, <4>2
    <3> QED BY <3>2, <3>3
  <2>2. f = [s \in SUBSET (1 .. n) |-> f[s]]
    BY <1>4
  <2> QED BY <1>2, <2>1, <2>2 DEF SpanFold, b0
<1> DEFINE h == CHOOSE x : SpanFold(l, span, x)
           after == [k \in 0 .. n |-> h[1 .. k]]
<1>6. SpanFold(l, span, h)
  BY <1>5
<1>7. RequestedSpan(l, span) = h[1 .. n].list
  BY <1>2, SpanFoldIs
<1> HIDE DEF h
<1>8. \A s \in SUBSET (1 .. n) :
          h[s] = IF s = {} THEN b0 ELSE TakeOwner(span, h[s \ {Max(s)}], InSpan(span)[Max(s)])
  BY <1>2, <1>6 DEF SpanFold, b0
<1>9. \A k \in 0 .. n : after[k] = h[1 .. k]
  OBVIOUS
<1> HIDE DEF after
<1>10. after[0] = b0
  <2>1. 1 .. 0 = {} /\ {} \in SUBSET (1 .. n) /\ 0 \in 0 .. n
    BY <1>1
  <2> QED BY <1>8, <1>9, <2>1
<1>11. ASSUME NEW k \in 1 .. n PROVE after[k] = TakeOwner(span, after[k - 1], span.begin + k - 1)
  <2>1. /\ 1 .. k # {} /\ Max(1 .. k) = k /\ (1 .. k) \ {k} = 1 .. (k - 1)
        /\ 1 .. k \in SUBSET (1 .. n)
    BY <1>1, FoldOrder
  <2>2. h[1 .. k] = TakeOwner(span, h[1 .. (k - 1)], InSpan(span)[k])
    BY <1>8, <2>1
  <2>3. k \in 0 .. n /\ k - 1 \in 0 .. n
    BY <1>1
  <2> QED BY <1>2, <1>9, <2>2, <2>3
<1>12. SpanSteps(l, span, after, n)
  BY <1>10, <1>11 DEF SpanSteps, b0
<1>13. n \in 0 .. n
  BY <1>1
<1> QED BY <1>7, <1>9, <1>12, <1>13 DEF n

(* Changes in sequence.                                                    *)
LEMMA TurnsTwice ==
    ASSUME NEW l \in Lists, NEW m, NEW k, NEW F, NEW G, NEW H,
           \A x \in ToSet(l) : F[x].is_sequential = x.is_sequential /\ H[x] = G[F[x]],
           Turns(l, m, F), Turns(m, k, G)
    PROVE  Turns(l, k, H)
<1>1. ToSet(m) = {F[x] : x \in ToSet(l)} /\ ToSet(k) = {G[y] : y \in ToSet(m)} /\ k \in Lists
  BY DEF Turns, Becomes
<1>2. ToSet(k) = {H[x] : x \in ToSet(l)}
  BY <1>1
<1>3. SameMode(ToSet(l)) => SameMode(ToSet(m))
  BY <1>1 DEF SameMode
<1> QED BY <1>1, <1>2, <1>3 DEF Turns, Becomes

Took(S, x, y) ==
    /\ y \in Cands /\ y = [x EXCEPT !.unrequested = x.unrequested \ S]
    /\ y.piece = x.piece /\ y.begin = x.begin /\ y.end = x.end
    /\ y.is_sequential = x.is_sequential /\ y.unrequested = x.unrequested \ S
    /\ y.replication = x.replication /\ y.priority = x.priority /\ y.salt = x.salt

(* What requesting a set of blocks does to a candidate.                    *)
LEMMA TakeIs ==
    ASSUME NEW S, NEW x \in Cands
    PROVE  Took(S, x, TakeFrom(S)[x])
BY DEF Took, TakeFrom, Cands

(* Requesting one set of blocks and then another requests both.            *)
LEMMA TakeTwice ==
    ASSUME NEW R, NEW S, NEW x \in Cands
    PROVE  TakeFrom(S)[TakeFrom(R)[x]] = TakeFrom(R \cup S)[x]
<1> DEFINE y == TakeFrom(R)[x]
           z == TakeFrom(R \cup S)[x]
<1>1. Took(R, x, y) /\ Took(R \cup S, x, z)
  BY TakeIs
<1> HIDE DEF y, z
<1>2. y \in Cands
  BY <1>1 DEF Took
<1>3. Took(S, y, TakeFrom(S)[y])
  BY <1>2, TakeIs
<1>4. y.unrequested \ S = x.unrequested \ (R \cup S)
  BY <1>1 DEF Took
<1>5. TakeFrom(S)[y] = [y EXCEPT !.unrequested = x.unrequested \ (R \cup S)]
  BY <1>3, <1>4 DEF Took
<1>6. y = [x EXCEPT !.unrequested = x.unrequested \ R] /\ z = [x EXCEPT !.unrequested = x.unrequested \ (R \cup S)]
  BY <1>1 DEF Took
<1>7. TakeFrom(S)[y] = z
  BY <1>5, <1>6 DEF Cands
<1> QED BY <1>7 DEF y, z

(* Taking nothing that is there.                                           *)
LEMMA TakeNothing ==
    ASSUME NEW S, NEW x \in Cands, x.unrequested \cap S = {}
    PROVE  TakeFrom(S)[x] = x
<1>1. TakeFrom(S)[x] = [x EXCEPT !.unrequested = x.unrequested \ S] /\ x.unrequested \ S = x.unrequested
  BY TakeIs DEF Took
<1> QED BY <1>1 DEF Cands

(* Requesting blocks leaves candidates sound.                              *)
LEMMA TakeSound ==
    ASSUME NEW E, NEW D, NEW S, AllSound(E), D = {TakeFrom(S)[x] : x \in E}
    PROVE  AllSound(D)
<1>1. \A x \in E : Sound(x) /\ x \in Cands
  BY DEF AllSound, Sound
<1>2. \A x \in E : LET y == TakeFrom(S)[x] IN
                    y \in Cands /\ y.piece = x.piece /\ y.begin = x.begin /\ y.end = x.end
                    /\ y.unrequested \subseteq x.unrequested
  <2>1. \A x \in E : Took(S, x, TakeFrom(S)[x])
    BY <1>1, TakeIs
  <2> QED BY <2>1 DEF Took
<1>3. \A x \in E : Sound(TakeFrom(S)[x])
  BY <1>1, <1>2 DEF Sound
<1>4. Meet(D)
  <2> SUFFICES ASSUME NEW x \in E, NEW y \in E,
                      TakeFrom(S)[y].piece = TakeFrom(S)[x].piece + 1
               PROVE  TakeFrom(S)[y].begin = TakeFrom(S)[x].end
    BY DEF Meet
  <2> QED BY <1>2 DEF AllSound, Meet
<1> QED BY <1>3, <1>4 DEF AllSound

Until(span, b) == {s \in span.begin .. span.end - 1 : s < b}

SpanDone(l, span, k, w) ==
    /\ w \in SpanWalks /\ w.block >= span.begin + k
    /\ Turns(l, w.list, TakeFrom(Until(span, w.block)))

(* After k blocks of the span the first k are requested.                   *)
LEMMA SpanStep ==
    ASSUME NEW l \in Lists, AllSound(ToSet(l)), NEW span \in Spans,
           \A b \in span.begin .. span.end - 1 : \E x \in ToSet(l) : Owns(x, b),
           NEW k \in 1 .. span.end - span.begin, NEW w, SpanDone(l, span, k - 1, w)
    PROVE  SpanDone(l, span, k, TakeOwner(span, w, span.begin + k - 1))
<1> DEFINE b == span.begin + k - 1
           v == TakeOwner(span, w, b)
           i == FindBlock(w.list, b)
           R == Until(span, w.block)
           N == span.begin .. span.end - 1
<1>1. /\ span.begin \in Int /\ span.end \in Int /\ k \in Int /\ b \in Int
      /\ w \in SpanWalks /\ w.block \in Int /\ w.list \in Lists /\ w.block >= b
      /\ Turns(l, w.list, TakeFrom(R)) /\ b \in N
  BY DEF SpanDone, Spans, SpanWalks
<1>2. /\ v \in SpanWalks
      /\ b < w.block => v = w
      /\ b >= w.block /\ i # 0 =>
           /\ i \in 1 .. Len(w.list) /\ v.block = w.list[i].end
           /\ v.list = Resort([w.list EXCEPT ![i] = TakeFrom(N)[w.list[i]]], i)
  BY <1>1, TakeOwnerIs
<1> HIDE DEF v, i, R
<1>3. CASE b < w.block
  <2>1. w.block >= span.begin + k
    BY <1>1, <1>3
  <2> QED BY <1>1, <1>2, <1>3, <2>1 DEF SpanDone, R, v
<1>4. CASE ~(b < w.block)
  <2>0. b = w.block
    BY <1>1, <1>4
  <2>1. ToSet(w.list) = {TakeFrom(R)[x] : x \in ToSet(l)} /\ ToSet(l) \subseteq Cands
        /\ ToSet(w.list) \subseteq Cands /\ w.list \in Seq(Cands)
        /\ \A j \in 1 .. Len(w.list) : w.list[j] \in ToSet(w.list)
    BY <1>1, ListFacts DEF Turns, Becomes, Lists
  <2>2. AllSound(ToSet(w.list))
    BY <2>1, TakeSound
  <2>3. i # 0 /\ Owns(w.list[i], b)
    <3>1. PICK x \in ToSet(l) : Owns(x, b)
      BY <1>1
    <3>2. TakeFrom(R)[x] \in ToSet(w.list) /\ Owns(TakeFrom(R)[x], b)
      <4>1. Took(R, x, TakeFrom(R)[x])
        BY <2>1, <3>1, TakeIs
      <4> QED BY <2>1, <3>1, <4>1 DEF Took, Owns
    <3>3. /\ i = 0 => \A z \in ToSet(w.list) : ~Owns(z, b)
          /\ i # 0 => Owns(w.list[i], b)
      BY <2>1, FoundBlock DEF i
    <3> QED BY <3>2, <3>3
  <2> DEFINE y == w.list[i]
             S == Until(span, y.end)
  <2>4. /\ i \in 1 .. Len(w.list) /\ v.block = y.end
        /\ v.list = Resort([w.list EXCEPT ![i] = TakeFrom(N)[y]], i)
    BY <1>1, <1>2, <2>0, <2>3
  <2>5. y \in ToSet(w.list) /\ y \in Cands /\ Sound(y) /\ y.begin \in Nat /\ y.end \in Nat
        /\ y.begin <= b /\ b < y.end
    <3>1. y \in ToSet(w.list)
      BY <2>1, <2>4
    <3>2. Sound(y)
      BY <2>2, <3>1 DEF AllSound
    <3>3. y \in Cands /\ y.begin \in Nat /\ y.end \in Nat
      BY <3>2, SoundSpan
    <3> QED BY <2>3, <3>1, <3>2, <3>3 DEF Owns
  <2> HIDE DEF y
  <2>6. TakeFrom(N)[y] = TakeFrom(S)[y]
    <3>1. y.unrequested \ N = y.unrequested \ S
      <4>1. \A s \in y.unrequested : s \in Int /\ s < y.end
        BY <2>5, SoundSpan DEF Owns
      <4>2. \A s \in y.unrequested : s \in N <=> s \in S
        BY <4>1 DEF Until
      <4> QED BY <4>2
    <3>2. TakeFrom(N)[y] = [y EXCEPT !.unrequested = y.unrequested \ N]
          /\ TakeFrom(S)[y] = [y EXCEPT !.unrequested = y.unrequested \ S]
      BY <2>5, TakeIs DEF Took
    <3> QED BY <3>1, <3>2
  <2>7. ASSUME NEW z \in ToSet(w.list), z # y PROVE TakeFrom(S)[z] = z
    <3>1. z.unrequested \cap S = {}
      <4> SUFFICES ASSUME NEW s \in z.unrequested, s \in S PROVE FALSE
        OBVIOUS
      <4>1. Sound(z) /\ s \in Int /\ Owns(z, s) /\ s < y.end
        BY <2>2, SoundSpan DEF AllSound, Until
      <4>2. s \notin R
        <5>1. PICK x \in ToSet(l) : z = TakeFrom(R)[x]
          BY <2>1
        <5>2. z.unrequested = x.unrequested \ R
          BY <2>1, <5>1, TakeIs DEF Took
        <5> QED BY <5>2
      <4>3. s \in N
        BY DEF Until
      <4>4. s >= b
        BY <1>1, <2>0, <4>1, <4>2, <4>3 DEF R, Until
      <4>5. Owns(y, s)
        BY <1>1, <2>5, <4>1, <4>4 DEF Owns
      <4> QED BY <1>1, <2>2, <2>5, <2>7, <4>1, <4>5, OneOwner
    <3> QED BY <2>1, <3>1, TakeNothing
  <2>8. Turns(w.list, v.list, TakeFrom(S))
    <3>1. Fits(TakeFrom(S)) /\ \A x \in Cands : TakeFrom(S)[x].is_sequential = x.is_sequential
      <4>1. \A x \in Cands : Took(S, x, TakeFrom(S)[x])
        BY TakeIs
      <4> QED BY <4>1, TakeFits DEF Took
    <3>2. Turns(w.list, Resort([w.list EXCEPT ![i] = TakeFrom(S)[w.list[i]]], i), TakeFrom(S))
      BY <1>1, <2>4, <2>7, <3>1, ChangedTurns DEF y
    <3> QED BY <2>4, <2>6, <3>2 DEF y
  <2>9. R \cup S = S
    BY <1>1, <2>0, <2>5 DEF R, Until
  <2>10. \A x \in ToSet(l) : /\ TakeFrom(R)[x].is_sequential = x.is_sequential
                             /\ TakeFrom(S)[x] = TakeFrom(S)[TakeFrom(R)[x]]
    <3> SUFFICES ASSUME NEW x \in ToSet(l)
                 PROVE  /\ TakeFrom(R)[x].is_sequential = x.is_sequential
                        /\ TakeFrom(S)[x] = TakeFrom(S)[TakeFrom(R)[x]]
      OBVIOUS
    <3> HIDE DEF S
    <3>1. x \in Cands
      BY <2>1
    <3>2. Took(R, x, TakeFrom(R)[x])
      BY <3>1, TakeIs
    <3>3. TakeFrom(S)[TakeFrom(R)[x]] = TakeFrom(R \cup S)[x]
      BY <3>1, TakeTwice
    <3> QED BY <2>9, <3>2, <3>3 DEF Took
  <2>11. Turns(l, v.list, TakeFrom(S))
    <3> HIDE DEF S
    <3> QED BY <1>1, <2>8, <2>10, TurnsTwice
  <2>12. v.block >= span.begin + k
    BY <1>1, <2>4, <2>5
  <2> QED BY <1>2, <2>4, <2>11, <2>12 DEF SpanDone, v
<1> QED BY <1>3, <1>4

(* on_sent_request requests exactly the blocks of the span.                *)
LEMMA RequestedSpanTurns ==
    ASSUME NEW l \in Lists, AllSound(ToSet(l)), NEW span \in Spans, span.begin <= span.end,
           \A b \in span.begin .. span.end - 1 : \E x \in ToSet(l) : Owns(x, b)
    PROVE  Turns(l, RequestedSpan(l, span), TakeFrom(span.begin .. span.end - 1))
<1> DEFINE n == span.end - span.begin
<1>1. n \in Nat /\ span.begin \in Int /\ span.end \in Int /\ n \in 0 .. n /\ 0 \in 0 .. n
  BY DEF Spans
<1>2. PICK after : SpanSteps(l, span, after, n) /\ RequestedSpan(l, span) = after[n].list
  BY SpanIsWalked
<1> DEFINE Done(k) == {w \in SpanWalks : SpanDone(l, span, k, w)}
           Q == [k \in 0 .. n |-> Done(k)]
<1>3. after[0] \in Q[0]
  <2>1. after[0] = [list |-> l, block |-> span.begin]
    BY <1>2 DEF SpanSteps
  <2>2. Until(span, span.begin) = {}
    BY <1>1 DEF Until
  <2>3. \A x \in ToSet(l) : TakeFrom({})[x] = x
    <3>1. ToSet(l) \subseteq Cands
      BY ListFacts DEF Lists
    <3> QED BY <3>1, TakeNothing
  <2>4. Turns(l, l, TakeFrom({}))
    BY <2>3, SameTurns
  <2>5. SpanDone(l, span, 0, after[0])
    <3>1. after[0] \in SpanWalks /\ after[0].block = span.begin /\ after[0].list = l
      BY <1>1, <2>1 DEF SpanWalks
    <3>2. span.begin >= span.begin + 0
      BY <1>1
    <3> QED BY <2>2, <2>4, <3>1, <3>2 DEF SpanDone
  <2> QED BY <1>1, <2>5 DEF SpanDone
<1>4. ASSUME NEW k \in 1 .. n, after[k - 1] \in Q[k - 1] PROVE after[k] \in Q[k]
  <2>1. k - 1 \in 0 .. n /\ k \in 0 .. n
    BY <1>1
  <2>2. Q[k - 1] = Done(k - 1)
    BY ONLY <2>1
  <2>3. SpanDone(l, span, k - 1, after[k - 1])
    <3> HIDE DEF Q
    <3> QED BY <1>4, <2>2
  <2>4. after[k] = TakeOwner(span, after[k - 1], span.begin + k - 1)
    BY <1>2 DEF SpanSteps
  <2>5. SpanDone(l, span, k, after[k])
    BY <2>3, <2>4, SpanStep
  <2> QED BY <2>1, <2>5 DEF SpanDone
<1>5. \A k \in 0 .. n : after[k] \in Q[k]
  <2> HIDE DEF Q, n
  <2> QED BY <1>1, <1>3, <1>4, Stays
<1>6. SpanDone(l, span, n, after[n])
  <2>1. Q[n] = Done(n)
    BY ONLY <1>1
  <2>2. after[n] \in Q[n]
    BY <1>1, <1>5
  <2> HIDE DEF Q
  <2> QED BY <2>1, <2>2
<1>7. Until(span, after[n].block) = span.begin .. span.end - 1
  <2>1. after[n].block \in Int /\ after[n].block >= span.begin + n
    BY <1>6 DEF SpanDone, SpanWalks
  <2>2. span.begin + n = span.end
    BY <1>1
  <2> QED BY <1>1, <2>1, <2>2 DEF Until
<1> QED BY <1>2, <1>6, <1>7 DEF SpanDone

-----------------------------------------------------------------------------
(* on_sent_request for each span of the blocks that next() has returned.   *)

(* The span sent from b is a run of the blocks asked for, up to the first  *)
(* that is not.                                                            *)
LEMMA SpanFromIs ==
    ASSUME NEW B \in SUBSET Blocks, NEW b \in B
    PROVE  LET span == SpanFrom(B, b)
           IN  /\ span \in Spans /\ span.begin = b /\ b < span.end /\ span.end <= BlockCount
               /\ span.end \notin B /\ \A s \in b .. span.end - 1 : s \in B
<1> DEFINE Is(e) == e \notin B /\ (b .. e - 1) \subseteq B
           S == {e \in Nat : b <= e /\ e \notin B}
           span == SpanFrom(B, b)
<1>1. BlockCount \in Int
  BY SizeAssumption DEF BlockCount
<1>2. b \in Nat /\ b < BlockCount /\ BlockCount \in Nat /\ BlockCount \notin B
  BY <1>1 DEF Blocks
<1>3. PICK e \in S : \A y \in S : e <= y
  <2>1. BlockCount \in S /\ S \subseteq Nat
    BY <1>2
  <2> HIDE DEF S
  <2> QED BY <2>1, LeastOf
<1>4. e \in b .. BlockCount /\ Is(e)
  <2>1. e \in Nat /\ b <= e /\ e \notin B
    OBVIOUS
  <2>2. e <= BlockCount
    BY <1>2, <1>3
  <2>3. ASSUME NEW s \in b .. e - 1 PROVE s \in B
    BY <1>2, <1>3, <2>1
  <2> QED BY <1>2, <2>1, <2>2, <2>3
<1> DEFINE z == CHOOSE d \in b .. BlockCount : Is(d)
<1>5. z \in b .. BlockCount /\ Is(z)
  BY <1>4
<1>6. span = [begin |-> b, end |-> z]
  BY DEF SpanFrom
<1> HIDE DEF z, span
<1>7. z # b
  BY <1>5
<1>8. span.begin = b /\ span.end = z /\ span \in Spans /\ b < z /\ z <= BlockCount
  BY <1>2, <1>5, <1>6, <1>7 DEF Spans
<1> QED BY <1>5, <1>8 DEF span

SentOne(B, l, b) == IF b \in B /\ b - 1 \notin B THEN RequestedSpan(l, SpanFrom(B, b)) ELSE l

SentFold(l, B, h) ==
    h = [s \in SUBSET DOMAIN Ascending(BlockCount) |->
            IF s = {} THEN l ELSE SentOne(B, h[s \ {Max(s)}], Ascending(BlockCount)[Max(s)])]

SentAll(l, B) == (CHOOSE h : SentFold(l, B, h))[DOMAIN Ascending(BlockCount)]

(* The spans sent to a peer, as the fold they are defined by.              *)
LEMMA SentFoldIs ==
    ASSUME NEW p, NEW n, SendRequests(p, n)
    PROVE  list' = SentAll(list, NextBlocks(n, has[p]))
BY Zenon DEF SendRequests, FoldLeft, MapThenFoldSet, SentAll, SentFold, SentOne

(* The lists whose candidates own all of the blocks B.                     *)
Owning(B) == {m \in Lists : AllSound(ToSet(m)) /\ \A b \in B : \E x \in ToSet(m) : Owns(x, b)}

SentSpan(B, b) == IF b \in B /\ b - 1 \notin B THEN b .. SpanFrom(B, b).end - 1 ELSE {}

(* A step of the walk over the blocks sends the span that begins there,    *)
(* or nothing.                                                             *)
LEMMA SentOneIs ==
    ASSUME NEW B \in SUBSET Blocks, NEW l \in Owning(B), NEW b \in Int
    PROVE  /\ SentOne(B, l, b) \in Owning(B)
           /\ Turns(l, SentOne(B, l, b), TakeFrom(SentSpan(B, b)))
<1>1. l \in Lists /\ AllSound(ToSet(l)) /\ (\A c \in B : \E x \in ToSet(l) : Owns(x, c))
      /\ ToSet(l) \subseteq Cands
  BY ListFacts DEF Owning, Lists
<1>2. Turns(l, SentOne(B, l, b), TakeFrom(SentSpan(B, b)))
  <2>1. CASE b \in B /\ b - 1 \notin B
    <3> DEFINE span == SpanFrom(B, b)
    <3>1. /\ span \in Spans /\ span.begin = b /\ b < span.end
          /\ \A s \in b .. span.end - 1 : s \in B
      BY <2>1, SpanFromIs
    <3>2. SentOne(B, l, b) = RequestedSpan(l, span) /\ SentSpan(B, b) = b .. span.end - 1
      BY <2>1 DEF SentOne, SentSpan
    <3> HIDE DEF span
    <3>3. span.begin <= span.end
      BY <3>1 DEF Spans
    <3>4. \A s \in span.begin .. span.end - 1 : \E x \in ToSet(l) : Owns(x, s)
      BY <1>1, <3>1
    <3>5. Turns(l, RequestedSpan(l, span), TakeFrom(span.begin .. span.end - 1))
      BY <1>1, <3>1, <3>3, <3>4, RequestedSpanTurns
    <3> QED BY <3>1, <3>2, <3>5
  <2>2. CASE ~(b \in B /\ b - 1 \notin B)
    <3>1. SentOne(B, l, b) = l /\ SentSpan(B, b) = {}
      BY <2>2 DEF SentOne, SentSpan
    <3>2. \A x \in ToSet(l) : TakeFrom({})[x] = x
      BY <1>1, TakeNothing
    <3> QED BY <1>1, <3>1, <3>2, SameTurns
  <2> QED BY <2>1, <2>2
<1> DEFINE m == SentOne(B, l, b)
           S == SentSpan(B, b)
<1>3. m \in Lists /\ ToSet(m) = {TakeFrom(S)[x] : x \in ToSet(l)}
  BY <1>2 DEF Turns, Becomes
<1> HIDE DEF m, S
<1>4. AllSound(ToSet(m))
  BY <1>1, <1>3, TakeSound
<1>5. ASSUME NEW c \in B PROVE \E y \in ToSet(m) : Owns(y, c)
  <2>1. PICK x \in ToSet(l) : Owns(x, c)
    BY <1>1
  <2>2. Took(S, x, TakeFrom(S)[x])
    BY <1>1, TakeIs
  <2>3. TakeFrom(S)[x] \in ToSet(m) /\ Owns(TakeFrom(S)[x], c)
    BY <1>3, <2>1, <2>2 DEF Took, Owns
  <2> QED BY <2>3
<1>6. m \in Owning(B)
  BY <1>3, <1>4, <1>5 DEF Owning
<1> QED BY <1>2, <1>6 DEF m

(* The fold, block by block.                                               *)
LEMMA SentIsWalked ==
    ASSUME NEW B \in SUBSET Blocks, NEW l \in Owning(B)
    PROVE  \E after : /\ after[0] = l
                      /\ \A k \in 1 .. BlockCount : after[k] = SentOne(B, after[k - 1], k - 1)
                      /\ SentAll(l, B) = after[BlockCount]
<1> DEFINE n == BlockCount
           U == Owning(B)
           g == [p \in U \X (1 .. n) |-> SentOne(B, p[1], p[2] - 1)]
<1>1. n \in Nat
  <2>1. PieceCount \in Int /\ n \in Int
    BY SizeAssumption DEF PieceCount, BlockCount
  <2>2. n = (TotalSize + BlockSize - 1) \div BlockSize /\ TotalSize + BlockSize - 1 \in Nat
    BY SizeAssumption DEF BlockCount
  <2> HIDE DEF n
  <2> QED BY <2>1, <2>2, SizeAssumption
<1>2. DOMAIN Ascending(BlockCount) = 1 .. n /\ \A k \in 1 .. n : Ascending(BlockCount)[k] = k - 1
  BY DEF Ascending
<1> HIDE DEF n
<1>3. g \in [U \X (1 .. n) -> U] /\ \A w \in U, k \in 1 .. n : g[<<w, k>>] = SentOne(B, w, k - 1)
  <2>1. \A p \in U \X (1 .. n) : SentOne(B, p[1], p[2] - 1) \in U
    <3> SUFFICES ASSUME NEW w \in U, NEW k \in 1 .. n PROVE SentOne(B, w, k - 1) \in U
      OBVIOUS
    <3>1. k - 1 \in Int
      BY <1>1
    <3> QED BY <3>1, SentOneIs
  <2> HIDE DEF U
  <2> QED BY <2>1
<1> HIDE DEF g
<1>4. PICK f \in [SUBSET (1 .. n) -> U] : Folds(f, g, l, n)
  BY <1>1, <1>3, FoldExists
<1>5. SentFold(l, B, f)
  <2>1. ASSUME NEW s \in SUBSET (1 .. n)
        PROVE  f[s] = IF s = {} THEN l ELSE SentOne(B, f[s \ {Max(s)}], Ascending(BlockCount)[Max(s)])
    <3>1. f[s] = IF s = {} THEN l ELSE g[<<f[s \ {Max(s)}], Max(s)>>]
      BY <1>4 DEF Folds
    <3>2. CASE s = {}
      BY <3>1, <3>2
    <3>3. CASE s # {}
      <4>1. Max(s) \in s
        <5>1. s \subseteq 0 .. n
          BY <1>1
        <5> QED BY <1>1, <3>3, <5>1, MaxOf
      <4>2. Max(s) \in 1 .. n /\ f[s \ {Max(s)}] \in U
        BY <1>4, <4>1
      <4> HIDE DEF U
      <4> QED BY <1>2, <1>3, <3>1, <3>3, <4>2
    <3> QED BY <3>2, <3>3
  <2>2. f = [s \in SUBSET (1 .. n) |-> f[s]]
    BY <1>4
  <2> QED BY <1>2, <2>1, <2>2 DEF SentFold
<1> DEFINE h == CHOOSE x : SentFold(l, B, x)
           after == [k \in 0 .. n |-> h[1 .. k]]
<1>6. SentFold(l, B, h)
  BY <1>5
<1>7. SentAll(l, B) = h[1 .. n]
  BY <1>2 DEF SentAll
<1> HIDE DEF h
<1>8. \A s \in SUBSET (1 .. n) :
          h[s] = IF s = {} THEN l ELSE SentOne(B, h[s \ {Max(s)}], Ascending(BlockCount)[Max(s)])
  BY <1>2, <1>6 DEF SentFold
<1>9. \A k \in 0 .. n : after[k] = h[1 .. k]
  OBVIOUS
<1> HIDE DEF after
<1>10. after[0] = l
  <2>1. 1 .. 0 = {} /\ {} \in SUBSET (1 .. n) /\ 0 \in 0 .. n
    BY <1>1
  <2> QED BY <1>8, <1>9, <2>1
<1>11. ASSUME NEW k \in 1 .. n PROVE after[k] = SentOne(B, after[k - 1], k - 1)
  <2>1. /\ 1 .. k # {} /\ Max(1 .. k) = k /\ (1 .. k) \ {k} = 1 .. (k - 1)
        /\ 1 .. k \in SUBSET (1 .. n)
    BY <1>1, FoldOrder
  <2>2. h[1 .. k] = SentOne(B, h[1 .. (k - 1)], Ascending(BlockCount)[k])
    BY <1>8, <2>1
  <2>3. k \in 0 .. n /\ k - 1 \in 0 .. n
    BY <1>1
  <2> QED BY <1>2, <1>9, <2>2, <2>3
<1>12. n \in 0 .. n
  BY <1>1
<1> QED BY <1>7, <1>9, <1>10, <1>11, <1>12 DEF n

(* The blocks of the spans that begin below k.                             *)
SentBelow(B, k) == UNION {SentSpan(B, b) : b \in {c \in Blocks : c < k}}

(* The spans together are the blocks asked for.                            *)
LEMMA AllSent ==
    ASSUME NEW B \in SUBSET Blocks
    PROVE  SentBelow(B, BlockCount) = B
<1>1. BlockCount \in Int /\ \A b \in Blocks : b \in Nat /\ b < BlockCount
  BY SizeAssumption DEF Blocks, BlockCount
<1>2. ASSUME NEW b \in Blocks PROVE SentSpan(B, b) \subseteq B
  <2>1. CASE b \in B /\ b - 1 \notin B
    BY <2>1, SpanFromIs DEF SentSpan
  <2>2. CASE ~(b \in B /\ b - 1 \notin B)
    BY <2>2 DEF SentSpan
  <2> QED BY <2>1, <2>2
<1>3. ASSUME NEW s \in B PROVE \E b \in Blocks : s \in SentSpan(B, b)
  <2> DEFINE S == {j \in Nat : j <= s /\ \A i \in j .. s : i \in B}
  <2>1. s \in Nat /\ s \in S
    BY <1>1
  <2>2. PICK j \in S : \A y \in S : j <= y
    <3>1. S \subseteq Nat /\ S # {}
      BY <2>1
    <3> HIDE DEF S
    <3> QED BY <3>1, LeastOf
  <2>3. j \in Nat /\ j <= s /\ (\A i \in j .. s : i \in B) /\ j \in B
    BY <2>1
  <2>4. j - 1 \notin B
    <3> SUFFICES ASSUME j - 1 \in B PROVE FALSE
      OBVIOUS
    <3>1. j - 1 \in Nat
      BY <1>1
    <3>2. \A i \in j - 1 .. s : i = j - 1 \/ i \in j .. s
      BY <2>1, <2>3, <3>1
    <3>3. j - 1 \in S
      BY <2>1, <2>3, <3>1, <3>2
    <3> QED BY <2>2, <2>3, <3>3
  <2>5. /\ SpanFrom(B, j).end \in Int /\ j < SpanFrom(B, j).end /\ SpanFrom(B, j).end \notin B
    BY <2>3, SpanFromIs DEF Spans
  <2>6. s < SpanFrom(B, j).end
    BY <2>1, <2>3, <2>5
  <2>7. s \in SentSpan(B, j)
    BY <2>1, <2>3, <2>4, <2>5, <2>6 DEF SentSpan
  <2> QED BY <2>3, <2>7
<1> QED BY <1>1, <1>2, <1>3 DEF SentBelow

(* Sending requests for the blocks requests exactly these blocks.          *)
LEMMA SentTurns ==
    ASSUME NEW B \in SUBSET Blocks, NEW l \in Owning(B)
    PROVE  Turns(l, SentAll(l, B), TakeFrom(B))
<1> DEFINE n == BlockCount
<1>1. n \in Nat
  <2>1. n = (TotalSize + BlockSize - 1) \div BlockSize /\ TotalSize + BlockSize - 1 \in Nat
    BY SizeAssumption DEF BlockCount
  <2> HIDE DEF n
  <2> QED BY <2>1, SizeAssumption
<1>2. PICK after : /\ after[0] = l
                   /\ \A k \in 1 .. n : after[k] = SentOne(B, after[k - 1], k - 1)
                   /\ SentAll(l, B) = after[n]
  BY SentIsWalked
<1>3. l \in Lists /\ ToSet(l) \subseteq Cands
  BY ListFacts DEF Owning, Lists
<1> DEFINE Done(k) == {m \in Owning(B) : Turns(l, m, TakeFrom(SentBelow(B, k)))}
           Q == [k \in 0 .. n |-> Done(k)]
<1> HIDE DEF n
<1>4. after[0] \in Q[0]
  <2>1. SentBelow(B, 0) = {}
    BY DEF SentBelow, Blocks
  <2>2. \A x \in ToSet(l) : TakeFrom({})[x] = x
    BY <1>3, TakeNothing
  <2>3. Turns(l, l, TakeFrom({}))
    BY <1>3, <2>2, SameTurns
  <2>4. 0 \in 0 .. n
    BY <1>1
  <2> QED BY <1>2, <2>1, <2>3, <2>4
<1>5. ASSUME NEW k \in 1 .. n, after[k - 1] \in Q[k - 1] PROVE after[k] \in Q[k]
  <2> DEFINE w == after[k - 1]
             v == after[k]
             S == SentSpan(B, k - 1)
             R == SentBelow(B, k - 1)
             P == SentBelow(B, k)
  <2>1. k - 1 \in 0 .. n /\ k \in 0 .. n /\ k - 1 \in Int /\ k \in Int /\ k - 1 \in Nat
    BY <1>1
  <2>2. Q[k - 1] = Done(k - 1) /\ Q[k] = Done(k)
    BY ONLY <2>1
  <2>3. w \in Owning(B) /\ Turns(l, w, TakeFrom(R))
    <3> HIDE DEF Q
    <3> QED BY <1>5, <2>2
  <2>4. v = SentOne(B, w, k - 1)
    BY <1>2
  <2> HIDE DEF v, w
  <2>5. v \in Owning(B) /\ Turns(w, v, TakeFrom(S))
    BY <2>1, <2>3, <2>4, SentOneIs
  <2>6. P = R \cup S
    <3>1. k - 1 \in Blocks
      BY <1>1 DEF Blocks, n
    <3>2. \A b \in Blocks : b < k <=> b < k - 1 \/ b = k - 1
      BY <2>1 DEF Blocks
    <3>3. \A s : (s \in P <=> \E b \in Blocks : b < k /\ s \in SentSpan(B, b))
                 /\ (s \in R <=> \E b \in Blocks : b < k - 1 /\ s \in SentSpan(B, b))
      BY DEF SentBelow
    <3> HIDE DEF P, R
    <3> QED BY <3>1, <3>2, <3>3
  <2> HIDE DEF P, R, S
  <2>7. \A x \in ToSet(l) : /\ TakeFrom(R)[x].is_sequential = x.is_sequential
                            /\ TakeFrom(P)[x] = TakeFrom(S)[TakeFrom(R)[x]]
    <3> SUFFICES ASSUME NEW x \in ToSet(l)
                 PROVE  /\ TakeFrom(R)[x].is_sequential = x.is_sequential
                        /\ TakeFrom(P)[x] = TakeFrom(S)[TakeFrom(R)[x]]
      OBVIOUS
    <3>1. x \in Cands
      BY <1>3
    <3>2. Took(R, x, TakeFrom(R)[x])
      BY <3>1, TakeIs
    <3>3. TakeFrom(S)[TakeFrom(R)[x]] = TakeFrom(R \cup S)[x]
      BY <3>1, TakeTwice
    <3> QED BY <2>6, <3>2, <3>3 DEF Took
  <2>8. Turns(l, v, TakeFrom(P))
    BY <1>3, <2>3, <2>5, <2>7, TurnsTwice
  <2>9. v \in Done(k)
    BY <2>5, <2>8 DEF P
  <2> HIDE DEF Q
  <2> QED BY <2>2, <2>9 DEF v
<1>6. \A k \in 0 .. n : after[k] \in Q[k]
  <2> HIDE DEF Q
  <2> QED BY <1>1, <1>4, <1>5, Stays
<1>7. n \in 0 .. n
  BY <1>1
<1>8. Q[n] = Done(n)
  BY ONLY <1>7
<1>9. Turns(l, after[n], TakeFrom(SentBelow(B, n)))
  <2> HIDE DEF Q
  <2> QED BY <1>6, <1>7, <1>8
<1>10. SentBelow(B, n) = B
  BY AllSent DEF n
<1> QED BY <1>2, <1>9, <1>10

-----------------------------------------------------------------------------
(* next(): the lowest blocks of one candidate after the other.             *)

(* The n lowest of a set are n, or all of it when it has fewer.            *)
LEMMA LowestCount ==
    ASSUME NEW S, IsFiniteSet(S), S \subseteq Nat, NEW n \in Nat
    PROVE  /\ Cardinality(Lowest(S, n)) = Min2(n, Cardinality(S))
           /\ Cardinality(S) <= n => Lowest(S, n) = S
<1> DEFINE c == Cardinality(S)
           L(m) == Lowest(S, m)
           Below(x) == {y \in S : y < x}
           Ok == {m \in 0 .. n : Cardinality(L(m)) = Min2(m, c)}
<1>1. c \in Nat
  BY FS_CardinalityType
<1>2. \A x \in S : IsFiniteSet(Below(x)) /\ Cardinality(Below(x)) \in Nat
  <2> SUFFICES ASSUME NEW x \in S PROVE IsFiniteSet(Below(x)) /\ Cardinality(Below(x)) \in Nat
    OBVIOUS
  <2>1. Below(x) \in SUBSET S
    OBVIOUS
  <2> QED BY <2>1, FS_Subset, FS_CardinalityType
<1>3. \A m : L(m) = {x \in S : Cardinality(Below(x)) < m}
  BY DEF Lowest
<1>4. \A m : L(m) \in SUBSET S /\ IsFiniteSet(L(m)) /\ Cardinality(L(m)) \in Nat /\ Cardinality(L(m)) <= c
             /\ (c = Cardinality(L(m)) => S = L(m))
  <2> SUFFICES ASSUME NEW m
               PROVE  L(m) \in SUBSET S /\ IsFiniteSet(L(m)) /\ Cardinality(L(m)) \in Nat /\ Cardinality(L(m)) <= c
                      /\ (c = Cardinality(L(m)) => S = L(m))
    OBVIOUS
  <2>1. L(m) \in SUBSET S
    BY <1>3
  <2> HIDE DEF L
  <2> QED BY <2>1, FS_Subset, FS_CardinalityType
<1> HIDE DEF c, L
<1>5. 0 \in Ok
  <2>1. \A x \in S : ~(Cardinality(Below(x)) < 0)
    BY <1>2
  <2> HIDE DEF Below
  <2>2. L(0) = {}
    BY <1>3, <2>1
  <2>3. Cardinality(L(0)) = 0
    BY <2>2, FS_EmptySet
  <2> QED BY <1>1, <2>3 DEF Min2
<1>6. ASSUME NEW m \in 1 .. n, m - 1 \in Ok PROVE m \in Ok
  <2>1. m \in Nat /\ m - 1 \in Nat /\ m \in 0 .. n /\ Cardinality(L(m - 1)) = Min2(m - 1, c)
    BY <1>6
  <2>2. \A x \in S : x \in L(m) <=> x \in L(m - 1) \/ Cardinality(Below(x)) = m - 1
    <3> SUFFICES ASSUME NEW x \in S
                 PROVE  x \in L(m) <=> x \in L(m - 1) \/ Cardinality(Below(x)) = m - 1
      OBVIOUS
    <3>1. Cardinality(Below(x)) \in Nat
      BY <1>2
    <3>2. (x \in L(m) <=> Cardinality(Below(x)) < m) /\ (x \in L(m - 1) <=> Cardinality(Below(x)) < m - 1)
      <4> HIDE DEF Below
      <4> QED BY <1>3
    <3> HIDE DEF Below
    <3> QED BY <2>1, <3>1, <3>2
  <2>3. CASE c <= m - 1
    <3>1. L(m - 1) = S
      BY <1>1, <1>4, <2>1, <2>3 DEF Min2
    <3>2. L(m) = S
      BY <1>4, <2>2, <3>1
    <3>3. Cardinality(L(m)) = Min2(m, c)
      BY <1>1, <2>1, <2>3, <3>2 DEF Min2, c
    <3> QED BY <2>1, <3>3
  <2>4. CASE ~(c <= m - 1)
    <3>1. Cardinality(L(m - 1)) = m - 1
      BY <1>1, <2>1, <2>4 DEF Min2
    <3>2. PICK x \in S \ L(m - 1) : \A y \in S \ L(m - 1) : x <= y
      <4>1. S \ L(m - 1) # {}
        <5> SUFFICES ASSUME S \ L(m - 1) = {} PROVE FALSE
          OBVIOUS
        <5>1. L(m - 1) = S
          BY <1>4
        <5> QED BY <1>1, <2>4, <3>1, <5>1 DEF c
      <4>2. S \ L(m - 1) \subseteq S
        OBVIOUS
      <4> QED BY <4>1, <4>2, LeastOf
    <3>3. Below(x) = L(m - 1)
      <4>1. ASSUME NEW y \in Below(x) PROVE y \in L(m - 1)
        <5>1. y \in S /\ y < x /\ x \in Int /\ y \in Int
          OBVIOUS
        <5> QED BY <3>2, <5>1
      <4>2. ASSUME NEW y \in L(m - 1) PROVE y \in Below(x)
        <5>1. y \in S /\ x \in S /\ x # y /\ x \in Int /\ y \in Int
          <6>1. L(m - 1) \in SUBSET S /\ x \notin L(m - 1) /\ x \in S
            BY <1>4, <3>2
          <6>2. y \in S /\ x # y
            BY <4>2, <6>1
          <6>3. x \in Nat /\ y \in Nat
            BY <6>1, <6>2
          <6> QED BY <6>1, <6>2, <6>3
        <5> SUFFICES ASSUME x < y PROVE FALSE
          BY <5>1
        <5>2. Below(x) \in SUBSET Below(y)
          <6> SUFFICES ASSUME NEW z \in Below(x) PROVE z \in Below(y)
            BY Zenon
          <6>1. z \in S /\ z < x /\ z \in Int
            OBVIOUS
          <6>2. z < y
            BY <5>1, <6>1
          <6> QED BY <6>1, <6>2
        <5>3. Cardinality(Below(x)) <= Cardinality(Below(y))
          <6>1. IsFiniteSet(Below(y))
            BY <1>2, <5>1
          <6> HIDE DEF Below
          <6> QED BY <5>2, <6>1, FS_Subset
        <5>4. Cardinality(Below(y)) < m - 1 /\ ~(Cardinality(Below(x)) < m - 1)
          <6> HIDE DEF Below
          <6> QED BY <1>3, <5>1
        <5>5. Cardinality(Below(x)) \in Nat /\ Cardinality(Below(y)) \in Nat
          BY <1>2, <5>1
        <5> HIDE DEF Below
        <5> QED BY <2>1, <5>3, <5>4, <5>5
      <4> HIDE DEF Below
      <4> QED BY <4>1, <4>2
    <3>4. ASSUME NEW y \in S, Cardinality(Below(y)) = m - 1 PROVE y = x
      <4>1. y \notin L(m - 1)
        <5> HIDE DEF Below
        <5> QED BY <1>3, <2>1, <3>4
      <4>2. x <= y /\ x \in Int /\ y \in Int
        BY <3>2, <4>1
      <4> SUFFICES ASSUME x < y PROVE FALSE
        BY <4>2
      <4>3. Below(x) \cup {x} \in SUBSET Below(y) /\ x \notin Below(x)
        <5>1. ASSUME NEW z \in Below(x) PROVE z \in Below(y)
          <6>1. z \in S /\ z < x /\ z \in Int
            OBVIOUS
          <6>2. z < y
            BY <4>2, <6>1
          <6> QED BY <6>1, <6>2
        <5>2. x \in Below(y) /\ x \notin Below(x)
          BY <4>2
        <5> HIDE DEF Below
        <5> QED BY <5>1, <5>2
      <4>4. IsFiniteSet(Below(x)) /\ IsFiniteSet(Below(y))
        BY <1>2
      <4> HIDE DEF Below
      <4>5. Cardinality(Below(x) \cup {x}) = Cardinality(Below(x)) + 1
        BY <4>3, <4>4, FS_AddElement
      <4>6. Cardinality(Below(x) \cup {x}) <= Cardinality(Below(y))
        BY <4>3, <4>4, FS_Subset
      <4>7. Cardinality(Below(x)) = m - 1
        BY <3>1, <3>3
      <4> QED BY <2>1, <3>4, <4>5, <4>6, <4>7
    <3>5. L(m) = L(m - 1) \cup {x}
      <4>1. Cardinality(Below(x)) = m - 1
        BY <3>1, <3>3
      <4> HIDE DEF Below
      <4> QED BY <1>4, <2>2, <3>4, <4>1
    <3>6. Cardinality(L(m)) = m
      <4>1. x \notin L(m - 1) /\ IsFiniteSet(L(m - 1))
        BY <1>4
      <4>2. Cardinality(L(m - 1) \cup {x}) = Cardinality(L(m - 1)) + 1
        BY <4>1, FS_AddElement
      <4> QED BY <2>1, <3>1, <3>5, <4>2
    <3>7. m = Min2(m, c)
      BY <1>1, <2>1, <2>4 DEF Min2
    <3> QED BY <2>1, <3>6, <3>7
  <2> QED BY <2>3, <2>4
<1> HIDE DEF Ok
<1>7. 0 .. n \subseteq Ok
  BY <1>5, <1>6, UpTo
<1>8. n \in 0 .. n
  OBVIOUS
<1>9. Cardinality(L(n)) = Min2(n, c)
  BY <1>7, <1>8 DEF Ok
<1>10. c <= n => L(n) = S
  BY <1>1, <1>4, <1>9 DEF Min2
<1> QED BY <1>9, <1>10 DEF L, c

Taken(n, P, got, e) ==
    IF e.replication = 0 \/ e.piece \notin P THEN got
    ELSE got \cup Lowest(e.unrequested, n - Cardinality(got))

NextFold(n, P, h) ==
    h = [s \in SUBSET DOMAIN list |->
            IF s = {} THEN {} ELSE Taken(n, P, h[s \ {Max(s)}], list[Max(s)])]

(* next(), as the fold it is defined by.                                   *)
LEMMA NextFoldIs ==
    ASSUME NEW n, NEW P
    PROVE  NextBlocks(n, P) = (CHOOSE h : NextFold(n, P, h))[DOMAIN list]
BY Zenon DEF NextBlocks, FoldLeft, MapThenFoldSet, NextFold, Taken

(* The fold, candidate by candidate.                                       *)
LEMMA NextIsWalked ==
    ASSUME list \in Seq(Cands), NEW n, NEW P
    PROVE  \E got : /\ got[0] = {}
                    /\ \A k \in 1 .. Len(list) : got[k] = Taken(n, P, got[k - 1], list[k])
                    /\ NextBlocks(n, P) = got[Len(list)]
<1> DEFINE N == Len(list)
           U == SUBSET Blocks
           g == [p \in U \X (1 .. N) |-> Taken(n, P, p[1], list[p[2]])]
<1>1. N \in Nat /\ DOMAIN list = 1 .. N /\ {} \in U /\ \A k \in 1 .. N : list[k] \in Cands
  OBVIOUS
<1> HIDE DEF N
<1>2. g \in [U \X (1 .. N) -> U] /\ \A w \in U, k \in 1 .. N : g[<<w, k>>] = Taken(n, P, w, list[k])
  <2>1. \A p \in U \X (1 .. N) : Taken(n, P, p[1], list[p[2]]) \in U
    <3> SUFFICES ASSUME NEW w \in U, NEW k \in 1 .. N PROVE Taken(n, P, w, list[k]) \in U
      OBVIOUS
    <3>1. list[k].unrequested \subseteq Blocks
      BY <1>1 DEF Cands
    <3> QED BY <3>1 DEF Taken, Lowest
  <2> HIDE DEF U
  <2> QED BY <2>1
<1> HIDE DEF g
<1>3. PICK f \in [SUBSET (1 .. N) -> U] : Folds(f, g, {}, N)
  <2> HIDE DEF U
  <2> QED BY <1>1, <1>2, FoldExists
<1>4. NextFold(n, P, f)
  <2>1. ASSUME NEW s \in SUBSET (1 .. N)
        PROVE  f[s] = IF s = {} THEN {} ELSE Taken(n, P, f[s \ {Max(s)}], list[Max(s)])
    <3>1. f[s] = IF s = {} THEN {} ELSE g[<<f[s \ {Max(s)}], Max(s)>>]
      BY <1>3 DEF Folds
    <3>2. CASE s = {}
      BY <3>1, <3>2
    <3>3. CASE s # {}
      <4>1. Max(s) \in s
        <5>1. s \subseteq 0 .. N
          BY <1>1
        <5> QED BY <1>1, <3>3, <5>1, MaxOf
      <4>2. Max(s) \in 1 .. N /\ f[s \ {Max(s)}] \in U
        BY <1>3, <4>1
      <4> HIDE DEF U
      <4> QED BY <1>2, <3>1, <3>3, <4>2
    <3> QED BY <3>2, <3>3
  <2>2. f = [s \in SUBSET (1 .. N) |-> f[s]]
    BY <1>3
  <2> QED BY <1>1, <2>1, <2>2 DEF NextFold
<1> DEFINE h == CHOOSE x : NextFold(n, P, x)
           got == [k \in 0 .. N |-> h[1 .. k]]
<1>5. NextFold(n, P, h)
  BY <1>4
<1>6. NextBlocks(n, P) = h[1 .. N]
  BY <1>1, NextFoldIs
<1> HIDE DEF h
<1>7. \A s \in SUBSET (1 .. N) :
          h[s] = IF s = {} THEN {} ELSE Taken(n, P, h[s \ {Max(s)}], list[Max(s)])
  BY <1>1, <1>5 DEF NextFold
<1>8. \A k \in 0 .. N : got[k] = h[1 .. k]
  OBVIOUS
<1> HIDE DEF got
<1>9. got[0] = {}
  <2>1. 1 .. 0 = {} /\ {} \in SUBSET (1 .. N) /\ 0 \in 0 .. N
    BY <1>1
  <2> QED BY <1>7, <1>8, <2>1
<1>10. ASSUME NEW k \in 1 .. N PROVE got[k] = Taken(n, P, got[k - 1], list[k])
  <2>1. /\ 1 .. k # {} /\ Max(1 .. k) = k /\ (1 .. k) \ {k} = 1 .. (k - 1)
        /\ 1 .. k \in SUBSET (1 .. N)
    BY <1>1, FoldOrder
  <2>2. h[1 .. k] = Taken(n, P, h[1 .. (k - 1)], list[k])
    BY <1>7, <2>1
  <2>3. k \in 0 .. N /\ k - 1 \in 0 .. N
    BY <1>1
  <2> QED BY <1>8, <2>2, <2>3
<1>11. N \in 0 .. N
  BY <1>1
<1> QED BY <1>6, <1>8, <1>9, <1>10, <1>11 DEF N

Able(P) == {i \in DOMAIN list : list[i].replication # 0 /\ list[i].piece \in P}
Can(P, k) == UNION {list[i].unrequested : i \in {j \in Able(P) : j <= k}}

(* What next() returns may be asked for.                                   *)
LEMMA NextAvailable ==
    ASSUME list \in Seq(Cands), NEW n, NEW P, NEW b \in NextBlocks(n, P)
    PROVE  \E i \in Able(P) : b \in list[i].unrequested
<1> DEFINE N == Len(list)
<1>1. N \in Nat /\ DOMAIN list = 1 .. N
  OBVIOUS
<1>2. PICK got : /\ got[0] = {}
                 /\ \A k \in 1 .. N : got[k] = Taken(n, P, got[k - 1], list[k])
                 /\ NextBlocks(n, P) = got[N]
  BY NextIsWalked
<1> HIDE DEF N
<1> DEFINE S == {k \in 0 .. N : got[k] \subseteq Can(P, N)}
<1>3. 0 \in S
  BY <1>1, <1>2
<1>4. ASSUME NEW k \in 1 .. N, k - 1 \in S PROVE k \in S
  <2>1. got[k] = Taken(n, P, got[k - 1], list[k]) /\ got[k - 1] \subseteq Can(P, N) /\ k \in 0 .. N
    BY <1>1, <1>2, <1>4
  <2>2. CASE list[k].replication = 0 \/ list[k].piece \notin P
    BY <2>1, <2>2 DEF Taken
  <2>3. CASE ~(list[k].replication = 0 \/ list[k].piece \notin P)
    <3>1. k \in Able(P) /\ k <= N
      BY <1>1, <2>3 DEF Able
    <3>2. list[k].unrequested \subseteq Can(P, N)
      BY <3>1 DEF Can
    <3>3. got[k] \subseteq got[k - 1] \cup list[k].unrequested
      BY <2>1, <2>3 DEF Taken, Lowest
    <3> QED BY <2>1, <3>2, <3>3
  <2> QED BY <2>2, <2>3
<1> HIDE DEF S
<1>5. 0 .. N \subseteq S
  BY <1>1, <1>3, <1>4, UpTo
<1>6. N \in S
  BY <1>1, <1>5
<1>7. b \in Can(P, N)
  BY <1>2, <1>6 DEF S
<1> QED BY <1>7 DEF Can

(* After k candidates, next() has as many of their blocks as it may; it    *)
(* has left some of the blocks of candidate i only when it was satisfied   *)
(* with those up to i.                                                     *)
BestOf(n, P, k, G) ==
    /\ G \in SUBSET Can(P, k) /\ Cardinality(G) = Min2(n, Cardinality(Can(P, k)))
    /\ \A i \in Able(P) : i <= k =>
        list[i].unrequested \subseteq G \/ (Cardinality(G) = n /\ G \subseteq Can(P, i))

(* next() asks for a candidate's blocks only when those before it, of the  *)
(* pieces the peer has, have none left.                                    *)
LEMMA NextBest ==
    ASSUME list \in Lists, AllSound(ToSet(list)), NEW n \in Nat, NEW P
    PROVE  BestOf(n, P, Len(list), NextBlocks(n, P))
<1> DEFINE N == Len(list)
<1>1. /\ list \in Seq(Cands) /\ N \in Nat /\ DOMAIN list = 1 .. N
      /\ Able(P) \subseteq 1 .. N
      /\ \A i \in 1 .. N : list[i] \in ToSet(list) /\ list[i] \in Cands
  BY ListFacts DEF Lists, Able
<1>2. PICK got : /\ got[0] = {}
                 /\ \A k \in 1 .. N : got[k] = Taken(n, P, got[k - 1], list[k])
                 /\ NextBlocks(n, P) = got[N]
  BY <1>1, NextIsWalked
<1> HIDE DEF N
<1> DEFINE S == {k \in 0 .. N : BestOf(n, P, k, got[k])}
<1>3. ASSUME NEW k \in 0 .. N
      PROVE  /\ IsFiniteSet(Can(P, k)) /\ Cardinality(Can(P, k)) \in Nat
             /\ \A i \in 1 .. N : k < i => list[i].unrequested \cap Can(P, k) = {}
  <2>1. Can(P, k) \subseteq Blocks
    BY <1>1 DEF Can, Cands
  <2>2. IsFiniteSet(Blocks)
    <3>1. BlockCount - 1 \in Int
      BY SizeAssumption DEF BlockCount
    <3> QED BY <3>1, FS_Interval DEF Blocks
  <2>3. ASSUME NEW i \in 1 .. N, k < i, NEW b \in list[i].unrequested, b \in Can(P, k) PROVE FALSE
    <3>1. PICK j \in Able(P) : j <= k /\ b \in list[j].unrequested
      BY <2>3 DEF Can
    <3>2. j \in 1 .. N /\ j # i
      BY <1>1, <2>3, <3>1
    <3>3. Sound(list[i]) /\ Sound(list[j])
      BY <1>1, <3>2 DEF AllSound
    <3>4. b \in Int /\ Owns(list[i], b) /\ Owns(list[j], b)
      BY <3>1, <3>3, SoundSpan
    <3>5. list[i] = list[j]
      BY <1>1, <3>2, <3>4, OneOwner
    <3> QED BY <1>1, <3>2, <3>5 DEF Lists, Keyed
  <2> QED BY <2>1, <2>2, <2>3, FS_Subset, FS_CardinalityType
<1>4. 0 \in S
  <2>1. Can(P, 0) = {}
    BY <1>1 DEF Can
  <2>2. \A i \in Able(P) : ~(i <= 0)
    BY <1>1
  <2>3. Cardinality({}) = 0 /\ 0 = Min2(n, 0)
    BY FS_EmptySet DEF Min2
  <2>4. 0 \in 0 .. N
    BY <1>1
  <2> QED BY <1>2, <2>1, <2>2, <2>3, <2>4 DEF BestOf
<1>5. ASSUME NEW k \in 1 .. N, k - 1 \in S PROVE k \in S
  <2> DEFINE G == got[k - 1]
             H == got[k]
             C == Can(P, k - 1)
             D == Can(P, k)
             u == list[k].unrequested
             c == Cardinality(C)
             d == Cardinality(u)
  <2>1. /\ k \in 0 .. N /\ k - 1 \in 0 .. N /\ k - 1 \in Int /\ k \in Int /\ k - 1 < k
        /\ H = Taken(n, P, G, list[k]) /\ BestOf(n, P, k - 1, G)
    BY <1>1, <1>2, <1>5
  <2>2. /\ G \in SUBSET C /\ Cardinality(G) = Min2(n, c)
        /\ \A i \in Able(P) : i <= k - 1 =>
             list[i].unrequested \subseteq G \/ (Cardinality(G) = n /\ G \subseteq Can(P, i))
    BY <2>1 DEF BestOf
  <2>3. IsFiniteSet(C) /\ c \in Nat /\ u \cap C = {}
    BY <1>3, <2>1
  <2>4. \A i \in Able(P) : i \in Int /\ (i <= k <=> i <= k - 1 \/ i = k)
    BY <1>1, <2>1
  <2>5. CASE k \notin Able(P)
    <3>1. \A i \in Able(P) : i <= k <=> i <= k - 1
      BY <2>4, <2>5
    <3>2. D = C
      BY <3>1 DEF Can
    <3>3. H = G
      BY <1>1, <2>1, <2>5 DEF Able, Taken
    <3>4. BestOf(n, P, k, H)
      BY <2>2, <3>1, <3>2, <3>3 DEF BestOf
    <3> QED BY <2>1, <3>4
  <2>6. CASE k \in Able(P)
    <3> DEFINE m == n - Cardinality(G)
               L == Lowest(u, m)
    <3>1. H = G \cup L
      BY <2>1, <2>6 DEF Able, Taken
    <3>2. D = C \cup u
      <4>1. {i \in Able(P) : i <= k} = {i \in Able(P) : i <= k - 1} \cup {k}
        BY <2>1, <2>4, <2>6
      <4> QED BY <4>1 DEF Can
    <3>3. IsFiniteSet(u) /\ d \in Nat /\ u \subseteq Nat
      <4>1. u \subseteq Blocks
        BY <1>1 DEF Cands
      <4>2. u \in SUBSET D /\ IsFiniteSet(D)
        <5>1. IsFiniteSet(D)
          BY <1>3, <2>1
        <5> QED BY <3>2, <5>1
      <4>3. IsFiniteSet(u)
        <5> HIDE DEF u, D
        <5> QED BY <4>2, FS_Subset
      <4> QED BY <4>1, <4>3, FS_CardinalityType DEF Blocks
    <3> HIDE DEF C, D, G, H, u
    <3>4. IsFiniteSet(G) /\ Cardinality(G) \in Nat /\ Cardinality(G) <= n /\ Cardinality(G) <= c
          /\ (Cardinality(G) = c \/ (Cardinality(G) = n /\ n < c))
      BY <2>2, <2>3, FS_Subset DEF Min2
    <3>5. m \in Nat
      BY <3>4
    <3>6. L \in SUBSET u /\ Cardinality(L) = Min2(m, d) /\ (d <= m => L = u)
      BY <3>3, <3>5, LowestCount DEF Lowest
    <3>7. Cardinality(D) = c + d
      <4>1. C \cap u = {}
        BY <2>3
      <4> QED BY <2>3, <3>2, <3>3, <4>1, FS_Union, FS_EmptySet
    <3> HIDE DEF L, c, d
    <3>8. Cardinality(H) = Cardinality(G) + Min2(m, d)
      <4>1. G \cap L = {} /\ IsFiniteSet(L)
        BY <2>2, <2>3, <3>3, <3>6, FS_Subset
      <4>2. Cardinality(G \cup L) = Cardinality(G) + Cardinality(L) - 0
        BY <3>4, <4>1, FS_Union, FS_EmptySet
      <4> QED BY <3>1, <3>3, <3>4, <3>5, <3>6, <4>2 DEF Min2
    <3>9. Cardinality(H) = Min2(n, c + d)
      BY <2>3, <3>3, <3>4, <3>5, <3>8 DEF Min2
    <3>10. H \in SUBSET D
      BY <2>2, <3>1, <3>2, <3>6
    <3>11. ASSUME NEW i \in Able(P), i <= k
           PROVE  list[i].unrequested \subseteq H \/ (Cardinality(H) = n /\ H \subseteq Can(P, i))
      <4>1. CASE i = k
        <5>1. CASE d <= m
          BY <3>1, <3>6, <4>1, <5>1 DEF u
        <5>2. CASE ~(d <= m)
          <6>1. Cardinality(H) = n
            BY <3>3, <3>4, <3>5, <3>8, <5>2 DEF Min2
          <6> QED BY <3>10, <4>1, <6>1 DEF D
        <5> QED BY <5>1, <5>2
      <4>2. CASE i <= k - 1
        <5>1. CASE list[i].unrequested \subseteq G
          BY <3>1, <5>1
        <5>2. CASE Cardinality(G) = n /\ G \subseteq Can(P, i)
          <6>1. m = 0
            BY <5>2
          <6>2. Cardinality(L) = 0
            BY <3>3, <3>6, <6>1 DEF Min2
          <6>3. IsFiniteSet(L)
            BY <3>3, <3>6, FS_Subset
          <6>4. L = {}
            BY <6>2, <6>3, FS_EmptySet
          <6> QED BY <3>1, <5>2, <6>4
        <5> QED BY <2>2, <4>2, <5>1, <5>2
      <4> QED BY <2>4, <3>11, <4>1, <4>2
    <3>12. BestOf(n, P, k, H)
      BY <3>7, <3>9, <3>10, <3>11 DEF BestOf, D
    <3> QED BY <2>1, <3>12 DEF H
  <2> QED BY <2>5, <2>6
<1> HIDE DEF S
<1>6. 0 .. N \subseteq S
  BY <1>1, <1>4, <1>5, UpTo
<1>7. N \in S
  BY <1>1, <1>6
<1> QED BY <1>2, <1>7 DEF S, N

(* on_priority_changed                                                     *)
LEMMA PriorityTurns ==
    ASSUME list \in Lists, NEW h, PriorityChanged(h)
    PROVE  Turns(list, list', Weighed(h))
<1> DEFINE F == Weighed(h)
<1>1. \A j \in DOMAIN list : list[j] \in Cands
  BY ListFacts DEF Lists
<1>2. Fits(F) /\ \A x \in Cands : F[x].is_sequential = x.is_sequential
  BY WeighFits DEF Weighed, Cands
<1>3. \A j \in DOMAIN list : F[list[j]] = [list[j] EXCEPT !.priority = IF list[j].piece \in h THEN 1 ELSE 0]
  BY <1>1 DEF Weighed
<1>4. list' = Sort([j \in DOMAIN list |-> F[list[j]]])
  <2> HIDE DEF F
  <2>1. [j \in DOMAIN list |-> F[list[j]]]
        = [j \in DOMAIN list |-> [list[j] EXCEPT !.priority = IF list[j].piece \in h THEN 1 ELSE 0]]
    BY <1>3
  <2> QED BY <2>1 DEF PriorityChanged
<1> HIDE DEF F
<1>5. Turns(list, Sort([j \in DOMAIN list |-> F[list[j]]]), F)
  BY <1>2, SortedTurns
<1> QED BY <1>4, <1>5 DEF F

(* get_salt yields a number.                                               *)
LEMMA SaltType ==
    ASSUME NEW c \in Pieces, NEW random \in Randoms, NEW seq \in BOOLEAN, NEW from \in Pieces
    PROVE  /\ Salt(c, random, seq, from) \in Int
           /\ Salt(c, random, seq, from) \in Salts \cup Pieces
           /\ seq => Salt(c, random, seq, from) = SequentialSalt(PieceCount, c, from)
<1>1. PieceCount \in Int /\ c \in Int /\ from \in Int /\ 0 <= c /\ c < PieceCount
      /\ 0 <= from /\ from < PieceCount
  BY SizeAssumption DEF PieceCount, Pieces
<1>2. SequentialSalt(PieceCount, c, from) \in Pieces
  BY <1>1 DEF SequentialSalt, Pieces
<1>3. random[c] \in Salts /\ Salts \subseteq Nat
  BY ListAssumption DEF Randoms
<1>4. Pieces \subseteq Int
  BY DEF Pieces
<1>5. CASE seq
  <2>1. Salt(c, random, seq, from) = SequentialSalt(PieceCount, c, from)
    BY <1>5 DEF Salt
  <2> QED BY <1>2, <1>4, <2>1
<1>6. CASE ~seq
  <2>1. Salt(c, random, seq, from) = random[c]
    BY <1>6 DEF Salt
  <2>2. random[c] \in Nat
    BY ONLY <1>3
  <2> QED BY ONLY <1>3, <1>6, <2>1, <2>2
<1> QED BY <1>5, <1>6

(* New salts make candidates of the same pieces.                           *)
LEMMA SaltFits ==
    ASSUME NEW random \in Randoms, NEW seq \in BOOLEAN, NEW from \in Pieces
    PROVE  Fits(Salted(random, seq, from))
<1>1. \A x \in Cands : Salt(x.piece, random, seq, from) \in Int
  BY SaltType DEF Cands
<1> QED BY <1>1 DEF Fits, Salted, Cands

(* recalculate_salt                                                        *)
LEMMA ResaltedTurns ==
    ASSUME list \in Lists,
           NEW random \in Randoms, NEW seq \in BOOLEAN, NEW from \in Pieces
    PROVE  Turns(list, Resalted(seq, from, random), Salted(random, seq, from))
<1> DEFINE F == Salted(random, seq, from)
<1>1. \A j \in DOMAIN list : list[j] \in Cands
  BY ListFacts DEF Lists
<1>2. Fits(F) /\ \A x \in Cands : F[x].is_sequential = x.is_sequential
  BY SaltFits DEF Salted, Cands
<1>3. \A j \in DOMAIN list : F[list[j]] = [list[j] EXCEPT !.salt = Salt(list[j].piece, random, seq, from)]
  BY <1>1 DEF Salted
<1>4. Resalted(seq, from, random) = Sort([j \in DOMAIN list |-> F[list[j]]])
  <2> HIDE DEF F
  <2>1. [j \in DOMAIN list |-> F[list[j]]]
        = [j \in DOMAIN list |-> [list[j] EXCEPT !.salt = Salt(list[j].piece, random, seq, from)]]
    BY <1>3
  <2> QED BY <2>1 DEF Resalted
<1> HIDE DEF F
<1>5. Turns(list, Sort([j \in DOMAIN list |-> F[list[j]]]), F)
  BY <1>2, SortedTurns
<1> QED BY <1>4, <1>5 DEF F

-----------------------------------------------------------------------------
(* on_piece_completed for each of the pieces Good.                         *)

CompleteOne(Good, l, c) == IF c \in Good THEN RemovePiece(l, c) ELSE l

CompleteFold(l, Good, h) ==
    h = [s \in SUBSET DOMAIN Ascending(PieceCount) |->
            IF s = {} THEN l ELSE CompleteOne(Good, h[s \ {Max(s)}], Ascending(PieceCount)[Max(s)])]

CompleteAll(l, Good) == (CHOOSE h : CompleteFold(l, Good, h))[DOMAIN Ascending(PieceCount)]

(* What a block's reception makes of the list.                             *)
LEMMA ReceiveIs ==
    ASSUME NEW b, NEW Bad, NEW random, Receive(b, Bad, random)
    PROVE  LET kept == CompleteAll(GotBlock(list, b), Events!GoodBefore(b, Bad)) IN
           list' = IF Bad = {} THEN kept
                   ELSE LET c == CHOOSE d \in Bad : TRUE
                        IN  BadPiece(kept, c, Events!HaveAfter(b, Bad), Salt(c, random, sequential, fromPiece))
BY Zenon DEF Receive, FoldLeft, MapThenFoldSet, CompleteAll, CompleteFold, CompleteOne

(* There are pieces.                                                       *)
LEMMA Counts == PieceCount \in Nat /\ BlockCount \in Nat
<1>1. TotalSize + PieceSize - 1 \in Nat /\ TotalSize + BlockSize - 1 \in Nat
      /\ PieceSize \in Nat \ {0} /\ BlockSize \in Nat \ {0}
  BY SizeAssumption
<1>2. (TotalSize + PieceSize - 1) \div PieceSize \in Nat
  BY ONLY <1>1
<1>3. (TotalSize + BlockSize - 1) \div BlockSize \in Nat
  BY ONLY <1>1
<1> QED BY <1>2, <1>3 DEF PieceCount, BlockCount

(* on_piece_completed removes the candidate of the piece and leaves the    *)
(* order of the others.                                                    *)
LEMMA CompleteOneIs ==
    ASSUME NEW Good, NEW l \in Lists, NEW c
    PROVE  LET m == CompleteOne(Good, l, c)
           IN  /\ m \in Lists /\ ToSet(m) = {x \in ToSet(l) : ~(x.piece \in Good /\ x.piece = c)}
               /\ InOrder(l) => InOrder(m)
<1>1. CASE c \in Good
  <2>1. RemovePiece(l, c) \in Lists
        /\ ToSet(RemovePiece(l, c)) = {x \in ToSet(l) : x.piece # c}
        /\ (InOrder(l) => InOrder(RemovePiece(l, c)))
    BY RemovePieceIs
  <2>2. \A x \in ToSet(l) : x.piece # c <=> ~(x.piece \in Good /\ x.piece = c)
    BY <1>1
  <2> QED BY <1>1, <2>1, <2>2 DEF CompleteOne
<1>2. CASE c \notin Good
  <2>1. {x \in ToSet(l) : ~(x.piece \in Good /\ x.piece = c)} = ToSet(l)
    BY <1>2
  <2> QED BY <1>2, <2>1 DEF CompleteOne
<1> QED BY <1>1, <1>2

(* The completions of a block, piece by piece.                             *)
LEMMA CompleteIsWalked ==
    ASSUME NEW Good, NEW l \in Lists
    PROVE  \E after : /\ after[0] = l
                      /\ \A k \in 1 .. PieceCount : after[k] = CompleteOne(Good, after[k - 1], k - 1)
                      /\ CompleteAll(l, Good) = after[PieceCount]
<1> DEFINE n == PieceCount
           U == Lists
           g == [p \in U \X (1 .. n) |-> CompleteOne(Good, p[1], p[2] - 1)]
<1>1. n \in Nat
  BY Counts
<1>2. DOMAIN Ascending(PieceCount) = 1 .. n /\ \A k \in 1 .. n : Ascending(PieceCount)[k] = k - 1
  BY DEF Ascending
<1> HIDE DEF n
<1>3. g \in [U \X (1 .. n) -> U] /\ \A w \in U, k \in 1 .. n : g[<<w, k>>] = CompleteOne(Good, w, k - 1)
  <2>1. \A p \in U \X (1 .. n) : CompleteOne(Good, p[1], p[2] - 1) \in U
    <3> SUFFICES ASSUME NEW w \in U, NEW k \in 1 .. n PROVE CompleteOne(Good, w, k - 1) \in U
      OBVIOUS
    <3> QED BY CompleteOneIs
  <2> HIDE DEF U
  <2> QED BY <2>1
<1> HIDE DEF g
<1>4. PICK f \in [SUBSET (1 .. n) -> U] : Folds(f, g, l, n)
  BY <1>1, <1>3, FoldExists
<1> HIDE DEF U
<1>5. CompleteFold(l, Good, f)
  <2>1. ASSUME NEW s \in SUBSET (1 .. n)
        PROVE  f[s] = IF s = {} THEN l ELSE CompleteOne(Good, f[s \ {Max(s)}], Ascending(PieceCount)[Max(s)])
    <3>1. f[s] = IF s = {} THEN l ELSE g[<<f[s \ {Max(s)}], Max(s)>>]
      BY <1>4 DEF Folds
    <3>2. CASE s = {}
      BY <3>1, <3>2
    <3>3. CASE s # {}
      <4>1. Max(s) \in s
        <5>1. s \subseteq 0 .. n
          BY <1>1
        <5> QED BY <1>1, <3>3, <5>1, MaxOf
      <4>2. Max(s) \in 1 .. n /\ f[s \ {Max(s)}] \in U
        BY <1>4, <4>1
      <4> QED BY <1>2, <1>3, <3>1, <3>3, <4>2
    <3> QED BY <3>2, <3>3
  <2>2. f = [s \in SUBSET (1 .. n) |-> f[s]]
    BY <1>4
  <2> QED BY <1>2, <2>1, <2>2 DEF CompleteFold
<1> DEFINE h == CHOOSE x : CompleteFold(l, Good, x)
           after == [k \in 0 .. n |-> h[1 .. k]]
<1>6. CompleteFold(l, Good, h)
  BY <1>5
<1>7. CompleteAll(l, Good) = h[1 .. n]
  BY <1>2 DEF CompleteAll
<1> HIDE DEF h
<1>8. \A s \in SUBSET (1 .. n) :
          h[s] = IF s = {} THEN l ELSE CompleteOne(Good, h[s \ {Max(s)}], Ascending(PieceCount)[Max(s)])
  BY <1>2, <1>6 DEF CompleteFold
<1>9. \A k \in 0 .. n : after[k] = h[1 .. k]
  OBVIOUS
<1> HIDE DEF after
<1>10. after[0] = l
  <2>1. 1 .. 0 = {} /\ {} \in SUBSET (1 .. n) /\ 0 \in 0 .. n
    BY <1>1
  <2> QED BY <1>8, <1>9, <2>1
<1>11. ASSUME NEW k \in 1 .. n PROVE after[k] = CompleteOne(Good, after[k - 1], k - 1)
  <2>1. /\ 1 .. k # {} /\ Max(1 .. k) = k /\ (1 .. k) \ {k} = 1 .. (k - 1)
        /\ 1 .. k \in SUBSET (1 .. n)
    BY <1>1, FoldOrder
  <2>2. h[1 .. k] = CompleteOne(Good, h[1 .. (k - 1)], Ascending(PieceCount)[k])
    BY <1>8, <2>1
  <2>3. k \in 0 .. n /\ k - 1 \in 0 .. n
    BY <1>1
  <2> QED BY <1>2, <1>9, <2>2, <2>3
<1>12. n \in 0 .. n
  BY <1>1
<1> QED BY <1>7, <1>9, <1>10, <1>11, <1>12 DEF n

(* The good pieces are gone, and the others are where they were.           *)
LEMMA CompleteAllIs ==
    ASSUME NEW Good, NEW l \in Lists
    PROVE  LET m == CompleteAll(l, Good)
           IN  /\ m \in Lists /\ ToSet(m) = {x \in ToSet(l) : x.piece \notin Good}
               /\ InOrder(l) => InOrder(m)
<1> DEFINE n == PieceCount
<1>1. PICK after : /\ after[0] = l
                   /\ \A k \in 1 .. n : after[k] = CompleteOne(Good, after[k - 1], k - 1)
                   /\ CompleteAll(l, Good) = after[n]
  BY CompleteIsWalked
<1>2. n \in Nat /\ \A x \in ToSet(l) : x.piece \in 0 .. n - 1
  <2>1. ToSet(l) \subseteq Cands
    BY ListFacts DEF Lists
  <2> QED BY <2>1, Counts DEF Cands, Pieces
<1> HIDE DEF n
<1> DEFINE S == {k \in 0 .. n : /\ after[k] \in Lists
                                /\ ToSet(after[k]) = {x \in ToSet(l) : ~(x.piece \in Good /\ x.piece < k)}
                                /\ InOrder(l) => InOrder(after[k])}
<1>3. 0 \in S
  <2>1. {x \in ToSet(l) : ~(x.piece \in Good /\ x.piece < 0)} = ToSet(l)
    BY <1>2
  <2> QED BY <1>1, <1>2, <2>1
<1>4. ASSUME NEW k \in 1 .. n, k - 1 \in S PROVE k \in S
  <2>1. /\ k \in 0 .. n /\ k - 1 \in 0 .. n
        /\ \A x \in ToSet(l) : x.piece < k <=> x.piece < k - 1 \/ x.piece = k - 1
    BY <1>2
  <2>2. /\ after[k - 1] \in Lists
        /\ ToSet(after[k - 1]) = {x \in ToSet(l) : ~(x.piece \in Good /\ x.piece < k - 1)}
        /\ InOrder(l) => InOrder(after[k - 1])
    BY <1>4
  <2>3. /\ after[k] \in Lists
        /\ ToSet(after[k]) = {x \in ToSet(after[k - 1]) : ~(x.piece \in Good /\ x.piece = k - 1)}
        /\ InOrder(after[k - 1]) => InOrder(after[k])
    <3> DEFINE w == after[k - 1]
    <3>1. after[k] = CompleteOne(Good, w, k - 1) /\ w \in Lists
      BY <1>1, <2>2
    <3> HIDE DEF w
    <3>2. LET m == CompleteOne(Good, w, k - 1)
          IN  /\ m \in Lists /\ ToSet(m) = {x \in ToSet(w) : ~(x.piece \in Good /\ x.piece = k - 1)}
              /\ InOrder(w) => InOrder(m)
      BY <3>1, CompleteOneIs
    <3> QED BY <3>1, <3>2 DEF w
  <2>4. ToSet(after[k]) = {x \in ToSet(l) : ~(x.piece \in Good /\ x.piece < k)}
    BY <2>1, <2>2, <2>3
  <2> QED BY <2>1, <2>2, <2>3, <2>4
<1> HIDE DEF S
<1>5. n \in S
  <2>1. 0 .. n \subseteq S
    BY <1>2, <1>3, <1>4, UpTo
  <2> QED BY <1>2, <2>1
<1>6. \A x \in ToSet(l) : ~(x.piece \in Good /\ x.piece < n) <=> x.piece \notin Good
  BY <1>2
<1> QED BY <1>1, <1>5, <1>6 DEF S

(* y is x with another span and other blocks to be requested.              *)
Respan(x, lo, hi, u, y) ==
    /\ y \in Cands /\ y.piece = x.piece /\ y.begin = lo /\ y.end = hi /\ y.unrequested = u
    /\ y.replication = x.replication /\ y.priority = x.priority
    /\ y.salt = x.salt /\ y.is_sequential = x.is_sequential

AtLeast(u, b) == {z \in u : z >= b}
Below(u, b) == {z \in u : z < b}

(* There is one such candidate.                                            *)
LEMMA RespanOnce ==
    ASSUME NEW x, NEW lo, NEW hi, NEW u, NEW y, NEW z,
           Respan(x, lo, hi, u, y), Respan(x, lo, hi, u, z)
    PROVE  y = z
<1>1. /\ y \in Cands /\ z \in Cands /\ y.piece = z.piece /\ y.begin = z.begin /\ y.end = z.end
      /\ y.unrequested = z.unrequested /\ y.replication = z.replication
      /\ y.priority = z.priority /\ y.salt = z.salt /\ y.is_sequential = z.is_sequential
  BY DEF Respan
<1> QED BY ONLY <1>1 DEF Cands

(* A new span given to a candidate twice is the last one.                  *)
LEMMA RespanTwice ==
    ASSUME NEW x, NEW lo, NEW hi, NEW u, NEW y, NEW b, NEW e, NEW v, NEW z,
           Respan(x, lo, hi, u, y), Respan(y, b, e, v, z)
    PROVE  Respan(x, b, e, v, z)
BY DEF Respan

(* What the hand-overs of edge blocks do to a candidate.                   *)
LEMMA CutIs ==
    ASSUME NEW x \in Cands, NEW b \in Int
    PROVE  /\ Respan(x, Max2(x.begin, b), x.end, AtLeast(x.unrequested, b), CutBegin(x, b))
           /\ Respan(x, x.begin, Min2(x.end, b), Below(x.unrequested, b), CutEnd(x, b))
<1>1. Respan(x, Max2(x.begin, b), x.end, AtLeast(x.unrequested, b), CutBegin(x, b))
  BY DEF Respan, CutBegin, Cands, Max2, AtLeast
<1>2. Respan(x, x.begin, Min2(x.end, b), Below(x.unrequested, b), CutEnd(x, b))
  BY DEF Respan, CutEnd, Cands, Min2, Below
<1> QED BY <1>1, <1>2

(* A candidate that regains an edge block gets it back as the erased       *)
(* neighbour had it.                                                       *)
LEMMA RegainIs ==
    ASSUME NEW x \in Cands, NEW y \in Cands
    PROVE  /\ Respan(x, x.begin, RawEnd(x.piece),
                     x.unrequested \cup ((x.end .. RawEnd(x.piece) - 1) \cap y.unrequested), RegainEnd(x, y))
           /\ Respan(x, RawBegin(x.piece), x.end,
                     x.unrequested \cup ((RawBegin(x.piece) .. x.begin - 1) \cap y.unrequested), RegainBegin(x, y))
<1>1. RawBegin(x.piece) \in Int /\ RawEnd(x.piece) \in Int
  <2>1. x.piece \in Pieces
    BY DEF Cands
  <2> QED BY <2>1, RawSpan
<1>2. Respan(x, x.begin, RawEnd(x.piece),
             x.unrequested \cup ((x.end .. RawEnd(x.piece) - 1) \cap y.unrequested), RegainEnd(x, y))
  BY <1>1 DEF Respan, RegainEnd, Cands
<1>3. Respan(x, RawBegin(x.piece), x.end,
             x.unrequested \cup ((RawBegin(x.piece) .. x.begin - 1) \cap y.unrequested), RegainBegin(x, y))
  BY <1>1 DEF Respan, RegainBegin, Cands
<1> QED BY <1>2, <1>3

(***************************************************************************)
(* A candidate that is made: the one of piece c, with the blocks from lo   *)
(* up to hi, of which it may request those that are not in H.              *)
(***************************************************************************)
Spanned(c, H, salt, lo, hi) ==
    [Candidate(c, H, salt) EXCEPT !.begin = lo, !.end = hi, !.unrequested = (lo .. hi - 1) \ H]

(* is_sequential_download() is a Boolean.                                  *)
ModeKnown == sequential \in BOOLEAN

Fresh(c, H, salt, x) ==
    /\ x \in Cands /\ x.piece = c /\ x.begin = RawBegin(c) /\ x.end = RawEnd(c)
    /\ x.unrequested = (RawBegin(c) .. RawEnd(c) - 1) \ H
    /\ x.replication = Cardinality({p \in Peers : c \in has[p]})
    /\ x.priority = Priority(c) /\ x.salt = salt /\ x.is_sequential = sequential

(* A new candidate has all of its piece.                                   *)
LEMMA CandidateIs ==
    ASSUME ModeKnown, NEW c \in Pieces, NEW H, NEW salt \in Int
    PROVE  Fresh(c, H, salt, Candidate(c, H, salt))
<1> DEFINE r == Cardinality({p \in Peers : c \in has[p]})
<1>2. r \in Int
  <2>1. IsFiniteSet({p \in Peers : c \in has[p]})
    BY ListAssumption, FS_Subset
  <2> QED BY <2>1, FS_CardinalityType
<1>3. Priority(c) \in {0, 1}
  BY DEF Priority
<1>4. RawBegin(c) \in Nat /\ RawEnd(c) \in Nat /\ RawEnd(c) <= BlockCount /\ BlockCount \in Nat
  BY RawSpan
<1>5. RawBegin(c) .. RawEnd(c) - 1 \subseteq Blocks
  BY <1>4 DEF Blocks
<1>6. Candidate(c, H, salt) \in Cands
  BY <1>2, <1>3, <1>4, <1>5 DEF Candidate, Cands, ModeKnown
<1> QED BY <1>6 DEF Fresh, Candidate, ModeKnown

(* A new candidate cut at the edges of its neighbours is sound.            *)
LEMMA SpannedIs ==
    ASSUME ModeKnown, NEW c \in Pieces, NEW H, NEW salt \in Int,
           NEW lo \in LowEdges(c), NEW hi \in HighEdges(c)
    PROVE  /\ Respan(Candidate(c, H, salt), lo, hi, (lo .. hi - 1) \ H, Spanned(c, H, salt, lo, hi))
           /\ Sound(Spanned(c, H, salt, lo, hi))
<1> DEFINE x == Candidate(c, H, salt)
           e == Spanned(c, H, salt, lo, hi)
<1>1. x \in Cands /\ x.piece = c
  <2>1. Fresh(c, H, salt, Candidate(c, H, salt))
    BY CandidateIs
  <2> QED BY <2>1 DEF Fresh
<1>2. lo \in Nat /\ hi \in Nat
  BY LowEdge, HighEdge
<1>3. (lo .. hi - 1) \ H \subseteq Blocks
  <2>1. RawBegin(c) <= lo /\ hi <= RawEnd(c)
    BY LowEdge, HighEdge
  <2>2. RawBegin(c) \in Nat /\ RawEnd(c) \in Nat /\ RawEnd(c) <= BlockCount /\ BlockCount \in Nat
    BY RawSpan
  <2> QED BY <1>2, <2>1, <2>2 DEF Blocks
<1>4. e = [x EXCEPT !.begin = lo, !.end = hi, !.unrequested = (lo .. hi - 1) \ H]
  BY DEF Spanned
<1> HIDE DEF x, e
<1>5. Respan(x, lo, hi, (lo .. hi - 1) \ H, e)
  <2> DEFINE u == (lo .. hi - 1) \ H
  <2>1. u \subseteq Blocks /\ e = [x EXCEPT !.begin = lo, !.end = hi, !.unrequested = u]
    BY <1>3, <1>4
  <2> HIDE DEF u
  <2>2. Respan(x, lo, hi, u, e)
    <3>0. u \in SUBSET Blocks /\ lo \in Int /\ hi \in Int /\ x \in Cands
          /\ e = [x EXCEPT !.begin = lo, !.end = hi, !.unrequested = u]
      BY <1>1, <1>2, <2>1
    <3>a. e \in Cands
      BY ONLY <3>0 DEF Cands
    <3>1. e \in Cands /\ e.piece = x.piece /\ e.begin = lo /\ e.end = hi /\ e.unrequested = u
      BY ONLY <3>0, <3>a DEF Cands
    <3>2. e.replication = x.replication /\ e.priority = x.priority
          /\ e.salt = x.salt /\ e.is_sequential = x.is_sequential
      BY ONLY <1>1, <2>1 DEF Cands
    <3> QED BY <3>1, <3>2 DEF Respan
  <2> QED BY <2>2 DEF u
<1>6. Sound(e)
  BY <1>1, <1>5 DEF Sound, Respan
<1> QED BY <1>5, <1>6 DEF x, e

(* It may be cut at its edges.                                             *)
LEMMA SpannedCuts ==
    ASSUME ModeKnown, NEW c \in Pieces, NEW H, NEW salt \in Int
    PROVE  /\ Candidate(c, H, salt) = Spanned(c, H, salt, RawBegin(c), RawEnd(c))
           /\ \A b \in LowEdges(c) :
                CutBegin(Candidate(c, H, salt), b) = Spanned(c, H, salt, b, RawEnd(c))
           /\ \A lo \in LowEdges(c), b \in HighEdges(c) :
                CutEnd(Spanned(c, H, salt, lo, RawEnd(c)), b) = Spanned(c, H, salt, lo, b)
<1> DEFINE x == Candidate(c, H, salt)
           S(lo, hi) == Spanned(c, H, salt, lo, hi)
<1>1. /\ x \in Cands /\ x.piece = c /\ x.begin = RawBegin(c) /\ x.end = RawEnd(c)
      /\ x.unrequested = (RawBegin(c) .. RawEnd(c) - 1) \ H
  <2>1. Fresh(c, H, salt, Candidate(c, H, salt))
    BY CandidateIs
  <2> QED BY <2>1 DEF Fresh
<1>2. /\ RawBegin(c) \in LowEdges(c) /\ RawEnd(c) \in HighEdges(c)
      /\ RawBegin(c) \in Nat /\ RawEnd(c) \in Nat
  BY RawSpan DEF LowEdges, HighEdges
<1>3. \A lo \in LowEdges(c), hi \in HighEdges(c) : Respan(x, lo, hi, (lo .. hi - 1) \ H, S(lo, hi))
  BY SpannedIs
<1> HIDE DEF x, S
<1>4. x = S(RawBegin(c), RawEnd(c))
  <2>1. Respan(x, RawBegin(c), RawEnd(c), (RawBegin(c) .. RawEnd(c) - 1) \ H, x)
    BY <1>1 DEF Respan
  <2>2. Respan(x, RawBegin(c), RawEnd(c), (RawBegin(c) .. RawEnd(c) - 1) \ H, S(RawBegin(c), RawEnd(c)))
    BY <1>2, <1>3
  <2> QED BY <2>1, <2>2, RespanOnce
<1>5. ASSUME NEW b \in LowEdges(c) PROVE CutBegin(x, b) = S(b, RawEnd(c))
  <2>1. b \in Nat /\ RawBegin(c) <= b
    BY LowEdge
  <2>2. Max2(RawBegin(c), b) = b
    BY <1>2, <2>1 DEF Max2
  <2>3. AtLeast(x.unrequested, b) = (b .. RawEnd(c) - 1) \ H
    BY <1>1, <1>2, <2>1 DEF AtLeast
  <2>4. Respan(x, b, RawEnd(c), (b .. RawEnd(c) - 1) \ H, CutBegin(x, b))
    <3>1. Respan(x, Max2(x.begin, b), x.end, AtLeast(x.unrequested, b), CutBegin(x, b))
      <4>1. x \in Cands /\ b \in Int
        BY <1>1, <2>1
      <4> QED BY <4>1, CutIs, Zenon
    <3> QED BY <1>1, <2>2, <2>3, <3>1
  <2>5. Respan(x, b, RawEnd(c), (b .. RawEnd(c) - 1) \ H, S(b, RawEnd(c)))
    BY <1>2, <1>3
  <2> QED BY <2>4, <2>5, RespanOnce
<1>6. ASSUME NEW lo \in LowEdges(c), NEW b \in HighEdges(c)
      PROVE  CutEnd(S(lo, RawEnd(c)), b) = S(lo, b)
  <2> DEFINE y == S(lo, RawEnd(c))
  <2>1. b \in Nat /\ b <= RawEnd(c) /\ lo \in Nat
    BY HighEdge, LowEdge
  <2>2. Respan(x, lo, RawEnd(c), (lo .. RawEnd(c) - 1) \ H, y)
    BY <1>2, <1>3
  <2> HIDE DEF y
  <2>3. y \in Cands /\ y.begin = lo /\ y.end = RawEnd(c) /\ y.unrequested = (lo .. RawEnd(c) - 1) \ H
    BY <2>2 DEF Respan
  <2>4. Min2(RawEnd(c), b) = b
    BY <1>2, <2>1 DEF Min2
  <2>5. Below(y.unrequested, b) = (lo .. b - 1) \ H
    BY <1>2, <2>1, <2>3 DEF Below
  <2>6. Respan(y, lo, b, (lo .. b - 1) \ H, CutEnd(y, b))
    <3>1. Respan(y, y.begin, Min2(y.end, b), Below(y.unrequested, b), CutEnd(y, b))
      <4>1. y \in Cands /\ b \in Int
        BY <2>1, <2>3
      <4> QED BY <4>1, CutIs, Zenon
    <3> QED BY <2>3, <2>4, <2>5, <3>1
  <2>7. Respan(x, lo, b, (lo .. b - 1) \ H, CutEnd(y, b))
    BY <2>2, <2>6, RespanTwice
  <2>8. Respan(x, lo, b, (lo .. b - 1) \ H, S(lo, b))
    BY <1>3
  <2> QED BY <2>7, <2>8, RespanOnce DEF y
<1> QED BY <1>4, <1>5, <1>6 DEF x, S

(***************************************************************************)
(* on_got_bad_piece.                                                       *)
(***************************************************************************)

(* x, if it is of piece d, may request the blocks S again.                 *)
Given(d, S, x) == IF x.piece = d THEN [x EXCEPT !.unrequested = @ \cup S] ELSE x

GivenAll(d, S, R) == {Given(d, S, x) : x \in R}

(* The candidate at i is x, the others are R.                              *)
Placed(m, i, x, R) == m \in Lists /\ i \in 1 .. Len(m) /\ m[i] = x /\ ToSet(m) = {x} \cup R

(* The candidate at i becomes e, and the one at j is given blocks.         *)
LEMMA EdgePlaced ==
    ASSUME NEW l, NEW i, NEW w, NEW R, Placed(l, i, w, R), NEW j \in 1 .. Len(l), i # j,
           NEW e \in Cands, e.piece = w.piece, \A x \in R : x.piece # e.piece,
           NEW S \in SUBSET Blocks,
           NEW m, m = [l EXCEPT ![i] = e, ![j].unrequested = @ \cup S]
    PROVE  Placed(m, i, e, GivenAll(l[j].piece, S, R))
<1> DEFINE k == [l EXCEPT ![i] = e]
           y == [l[j] EXCEPT !.unrequested = @ \cup S]
<1>0. /\ l \in Lists /\ i \in 1 .. Len(l) /\ l[i] = w /\ ToSet(l) = {l[i]} \cup R
      /\ e.piece = l[i].piece
  BY DEF Placed
<1>1. /\ l \in Seq(Cands) /\ Len(l) \in Nat /\ DOMAIN l = 1 .. Len(l)
      /\ \A h \in 1 .. Len(l) : l[h] \in Cands /\ l[h] \in ToSet(l)
      /\ ToSet(l) \subseteq Cands
  BY <1>0, ListFacts DEF Lists
<1>2. Replaced(l, i, e, k)
  BY <1>0, Changed
<1>3. m = [k EXCEPT ![j] = y]
  BY <1>1
<1>4. k \in Lists /\ Len(k) = Len(l) /\ k[i] = e /\ k[j] = l[j]
      /\ ToSet(k) = (ToSet(l) \ {l[i]}) \cup {e}
  BY <1>2 DEF Replaced
<1>5. y \in Cands /\ y.piece = k[j].piece
  BY <1>1, <1>4 DEF Cands
<1>6. y = Given(l[j].piece, S, l[j])
  BY DEF Given
<1> HIDE DEF k, y
<1>7. Replaced(k, j, y, [k EXCEPT ![j] = y])
  BY <1>4, <1>5, Changed
<1>8. Replaced(k, j, y, m)
  BY <1>3, <1>7
<1>9. m \in Lists /\ Len(m) = Len(l) /\ m[i] = e /\ ToSet(m) = (ToSet(k) \ {l[j]}) \cup {y}
  BY <1>0, <1>1, <1>4, <1>8 DEF Replaced
<1>10. l[i] \notin R /\ e \notin R /\ l[j] # e /\ l[j] \in R /\ l[j].piece # e.piece
  <2>1. l[j].piece # l[i].piece
    BY <1>0, <1>1 DEF Lists, Keyed
  <2> QED BY <1>0, <1>1, <2>1
<1>11. ToSet(k) = R \cup {e}
  BY <1>0, <1>4, <1>10
<1>12. \A x \in R : x.piece = l[j].piece => x = l[j]
  <2> TAKE x \in R
  <2>1. x \in ToSet(l) /\ l[j] \in ToSet(l)
    BY <1>0, <1>1
  <2> QED BY <1>0, <2>1, OneEach
<1>13. \A x \in R : Given(l[j].piece, S, x) = IF x = l[j] THEN y ELSE x
  BY <1>6, <1>12 DEF Given
<1>14. ToSet(m) = {e} \cup {Given(l[j].piece, S, x) : x \in R}
  BY ONLY <1>9, <1>10, <1>11, <1>13
<1> QED BY <1>0, <1>9, <1>14 DEF Placed, GivenAll

PlaceOf(l, c) == IF FindPiece(l, c) = 0 THEN Len(l) + 1 ELSE FindPiece(l, c)

BadMade(l, i, x) == IF i > Len(l) THEN Append(l, x) ELSE ReplaceAt(l, i, x)

BadLeft(made, i, c) ==
    LET j == IF c > 0 THEN FindPiece(made, c - 1) ELSE 0
    IN  IF j = 0 THEN made
        ELSE LET e == CutBegin(made[i], made[j].end)
             IN  [made EXCEPT ![i] = e, ![j].unrequested = @ \cup (RawBegin(c) .. e.begin - 1)]

BadBoth(left, i, c) ==
    LET k == IF c < PieceCount - 1 THEN FindPiece(left, c + 1) ELSE 0
    IN  IF k = 0 THEN left
        ELSE LET e == CutEnd(left[i], left[k].begin)
             IN  [left EXCEPT ![i] = e, ![k].unrequested = @ \cup (e.end .. RawEnd(c) - 1)]

(* The steps of on_got_bad_piece, one by one.                              *)
LEMMA BadPieceSteps ==
    ASSUME NEW l, NEW c, NEW H, NEW salt
    PROVE  LET i == PlaceOf(l, c)
           IN  BadPiece(l, c, H, salt)
               = Sort(BadBoth(BadLeft(BadMade(l, i, Candidate(c, H, salt)), i, c), i, c))
BY Zenon DEF BadPiece, PlaceOf, BadMade, BadLeft, BadBoth

Others(l, c) == {x \in ToSet(l) : x.piece # c}

(* The candidate made for the bad piece, in the list.                      *)
LEMMA BadMadeIs ==
    ASSUME NEW l \in Lists, NEW c, NEW x \in Cands, x.piece = c
    PROVE  Placed(BadMade(l, PlaceOf(l, c), x), PlaceOf(l, c), x, Others(l, c))
<1> DEFINE i == PlaceOf(l, c)
           f == FindPiece(l, c)
           m == BadMade(l, i, x)
<1>1. /\ l \in Seq(Cands) /\ Len(l) \in Nat /\ DOMAIN l = 1 .. Len(l)
      /\ \A h \in 1 .. Len(l) : l[h] \in Cands /\ l[h] \in ToSet(l)
      /\ ToSet(l) \subseteq Cands
  BY ListFacts DEF Lists
<1>2. /\ f \in 0 .. Len(l)
      /\ f # 0 => f \in 1 .. Len(l) /\ l[f].piece = c
      /\ f = 0 => \A y \in ToSet(l) : y.piece # c
  BY <1>1, FoundPiece
<1>3. i = IF f = 0 THEN Len(l) + 1 ELSE f
  BY DEF PlaceOf
<1> HIDE DEF i, f
<1>4. CASE f = 0
  <2>1. i = Len(l) + 1 /\ Others(l, c) = ToSet(l)
    BY <1>2, <1>3, <1>4 DEF Others
  <2>2. m = Append(l, x)
    BY <1>1, <2>1 DEF BadMade
  <2>3. Len(l) \in 0 .. Len(l) /\ \A y \in ToSet(l) : y.piece # x.piece
    BY <1>1, <1>2, <1>4
  <2> DEFINE k == InsertAt(l, Len(l) + 1, x)
  <2>4. With(k, Cands, l, Len(l), x)
    BY <1>1, <2>3, Inserted
  <2>5. k \in Lists /\ ToSet(k) = ToSet(l) \cup {x}
    BY <2>3, InsertedList
  <2> HIDE DEF k, m
  <2>6. m = k
    <3>1. m \in Seq(Cands) /\ Len(m) = Len(l) + 1
          /\ \A h \in 1 .. Len(l) + 1 : m[h] = IF h <= Len(l) THEN l[h] ELSE x
      BY <1>1, <2>2
    <3>2. k \in Seq(Cands) /\ Len(k) = Len(l) + 1
          /\ \A h \in 1 .. Len(l) + 1 : k[h] = IF h <= Len(l) THEN l[h] ELSE x
      BY <1>1, <2>4 DEF With
    <3> QED BY <3>1, <3>2
  <2>7. Len(m) = Len(l) + 1 /\ m[i] = x
    BY <1>1, <2>1, <2>2
  <2>8. i \in 1 .. Len(m)
    BY <1>1, <2>1, <2>7
  <2> QED BY <2>1, <2>5, <2>6, <2>7, <2>8 DEF Placed, m, i
<1>5. CASE f # 0
  <2>1. i \in 1 .. Len(l) /\ l[i].piece = c /\ ~(i > Len(l))
    BY <1>1, <1>2, <1>3, <1>5
  <2>2. m = [l EXCEPT ![i] = x]
    BY <1>1, <2>1 DEF BadMade, ReplaceAt
  <2>3. Replaced(l, i, x, [l EXCEPT ![i] = x])
    BY <2>1, Changed
  <2> HIDE DEF m
  <2>4. m \in Lists /\ Len(m) = Len(l) /\ m[i] = x /\ ToSet(m) = (ToSet(l) \ {l[i]}) \cup {x}
    BY <2>2, <2>3 DEF Replaced
  <2>5. \A y \in ToSet(l) : y # l[i] <=> y.piece # c
    <3> TAKE y \in ToSet(l)
    <3>1. l[i] \in ToSet(l)
      BY <1>1, <2>1
    <3> QED BY <2>1, <3>1, OneEach
  <2>6. ToSet(l) \ {l[i]} = Others(l, c)
    BY <2>5 DEF Others
  <2> QED BY <2>1, <2>4, <2>6 DEF Placed, m, i
<1> QED BY <1>4, <1>5 DEF i

(* No hand-over.                                                           *)
LEMMA NotGiven ==
    ASSUME NEW R, NEW d, NEW S, (\A x \in R : x.piece # d) \/ S = {}, R \subseteq Cands
    PROVE  {Given(d, S, x) : x \in R} = R
<1>1. \A x \in R : Given(d, S, x) = x
  <2> TAKE x \in R
  <2>1. CASE x.piece # d
    BY <2>1 DEF Given
  <2>2. CASE S = {}
    <3>1. x \in Cands /\ x.unrequested \cup S = x.unrequested
      BY <2>2
    <3>2. [x EXCEPT !.unrequested = @ \cup S] = x
      BY <3>1 DEF Cands
    <3> QED BY <3>2 DEF Given
  <2> QED BY <2>1, <2>2
<1> QED BY <1>1

(* The edges with the pieces before and after c.                           *)
LoOf(E, c) == IF \E x \in E : x.piece = c - 1 THEN (CHOOSE x \in E : x.piece = c - 1).end ELSE RawBegin(c)
HiOf(E, c) == IF \E x \in E : x.piece = c + 1 THEN (CHOOSE x \in E : x.piece = c + 1).begin ELSE RawEnd(c)

(* The edges of the neighbours are edges of the piece.                     *)
LEMMA SetEdges ==
    ASSUME NEW E, AllSound(E), \A x, y \in E : x.piece = y.piece => x = y, NEW c \in Pieces
    PROVE  /\ LoOf(E, c) \in LowEdges(c) /\ HiOf(E, c) \in HighEdges(c)
           /\ \A x \in E : /\ x.piece = c - 1 => x.end = LoOf(E, c)
                           /\ x.piece = c + 1 => x.begin = HiOf(E, c)
<1>1. \A x \in E : Sound(x) /\ x.piece \in Pieces /\ x.piece \in Int
  BY SoundSpan DEF AllSound
<1>2. \A x, y \in E : x.piece = y.piece => x = y
  OBVIOUS
<1>3. c \in Int
  BY DEF Pieces
<1>4. \A x \in E : x.piece = c - 1 => x.end = LoOf(E, c)
  BY <1>2 DEF LoOf
<1>5. \A x \in E : x.piece = c + 1 => x.begin = HiOf(E, c)
  BY <1>2 DEF HiOf
<1>6. LoOf(E, c) \in LowEdges(c)
  <2>1. CASE \E x \in E : x.piece = c - 1
    <3>1. PICK x \in E : x.piece = c - 1
      BY <2>1
    <3>2. x.end \in HighEdges(x.piece) /\ x.end = LoOf(E, c) /\ x.piece \in Pieces /\ x.piece + 1 = c
      BY <1>1, <1>3, <1>4, <3>1 DEF Sound
    <3>3. x.end = RawEnd(x.piece) \/ x.end = RawBegin(c)
      BY <3>2 DEF HighEdges
    <3> QED BY <3>2, <3>3 DEF LowEdges
  <2>2. CASE ~\E x \in E : x.piece = c - 1
    BY <2>2 DEF LoOf, LowEdges
  <2> QED BY <2>1, <2>2
<1>7. HiOf(E, c) \in HighEdges(c)
  <2>1. CASE \E x \in E : x.piece = c + 1
    <3>1. PICK x \in E : x.piece = c + 1
      BY <2>1
    <3>2. x.begin \in LowEdges(x.piece) /\ x.begin = HiOf(E, c) /\ x.piece \in Pieces /\ x.piece = c + 1
      BY <1>1, <1>3, <1>5, <3>1 DEF Sound
    <3>3. x.begin = RawBegin(x.piece) \/ x.begin = RawEnd(c)
      <4>1. \A d \in Pieces : d + 1 = x.piece => d = c
        BY <1>3, <3>2 DEF Pieces
      <4> QED BY <3>2, <4>1 DEF LowEdges
    <3> QED BY <3>2, <3>3 DEF HighEdges
  <2>2. CASE ~\E x \in E : x.piece = c + 1
    BY <2>2 DEF HiOf, HighEdges
  <2> QED BY <2>1, <2>2
<1> QED BY <1>4, <1>5, <1>6, <1>7

(* The same of the candidates in a list.                                   *)
LEMMA EdgesOf ==
    ASSUME NEW l \in Lists, AllSound(ToSet(l)), NEW c \in Pieces
    PROVE  /\ LoOf(ToSet(l), c) \in LowEdges(c) /\ HiOf(ToSet(l), c) \in HighEdges(c)
           /\ \A x \in ToSet(l) : /\ x.piece = c - 1 => x.end = LoOf(ToSet(l), c)
                                  /\ x.piece = c + 1 => x.begin = HiOf(ToSet(l), c)
BY OneEach, SetEdges

(* The blocks of a piece.                                                  *)
LEMMA EdgeBlocks ==
    ASSUME NEW c \in Pieces, NEW lo \in LowEdges(c), NEW hi \in HighEdges(c)
    PROVE  /\ RawBegin(c) .. lo - 1 \in SUBSET Blocks /\ hi .. RawEnd(c) - 1 \in SUBSET Blocks
           /\ RawBegin(c) \in LowEdges(c) /\ RawEnd(c) \in HighEdges(c)
           /\ RawBegin(c) \in Nat /\ RawEnd(c) \in Nat /\ lo \in Nat /\ hi \in Nat
           /\ BlockSpan[c] = RawBegin(c) .. RawEnd(c) - 1 /\ BlockSpan[c] \subseteq Blocks
<1>1. RawBegin(c) \in Nat /\ RawEnd(c) \in Nat /\ RawEnd(c) <= BlockCount /\ BlockCount \in Nat
      /\ BlockSpan[c] = RawBegin(c) .. RawEnd(c) - 1
  BY RawSpan
<1>2. lo \in Nat /\ lo <= RawEnd(c)
  BY LowEdge
<1>3. hi \in Nat /\ RawBegin(c) < hi
  BY HighEdge
<1>4. RawBegin(c) .. lo - 1 \subseteq Blocks /\ hi .. RawEnd(c) - 1 \subseteq Blocks
      /\ RawBegin(c) .. RawEnd(c) - 1 \subseteq Blocks
  BY <1>1, <1>2, <1>3 DEF Blocks
<1>5. RawBegin(c) \in LowEdges(c) /\ RawEnd(c) \in HighEdges(c)
  BY DEF LowEdges, HighEdges
<1> QED BY <1>1, <1>2, <1>3, <1>4, <1>5

(* The candidate of a bad piece and the one before it.                     *)
LEMMA BadLeftIs ==
    ASSUME ModeKnown, NEW c \in Pieces, NEW H, NEW salt \in Int,
           NEW m, NEW i, NEW R, R \subseteq Cands, NEW lo \in LowEdges(c),
           \A x \in R : x.piece # c,
           \A x \in R : x.piece = c - 1 => x.end = lo,
           (\A x \in R : x.piece # c - 1) => lo = RawBegin(c),
           Placed(m, i, Candidate(c, H, salt), R)
    PROVE  Placed(BadLeft(m, i, c), i, Spanned(c, H, salt, lo, RawEnd(c)),
                  GivenAll(c - 1, RawBegin(c) .. lo - 1, R))
<1> DEFINE x == Candidate(c, H, salt)
           e == Spanned(c, H, salt, lo, RawEnd(c))
           j == IF c > 0 THEN FindPiece(m, c - 1) ELSE 0
           S == RawBegin(c) .. lo - 1
<1>1. m \in Lists /\ i \in 1 .. Len(m) /\ m[i] = x /\ ToSet(m) = {x} \cup R
  BY DEF Placed
<1>2. /\ m \in Seq(Cands) /\ Len(m) \in Nat /\ DOMAIN m = 1 .. Len(m)
      /\ \A h \in 1 .. Len(m) : m[h] \in Cands /\ m[h] \in ToSet(m)
      /\ ToSet(m) \subseteq Cands
  BY <1>1, ListFacts DEF Lists
<1>3. x \in Cands /\ x.piece = c
  <2>1. Fresh(c, H, salt, x)
    BY CandidateIs
  <2> QED BY <2>1 DEF Fresh
<1>4. RawEnd(c) \in HighEdges(c) /\ S \in SUBSET Blocks /\ c \in Int
      /\ RawBegin(c) \in Nat /\ RawEnd(c) \in Nat /\ lo \in Nat
  BY EdgeBlocks DEF HighEdges, Pieces
<1>5. e \in Cands /\ e.piece = c /\ e.begin = lo
  <2>1. Respan(x, lo, RawEnd(c), (lo .. RawEnd(c) - 1) \ H, e)
    BY <1>4, SpannedIs
  <2> HIDE DEF x, e
  <2> QED BY <1>3, <2>1 DEF Respan
<1>6. x = Spanned(c, H, salt, RawBegin(c), RawEnd(c)) /\ CutBegin(x, lo) = e
  BY SpannedCuts
<1> HIDE DEF x, e
<1>7. /\ FindPiece(m, c - 1) # 0 => FindPiece(m, c - 1) \in 1 .. Len(m) /\ m[FindPiece(m, c - 1)].piece = c - 1
      /\ FindPiece(m, c - 1) = 0 => \A y \in ToSet(m) : y.piece # c - 1
  BY <1>2, FoundPiece
<1>8. CASE j = 0
  <2>1. \A y \in R : y.piece # c - 1
    <3>1. CASE c > 0
      BY <1>1, <1>7, <1>8, <3>1
    <3>2. CASE ~(c > 0)
      BY <1>4, <3>2 DEF Cands, Pieces
    <3> QED BY <3>1, <3>2
  <2>2. lo = RawBegin(c)
    BY <2>1
  <2>3. e = x
    BY <1>6, <2>2 DEF e
  <2>4. GivenAll(c - 1, S, R) = R
    BY <2>1, NotGiven DEF GivenAll
  <2>5. BadLeft(m, i, c) = m
    BY <1>8 DEF BadLeft
  <2> QED BY <1>1, <2>3, <2>4, <2>5 DEF Placed, e
<1>9. CASE j # 0
  <2>1. j \in 1 .. Len(m) /\ m[j].piece = c - 1
    BY <1>7, <1>9
  <2>2. i # j
    BY <1>1, <1>3, <1>4, <2>1
  <2>3. m[j] \in R /\ m[j].end = lo
    <3>1. m[j] \in ToSet(m) /\ m[j] # x
      BY <1>2, <1>3, <1>4, <2>1
    <3>2. m[j] \in R
      BY <1>1, <3>1
    <3> QED BY <2>1, <3>2
  <2>4. BadLeft(m, i, c) = [m EXCEPT ![i] = e, ![j].unrequested = @ \cup S]
    <3>1. CutBegin(m[i], m[j].end) = e
      BY <1>1, <1>6, <2>3
    <3>2. BadLeft(m, i, c)
          = [m EXCEPT ![i] = CutBegin(m[i], m[j].end),
                      ![j].unrequested = @ \cup (RawBegin(c) .. CutBegin(m[i], m[j].end).begin - 1)]
      BY <1>9 DEF BadLeft
    <3> QED BY <1>5, <3>1, <3>2
  <2> DEFINE k == [m EXCEPT ![i] = e, ![j].unrequested = @ \cup S]
  <2> HIDE DEF j, S
  <2>5. Placed(m, i, x, R) /\ e.piece = x.piece /\ \A y \in R : y.piece # e.piece
    BY <1>1, <1>3, <1>5 DEF Placed
  <2>6. k = [m EXCEPT ![i] = e, ![j].unrequested = @ \cup S]
    BY DEF k
  <2> HIDE DEF k
  <2>7. Placed(k, i, e, GivenAll(c - 1, S, R))
    <3>1. Placed(k, i, e, GivenAll(m[j].piece, S, R))
      BY ONLY <1>4, <1>5, <2>1, <2>2, <2>5, <2>6, EdgePlaced
    <3> QED BY <2>1, <3>1
  <2> QED BY <2>4, <2>7 DEF k, e, S
<1> QED BY <1>8, <1>9

(* The one after it.                                                       *)
LEMMA BadBothIs ==
    ASSUME ModeKnown, NEW c \in Pieces, NEW H, NEW salt \in Int,
           NEW m, NEW i, NEW R, R \subseteq Cands, NEW lo \in LowEdges(c), NEW hi \in HighEdges(c),
           \A x \in R : x.piece # c,
           \A x \in R : x.piece = c + 1 => x.begin = hi,
           (\A x \in R : x.piece # c + 1) => hi = RawEnd(c),
           Placed(m, i, Spanned(c, H, salt, lo, RawEnd(c)), R)
    PROVE  Placed(BadBoth(m, i, c), i, Spanned(c, H, salt, lo, hi),
                  GivenAll(c + 1, hi .. RawEnd(c) - 1, R))
<1> DEFINE x == Spanned(c, H, salt, lo, RawEnd(c))
           e == Spanned(c, H, salt, lo, hi)
           j == IF c < PieceCount - 1 THEN FindPiece(m, c + 1) ELSE 0
           S == hi .. RawEnd(c) - 1
<1>1. m \in Lists /\ i \in 1 .. Len(m) /\ m[i] = x /\ ToSet(m) = {x} \cup R
  BY DEF Placed
<1>2. /\ m \in Seq(Cands) /\ Len(m) \in Nat /\ DOMAIN m = 1 .. Len(m)
      /\ \A h \in 1 .. Len(m) : m[h] \in Cands /\ m[h] \in ToSet(m)
      /\ ToSet(m) \subseteq Cands
  BY <1>1, ListFacts DEF Lists
<1>4. RawEnd(c) \in HighEdges(c) /\ S \in SUBSET Blocks /\ c \in Int
      /\ RawBegin(c) \in Nat /\ RawEnd(c) \in Nat /\ hi \in Nat
  BY EdgeBlocks DEF HighEdges, Pieces
<1>5. e \in Cands /\ e.piece = c /\ e.end = hi /\ x \in Cands /\ x.piece = c
  <2> DEFINE y == Candidate(c, H, salt)
  <2>1. Respan(y, lo, hi, (lo .. hi - 1) \ H, e) /\ Respan(y, lo, RawEnd(c), (lo .. RawEnd(c) - 1) \ H, x)
    BY <1>4, SpannedIs
  <2>2. Fresh(c, H, salt, y)
    BY CandidateIs
  <2> HIDE DEF x, e, y
  <2> QED BY <2>1, <2>2 DEF Respan, Fresh
<1>6. CutEnd(x, hi) = e
  BY SpannedCuts
<1> HIDE DEF x, e
<1>7. /\ FindPiece(m, c + 1) # 0 => FindPiece(m, c + 1) \in 1 .. Len(m) /\ m[FindPiece(m, c + 1)].piece = c + 1
      /\ FindPiece(m, c + 1) = 0 => \A y \in ToSet(m) : y.piece # c + 1
  BY <1>2, FoundPiece
<1>8. CASE j = 0
  <2>1. \A y \in R : y.piece # c + 1
    <3>1. CASE c < PieceCount - 1
      BY <1>1, <1>7, <1>8, <3>1
    <3>2. CASE ~(c < PieceCount - 1)
      BY <1>4, <3>2, Counts DEF Cands, Pieces
    <3> QED BY <3>1, <3>2
  <2>2. hi = RawEnd(c)
    BY <2>1
  <2>3. e = x
    BY <2>2 DEF e, x
  <2>4. GivenAll(c + 1, S, R) = R
    BY <2>1, NotGiven DEF GivenAll
  <2>5. BadBoth(m, i, c) = m
    BY <1>8 DEF BadBoth
  <2> QED BY <1>1, <2>3, <2>4, <2>5 DEF Placed, e
<1>9. CASE j # 0
  <2>1. j \in 1 .. Len(m) /\ m[j].piece = c + 1
    BY <1>7, <1>9
  <2>2. i # j
    BY <1>1, <1>4, <1>5, <2>1
  <2>3. m[j] \in R /\ m[j].begin = hi
    <3>1. m[j] \in ToSet(m) /\ m[j] # x
      BY <1>2, <1>4, <1>5, <2>1
    <3>2. m[j] \in R
      BY <1>1, <3>1
    <3> QED BY <2>1, <3>2
  <2>4. BadBoth(m, i, c) = [m EXCEPT ![i] = e, ![j].unrequested = @ \cup S]
    <3>1. CutEnd(m[i], m[j].begin) = e
      BY <1>1, <1>6, <2>3
    <3>2. BadBoth(m, i, c)
          = [m EXCEPT ![i] = CutEnd(m[i], m[j].begin),
                      ![j].unrequested = @ \cup (CutEnd(m[i], m[j].begin).end .. RawEnd(c) - 1)]
      BY <1>9 DEF BadBoth
    <3> QED BY <1>5, <3>1, <3>2
  <2> DEFINE k == [m EXCEPT ![i] = e, ![j].unrequested = @ \cup S]
  <2> HIDE DEF j, S
  <2>5. Placed(m, i, x, R) /\ e.piece = x.piece /\ \A y \in R : y.piece # e.piece
    BY <1>1, <1>5 DEF Placed
  <2>6. k = [m EXCEPT ![i] = e, ![j].unrequested = @ \cup S]
    BY DEF k
  <2> HIDE DEF k
  <2>7. Placed(k, i, e, GivenAll(c + 1, S, R))
    <3>1. Placed(k, i, e, GivenAll(m[j].piece, S, R))
      BY ONLY <1>4, <1>5, <2>1, <2>2, <2>5, <2>6, EdgePlaced
    <3> QED BY <2>1, <3>1
  <2> QED BY <2>4, <2>7 DEF k, e, S
<1> QED BY <1>8, <1>9

(* The blocks that a candidate of another piece owns of piece c.           *)
LEMMA ShareOf ==
    ASSUME NEW x, Sound(x), NEW c \in Pieces, x.piece # c
    PROVE  LET V == (x.begin .. x.end - 1) \cap BlockSpan[c]
           IN  /\ x.piece = c - 1 => V = RawBegin(c) .. x.end - 1
               /\ x.piece = c + 1 => V = x.begin .. RawEnd(c) - 1
               /\ x.piece # c - 1 /\ x.piece # c + 1 => V = {}
<1> DEFINE V == (x.begin .. x.end - 1) \cap BlockSpan[c]
<1>1. /\ x.piece \in Pieces /\ x.piece \in Int /\ c \in Int
      /\ x.begin \in Nat /\ x.end \in Nat
      /\ RawBegin(x.piece) <= x.begin /\ x.begin <= x.end /\ x.end <= RawEnd(x.piece)
      /\ RawBegin(x.piece) \in Nat /\ RawEnd(x.piece) \in Nat
      /\ x.begin \in LowEdges(x.piece) /\ x.end \in HighEdges(x.piece)
  BY SoundSpan DEF Sound, Pieces
<1>2. RawBegin(c) \in Nat /\ RawEnd(c) \in Nat /\ BlockSpan[c] = RawBegin(c) .. RawEnd(c) - 1
  BY RawSpan
<1>3. ASSUME x.piece = c - 1 PROVE V = RawBegin(c) .. x.end - 1
  <2>1. c = x.piece + 1
    BY <1>1, <1>3
  <2>2. x.begin <= RawBegin(c) /\ x.end <= RawEnd(c)
    <3>1. x.begin <= RawBegin(c)
      BY <1>1, <2>1, LowEdge
    <3>2. RawEnd(x.piece) \in {RawBegin(c), RawBegin(c) + 1}
      BY <1>1, <2>1, RawNeighbours
    <3>3. RawBegin(c) < RawEnd(c)
      BY RawSpan
    <3> QED BY <1>1, <1>2, <3>1, <3>2, <3>3
  <2> QED BY <1>1, <1>2, <2>2
<1>4. ASSUME x.piece = c + 1 PROVE V = x.begin .. RawEnd(c) - 1
  <2>1. c + 1 = x.piece
    BY <1>1, <1>4
  <2>2. RawEnd(c) <= x.end /\ RawBegin(c) < RawBegin(x.piece)
    BY <1>1, <2>1, HighEdge, RawNeighbours
  <2> QED BY <1>1, <1>2, <2>2
<1>5. ASSUME x.piece # c - 1, x.piece # c + 1 PROVE V = {}
  <2>1. x.piece + 2 <= c \/ c + 2 <= x.piece
    BY <1>1, <1>5
  <2>2. x.piece + 2 <= c => RawEnd(x.piece) <= RawBegin(c)
    BY <1>1, RawNeighbours
  <2>3. c + 2 <= x.piece => RawEnd(c) <= RawBegin(x.piece)
    BY <1>1, RawNeighbours
  <2>4. x.end <= RawBegin(c) \/ RawEnd(c) <= x.begin
    BY <1>1, <1>2, <2>1, <2>2, <2>3
  <2> QED BY ONLY <1>1, <1>2, <2>4 DEF V
<1> QED BY <1>3, <1>4, <1>5

(* The blocks of a bad piece may be requested again of those who own them. *)
LEMMA GivenBoth ==
    ASSUME NEW x, Sound(x), NEW c \in Pieces, x.piece # c,
           NEW lo \in LowEdges(c), NEW hi \in HighEdges(c),
           x.piece = c - 1 => x.end = lo, x.piece = c + 1 => x.begin = hi
    PROVE  Given(c + 1, hi .. RawEnd(c) - 1, Given(c - 1, RawBegin(c) .. lo - 1, x))
           = GiveBack(BlockSpan[c])[x]
<1> DEFINE G == GiveBack(BlockSpan[c])[x]
           V == (x.begin .. x.end - 1) \cap BlockSpan[c]
<1>1. x \in Cands /\ x.piece \in Int /\ c \in Int
  BY SoundSpan DEF Pieces
<1>2. /\ x.piece = c - 1 => V = RawBegin(c) .. lo - 1
      /\ x.piece = c + 1 => V = hi .. RawEnd(c) - 1
      /\ x.piece # c - 1 /\ x.piece # c + 1 => V = {}
  BY ShareOf
<1>3. G = [x EXCEPT !.unrequested = @ \cup V] /\ G.piece = x.piece
  BY <1>1 DEF GiveBack, Cands
<1> HIDE DEF G, V
<1>4. CASE x.piece = c - 1
  <2>1. Given(c - 1, RawBegin(c) .. lo - 1, x) = G
    BY <1>2, <1>3, <1>4 DEF Given
  <2>2. G.piece # c + 1
    BY <1>1, <1>3, <1>4
  <2> QED BY <2>1, <2>2 DEF Given, G
<1>5. CASE x.piece = c + 1
  <2>1. Given(c - 1, RawBegin(c) .. lo - 1, x) = x
    BY <1>1, <1>5 DEF Given
  <2>2. Given(c + 1, hi .. RawEnd(c) - 1, x) = G
    BY <1>2, <1>3, <1>5 DEF Given
  <2> QED BY <2>1, <2>2 DEF G
<1>6. CASE x.piece # c - 1 /\ x.piece # c + 1
  <2>1. G = x
    BY <1>1, <1>2, <1>3, <1>6 DEF Cands
  <2>2. Given(c - 1, RawBegin(c) .. lo - 1, x) = x
    BY <1>6 DEF Given
  <2>3. Given(c + 1, hi .. RawEnd(c) - 1, x) = x
    BY <1>6 DEF Given
  <2> QED BY <2>1, <2>2, <2>3 DEF G
<1> QED BY <1>4, <1>5, <1>6

(* The candidates after piece c has failed its check.                      *)
Remade(E, c, H, salt) ==
    {Spanned(c, H, salt, LoOf(E, c), HiOf(E, c))}
        \cup {GiveBack(BlockSpan[c])[x] : x \in {y \in E : y.piece # c}}

(* on_got_bad_piece, as a set: the candidate of the piece made anew, cut   *)
(* where its neighbours are; and the list is sorted.                       *)
LEMMA BadPieceIs ==
    ASSUME ModeKnown, NEW l \in Lists, AllSound(ToSet(l)), NEW c \in Pieces, NEW H, NEW salt \in Int
    PROVE  LET m == BadPiece(l, c, H, salt)
           IN  /\ m \in Lists /\ ToSet(m) = Remade(ToSet(l), c, H, salt)
               /\ SameMode(ToSet(m)) => InOrder(m)
<1> DEFINE E == ToSet(l)
           R == Others(l, c)
           i == PlaceOf(l, c)
           lo == LoOf(E, c)
           hi == HiOf(E, c)
           made == BadMade(l, i, Candidate(c, H, salt))
           left == BadLeft(made, i, c)
           both == BadBoth(left, i, c)
           R2 == GivenAll(c - 1, RawBegin(c) .. lo - 1, R)
           R3 == GivenAll(c + 1, hi .. RawEnd(c) - 1, R2)
           m == BadPiece(l, c, H, salt)
           e == Spanned(c, H, salt, lo, hi)
<1>1. m = Sort(both)
  BY BadPieceSteps
<1>2. Placed(made, i, Candidate(c, H, salt), R)
  <2>1. Fresh(c, H, salt, Candidate(c, H, salt))
    BY CandidateIs
  <2>2. Candidate(c, H, salt) \in Cands /\ Candidate(c, H, salt).piece = c
    BY <2>1 DEF Fresh
  <2> HIDE DEF R, i
  <2> QED BY <2>2, BadMadeIs DEF R, i
<1>3. /\ lo \in LowEdges(c) /\ hi \in HighEdges(c)
      /\ \A x \in E : /\ x.piece = c - 1 => x.end = lo
                      /\ x.piece = c + 1 => x.begin = hi
  BY EdgesOf
<1>4. /\ c \in Int /\ R = {x \in E : x.piece # c}
      /\ \A x \in E : Sound(x) /\ x \in Cands /\ x.piece \in Int
  BY SoundSpan DEF Others, Pieces, AllSound
<1>5. (\A x \in R : x.piece # c - 1) => lo = RawBegin(c)
  BY <1>4 DEF LoOf
<1>6. (\A x \in R : x.piece # c + 1) => hi = RawEnd(c)
  BY <1>4 DEF HiOf
<1>7. /\ RawBegin(c) .. lo - 1 \in SUBSET Blocks /\ hi .. RawEnd(c) - 1 \in SUBSET Blocks
  BY <1>3, EdgeBlocks
<1> HIDE DEF E, R, i, lo, hi, made
<1>8. Placed(left, i, Spanned(c, H, salt, lo, RawEnd(c)), R2)
  <2>1. /\ R \subseteq Cands /\ \A x \in R : x.piece # c
        /\ \A x \in R : x.piece = c - 1 => x.end = lo
    BY <1>3, <1>4
  <2> QED BY <1>2, <1>3, <1>5, <2>1, BadLeftIs
<1>9. \A x \in R : LET y == Given(c - 1, RawBegin(c) .. lo - 1, x)
                   IN  y \in Cands /\ y.piece = x.piece /\ y.begin = x.begin
  <2> TAKE x \in R
  <2>1. x \in Cands
    BY <1>4
  <2> QED BY <1>7, <2>1 DEF Given, Cands
<1>10. R2 = {Given(c - 1, RawBegin(c) .. lo - 1, x) : x \in R}
  BY DEF GivenAll
<1> HIDE DEF left, R2
<1>11. /\ R2 \subseteq Cands /\ \A x \in R2 : x.piece # c
       /\ \A x \in R2 : x.piece = c + 1 => x.begin = hi
       /\ (\A x \in R2 : x.piece # c + 1) => hi = RawEnd(c)
  BY <1>3, <1>4, <1>6, <1>9, <1>10
<1>12. Placed(both, i, e, R3)
  BY <1>3, <1>8, <1>11, BadBothIs
<1>13. R3 = {GiveBack(BlockSpan[c])[x] : x \in R}
  <2>1. R3 = {Given(c + 1, hi .. RawEnd(c) - 1, Given(c - 1, RawBegin(c) .. lo - 1, x)) : x \in R}
    BY <1>10 DEF GivenAll
  <2>2. \A x \in R : Given(c + 1, hi .. RawEnd(c) - 1, Given(c - 1, RawBegin(c) .. lo - 1, x))
                     = GiveBack(BlockSpan[c])[x]
    <3> TAKE x \in R
    <3>1. /\ Sound(x) /\ x.piece # c
          /\ x.piece = c - 1 => x.end = lo
          /\ x.piece = c + 1 => x.begin = hi
      BY <1>3, <1>4
    <3> QED BY <1>3, <3>1, GivenBoth
  <2> QED BY <2>1, <2>2
<1>14. both \in Lists /\ ToSet(both) = {e} \cup R3
  BY <1>12 DEF Placed
<1> HIDE DEF both, e, R3, m
<1>15. /\ m \in Lists /\ ToSet(m) = ToSet(both)
       /\ WeakOrder(LessPairs, ToSet(both)) => Ordered(LessPairs, m)
  BY <1>1, <1>14, SortSame DEF Same
<1>16. SameMode(ToSet(m)) => InOrder(m)
  <2>1. ToSet(m) \subseteq Cands
    BY <1>15, ListFacts DEF Lists
  <2> QED BY <1>15, <2>1, ModeIsOrder DEF InOrder
<1>17. ToSet(m) = Remade(E, c, H, salt)
  BY <1>4, <1>13, <1>14, <1>15 DEF Remade, e, lo, hi
<1> QED BY <1>15, <1>16, <1>17 DEF m, E

(***************************************************************************)
(* candidate_list_upkeep: what becomes of the candidates E when the pieces *)
(* T are to be candidates, and X[c] is a new candidate for piece c.        *)
(***************************************************************************)
Listing(E, c) == \E x \in E : x.piece = c
OldOf(E, c) == CHOOSE x \in E : x.piece = c

(* An old candidate, when the one before it may be gone.                   *)
Begun(E, T, c) ==
    IF Listing(E, c - 1) /\ c - 1 \notin T THEN RegainBegin(OldOf(E, c), OldOf(E, c - 1)) ELSE OldOf(E, c)

EndBefore(E, c) == IF Listing(E, c) THEN OldOf(E, c).end ELSE RawEnd(c)

(* The candidate of piece c when the walk leaves it, and in the end.       *)
FirstOf(E, T, X, c) ==
    IF Listing(E, c) THEN Begun(E, T, c)
    ELSE IF c - 1 \in T THEN CutBegin(X[c], EndBefore(E, c - 1)) ELSE X[c]

NewOf(E, T, X, c) ==
    IF ~Listing(E, c + 1) THEN FirstOf(E, T, X, c)
    ELSE IF c + 1 \in T THEN CutEnd(FirstOf(E, T, X, c), OldOf(E, c + 1).begin)
    ELSE RegainEnd(FirstOf(E, T, X, c), OldOf(E, c + 1))

RawCands(X) == \A c \in Pieces :
    /\ X[c] \in Cands /\ X[c].piece = c /\ X[c].begin = RawBegin(c) /\ X[c].end = RawEnd(c)
    /\ X[c].unrequested \subseteq RawBegin(c) .. RawEnd(c) - 1

(* Candidates as they come to candidate_list_upkeep.                       *)
Coming(E, T, X) ==
    /\ AllSound(E) /\ \A x, y \in E : x.piece = y.piece => x = y
    /\ T \subseteq Pieces /\ RawCands(X)

(* What is known of a candidate in the list before the upkeep.             *)
LEMMA OldIs ==
    ASSUME NEW E, NEW T, NEW X, Coming(E, T, X), NEW c, Listing(E, c)
    PROVE  /\ OldOf(E, c) \in E /\ OldOf(E, c).piece = c /\ Sound(OldOf(E, c))
           /\ c \in Pieces /\ c \in Int /\ OldOf(E, c) \in Cands
           /\ \A x \in E : x.piece = c => x = OldOf(E, c)
<1>1. \E x \in E : x.piece = c
  BY DEF Listing
<1>2. OldOf(E, c) \in E /\ OldOf(E, c).piece = c
  BY <1>1 DEF OldOf
<1>3. Sound(OldOf(E, c)) /\ \A x \in E : x.piece = c => x = OldOf(E, c)
  BY <1>2 DEF Coming, AllSound
<1> QED BY <1>2, <1>3, SoundSpan

(* A candidate's edges are those of its neighbours.                        *)
LEMMA EdgesShared ==
    ASSUME NEW c \in Pieces, NEW d \in Pieces, d = c + 1
    PROVE  HighEdges(c) \subseteq LowEdges(d) /\ LowEdges(d) \subseteq HighEdges(c)
<1>1. c \in Int /\ d \in Int
  BY DEF Pieces
<1>2. \A e \in Pieces : (e + 1 = d <=> e = c) /\ (e = c + 1 <=> e = d)
  BY <1>1 DEF Pieces
<1>3. LowEdges(d) = {RawBegin(d), RawEnd(c)} /\ HighEdges(c) = {RawEnd(c), RawBegin(d)}
  BY <1>2 DEF LowEdges, HighEdges
<1> QED BY <1>3

(* The end of the candidate of a piece, made or not.                       *)
LEMMA EndBeforeIs ==
    ASSUME NEW E, NEW T, NEW X, Coming(E, T, X), NEW c \in Pieces
    PROVE  EndBefore(E, c) \in HighEdges(c)
<1>1. CASE Listing(E, c)
  <2>1. OldOf(E, c).piece = c /\ Sound(OldOf(E, c))
    BY <1>1, OldIs
  <2> QED BY <1>1, <2>1 DEF EndBefore, Sound
<1>2. CASE ~Listing(E, c)
  BY <1>2 DEF EndBefore, HighEdges
<1> QED BY <1>1, <1>2

(* The walk's first change to an old candidate.                            *)
LEMMA BegunIs ==
    ASSUME NEW E, NEW T, NEW X, Coming(E, T, X), NEW c, Listing(E, c)
    PROVE  /\ Sound(Begun(E, T, c)) /\ Begun(E, T, c).piece = c
           /\ Begun(E, T, c).end = OldOf(E, c).end
           /\ Begun(E, T, c).begin = IF Listing(E, c - 1) /\ c - 1 \notin T THEN RawBegin(c) ELSE OldOf(E, c).begin
<1> DEFINE x == OldOf(E, c)
           y == OldOf(E, c - 1)
<1>1. x.piece = c /\ Sound(x) /\ c \in Pieces /\ c \in Int /\ x \in Cands
  BY OldIs
<1>2. CASE Listing(E, c - 1) /\ c - 1 \notin T
  <2>1. y \in Cands
    BY <1>2, OldIs
  <2> DEFINE u == x.unrequested \cup ((RawBegin(x.piece) .. x.begin - 1) \cap y.unrequested)
  <2>2. Respan(x, RawBegin(x.piece), x.end, u, RegainBegin(x, y))
    BY <1>1, <2>1, RegainIs
  <2>3. /\ RawBegin(c) \in Nat /\ x.begin \in Nat /\ x.end \in Nat
        /\ RawBegin(c) <= x.begin /\ x.begin <= x.end /\ x.unrequested \subseteq x.begin .. x.end - 1
        /\ x.end \in HighEdges(c)
    BY <1>1, SoundSpan DEF Sound
  <2>4. u \subseteq RawBegin(c) .. x.end - 1
    BY <1>1, <2>3
  <2>5. RawBegin(c) \in LowEdges(c)
    BY DEF LowEdges
  <2> HIDE DEF u, x
  <2>6. Begun(E, T, c) = RegainBegin(x, y)
    BY <1>2 DEF Begun, x
  <2> HIDE DEF y
  <2>7. Sound(RegainBegin(x, y)) /\ RegainBegin(x, y).piece = x.piece
        /\ RegainBegin(x, y).begin = RawBegin(c) /\ RegainBegin(x, y).end = x.end
    <3>1. /\ Respan(x, RawBegin(c), x.end, u, RegainBegin(x, y)) /\ u \subseteq RawBegin(c) .. x.end - 1
          /\ RawBegin(c) \in LowEdges(x.piece) /\ x.end \in HighEdges(x.piece)
      BY <1>1, <2>2, <2>3, <2>4, <2>5
    <3> QED BY ONLY <3>1 DEF Respan, Sound
  <2> QED BY <1>1, <1>2, <2>6, <2>7 DEF x
<1>3. CASE ~(Listing(E, c - 1) /\ c - 1 \notin T)
  BY <1>1, <1>3 DEF Begun
<1> QED BY <1>2, <1>3

(* Where the upkeep lets a candidate begin.                                *)
LEMMA FirstIs ==
    ASSUME NEW E, NEW T, NEW X, Coming(E, T, X), NEW c \in T
    PROVE  LET f == FirstOf(E, T, X, c)
           IN  /\ Sound(f) /\ f.piece = c /\ f.end = EndBefore(E, c)
               /\ f.begin = IF Listing(E, c)
                            THEN IF Listing(E, c - 1) /\ c - 1 \notin T THEN RawBegin(c) ELSE OldOf(E, c).begin
                            ELSE IF c - 1 \in T THEN EndBefore(E, c - 1) ELSE RawBegin(c)
<1> DEFINE f == FirstOf(E, T, X, c)
           x == X[c]
<1>1. /\ c \in Pieces /\ c \in Int
      /\ x \in Cands /\ x.piece = c /\ x.begin = RawBegin(c) /\ x.end = RawEnd(c)
      /\ x.unrequested \subseteq RawBegin(c) .. RawEnd(c) - 1
  BY DEF Coming, RawCands, Pieces
<1>2. CASE Listing(E, c)
  <2>1. f = Begun(E, T, c)
    BY <1>2 DEF FirstOf
  <2>2. /\ Sound(Begun(E, T, c)) /\ Begun(E, T, c).piece = c
        /\ Begun(E, T, c).end = OldOf(E, c).end
        /\ Begun(E, T, c).begin = IF Listing(E, c - 1) /\ c - 1 \notin T THEN RawBegin(c) ELSE OldOf(E, c).begin
    BY <1>2, BegunIs
  <2> HIDE DEF f
  <2> QED BY <1>2, <2>1, <2>2 DEF EndBefore, f
<1>3. CASE ~Listing(E, c) /\ c - 1 \in T
  <2> DEFINE b == EndBefore(E, c - 1)
             u == AtLeast(x.unrequested, b)
  <2>1. c - 1 \in Pieces /\ c = (c - 1) + 1
    BY <1>1, <1>3 DEF Coming
  <2>2. b \in LowEdges(c)
    <3>1. b \in HighEdges(c - 1)
      BY <2>1, EndBeforeIs
    <3> QED BY <1>1, <2>1, <3>1, EdgesShared
  <2>3. b \in Nat /\ RawBegin(c) <= b /\ RawBegin(c) \in Nat /\ RawEnd(c) \in Nat
    BY <1>1, <2>2, LowEdge, RawSpan
  <2>4. f = CutBegin(x, b)
    BY <1>3 DEF FirstOf
  <2> HIDE DEF b, x, f
  <2>5. Respan(x, Max2(x.begin, b), x.end, u, CutBegin(x, b))
    BY ONLY <1>1, <2>3, CutIs
  <2>6. Max2(x.begin, b) = b
    BY <1>1, <2>3 DEF Max2
  <2>7. u \subseteq b .. RawEnd(c) - 1
    BY <1>1, <2>3 DEF AtLeast
  <2>8. RawEnd(c) \in HighEdges(c)
    BY DEF HighEdges
  <2> HIDE DEF u
  <2>9. Sound(f) /\ f.piece = c /\ f.begin = b /\ f.end = RawEnd(c)
    <3>1. /\ Respan(x, b, RawEnd(c), u, f) /\ u \subseteq b .. RawEnd(c) - 1
          /\ b \in LowEdges(x.piece) /\ RawEnd(c) \in HighEdges(x.piece)
      BY <1>1, <2>2, <2>4, <2>5, <2>6, <2>7, <2>8
    <3>2. Sound(f) /\ f.piece = x.piece /\ f.begin = b /\ f.end = RawEnd(c)
      BY ONLY <3>1 DEF Respan, Sound
    <3> QED BY <1>1, <3>2
  <2> QED BY <1>3, <2>9 DEF EndBefore, b, f
<1>4. CASE ~Listing(E, c) /\ c - 1 \notin T
  <2>1. f = x
    BY <1>4 DEF FirstOf
  <2>2. Sound(x)
    BY <1>1 DEF Sound, LowEdges, HighEdges
  <2> QED BY <1>1, <1>4, <2>1, <2>2 DEF EndBefore
<1> QED BY <1>2, <1>3, <1>4

(* An old candidate begins where the one before it ends, or may.           *)
LEMMA OldEdge ==
    ASSUME NEW E, NEW T, NEW X, Coming(E, T, X), NEW c \in Pieces, Listing(E, c + 1)
    PROVE  /\ OldOf(E, c + 1).begin \in HighEdges(c)
           /\ OldOf(E, c + 1).begin <= EndBefore(E, c)
           /\ Listing(E, c) => OldOf(E, c + 1).begin = OldOf(E, c).end
<1> DEFINE y == OldOf(E, c + 1)
<1>1. y \in E /\ y.piece = c + 1 /\ Sound(y) /\ c + 1 \in Pieces /\ c \in Int
  BY OldIs DEF Pieces
<1>2. y.begin \in LowEdges(c + 1)
  BY <1>1 DEF Sound
<1>3. y.begin \in HighEdges(c)
  BY <1>1, <1>2, EdgesShared
<1>4. Listing(E, c) => y.begin = OldOf(E, c).end
  <2> SUFFICES ASSUME Listing(E, c) PROVE y.begin = OldOf(E, c).end
    OBVIOUS
  <2>1. OldOf(E, c) \in E /\ OldOf(E, c).piece = c
    BY OldIs
  <2> HIDE DEF y
  <2> QED BY <1>1, <2>1 DEF Coming, AllSound, Meet
<1>5. y.begin \in Nat /\ y.begin <= RawEnd(c)
  BY <1>3, HighEdge
<1>6. y.begin <= EndBefore(E, c)
  <2>1. CASE Listing(E, c)
    BY <1>4, <1>5, <2>1 DEF EndBefore
  <2>2. CASE ~Listing(E, c)
    BY <1>5, <2>2 DEF EndBefore
  <2> QED BY <2>1, <2>2
<1> QED BY <1>3, <1>4, <1>6

(* Where it lets a candidate end.                                          *)
LEMMA NewIs ==
    ASSUME NEW E, NEW T, NEW X, Coming(E, T, X), NEW c \in T
    PROVE  LET g == NewOf(E, T, X, c)
           IN  /\ Sound(g) /\ g.piece = c /\ g.begin = FirstOf(E, T, X, c).begin
               /\ g.end = IF ~Listing(E, c + 1) THEN EndBefore(E, c)
                          ELSE IF c + 1 \in T THEN OldOf(E, c + 1).begin ELSE RawEnd(c)
<1> DEFINE f == FirstOf(E, T, X, c)
           g == NewOf(E, T, X, c)
           y == OldOf(E, c + 1)
<1>1. c \in Pieces /\ c \in Int
  BY DEF Coming, Pieces
<1>2. Sound(f) /\ f.piece = c /\ f.end = EndBefore(E, c)
  BY FirstIs
<1> HIDE DEF f
<1>3. /\ f \in Cands /\ f.begin \in Nat /\ f.end \in Nat /\ f.begin <= f.end
      /\ RawEnd(c) \in Nat /\ f.end <= RawEnd(c)
      /\ f.unrequested \subseteq f.begin .. f.end - 1 /\ f.begin \in LowEdges(c)
  BY <1>2, SoundSpan DEF Sound
<1>4. CASE ~Listing(E, c + 1)
  BY <1>2, <1>4 DEF NewOf, f
<1>5. CASE Listing(E, c + 1) /\ c + 1 \in T
  <2> DEFINE b == y.begin
             u == Below(f.unrequested, b)
  <2>1. g = CutEnd(f, b)
    BY <1>5 DEF NewOf, f
  <2>2. b \in HighEdges(c) /\ b <= f.end
    BY <1>1, <1>2, <1>5, OldEdge
  <2>3. b \in Nat /\ f.begin <= b
    BY <1>1, <1>3, <2>2, HighEdge
  <2> HIDE DEF b, g
  <2>4. Respan(f, f.begin, Min2(f.end, b), u, CutEnd(f, b))
    BY ONLY <1>3, <2>3, CutIs
  <2>5. Min2(f.end, b) = b
    BY <1>3, <2>2, <2>3 DEF Min2
  <2>6. u \subseteq f.begin .. b - 1
    BY <1>3, <2>3 DEF Below
  <2> HIDE DEF u
  <2>7. Respan(f, f.begin, b, u, g)
    BY <2>1, <2>4, <2>5
  <2>8. Sound(g) /\ g.piece = c /\ g.begin = f.begin /\ g.end = b
    BY ONLY <1>2, <1>3, <2>2, <2>6, <2>7 DEF Respan, Sound
  <2> QED BY <1>5, <2>8 DEF b, g, f
<1>6. CASE Listing(E, c + 1) /\ c + 1 \notin T
  <2> DEFINE u == f.unrequested \cup ((f.end .. RawEnd(f.piece) - 1) \cap y.unrequested)
  <2>1. g = RegainEnd(f, y)
    BY <1>6 DEF NewOf, f
  <2>2. y \in Cands
    BY <1>6, OldIs
  <2> HIDE DEF y, g
  <2>3. Respan(f, f.begin, RawEnd(f.piece), u, RegainEnd(f, y))
    BY <1>3, <2>2, RegainIs
  <2>4. u \subseteq f.begin .. RawEnd(c) - 1
    BY <1>2, <1>3
  <2>5. RawEnd(c) \in HighEdges(c)
    BY DEF HighEdges
  <2> HIDE DEF u
  <2>6. Respan(f, f.begin, RawEnd(c), u, g)
    BY <1>2, <2>1, <2>3
  <2>7. Sound(g) /\ g.piece = c /\ g.begin = f.begin /\ g.end = RawEnd(c)
    BY ONLY <1>2, <1>3, <2>4, <2>5, <2>6 DEF Respan, Sound
  <2> QED BY <1>6, <2>7 DEF g, f
<1> QED BY <1>4, <1>5, <1>6

(* What candidate_list_upkeep leaves is sound.                             *)
LEMMA NewSound ==
    ASSUME NEW E, NEW T, NEW X, Coming(E, T, X)
    PROVE  AllSound({NewOf(E, T, X, c) : c \in T})
<1>1. \A c \in T : Sound(NewOf(E, T, X, c)) /\ NewOf(E, T, X, c).piece = c
  BY NewIs
<1>2. ASSUME NEW c \in T, c + 1 \in T
      PROVE  NewOf(E, T, X, c + 1).begin = NewOf(E, T, X, c).end
  <2> DEFINE d == c + 1
             f == FirstOf(E, T, X, d)
             g == NewOf(E, T, X, c)
             h == NewOf(E, T, X, d)
  <2>1. c \in Pieces /\ c \in Int /\ d \in Pieces /\ d - 1 = c
    BY <1>2 DEF Coming, Pieces
  <2>2. h.begin = f.begin
    BY <1>2, NewIs
  <2>3. f.begin = IF Listing(E, d)
                  THEN IF Listing(E, d - 1) /\ d - 1 \notin T THEN RawBegin(d) ELSE OldOf(E, d).begin
                  ELSE IF d - 1 \in T THEN EndBefore(E, d - 1) ELSE RawBegin(d)
    BY <1>2, FirstIs
  <2>4. g.end = IF ~Listing(E, c + 1) THEN EndBefore(E, c)
                ELSE IF c + 1 \in T THEN OldOf(E, c + 1).begin ELSE RawEnd(c)
    BY NewIs
  <2> HIDE DEF f, g, h
  <2>5. f.begin = IF Listing(E, d) THEN OldOf(E, d).begin ELSE EndBefore(E, c)
    BY <2>1, <2>3
  <2>6. g.end = IF Listing(E, d) THEN OldOf(E, d).begin ELSE EndBefore(E, c)
    BY <1>2, <2>4
  <2>7. h.begin = g.end
    BY <2>2, <2>5, <2>6
  <2> QED BY <2>7 DEF g, h
<1>3. Meet({NewOf(E, T, X, c) : c \in T})
  <2> SUFFICES ASSUME NEW c \in T, NEW d \in T, NewOf(E, T, X, d).piece = NewOf(E, T, X, c).piece + 1
               PROVE  NewOf(E, T, X, d).begin = NewOf(E, T, X, c).end
    BY DEF Meet
  <2>1. d = c + 1
    BY <1>1
  <2> QED BY <1>2, <2>1
<1> QED BY <1>1, <1>3 DEF AllSound

(* Cutting where there is nothing to cut.                                  *)
LEMMA CutNothing ==
    ASSUME NEW x \in Cands, NEW b \in Int
    PROVE  /\ x.end <= b /\ x.unrequested \subseteq x.begin .. x.end - 1 => CutEnd(x, b) = x
           /\ b <= x.begin /\ x.unrequested \subseteq x.begin .. x.end - 1 => CutBegin(x, b) = x
<1>1. x.begin \in Int /\ x.end \in Int
  BY DEF Cands
<1>2. Respan(x, x.begin, x.end, x.unrequested, x)
  BY DEF Respan
<1>3. Respan(x, Max2(x.begin, b), x.end, AtLeast(x.unrequested, b), CutBegin(x, b))
      /\ Respan(x, x.begin, Min2(x.end, b), Below(x.unrequested, b), CutEnd(x, b))
  BY ONLY x \in Cands, b \in Int, CutIs
<1>4. ASSUME x.end <= b, x.unrequested \subseteq x.begin .. x.end - 1 PROVE CutEnd(x, b) = x
  <2>1. Min2(x.end, b) = x.end
    BY <1>1, <1>4 DEF Min2
  <2>2. Below(x.unrequested, b) = x.unrequested
    BY <1>1, <1>4 DEF Below
  <2>3. Respan(x, x.begin, x.end, x.unrequested, CutEnd(x, b))
    BY <1>3, <2>1, <2>2
  <2> QED BY <1>2, <2>3, RespanOnce
<1>5. ASSUME b <= x.begin, x.unrequested \subseteq x.begin .. x.end - 1 PROVE CutBegin(x, b) = x
  <2>1. Max2(x.begin, b) = x.begin
    BY <1>1, <1>5 DEF Max2
  <2>2. AtLeast(x.unrequested, b) = x.unrequested
    BY <1>1, <1>5 DEF AtLeast
  <2>3. Respan(x, x.begin, x.end, x.unrequested, CutBegin(x, b))
    BY <1>3, <2>1, <2>2
  <2> QED BY <1>2, <2>3, RespanOnce
<1> QED BY <1>4, <1>5

(* A candidate may take its edge from a neighbour that has taken its own.  *)
LEMMA BegunFromBegun ==
    ASSUME NEW E, NEW T, NEW X, Coming(E, T, X), NEW c, Listing(E, c), Listing(E, c + 1), c \notin T
    PROVE  RegainBegin(OldOf(E, c + 1), Begun(E, T, c)) = Begun(E, T, c + 1)
<1> DEFINE x == OldOf(E, c + 1)
           y == OldOf(E, c)
           z == Begun(E, T, c)
           u(w) == x.unrequested \cup ((RawBegin(x.piece) .. x.begin - 1) \cap w.unrequested)
<1>1. /\ c \in Int /\ c \in Pieces /\ c + 1 \in Pieces /\ Sound(x) /\ Sound(y)
      /\ x.piece = c + 1 /\ y.piece = c /\ x \in Cands /\ y \in Cands
  BY OldIs
<1>2. Begun(E, T, c + 1) = RegainBegin(x, y)
  <2>1. (c + 1) - 1 = c
    BY <1>1
  <2> QED BY <2>1 DEF Begun
<1>3. Sound(z) /\ z \in Cands
  BY BegunIs DEF Sound
<1>4. (RawBegin(c + 1) .. x.begin - 1) \cap z.unrequested = (RawBegin(c + 1) .. x.begin - 1) \cap y.unrequested
  <2>1. CASE Listing(E, c - 1) /\ c - 1 \notin T
    <3> DEFINE v == OldOf(E, c - 1)
               t == y.unrequested \cup ((RawBegin(y.piece) .. y.begin - 1) \cap v.unrequested)
    <3>1. v \in Cands
      BY <2>1, OldIs
    <3>2. z = RegainBegin(y, v)
      BY <2>1 DEF Begun
    <3> HIDE DEF v, z, x, y
    <3>3. Respan(y, RawBegin(y.piece), y.end, t, RegainBegin(y, v))
      BY <1>1, <3>1, RegainIs
    <3>4. z.unrequested = t
      BY <3>2, <3>3 DEF Respan
    <3>5. y.begin <= RawBegin(c + 1) /\ y.begin \in Nat /\ RawBegin(c + 1) \in Nat /\ RawBegin(c) \in Nat
          /\ x.begin \in Nat
      <4>1. y.begin \in LowEdges(c)
        BY <1>1 DEF Sound
      <4> QED BY <1>1, <4>1, LowEdge, RawSpan, SoundSpan
    <3>6. (RawBegin(c + 1) .. x.begin - 1) \cap (RawBegin(c) .. y.begin - 1) = {}
      BY <3>5
    <3> QED BY <1>1, <3>4, <3>6
  <2>2. CASE ~(Listing(E, c - 1) /\ c - 1 \notin T)
    BY <2>2 DEF Begun
  <2> QED BY <2>1, <2>2
<1>5. u(z) = u(y)
  BY <1>1, <1>4
<1> HIDE DEF x, y, z
<1>6. Respan(x, RawBegin(x.piece), x.end, u(z), RegainBegin(x, z))
      /\ Respan(x, RawBegin(x.piece), x.end, u(y), RegainBegin(x, y))
  BY <1>1, <1>3, RegainIs
<1>7. RegainBegin(x, z) = RegainBegin(x, y)
  <2> HIDE DEF u
  <2> QED BY <1>5, <1>6, RespanOnce
<1> QED BY <1>2, <1>7 DEF x, z

(***************************************************************************)
(* The walk itself.                                                        *)
(***************************************************************************)
Walks == {w \in [list : Seq(Cands), old : Nat, at : Nat, prev : Nat] :
             /\ w.at \in 1 .. w.old + 1 /\ w.old <= Len(w.list)
             /\ w.prev \in 0 .. Len(w.list)}

KeepList(w) ==
    IF w.prev = 0 THEN w.list
    ELSE [w.list EXCEPT ![w.prev] = CutEnd(w.list[w.prev], w.list[w.at].begin)]

MadeOne(w, x) == IF w.prev = 0 THEN x ELSE CutBegin(x, w.list[w.prev].end)

EraseLeft(w) ==
    IF w.prev # 0 /\ w.list[w.prev].piece + 1 = w.list[w.at].piece
    THEN [w.list EXCEPT ![w.prev] = RegainEnd(w.list[w.prev], w.list[w.at])] ELSE w.list

EraseBoth(w) ==
    IF w.at < w.old /\ EraseLeft(w)[w.at + 1].piece = w.list[w.at].piece + 1
    THEN [EraseLeft(w) EXCEPT ![w.at + 1] = RegainBegin(EraseLeft(w)[w.at + 1], w.list[w.at])]
    ELSE EraseLeft(w)

WalkFacts(w) ==
    /\ w.list \in Seq(Cands) /\ w.old \in Nat /\ w.at \in Nat /\ w.prev \in Nat
    /\ w.at >= 1 /\ w.at <= w.old + 1 /\ w.old <= Len(w.list) /\ w.prev <= Len(w.list)
    /\ Len(w.list) \in Nat /\ DOMAIN w.list = 1 .. Len(w.list)
    /\ \A i \in 1 .. Len(w.list) : w.list[i] \in Cands
    /\ w.prev # 0 => w.list[w.prev] \in Cands
    /\ w.at <= w.old => w.list[w.at] \in Cands

(* The parts of a state of the walk.                                       *)
LEMMA WalkIs ==
    ASSUME NEW w \in Walks
    PROVE  WalkFacts(w)
<1>1. w.list \in Seq(Cands) /\ w.old \in Nat /\ w.at \in Nat /\ w.prev \in Nat
      /\ w.at >= 1 /\ w.at <= w.old + 1 /\ w.old <= Len(w.list) /\ w.prev <= Len(w.list)
  BY DEF Walks
<1>2. Len(w.list) \in Nat /\ DOMAIN w.list = 1 .. Len(w.list)
      /\ \A i \in 1 .. Len(w.list) : w.list[i] \in Cands
  BY <1>1
<1>3. w.prev # 0 => w.prev \in 1 .. Len(w.list)
  BY <1>1
<1>4. w.at <= w.old => w.at \in 1 .. Len(w.list)
  BY <1>1, <1>2
<1> QED BY <1>1, <1>2, <1>3, <1>4 DEF WalkFacts

(* A candidate is replaced by another.                                     *)
LEMMA ReplacedSeq ==
    ASSUME NEW l \in Seq(Cands), NEW i \in 1 .. Len(l), NEW x \in Cands
    PROVE  /\ [l EXCEPT ![i] = x] \in Seq(Cands) /\ Len([l EXCEPT ![i] = x]) = Len(l)
           /\ \A j \in 1 .. Len(l) : [l EXCEPT ![i] = x][j] = IF j = i THEN x ELSE l[j]
OBVIOUS

IsWalk(v, l, old, at, prev) ==
    /\ v \in Walks /\ v.list = l /\ v.old = old /\ v.at = at /\ v.prev = prev

(* The step that keeps the next candidate of the old list.                 *)
LEMMA KeepIs ==
    ASSUME NEW w \in Walks, w.at <= w.old
    PROVE  /\ IsWalk(Keep(w), KeepList(w), w.old, w.at + 1, w.at)
           /\ Len(KeepList(w)) = Len(w.list)
           /\ \A j \in 1 .. Len(w.list) :
                KeepList(w)[j] = IF w.prev # 0 /\ j = w.prev THEN CutEnd(w.list[j], w.list[w.at].begin) ELSE w.list[j]
<1> DEFINE l == KeepList(w)
           x == CutEnd(w.list[w.prev], w.list[w.at].begin)
<1>1. WalkFacts(w)
  BY WalkIs
<1>2. l \in Seq(Cands) /\ Len(l) = Len(w.list)
      /\ \A j \in 1 .. Len(w.list) :
           l[j] = IF w.prev # 0 /\ j = w.prev THEN CutEnd(w.list[j], w.list[w.at].begin) ELSE w.list[j]
  <2>1. CASE w.prev = 0
    BY <1>1, <2>1 DEF KeepList, WalkFacts
  <2>2. CASE w.prev # 0
    <3>1. w.prev \in 1 .. Len(w.list) /\ w.list[w.prev] \in Cands /\ w.list[w.at].begin \in Int
      <4>1. w.list[w.at] \in Cands
        BY <1>1 DEF WalkFacts
      <4>2. w.list[w.at].begin \in Int
        BY ONLY <4>1 DEF Cands
      <4> QED BY <1>1, <2>2, <4>2 DEF WalkFacts
    <3> DEFINE p == w.list[w.prev]
               b == w.list[w.at].begin
    <3>2. x \in Cands
      <4>1. Respan(p, p.begin, Min2(p.end, b), Below(p.unrequested, b), CutEnd(p, b))
        <5> HIDE DEF p, b
        <5>1. p \in Cands /\ b \in Int
          BY <3>1 DEF p, b
        <5> QED BY ONLY <5>1, CutIs
      <4> QED BY <4>1 DEF Respan
    <3> HIDE DEF p, b
    <3>3. w.list \in Seq(Cands)
      BY <1>1 DEF WalkFacts
    <3>4. l = [w.list EXCEPT ![w.prev] = x]
      BY <2>2 DEF KeepList
    <3>5. \A j \in 1 .. Len(w.list) : j = w.prev => CutEnd(w.list[j], w.list[w.at].begin) = x
      OBVIOUS
    <3> HIDE DEF x, l
    <3>6. l \in Seq(Cands) /\ Len(l) = Len(w.list)
          /\ \A j \in 1 .. Len(w.list) : l[j] = IF j = w.prev THEN x ELSE w.list[j]
      BY <3>1, <3>2, <3>3, <3>4, ReplacedSeq
    <3> QED BY <2>2, <3>5, <3>6
  <2> QED BY <2>1, <2>2
<1>3. Keep(w) = [w EXCEPT !.list = l, !.at = w.at + 1, !.prev = w.at]
  BY DEF Keep, KeepList
<1> HIDE DEF l
<1>4. /\ Keep(w) \in [list : Seq(Cands), old : Nat, at : Nat, prev : Nat]
      /\ Keep(w).list = l /\ Keep(w).old = w.old /\ Keep(w).at = w.at + 1 /\ Keep(w).prev = w.at
  <2>1. w \in [list : Seq(Cands), old : Nat, at : Nat, prev : Nat]
    BY DEF Walks
  <2>2. l \in Seq(Cands) /\ w.at + 1 \in Nat /\ w.at \in Nat
    BY <1>1, <1>2 DEF WalkFacts
  <2> QED BY ONLY <1>3, <2>1, <2>2
<1>5. Keep(w) \in Walks
  BY <1>1, <1>2, <1>4 DEF WalkFacts, Walks
<1> QED BY <1>2, <1>4, <1>5 DEF IsWalk, l

(* The step that makes a candidate.                                        *)
LEMMA MakeIs ==
    ASSUME NEW w \in Walks, NEW c, NEW H, NEW salt, NEW x \in Cands, x = Candidate(c, H, salt)
    PROVE  /\ IsWalk(Make(w, c, H, salt), Append(w.list, MadeOne(w, x)), w.old, w.at, Len(w.list) + 1)
           /\ MadeOne(w, x) \in Cands
<1> DEFINE y == MadeOne(w, x)
           l == Append(w.list, y)
           v == Make(w, c, H, salt)
<1>1. WalkFacts(w)
  BY WalkIs
<1>2. y \in Cands
  <2>1. CASE w.prev = 0
    BY <2>1 DEF MadeOne
  <2>2. CASE w.prev # 0
    <3> DEFINE b == w.list[w.prev].end
    <3>1. b \in Int
      BY <1>1, <2>2 DEF WalkFacts, Cands
    <3> HIDE DEF b
    <3>2. Respan(x, Max2(x.begin, b), x.end, AtLeast(x.unrequested, b), CutBegin(x, b))
      BY ONLY x \in Cands, <3>1, CutIs
    <3> QED BY <2>2, <3>2 DEF Respan, MadeOne, b
  <2> QED BY <2>1, <2>2
<1>3. v = [w EXCEPT !.list = l, !.prev = Len(w.list) + 1]
  BY DEF Make, MadeOne
<1> HIDE DEF y, v
<1>4. l \in Seq(Cands) /\ Len(l) = Len(w.list) + 1
  BY <1>1, <1>2 DEF WalkFacts
<1> HIDE DEF l
<1>5. /\ v \in [list : Seq(Cands), old : Nat, at : Nat, prev : Nat]
      /\ v.list = l /\ v.old = w.old /\ v.at = w.at /\ v.prev = Len(w.list) + 1
  <2>1. w \in [list : Seq(Cands), old : Nat, at : Nat, prev : Nat]
    BY DEF Walks
  <2>2. l \in Seq(Cands) /\ Len(w.list) + 1 \in Nat
    BY <1>1, <1>4 DEF WalkFacts
  <2> QED BY ONLY <1>3, <2>1, <2>2
<1>6. v \in Walks
  BY <1>1, <1>4, <1>5 DEF WalkFacts, Walks
<1> QED BY <1>2, <1>5, <1>6 DEF IsWalk, v, l, y

(* The step that erases a candidate and gives its edges to its             *)
(* neighbours.                                                             *)
LEMMA EraseIs ==
    ASSUME NEW w \in Walks, w.at <= w.old
    PROVE  /\ IsWalk(Erase(w), RemoveAt(EraseBoth(w), w.at), w.old - 1, w.at, 0)
           /\ EraseBoth(w) \in Seq(Cands) /\ Len(EraseBoth(w)) = Len(w.list)
           /\ \A j \in 1 .. Len(w.list) :
                EraseLeft(w)[j] = IF j = w.prev /\ w.list[w.prev].piece + 1 = w.list[w.at].piece
                                  THEN RegainEnd(w.list[j], w.list[w.at]) ELSE w.list[j]
           /\ \A j \in 1 .. Len(w.list) :
                EraseBoth(w)[j] = IF j = w.at + 1 /\ w.at < w.old /\ EraseLeft(w)[j].piece = w.list[w.at].piece + 1
                                  THEN RegainBegin(EraseLeft(w)[j], w.list[w.at]) ELSE EraseLeft(w)[j]
<1> DEFINE e == w.list[w.at]
           l == EraseLeft(w)
           m == EraseBoth(w)
           v == Erase(w)
<1>1. WalkFacts(w)
  BY WalkIs
<1>2. e \in Cands /\ w.list \in Seq(Cands)
  BY <1>1 DEF WalkFacts
<1>3. l \in Seq(Cands) /\ Len(l) = Len(w.list)
      /\ \A j \in 1 .. Len(w.list) :
           l[j] = IF j = w.prev /\ w.list[w.prev].piece + 1 = e.piece
                  THEN RegainEnd(w.list[j], e) ELSE w.list[j]
  <2> HIDE DEF e
  <2>1. CASE w.prev # 0 /\ w.list[w.prev].piece + 1 = e.piece
    <3> DEFINE p == w.list[w.prev]
               x == RegainEnd(p, e)
    <3>1. w.prev \in 1 .. Len(w.list) /\ p \in Cands
      BY <1>1, <2>1 DEF WalkFacts
    <3>2. l = [w.list EXCEPT ![w.prev] = x]
      BY <2>1 DEF EraseLeft, e
    <3>3. \A j \in 1 .. Len(w.list) : j = w.prev => RegainEnd(w.list[j], e) = x
      OBVIOUS
    <3> HIDE DEF p
    <3>4. x \in Cands
      BY <1>2, <3>1, RegainIs DEF Respan
    <3> HIDE DEF x, l
    <3>5. l \in Seq(Cands) /\ Len(l) = Len(w.list)
          /\ \A j \in 1 .. Len(w.list) : l[j] = IF j = w.prev THEN x ELSE w.list[j]
      BY <1>2, <3>1, <3>2, <3>4, ReplacedSeq
    <3> QED BY <2>1, <3>3, <3>5
  <2>2. CASE ~(w.prev # 0 /\ w.list[w.prev].piece + 1 = e.piece)
    <3>1. l = w.list
      BY <2>2 DEF EraseLeft, e
    <3>2. \A j \in 1 .. Len(w.list) : ~(j = w.prev /\ w.list[w.prev].piece + 1 = e.piece)
      BY <1>1, <2>2 DEF WalkFacts
    <3> HIDE DEF l
    <3> QED BY <1>2, <3>1, <3>2
  <2> QED BY <2>1, <2>2
<1>4. m = IF w.at < w.old /\ l[w.at + 1].piece = e.piece + 1
          THEN [l EXCEPT ![w.at + 1] = RegainBegin(l[w.at + 1], e)] ELSE l
  BY DEF EraseBoth
<1>5. v = [w EXCEPT !.list = RemoveAt(m, w.at), !.old = w.old - 1, !.prev = 0]
  BY DEF Erase, EraseBoth, EraseLeft
<1> HIDE DEF e, l, m, v
<1>6. m \in Seq(Cands) /\ Len(m) = Len(w.list)
      /\ \A j \in 1 .. Len(w.list) :
           m[j] = IF j = w.at + 1 /\ w.at < w.old /\ l[j].piece = e.piece + 1
                  THEN RegainBegin(l[j], e) ELSE l[j]
  <2>1. CASE w.at < w.old /\ l[w.at + 1].piece = e.piece + 1
    <3> DEFINE i == w.at + 1
               p == l[i]
               x == RegainBegin(p, e)
    <3>1. i \in 1 .. Len(l) /\ p \in Cands
      BY <1>1, <1>3, <2>1 DEF WalkFacts
    <3>2. m = [l EXCEPT ![i] = x]
      BY <1>4, <2>1
    <3>3. \A j \in 1 .. Len(l) : j = i => RegainBegin(l[j], e) = x /\ l[j].piece = e.piece + 1
      BY <2>1
    <3> HIDE DEF p
    <3>4. x \in Cands
      BY <1>2, <3>1, RegainIs DEF Respan
    <3>5. i = w.at + 1
      OBVIOUS
    <3> HIDE DEF x, i
    <3>6. m \in Seq(Cands) /\ Len(m) = Len(l)
          /\ \A j \in 1 .. Len(l) : m[j] = IF j = i THEN x ELSE l[j]
      BY <1>3, <3>1, <3>2, <3>4, ReplacedSeq
    <3> QED BY <1>3, <2>1, <3>3, <3>5, <3>6
  <2>2. CASE ~(w.at < w.old /\ l[w.at + 1].piece = e.piece + 1)
    <3>1. m = l
      BY <1>4, <2>2
    <3> QED BY <1>3, <2>2, <3>1
  <2> QED BY <2>1, <2>2
<1>7. RemoveAt(m, w.at) \in Seq(Cands) /\ Len(RemoveAt(m, w.at)) = Len(w.list) - 1
  <2>1. w.at \in 1 .. Len(m)
    BY <1>1, <1>6 DEF WalkFacts
  <2>2. Without(RemoveAt(m, w.at), Cands, m, w.at)
    BY <1>6, <2>1, Removed
  <2> QED BY <1>6, <2>2 DEF Without
<1> DEFINE k == RemoveAt(m, w.at)
<1> HIDE DEF k
<1>8. /\ v \in [list : Seq(Cands), old : Nat, at : Nat, prev : Nat]
      /\ v.list = k /\ v.old = w.old - 1 /\ v.at = w.at /\ v.prev = 0
  <2>1. k \in Seq(Cands) /\ w.old - 1 \in Nat
    BY <1>1, <1>7 DEF WalkFacts, k
  <2> QED BY <1>1, <1>5, <2>1 DEF WalkFacts, Walks, k
<1>9. v \in Walks
  <2>1. Len(k) = Len(w.list) - 1
    BY <1>7 DEF k
  <2> QED BY <1>1, <1>8, <2>1 DEF WalkFacts, Walks
<1> QED BY <1>3, <1>6, <1>8, <1>9 DEF IsWalk, v, m, l, e, k

UpkeepStep(W, H, random, w, c) ==
    LET existing == w.at <= w.old /\ w.list[w.at].piece = c
        target   == c \in W /\ ~((RawBegin(c) .. RawEnd(c) - 1) \subseteq H)
    IN  IF target THEN IF existing THEN Keep(w) ELSE Make(w, c, H, Salt(c, random, sequential, fromPiece))
        ELSE IF existing THEN Erase(w) ELSE w

UpkeepStart(l) == [list |-> SortByPiece(l), old |-> Len(l), at |-> 1, prev |-> 0]

UpkeepFold(l, W, H, random, h) ==
    h = [s \in SUBSET DOMAIN Ascending(PieceCount) |->
            IF s = {} THEN UpkeepStart(l)
            ELSE UpkeepStep(W, H, random, h[s \ {Max(s)}], Ascending(PieceCount)[Max(s)])]

UpkeepAll(l, W, H, random) ==
    (CHOOSE h : UpkeepFold(l, W, H, random, h))[DOMAIN Ascending(PieceCount)]

(* candidate_list_upkeep is the walk, then the sort.                       *)
LEMMA UpkeepFoldIs ==
    ASSUME NEW l, NEW W, NEW H, NEW random
    PROVE  Upkeep(l, W, H, random) = Sort(UpkeepAll(l, W, H, random).list)
BY Zenon DEF Upkeep, FoldLeft, MapThenFoldSet, UpkeepFold, UpkeepStep, UpkeepStart, UpkeepAll

Target(W, H) == {c \in W \cap Pieces : ~((RawBegin(c) .. RawEnd(c) - 1) \subseteq H)}
FreshOf(H, random) == [c \in Pieces |-> Candidate(c, H, Salt(c, random, sequential, fromPiece))]
Existing(w, c) == w.at <= w.old /\ w.list[w.at].piece = c

(* The settings that candidates are made with.                             *)
Settings(random) == ModeKnown /\ fromPiece \in Pieces /\ random \in Randoms

(* The candidates the upkeep makes have the whole raw span and all blocks  *)
(* not yet had.                                                            *)
LEMMA FreshIs ==
    ASSUME NEW H, NEW random, Settings(random)
    PROVE  /\ \A c \in Pieces : Fresh(c, H, Salt(c, random, sequential, fromPiece), FreshOf(H, random)[c])
           /\ RawCands(FreshOf(H, random))
<1>1. ASSUME NEW c \in Pieces
      PROVE  Fresh(c, H, Salt(c, random, sequential, fromPiece), FreshOf(H, random)[c])
  <2>1. PICK seq \in BOOLEAN : seq = sequential
    BY DEF Settings, ModeKnown
  <2>2. Salt(c, random, seq, fromPiece) \in Int
    BY SaltType DEF Settings
  <2>3. ModeKnown /\ Salt(c, random, sequential, fromPiece) \in Int
    BY <2>1, <2>2 DEF Settings
  <2>4. Fresh(c, H, Salt(c, random, sequential, fromPiece),
              Candidate(c, H, Salt(c, random, sequential, fromPiece)))
    BY <2>3, CandidateIs
  <2> QED BY <2>4 DEF FreshOf
<1>2. RawCands(FreshOf(H, random))
  <2> DEFINE X == FreshOf(H, random)
  <2> SUFFICES ASSUME NEW c \in Pieces
               PROVE  /\ X[c] \in Cands /\ X[c].piece = c /\ X[c].begin = RawBegin(c) /\ X[c].end = RawEnd(c)
                      /\ X[c].unrequested \subseteq RawBegin(c) .. RawEnd(c) - 1
    BY DEF RawCands
  <2>1. Fresh(c, H, Salt(c, random, sequential, fromPiece), X[c])
    BY <1>1
  <2> QED BY <2>1 DEF Fresh
<1> QED BY <1>1, <1>2

(* One step of the walk.                                                   *)
LEMMA UpkeepStepIs ==
    ASSUME NEW W, NEW H, NEW random, Settings(random), NEW w \in Walks, NEW c \in Pieces
    PROVE  LET v == UpkeepStep(W, H, random, w, c)
               x == FreshOf(H, random)[c]
           IN  /\ v \in Walks
               /\ c \in Target(W, H) /\ Existing(w, c) =>
                    v = Keep(w)
               /\ c \in Target(W, H) /\ ~Existing(w, c) =>
                    IsWalk(v, Append(w.list, MadeOne(w, x)), w.old, w.at, Len(w.list) + 1)
               /\ c \notin Target(W, H) /\ Existing(w, c) =>
                    v = Erase(w)
               /\ c \notin Target(W, H) /\ ~Existing(w, c) => v = w
<1> DEFINE v == UpkeepStep(W, H, random, w, c)
           s == Salt(c, random, sequential, fromPiece)
           x == FreshOf(H, random)[c]
<1>1. v = IF c \in Target(W, H) THEN IF Existing(w, c) THEN Keep(w) ELSE Make(w, c, H, s)
          ELSE IF Existing(w, c) THEN Erase(w) ELSE w
  BY DEF UpkeepStep, Target, Existing
<1>2. x = Candidate(c, H, s) /\ x \in Cands
  <2>1. Fresh(c, H, s, x)
    BY FreshIs
  <2> QED BY <2>1 DEF Fresh, FreshOf
<1> HIDE DEF v, s, x
<1>3. IsWalk(Make(w, c, H, s), Append(w.list, MadeOne(w, x)), w.old, w.at, Len(w.list) + 1)
  BY <1>2, MakeIs
<1>4. Existing(w, c) => Keep(w) \in Walks /\ Erase(w) \in Walks
  <2> SUFFICES ASSUME Existing(w, c) PROVE Keep(w) \in Walks /\ Erase(w) \in Walks
    OBVIOUS
  <2>1. w.at <= w.old
    BY DEF Existing
  <2> QED BY <2>1, KeepIs, EraseIs DEF IsWalk
<1>5. v \in Walks
  BY <1>1, <1>3, <1>4 DEF IsWalk
<1> QED BY <1>1, <1>3, <1>5 DEF v, x

(* The walk starts on the old list, sorted by piece.                       *)
LEMMA StartIs ==
    ASSUME NEW l \in Lists
    PROVE  UpkeepStart(l) \in Walks
<1>1. SortByPiece(l) \in Lists /\ Len(SortByPiece(l)) = Len(l)
  BY SortByPieceSame DEF Same
<1>2. SortByPiece(l) \in Seq(Cands) /\ Len(l) \in Nat
  BY <1>1 DEF Lists
<1> QED BY <1>1, <1>2 DEF UpkeepStart, Walks

(* The walk, piece by piece.                                               *)
LEMMA UpkeepIsWalked ==
    ASSUME NEW l \in Lists, NEW W, NEW H, NEW random, Settings(random)
    PROVE  \E after : /\ after[0] = UpkeepStart(l)
                      /\ \A k \in 1 .. PieceCount : after[k] = UpkeepStep(W, H, random, after[k - 1], k - 1)
                      /\ UpkeepAll(l, W, H, random) = after[PieceCount]
<1> DEFINE n == PieceCount
           U == Walks
           St(w, c) == UpkeepStep(W, H, random, w, c)
           b == UpkeepStart(l)
           g == [p \in U \X (1 .. n) |-> St(p[1], p[2] - 1)]
<1>1. n \in Nat /\ \A k \in 1 .. n : k - 1 \in Pieces
  BY Counts DEF Pieces
<1>2. DOMAIN Ascending(PieceCount) = 1 .. n /\ \A k \in 1 .. n : Ascending(PieceCount)[k] = k - 1
  BY DEF Ascending
<1>0. b \in U
  BY StartIs
<1> HIDE DEF n, b
<1>3. g \in [U \X (1 .. n) -> U] /\ \A w \in U, k \in 1 .. n : g[<<w, k>>] = St(w, k - 1)
  <2>1. \A p \in U \X (1 .. n) : St(p[1], p[2] - 1) \in U
    <3> SUFFICES ASSUME NEW w \in U, NEW k \in 1 .. n PROVE St(w, k - 1) \in U
      OBVIOUS
    <3>1. k - 1 \in Pieces
      BY <1>1
    <3> QED BY <3>1, UpkeepStepIs
  <2> HIDE DEF U, St
  <2> QED BY <2>1
<1> HIDE DEF g, U
<1>4. PICK f \in [SUBSET (1 .. n) -> U] : Folds(f, g, b, n)
  BY <1>0, <1>1, <1>3, FoldExists
<1>5. UpkeepFold(l, W, H, random, f)
  <2>1. ASSUME NEW s \in SUBSET (1 .. n)
        PROVE  f[s] = IF s = {} THEN b ELSE St(f[s \ {Max(s)}], Ascending(PieceCount)[Max(s)])
    <3>1. f[s] = IF s = {} THEN b ELSE g[<<f[s \ {Max(s)}], Max(s)>>]
      BY <1>4 DEF Folds
    <3>2. CASE s = {}
      BY <3>1, <3>2
    <3>3. CASE s # {}
      <4>1. Max(s) \in s
        <5>1. s \subseteq 0 .. n
          BY <1>1
        <5> QED BY <1>1, <3>3, <5>1, MaxOf
      <4>2. Max(s) \in 1 .. n /\ f[s \ {Max(s)}] \in U
        BY <1>4, <4>1
      <4> HIDE DEF St
      <4> QED BY <1>2, <1>3, <3>1, <3>3, <4>2
    <3> QED BY <3>2, <3>3
  <2>2. f = [s \in SUBSET (1 .. n) |-> f[s]]
    BY <1>4
  <2> QED BY <1>2, <2>1, <2>2 DEF UpkeepFold, b
<1> DEFINE h == CHOOSE x : UpkeepFold(l, W, H, random, x)
           after == [k \in 0 .. n |-> h[1 .. k]]
<1>6. UpkeepFold(l, W, H, random, h)
  BY <1>5
<1>7. UpkeepAll(l, W, H, random) = h[1 .. n]
  BY <1>2 DEF UpkeepAll
<1> HIDE DEF h
<1>8. \A s \in SUBSET (1 .. n) :
          h[s] = IF s = {} THEN b ELSE St(h[s \ {Max(s)}], Ascending(PieceCount)[Max(s)])
  BY <1>2, <1>6 DEF UpkeepFold, b
<1>9. \A k \in 0 .. n : after[k] = h[1 .. k]
  OBVIOUS
<1> HIDE DEF after
<1>10. after[0] = b
  <2>1. 1 .. 0 = {} /\ {} \in SUBSET (1 .. n) /\ 0 \in 0 .. n
    BY <1>1
  <2> QED BY <1>8, <1>9, <2>1
<1>11. ASSUME NEW k \in 1 .. n PROVE after[k] = St(after[k - 1], k - 1)
  <2>1. /\ 1 .. k # {} /\ Max(1 .. k) = k /\ (1 .. k) \ {k} = 1 .. (k - 1)
        /\ 1 .. k \in SUBSET (1 .. n)
    BY <1>1, FoldOrder
  <2> HIDE DEF St
  <2>2. h[1 .. k] = St(h[1 .. (k - 1)], Ascending(PieceCount)[k])
    BY <1>8, <2>1
  <2>3. k \in 0 .. n /\ k - 1 \in 0 .. n
    BY <1>1
  <2> QED BY <1>2, <1>9, <2>2, <2>3
<1>12. n \in 0 .. n
  BY <1>1
<1> QED BY <1>7, <1>9, <1>10, <1>11, <1>12 DEF n, b

(***************************************************************************)
(* What has become of the candidate of piece c when the walk has passed    *)
(* the pieces below k, and of which pieces there are candidates then.      *)
(***************************************************************************)
Now(E, T, X, k, c) ==
    IF c < k - 1 THEN NewOf(E, T, X, c)
    ELSE IF c = k - 1 THEN FirstOf(E, T, X, c)
    ELSE IF c = k THEN Begun(E, T, c) ELSE OldOf(E, c)

Kept(E, T, k) == {c \in Pieces : (c \in T /\ c < k) \/ (Listing(E, c) /\ c >= k)}

Values(E, T, X, k, l) ==
    \A i \in 1 .. Len(l) : l[i].piece \in Kept(E, T, k) /\ l[i] = Now(E, T, X, k, l[i].piece)
Covers(E, T, k, l) == \A c \in Kept(E, T, k) : \E i \in 1 .. Len(l) : l[i].piece = c

(* The old candidates from `at' on are those that are still to come.       *)
Placement(k, w) ==
    \A i \in 1 .. Len(w.list) : (i < w.at \/ i > w.old) <=> w.list[i].piece < k
Rising(w) == \A i, j \in w.at .. w.old : i < j => w.list[i].piece < w.list[j].piece

(* prev points to the candidate of the piece before, if it has one.        *)
Latest(T, k, w) ==
    /\ w.prev # 0 => w.list[w.prev].piece < k
    /\ k - 1 \in T => w.prev # 0 /\ w.list[w.prev].piece = k - 1

WalkInv(E, T, X, k, w) ==
    /\ w \in Walks /\ Keyed(w.list)
    /\ Values(E, T, X, k, w.list) /\ Covers(E, T, k, w.list)
    /\ Placement(k, w) /\ Rising(w) /\ Latest(T, k, w)

(* What is known of a candidate in the middle of the walk.                 *)
LEMMA NowIs ==
    ASSUME NEW E, NEW T, NEW X, Coming(E, T, X), NEW k \in Int, NEW c \in Kept(E, T, k)
    PROVE  Sound(Now(E, T, X, k, c)) /\ Now(E, T, X, k, c).piece = c /\ c \in Int /\ c \in Pieces
<1>1. c \in Int /\ c \in Pieces /\ (c < k => c \in T) /\ (c >= k => Listing(E, c))
  BY DEF Kept, Pieces
<1>2. CASE c < k - 1
  <2>1. Sound(NewOf(E, T, X, c)) /\ NewOf(E, T, X, c).piece = c
    BY <1>1, <1>2, NewIs
  <2> QED BY <1>1, <1>2, <2>1 DEF Now
<1>3. CASE c = k - 1
  <2>1. Sound(FirstOf(E, T, X, c)) /\ FirstOf(E, T, X, c).piece = c
    BY <1>1, <1>3, FirstIs
  <2> QED BY <1>1, <1>3, <2>1 DEF Now
<1>4. CASE c = k
  <2>1. Sound(Begun(E, T, c)) /\ Begun(E, T, c).piece = c
    BY <1>1, <1>4, BegunIs
  <2> QED BY <1>1, <1>4, <2>1 DEF Now
<1>5. CASE c > k
  <2>1. Sound(OldOf(E, c)) /\ OldOf(E, c).piece = c
    BY <1>1, <1>5, OldIs
  <2> QED BY <1>1, <1>5, <2>1 DEF Now
<1> QED BY <1>1, <1>2, <1>3, <1>4, <1>5

(* What the step over piece k has to do to each candidate.                 *)
LEMMA NowStep ==
    ASSUME NEW E, NEW T, NEW X, Coming(E, T, X), NEW k \in Pieces, NEW c \in Kept(E, T, k)
    PROVE  /\ c < k - 1 => Now(E, T, X, k + 1, c) = Now(E, T, X, k, c)
           /\ c > k + 1 => Now(E, T, X, k + 1, c) = Now(E, T, X, k, c)
           /\ c = k - 1 =>
                /\ c \in T /\ Now(E, T, X, k, c) = FirstOf(E, T, X, c)
                /\ ~Listing(E, k) => Now(E, T, X, k + 1, c) = Now(E, T, X, k, c)
                /\ Listing(E, k) /\ k \in T =>
                     Now(E, T, X, k + 1, c) = CutEnd(Now(E, T, X, k, c), Begun(E, T, k).begin)
                /\ Listing(E, k) /\ k \notin T =>
                     Now(E, T, X, k + 1, c) = RegainEnd(Now(E, T, X, k, c), Begun(E, T, k))
           /\ c = k => /\ Listing(E, k) /\ Now(E, T, X, k, c) = Begun(E, T, k)
                       /\ k \in T => Now(E, T, X, k + 1, c) = Begun(E, T, k)
           /\ c = k + 1 =>
                /\ Listing(E, c)
                /\ Listing(E, k) /\ k \notin T =>
                     Now(E, T, X, k + 1, c) = RegainBegin(Now(E, T, X, k, c), Begun(E, T, k))
                /\ ~(Listing(E, k) /\ k \notin T) => Now(E, T, X, k + 1, c) = Now(E, T, X, k, c)
<1>1. /\ c \in Int /\ k \in Int /\ (k + 1) - 1 = k
      /\ c < k => c \in T
      /\ c >= k => Listing(E, c)
  BY DEF Kept, Pieces
<1>2. c < k - 1 => Now(E, T, X, k + 1, c) = Now(E, T, X, k, c)
  BY <1>1 DEF Now
<1>3. c > k + 1 => Now(E, T, X, k + 1, c) = Now(E, T, X, k, c)
  BY <1>1 DEF Now
<1>4. ASSUME c = k - 1
      PROVE  /\ c \in T /\ Now(E, T, X, k, c) = FirstOf(E, T, X, c)
             /\ ~Listing(E, k) => Now(E, T, X, k + 1, c) = Now(E, T, X, k, c)
             /\ Listing(E, k) /\ k \in T =>
                  Now(E, T, X, k + 1, c) = CutEnd(Now(E, T, X, k, c), Begun(E, T, k).begin)
             /\ Listing(E, k) /\ k \notin T =>
                  Now(E, T, X, k + 1, c) = RegainEnd(Now(E, T, X, k, c), Begun(E, T, k))
  <2>1. c + 1 = k /\ c \in T /\ c < (k + 1) - 1
    BY <1>1, <1>4
  <2>2. Now(E, T, X, k, c) = FirstOf(E, T, X, c) /\ Now(E, T, X, k + 1, c) = NewOf(E, T, X, c)
    BY <1>1, <1>4, <2>1 DEF Now
  <2>3. Begun(E, T, k) = OldOf(E, k)
    BY <1>1, <1>4, <2>1 DEF Begun
  <2> QED BY <2>1, <2>2, <2>3 DEF NewOf
<1>5. ASSUME c = k
      PROVE  /\ Listing(E, k) /\ Now(E, T, X, k, c) = Begun(E, T, k)
             /\ k \in T => Now(E, T, X, k + 1, c) = Begun(E, T, k)
  BY <1>1, <1>5 DEF Now, FirstOf
<1>6. ASSUME c = k + 1
      PROVE  /\ Listing(E, c)
             /\ Listing(E, k) /\ k \notin T =>
                  Now(E, T, X, k + 1, c) = RegainBegin(Now(E, T, X, k, c), Begun(E, T, k))
             /\ ~(Listing(E, k) /\ k \notin T) => Now(E, T, X, k + 1, c) = Now(E, T, X, k, c)
  <2>1. Listing(E, c) /\ c - 1 = k /\ c > k
    BY <1>1, <1>6
  <2>2. Now(E, T, X, k, c) = OldOf(E, c) /\ Now(E, T, X, k + 1, c) = Begun(E, T, c)
    BY <1>1, <1>6 DEF Now
  <2>3. Listing(E, k) /\ k \notin T => RegainBegin(OldOf(E, c), Begun(E, T, k)) = Begun(E, T, c)
    BY <1>6, <2>1, BegunFromBegun
  <2>4. ~(Listing(E, k) /\ k \notin T) => Begun(E, T, c) = OldOf(E, c)
    BY <2>1 DEF Begun
  <2> QED BY <2>1, <2>2, <2>3, <2>4
<1> QED BY <1>2, <1>3, <1>4, <1>5, <1>6

(* The walk finds the candidate of the piece it is at.                     *)
LEMMA ExistingIs ==
    ASSUME NEW E, NEW T, NEW X, Coming(E, T, X), NEW k \in Pieces, NEW w, WalkInv(E, T, X, k, w)
    PROVE  Existing(w, k) <=> Listing(E, k)
<1>1. WalkFacts(w) /\ k \in Int
  BY WalkIs DEF WalkInv, Pieces
<1>2. ASSUME Existing(w, k) PROVE Listing(E, k)
  <2>1. w.at \in 1 .. Len(w.list) /\ w.list[w.at].piece = k
    BY <1>1, <1>2 DEF Existing, WalkFacts
  <2>2. k \in Kept(E, T, k)
    BY <2>1 DEF WalkInv, Values
  <2> QED BY <1>1, <2>2 DEF Kept
<1>3. ASSUME Listing(E, k) PROVE Existing(w, k)
  <2>1. k \in Kept(E, T, k)
    BY <1>1, <1>3 DEF Kept
  <2>2. PICK i \in 1 .. Len(w.list) : w.list[i].piece = k
    BY <2>1 DEF WalkInv, Covers
  <2>3. i >= w.at /\ i <= w.old
    BY <1>1, <2>2 DEF WalkInv, Placement, WalkFacts
  <2>4. w.at \in 1 .. Len(w.list) /\ w.at <= w.old
    BY <1>1, <2>3 DEF WalkFacts
  <2>5. w.list[w.at].piece >= k
    <3>1. ~(w.list[w.at].piece < k) /\ w.list[w.at].piece \in Pieces
      <4>1. Placement(k, w) /\ ~(w.at < w.at) /\ ~(w.at > w.old)
        BY <1>1, <2>4 DEF WalkInv, WalkFacts
      <4>2. ~(w.list[w.at].piece < k)
        BY <2>4, <4>1 DEF Placement
      <4>3. w.list[w.at].piece \in Kept(E, T, k)
        BY <2>4 DEF WalkInv, Values
      <4> QED BY <4>2, <4>3 DEF Kept
    <3> QED BY <1>1, <3>1 DEF Pieces
  <2>6. w.list[w.at].piece = k
    <3>1. CASE i = w.at
      BY <2>2, <3>1
    <3>2. CASE w.at < i
      <4>1. w.at \in w.at .. w.old /\ i \in w.at .. w.old
        BY <1>1, <2>3, <2>4 DEF WalkFacts
      <4>2. w.list[w.at].piece < w.list[i].piece
        BY <3>2, <4>1 DEF WalkInv, Rising
      <4>3. w.list[w.at].piece \in Int
        <5>1. w.list[w.at].piece \in Kept(E, T, k)
          BY <2>4 DEF WalkInv, Values
        <5> QED BY <5>1 DEF Kept, Pieces
      <4> QED BY ONLY <2>2, <2>5, <4>2, <4>3, <1>1
    <3> QED BY <1>1, <2>3, <3>1, <3>2 DEF WalkFacts
  <2> QED BY <2>4, <2>6 DEF Existing
<1> QED BY <1>2, <1>3

(* Whose candidates there are when the walk has passed piece k.            *)
LEMMA KeptIs ==
    ASSUME NEW E, NEW T, NEW k \in Pieces
    PROVE  /\ k \in Int /\ k + 1 \in Int
           /\ k \in Kept(E, T, k) <=> Listing(E, k)
           /\ k \in Kept(E, T, k + 1) <=> k \in T
           /\ \A c \in Pieces : c # k => (c \in Kept(E, T, k + 1) <=> c \in Kept(E, T, k))
<1>1. k \in Int /\ \A c \in Pieces : c \in Int
  BY DEF Pieces
<1>2. k \in Kept(E, T, k) <=> Listing(E, k)
  BY <1>1 DEF Kept
<1>3. k \in Kept(E, T, k + 1) <=> k \in T
  BY <1>1 DEF Kept
<1>4. ASSUME NEW c \in Pieces, c # k PROVE c \in Kept(E, T, k + 1) <=> c \in Kept(E, T, k)
  <2>1. (c < k + 1 <=> c < k) /\ (c >= k + 1 <=> c >= k)
    BY <1>1, <1>4
  <2> QED BY <2>1 DEF Kept
<1> QED BY <1>1, <1>2, <1>3, <1>4

(* What the walk has before it at each place of the list.                  *)
LEMMA WalkAt ==
    ASSUME NEW E, NEW T, NEW X, Coming(E, T, X), NEW k \in Pieces, NEW w, WalkInv(E, T, X, k, w),
           NEW i \in 1 .. Len(w.list)
    PROVE  LET c == w.list[i].piece
           IN  /\ c \in Kept(E, T, k) /\ c \in Pieces /\ c \in Int
               /\ w.list[i] = Now(E, T, X, k, c) /\ Sound(w.list[i]) /\ w.list[i] \in Cands
<1> DEFINE c == w.list[i].piece
<1>1. c \in Kept(E, T, k) /\ w.list[i] = Now(E, T, X, k, c)
  BY DEF WalkInv, Values
<1> HIDE DEF c
<1>2. Sound(Now(E, T, X, k, c)) /\ c \in Int /\ c \in Pieces
  <2>1. k \in Int
    BY DEF Pieces
  <2> QED BY <1>1, <2>1, NowIs
<1> QED BY <1>1, <1>2 DEF Sound, c

(* Pieces that are not neighbours share no block.                          *)
LEMMA FarApart ==
    ASSUME NEW x, NEW y, Sound(x), Sound(y), x.piece < y.piece - 1
    PROVE  x.end <= y.begin /\ x.end <= RawBegin(y.piece)
<1>1. /\ x.piece \in Pieces /\ y.piece \in Pieces /\ x.piece \in Int /\ y.piece \in Int
      /\ x.end \in Nat /\ y.begin \in Nat /\ x.end <= RawEnd(x.piece) /\ RawBegin(y.piece) <= y.begin
      /\ RawEnd(x.piece) \in Nat /\ RawBegin(y.piece) \in Nat
  BY SoundSpan, RawSpan
<1>2. RawEnd(x.piece) <= RawBegin(y.piece)
  BY <1>1, RawNeighbours
<1> QED BY <1>1, <1>2

(* Where prev points.                                                      *)
LEMMA WalkPrev ==
    ASSUME NEW E, NEW T, NEW X, Coming(E, T, X), NEW k \in Pieces, NEW w, WalkInv(E, T, X, k, w)
    PROVE  /\ w.prev # 0 => /\ w.prev \in 1 .. Len(w.list)
                            /\ w.list[w.prev].piece < k
                            /\ w.list[w.prev].piece # k - 1 => w.list[w.prev].piece < k - 1
                            /\ w.list[w.prev].piece = k - 1 => k - 1 \in T
           /\ \A i \in 1 .. Len(w.list) : w.list[i].piece = k - 1 => w.prev = i
           /\ k - 1 \in T => w.prev # 0 /\ w.list[w.prev].piece = k - 1
<1>1. WalkFacts(w) /\ k \in Int
  BY WalkIs DEF WalkInv, Pieces
<1>2. ASSUME w.prev # 0
      PROVE  /\ w.prev \in 1 .. Len(w.list)
             /\ w.list[w.prev].piece < k
             /\ w.list[w.prev].piece # k - 1 => w.list[w.prev].piece < k - 1
             /\ w.list[w.prev].piece = k - 1 => k - 1 \in T
  <2>1. w.prev \in 1 .. Len(w.list)
    BY <1>1, <1>2 DEF WalkFacts
  <2>2. w.list[w.prev].piece < k
    BY <1>2 DEF WalkInv, Latest
  <2>3. w.list[w.prev].piece \in Kept(E, T, k) /\ w.list[w.prev].piece \in Int
    BY <2>1, WalkAt
  <2>4. w.list[w.prev].piece \in T
    BY <1>1, <2>2, <2>3 DEF Kept
  <2> QED BY ONLY <1>1, <2>1, <2>2, <2>3, <2>4
<1>3. k - 1 \in T => w.prev # 0 /\ w.list[w.prev].piece = k - 1
  BY DEF WalkInv, Latest
<1>4. ASSUME NEW i \in 1 .. Len(w.list), w.list[i].piece = k - 1 PROVE w.prev = i
  <2>1. w.list[i].piece \in Kept(E, T, k)
    BY WalkAt
  <2>2. k - 1 \in T
    BY <1>1, <1>4, <2>1 DEF Kept
  <2>3. w.prev \in 1 .. Len(w.list) /\ w.list[w.prev].piece = w.list[i].piece
    BY <1>2, <1>3, <1>4, <2>2
  <2>4. DOMAIN w.list = 1 .. Len(w.list) /\ Keyed(w.list)
    BY <1>1 DEF WalkFacts, WalkInv
  <2> QED BY <2>3, <2>4 DEF Keyed
<1> QED BY <1>2, <1>3, <1>4

(* The walk passes a piece whose candidate stays.                          *)
LEMMA KeepGoesOn ==
    ASSUME NEW E, NEW T, NEW X, Coming(E, T, X), NEW k \in Pieces, NEW w, WalkInv(E, T, X, k, w),
           k \in T, Existing(w, k)
    PROVE  WalkInv(E, T, X, k + 1, Keep(w))
<1> DEFINE v == Keep(w)
           l == KeepList(w)
           b == w.list[w.at].begin
<1>1. WalkFacts(w) /\ w \in Walks /\ Keyed(w.list) /\ Listing(E, k)
  BY WalkIs, ExistingIs DEF WalkInv
<1>2. k \in Int /\ k + 1 \in Int /\ (k + 1) - 1 = k
  BY DEF Pieces
<1>3. w.at \in 1 .. Len(w.list) /\ w.list[w.at].piece = k /\ w.at <= w.old
  BY <1>1 DEF Existing, WalkFacts
<1>4. w.list[w.at] = Begun(E, T, k) /\ Sound(w.list[w.at])
  <2>1. w.list[w.at] = Now(E, T, X, k, k) /\ k \in Kept(E, T, k) /\ Sound(w.list[w.at])
    BY <1>3, WalkAt
  <2> QED BY <2>1, NowStep
<1>5. IsWalk(v, l, w.old, w.at + 1, w.at) /\ Len(l) = Len(w.list)
      /\ \A j \in 1 .. Len(w.list) :
           l[j] = IF w.prev # 0 /\ j = w.prev THEN CutEnd(w.list[j], b) ELSE w.list[j]
  BY <1>1, <1>3, KeepIs
<1> HIDE DEF v, l
<1>6. ASSUME NEW j \in 1 .. Len(w.list)
      PROVE  /\ w.list[j].piece \in Kept(E, T, k + 1) /\ l[j].piece = w.list[j].piece
             /\ l[j] = Now(E, T, X, k + 1, w.list[j].piece)
  <2> DEFINE c == w.list[j].piece
  <2>1. /\ c \in Kept(E, T, k) /\ c \in Pieces /\ c \in Int
        /\ w.list[j] = Now(E, T, X, k, c) /\ Sound(w.list[j]) /\ w.list[j] \in Cands
    BY WalkAt
  <2> HIDE DEF c
  <2>2. c \in Kept(E, T, k + 1)
    BY <2>1, KeptIs
  <2>3. l[j] = Now(E, T, X, k + 1, c)
    <3>1. CASE c = k - 1
      <4>1. w.prev = j /\ w.prev # 0
        BY <3>1, WalkPrev DEF c
      <4>2. l[j] = CutEnd(Now(E, T, X, k, c), Begun(E, T, k).begin)
        BY <1>4, <1>5, <2>1, <4>1
      <4>3. Now(E, T, X, k + 1, c) = CutEnd(Now(E, T, X, k, c), Begun(E, T, k).begin)
        BY <1>1, <2>1, <3>1, NowStep
      <4> QED BY <4>2, <4>3
    <3>2. CASE c # k - 1
      <4>1. Now(E, T, X, k + 1, c) = Now(E, T, X, k, c)
        <5>1. c < k - 1 \/ c = k \/ c = k + 1 \/ c > k + 1
          BY <1>2, <2>1, <3>2
        <5>2. CASE c = k
          BY <2>1, <5>2, NowStep
        <5> QED BY <2>1, <5>1, <5>2, NowStep
      <4>2. CASE w.prev # 0 /\ j = w.prev
        <5>1. c < w.list[w.at].piece - 1
          BY <1>3, <3>2, <4>2, WalkPrev DEF c
        <5>2. w.list[j].end <= b
          BY <1>4, <2>1, <5>1, FarApart DEF c
        <5>3. w.list[j].unrequested \subseteq w.list[j].begin .. w.list[j].end - 1 /\ b \in Int
          <6>1. b \in Nat
            BY <1>4, SoundSpan
          <6>2. w.list[j].unrequested \subseteq w.list[j].begin .. w.list[j].end - 1
            BY <2>1 DEF Sound
          <6> QED BY <6>1, <6>2
        <5> HIDE DEF b
        <5>4. CutEnd(w.list[j], b) = w.list[j]
          BY <2>1, <5>2, <5>3, CutNothing
        <5> QED BY <1>5, <2>1, <4>1, <4>2, <5>4
      <4>3. CASE ~(w.prev # 0 /\ j = w.prev)
        BY <1>5, <2>1, <4>1, <4>3
      <4> QED BY <4>2, <4>3
    <3> QED BY <3>1, <3>2
  <2>4. Now(E, T, X, k + 1, c).piece = c
    BY <1>2, <2>2, NowIs
  <2> QED BY <2>2, <2>3, <2>4 DEF c
<1>7. v.list = l /\ v.old = w.old /\ v.at = w.at + 1 /\ v.prev = w.at /\ v \in Walks
  BY <1>5 DEF IsWalk
<1>8. \A i, j \in 1 .. Len(w.list) : w.list[i].piece = w.list[j].piece => i = j
  BY <1>1 DEF Keyed, WalkFacts
<1>9. Keyed(l)
  <2>1. DOMAIN l = 1 .. Len(w.list)
    BY <1>5, <1>7 DEF Walks
  <2> QED BY <1>6, <1>8, <2>1 DEF Keyed
<1>10. Values(E, T, X, k + 1, l)
  BY <1>5, <1>6 DEF Values
<1>11. Covers(E, T, k + 1, l)
  <2> SUFFICES ASSUME NEW c \in Kept(E, T, k + 1) PROVE \E i \in 1 .. Len(l) : l[i].piece = c
    BY DEF Covers
  <2>1. c \in Kept(E, T, k)
    <3>1. c \in Pieces
      BY DEF Kept
    <3> QED BY <1>1, <3>1, KeptIs
  <2>2. PICK i \in 1 .. Len(w.list) : w.list[i].piece = c
    BY <2>1 DEF WalkInv, Covers
  <2> QED BY <1>5, <1>6, <2>2
<1>12. Placement(k + 1, v)
  <2> SUFFICES ASSUME NEW i \in 1 .. Len(w.list)
               PROVE  (i < w.at + 1 \/ i > w.old) <=> w.list[i].piece < k + 1
    BY <1>5, <1>6, <1>7 DEF Placement
  <2>1. (i < w.at \/ i > w.old) <=> w.list[i].piece < k
    BY DEF WalkInv, Placement
  <2>2. w.list[i].piece = k <=> i = w.at
    BY <1>3, <1>8
  <2>3. w.list[i].piece \in Int
    BY WalkAt
  <2>4. w.at \in Nat /\ w.at <= w.old /\ w.old \in Nat /\ i \in Nat
    BY <1>1, <1>3 DEF WalkFacts
  <2>5. w.list[i].piece < k + 1 <=> w.list[i].piece < k \/ w.list[i].piece = k
    BY ONLY <1>2, <2>3
  <2>6. (i < w.at + 1 \/ i > w.old) <=> (i < w.at \/ i > w.old) \/ i = w.at
    BY ONLY <2>4
  <2> QED BY ONLY <2>1, <2>2, <2>5, <2>6
<1>13. Rising(v)
  <2> SUFFICES ASSUME NEW i \in w.at + 1 .. w.old, NEW j \in w.at + 1 .. w.old, i < j
               PROVE  l[i].piece < l[j].piece
    BY <1>7 DEF Rising
  <2>1. i \in w.at .. w.old /\ j \in w.at .. w.old /\ i \in 1 .. Len(w.list) /\ j \in 1 .. Len(w.list)
    BY <1>1 DEF WalkFacts
  <2>2. w.list[i].piece < w.list[j].piece
    BY <2>1 DEF WalkInv, Rising
  <2> QED BY <1>6, <2>1, <2>2
<1>14. Latest(T, k + 1, v)
  <2>1. l[w.at].piece = k
    BY <1>3, <1>6
  <2> QED BY <1>1, <1>2, <1>7, <2>1 DEF Latest, WalkFacts
<1> QED BY <1>7, <1>9, <1>10, <1>11, <1>12, <1>13, <1>14 DEF WalkInv, v

(* The walk makes a candidate for a piece that has none.                   *)
LEMMA MakeGoesOn ==
    ASSUME NEW E, NEW T, NEW X, Coming(E, T, X), NEW k \in Pieces, NEW w, WalkInv(E, T, X, k, w),
           k \in T, ~Existing(w, k), NEW v,
           IsWalk(v, Append(w.list, MadeOne(w, X[k])), w.old, w.at, Len(w.list) + 1)
    PROVE  WalkInv(E, T, X, k + 1, v)
<1> DEFINE x == X[k]
           y == MadeOne(w, x)
           l == Append(w.list, y)
           n == Len(w.list)
<1>1. WalkFacts(w) /\ w \in Walks /\ Keyed(w.list) /\ ~Listing(E, k)
  BY WalkIs, ExistingIs DEF WalkInv
<1>2. k \in Int /\ k + 1 \in Int /\ (k + 1) - 1 = k
  BY DEF Pieces
<1>3. /\ x \in Cands /\ x.piece = k /\ x.begin = RawBegin(k) /\ x.end = RawEnd(k)
      /\ x.unrequested \subseteq RawBegin(k) .. RawEnd(k) - 1
  BY DEF Coming, RawCands
<1>4. v.list = l /\ v.old = w.old /\ v.at = w.at /\ v.prev = n + 1 /\ v \in Walks
  BY DEF IsWalk
<1> HIDE DEF x
<1>5. y = FirstOf(E, T, X, k)
  <2>1. CASE w.prev = 0
    <3>1. k - 1 \notin T
      BY <2>1, WalkPrev
    <3> QED BY <1>1, <2>1, <3>1 DEF MadeOne, FirstOf, x
  <2>2. CASE w.prev # 0 /\ w.list[w.prev].piece = k - 1
    <3>1. k - 1 \in T /\ w.prev \in 1 .. n
      BY <2>2, WalkPrev
    <3>2. w.list[w.prev] = FirstOf(E, T, X, k - 1)
      <4>1. w.list[w.prev].piece \in Kept(E, T, k)
            /\ w.list[w.prev] = Now(E, T, X, k, w.list[w.prev].piece)
        BY <3>1, WalkAt
      <4> QED BY <2>2, <4>1, NowStep
    <3>3. FirstOf(E, T, X, k - 1).end = EndBefore(E, k - 1)
      BY <3>1, FirstIs
    <3> QED BY <1>1, <2>2, <3>1, <3>2, <3>3 DEF MadeOne, FirstOf, x
  <2>3. CASE w.prev # 0 /\ w.list[w.prev].piece # k - 1
    <3> DEFINE p == w.list[w.prev]
               b == p.end
    <3>1. k - 1 \notin T /\ p.piece < k - 1 /\ w.prev \in 1 .. n
      BY <2>3, WalkPrev
    <3>2. Sound(p)
      BY <3>1, WalkAt
    <3>3. Sound(x)
      BY <1>3 DEF Sound, LowEdges, HighEdges
    <3> HIDE DEF p
    <3>4. b <= x.begin /\ b \in Int
      BY <1>3, <3>1, <3>2, <3>3, FarApart, SoundSpan
    <3>5. x.unrequested \subseteq x.begin .. x.end - 1
      BY <1>3
    <3> HIDE DEF b
    <3>6. CutBegin(x, b) = x
      BY <1>3, <3>4, <3>5, CutNothing
    <3> QED BY <1>1, <2>3, <3>1, <3>6 DEF MadeOne, FirstOf, x, b, p
  <2> QED BY <2>1, <2>2, <2>3
<1>6. y.piece = k /\ y = Now(E, T, X, k + 1, k)
  <2>1. FirstOf(E, T, X, k).piece = k
    BY FirstIs
  <2>2. Now(E, T, X, k + 1, k) = FirstOf(E, T, X, k)
    BY <1>2 DEF Now
  <2> QED BY <1>5, <2>1, <2>2
<1> HIDE DEF y
<1>7. n \in Nat /\ Len(l) = n + 1 /\ l[n + 1] = y /\ \A j \in 1 .. n : l[j] = w.list[j]
  <2>1. w.list \in Seq(Cands)
    BY <1>1 DEF WalkFacts
  <2> QED BY <2>1
<1> HIDE DEF l
<1>8. ASSUME NEW j \in 1 .. n
      PROVE  /\ w.list[j].piece \in Kept(E, T, k + 1) /\ w.list[j].piece # k /\ w.list[j].piece \in Int
             /\ w.list[j] = Now(E, T, X, k + 1, w.list[j].piece)
  <2> DEFINE c == w.list[j].piece
  <2>1. /\ c \in Kept(E, T, k) /\ c \in Pieces /\ c \in Int /\ w.list[j] = Now(E, T, X, k, c)
    BY WalkAt
  <2> HIDE DEF c
  <2>2. c # k
    BY <1>1, <2>1, KeptIs
  <2>3. c \in Kept(E, T, k + 1)
    BY <2>1, <2>2, KeptIs
  <2>4. Now(E, T, X, k + 1, c) = Now(E, T, X, k, c)
    <3>1. c < k - 1 \/ c = k - 1 \/ c = k + 1 \/ c > k + 1
      BY <1>2, <2>1, <2>2
    <3> QED BY <1>1, <2>1, <3>1, NowStep
  <2> QED BY <2>1, <2>2, <2>3, <2>4 DEF c
<1>9. \A i, j \in 1 .. n : w.list[i].piece = w.list[j].piece => i = j
  BY <1>1 DEF Keyed, WalkFacts
<1>10. Keyed(l)
  <2>1. DOMAIN l = 1 .. n + 1
    BY <1>4, <1>7 DEF Walks
  <2> SUFFICES ASSUME NEW i \in 1 .. n + 1, NEW j \in 1 .. n + 1, l[i].piece = l[j].piece PROVE i = j
    BY <2>1 DEF Keyed
  <2>2. (i \in 1 .. n \/ i = n + 1) /\ (j \in 1 .. n \/ j = n + 1)
    BY <1>7
  <2> QED BY <1>6, <1>7, <1>8, <1>9, <2>2
<1>11. Values(E, T, X, k + 1, l)
  <2> SUFFICES ASSUME NEW i \in 1 .. n + 1
               PROVE  l[i].piece \in Kept(E, T, k + 1) /\ l[i] = Now(E, T, X, k + 1, l[i].piece)
    BY <1>7 DEF Values
  <2>1. i \in 1 .. n \/ i = n + 1
    BY <1>7
  <2>2. k \in Kept(E, T, k + 1)
    BY KeptIs
  <2> QED BY <1>6, <1>7, <1>8, <2>1, <2>2
<1>12. Covers(E, T, k + 1, l)
  <2> SUFFICES ASSUME NEW c \in Kept(E, T, k + 1) PROVE \E i \in 1 .. n + 1 : l[i].piece = c
    BY <1>7 DEF Covers
  <2>1. CASE c = k
    <3>1. n + 1 \in 1 .. n + 1
      BY <1>7
    <3> QED BY <1>6, <1>7, <2>1, <3>1
  <2>2. CASE c # k
    <3>1. c \in Kept(E, T, k)
      <4>1. c \in Pieces
        BY DEF Kept
      <4> QED BY <2>2, <4>1, KeptIs
    <3>2. PICK i \in 1 .. n : w.list[i].piece = c
      BY <3>1 DEF WalkInv, Covers
    <3>3. i \in 1 .. n + 1
      BY <1>7
    <3> QED BY <1>7, <3>2, <3>3
  <2> QED BY <2>1, <2>2
<1>13. Placement(k + 1, v)
  <2> SUFFICES ASSUME NEW i \in 1 .. n + 1
               PROVE  (i < w.at \/ i > w.old) <=> l[i].piece < k + 1
    BY <1>4, <1>7 DEF Placement
  <2>1. CASE i = n + 1
    BY <1>1, <1>2, <1>6, <1>7, <2>1 DEF WalkFacts
  <2>2. CASE i \in 1 .. n
    <3>1. (i < w.at \/ i > w.old) <=> w.list[i].piece < k
      BY <2>2 DEF WalkInv, Placement
    <3>2. w.list[i].piece < k <=> w.list[i].piece < k + 1
      BY <1>2, <1>8, <2>2
    <3> QED BY <1>7, <2>2, <3>1, <3>2
  <2> QED BY <1>7, <2>1, <2>2
<1>14. Rising(v)
  <2> SUFFICES ASSUME NEW i \in w.at .. w.old, NEW j \in w.at .. w.old, i < j
               PROVE  l[i].piece < l[j].piece
    BY <1>4 DEF Rising
  <2>1. i \in 1 .. n /\ j \in 1 .. n
    BY <1>1 DEF WalkFacts
  <2>2. w.list[i].piece < w.list[j].piece
    BY DEF WalkInv, Rising
  <2> QED BY <1>7, <2>1, <2>2
<1>15. Latest(T, k + 1, v)
  BY <1>2, <1>4, <1>6, <1>7 DEF Latest
<1> QED BY <1>4, <1>10, <1>11, <1>12, <1>13, <1>14, <1>15 DEF WalkInv

(* The walk has nothing to do at a piece.                                  *)
LEMMA SkipGoesOn ==
    ASSUME NEW E, NEW T, NEW X, Coming(E, T, X), NEW k \in Pieces, NEW w, WalkInv(E, T, X, k, w),
           k \notin T, ~Existing(w, k)
    PROVE  WalkInv(E, T, X, k + 1, w)
<1>1. ~Listing(E, k) /\ k \in Int /\ k + 1 \in Int /\ (k + 1) - 1 = k
  BY ExistingIs DEF Pieces
<1>2. ASSUME NEW j \in 1 .. Len(w.list)
      PROVE  /\ w.list[j].piece \in Kept(E, T, k + 1) /\ w.list[j].piece # k /\ w.list[j].piece \in Int
             /\ w.list[j] = Now(E, T, X, k + 1, w.list[j].piece)
  <2> DEFINE c == w.list[j].piece
  <2>1. /\ c \in Kept(E, T, k) /\ c \in Pieces /\ c \in Int /\ w.list[j] = Now(E, T, X, k, c)
    BY WalkAt
  <2> HIDE DEF c
  <2>2. c # k
    BY <1>1, <2>1, KeptIs
  <2>3. c \in Kept(E, T, k + 1)
    BY <2>1, <2>2, KeptIs
  <2>4. Now(E, T, X, k + 1, c) = Now(E, T, X, k, c)
    <3>1. c < k - 1 \/ c = k - 1 \/ c = k + 1 \/ c > k + 1
      BY <1>1, <2>1, <2>2
    <3> QED BY <1>1, <2>1, <3>1, NowStep
  <2> QED BY <2>1, <2>2, <2>3, <2>4 DEF c
<1>3. Values(E, T, X, k + 1, w.list)
  BY <1>2 DEF Values
<1>4. Covers(E, T, k + 1, w.list)
  <2>1. ASSUME NEW c \in Kept(E, T, k + 1) PROVE c \in Kept(E, T, k)
    <3>1. c \in Pieces
      BY DEF Kept
    <3> QED BY <3>1, KeptIs
  <2> QED BY <2>1 DEF WalkInv, Covers
<1>5. Placement(k + 1, w)
  <2> SUFFICES ASSUME NEW i \in 1 .. Len(w.list)
               PROVE  (i < w.at \/ i > w.old) <=> w.list[i].piece < k + 1
    BY DEF Placement
  <2>1. (i < w.at \/ i > w.old) <=> w.list[i].piece < k
    BY DEF WalkInv, Placement
  <2>2. w.list[i].piece < k <=> w.list[i].piece < k + 1
    BY <1>1, <1>2
  <2> QED BY <2>1, <2>2
<1>6. Latest(T, k + 1, w)
  <2> SUFFICES ASSUME w.prev # 0 PROVE w.list[w.prev].piece < k + 1
    BY <1>1 DEF Latest
  <2>1. w.prev \in 1 .. Len(w.list) /\ w.list[w.prev].piece < k
    BY WalkPrev
  <2> QED BY <1>1, <1>2, <2>1
<1> QED BY <1>3, <1>4, <1>5, <1>6 DEF WalkInv

(* What the neighbours of an erased candidate become.                      *)
LEMMA EraseHands ==
    ASSUME NEW E, NEW T, NEW X, Coming(E, T, X), NEW k \in Pieces, NEW w, WalkInv(E, T, X, k, w),
           k \notin T, Existing(w, k), NEW s \in 1 .. Len(w.list), s # w.at
    PROVE  LET c == w.list[s].piece
           IN  /\ c \in Kept(E, T, k + 1) /\ c # k /\ c \in Int
               /\ EraseBoth(w)[s] = Now(E, T, X, k + 1, c) /\ EraseBoth(w)[s].piece = c
<1> DEFINE c == w.list[s].piece
           e == w.list[w.at]
           l == EraseLeft(w)
           m == EraseBoth(w)
<1>1. WalkFacts(w) /\ w \in Walks /\ Keyed(w.list) /\ Listing(E, k)
  BY WalkIs, ExistingIs DEF WalkInv
<1>2. k \in Int /\ k + 1 \in Int /\ (k + 1) - 1 = k
  BY DEF Pieces
<1>3. w.at \in 1 .. Len(w.list) /\ e.piece = k /\ w.at <= w.old
  BY <1>1 DEF Existing, WalkFacts
<1>4. e = Begun(E, T, k)
  <2>1. e = Now(E, T, X, k, k) /\ k \in Kept(E, T, k)
    BY <1>3, WalkAt
  <2> QED BY <2>1, NowStep
<1>5. /\ c \in Kept(E, T, k) /\ c \in Pieces /\ c \in Int
      /\ w.list[s] = Now(E, T, X, k, c)
  BY WalkAt
<1>6. c # k
  BY <1>1, <1>3 DEF Keyed, WalkFacts
<1>7. /\ l[s] = IF s = w.prev /\ w.list[w.prev].piece + 1 = e.piece
                THEN RegainEnd(w.list[s], e) ELSE w.list[s]
      /\ m[s] = IF s = w.at + 1 /\ w.at < w.old /\ l[s].piece = e.piece + 1
                THEN RegainBegin(l[s], e) ELSE l[s]
  BY <1>1, <1>3, EraseIs
<1> HIDE DEF l, m
<1>8. c \in Kept(E, T, k + 1)
  BY <1>5, <1>6, KeptIs
<1>9. Now(E, T, X, k + 1, c).piece = c
  BY <1>2, <1>8, NowIs
<1>10. m[s] = Now(E, T, X, k + 1, c)
  <2>1. CASE c = k - 1
    <3>1. w.prev = s
      BY <2>1, WalkPrev
    <3>2. l[s] = RegainEnd(w.list[s], e)
      BY <1>2, <1>3, <1>7, <2>1, <3>1
    <3>3. l[s] = Now(E, T, X, k + 1, c)
      BY <1>1, <1>4, <1>5, <2>1, <3>2, NowStep
    <3>4. l[s].piece # e.piece + 1
      BY <1>2, <1>3, <1>9, <2>1, <3>3
    <3> QED BY <1>7, <3>3, <3>4
  <2>2. CASE c # k - 1
    <3>1. l[s] = w.list[s]
      BY <1>2, <1>3, <1>5, <1>7, <2>2
    <3>2. CASE c = k + 1
      <4>1. ~(w.list[s].piece < k)
        BY <1>2, <3>2
      <4>2. s >= w.at /\ s <= w.old
        BY <1>1, <4>1 DEF WalkInv, Placement, WalkFacts
      <4>3. s > w.at
        BY <1>1, <4>2 DEF WalkFacts
      <4>4. s = w.at + 1
        <5> SUFFICES ASSUME s > w.at + 1 PROVE FALSE
          BY <1>1, <4>3 DEF WalkFacts
        <5>1. /\ w.at \in w.at .. w.old /\ w.at + 1 \in w.at .. w.old /\ s \in w.at .. w.old
              /\ w.at < w.at + 1 /\ w.at + 1 \in 1 .. Len(w.list)
          BY <1>1, <4>2 DEF WalkFacts
        <5>2. e.piece < w.list[w.at + 1].piece /\ w.list[w.at + 1].piece < w.list[s].piece
          BY <5>1 DEF WalkInv, Rising
        <5>3. w.list[w.at + 1].piece \in Int
          BY <5>1, WalkAt
        <5> QED BY <1>2, <1>3, <3>2, <5>2, <5>3
      <4>5. m[s] = RegainBegin(w.list[s], e)
        BY <1>1, <1>3, <1>7, <3>1, <3>2, <4>2, <4>4 DEF WalkFacts
      <4> QED BY <1>1, <1>4, <1>5, <3>2, <4>5, NowStep
    <3>3. CASE c # k + 1
      <4>1. m[s] = w.list[s]
        BY <1>3, <1>7, <3>1, <3>3
      <4>2. c < k - 1 \/ c > k + 1
        BY <1>2, <1>5, <1>6, <2>2, <3>3
      <4> QED BY <1>5, <4>1, <4>2, NowStep
    <3> QED BY <3>2, <3>3
  <2> QED BY <2>1, <2>2
<1> QED BY <1>5, <1>6, <1>8, <1>9, <1>10 DEF m

(* The walk erases the candidate of a piece.                               *)
LEMMA EraseGoesOn ==
    ASSUME NEW E, NEW T, NEW X, Coming(E, T, X), NEW k \in Pieces, NEW w, WalkInv(E, T, X, k, w),
           k \notin T, Existing(w, k)
    PROVE  WalkInv(E, T, X, k + 1, Erase(w))
<1> DEFINE v == Erase(w)
           m == EraseBoth(w)
           l == RemoveAt(m, w.at)
           n == Len(w.list)
           from(j) == IF j < w.at THEN j ELSE j + 1
<1>1. WalkFacts(w) /\ w \in Walks /\ Keyed(w.list) /\ Listing(E, k)
  BY WalkIs, ExistingIs DEF WalkInv
<1>2. k \in Int /\ k + 1 \in Int /\ (k + 1) - 1 = k
  BY DEF Pieces
<1>3. /\ w.at \in 1 .. n /\ w.list[w.at].piece = k /\ w.at <= w.old /\ w.old <= n
      /\ w.at \in Nat /\ w.old \in Nat /\ n \in Nat
  BY <1>1 DEF Existing, WalkFacts
<1>4. IsWalk(v, l, w.old - 1, w.at, 0) /\ m \in Seq(Cands) /\ Len(m) = n
  BY <1>1, <1>3, EraseIs
<1>5. Without(l, Cands, m, w.at)
  BY <1>3, <1>4, Removed
<1>6. \A j \in 1 .. n - 1 : from(j) \in 1 .. n /\ from(j) # w.at
  BY <1>3
<1>7. \A j \in 1 .. n - 1 : l[j] = m[from(j)]
  BY <1>4, <1>5 DEF Without
<1>8. Len(l) = n - 1 /\ DOMAIN l = 1 .. n - 1
  BY <1>3, <1>4, <1>5 DEF Without
<1>9. v.list = l /\ v.old = w.old - 1 /\ v.at = w.at /\ v.prev = 0 /\ v \in Walks
  BY <1>4 DEF IsWalk
<1>10. ASSUME NEW s \in 1 .. n, s # w.at
       PROVE  /\ w.list[s].piece \in Kept(E, T, k + 1) /\ w.list[s].piece # k /\ w.list[s].piece \in Int
              /\ m[s] = Now(E, T, X, k + 1, w.list[s].piece) /\ m[s].piece = w.list[s].piece
  BY <1>10, EraseHands
<1> HIDE DEF v, m, l, n, from
<1>11. ASSUME NEW j \in 1 .. n - 1
       PROVE  /\ l[j].piece = w.list[from(j)].piece /\ l[j].piece \in Kept(E, T, k + 1)
              /\ l[j] = Now(E, T, X, k + 1, l[j].piece)
              /\ l[j].piece # k /\ l[j].piece \in Int
  BY <1>6, <1>7, <1>10
<1>12. Values(E, T, X, k + 1, l)
  BY <1>8, <1>11 DEF Values
<1>13. Keyed(l)
  <2> SUFFICES ASSUME NEW i \in 1 .. n - 1, NEW j \in 1 .. n - 1, l[i].piece = l[j].piece PROVE i = j
    BY <1>8 DEF Keyed
  <2>1. from(i) \in DOMAIN w.list /\ from(j) \in DOMAIN w.list
    BY <1>1, <1>6 DEF WalkFacts, n
  <2>2. from(i) = from(j)
    BY <1>1, <1>11, <2>1 DEF Keyed
  <2> QED BY <1>3, <2>2 DEF from
<1>14. Covers(E, T, k + 1, l)
  <2> SUFFICES ASSUME NEW c \in Kept(E, T, k + 1) PROVE \E j \in 1 .. n - 1 : l[j].piece = c
    BY <1>8 DEF Covers
  <2>1. c # k /\ c \in Pieces
    BY KeptIs DEF Kept
  <2>2. c \in Kept(E, T, k)
    BY <2>1, KeptIs
  <2>3. PICK s \in 1 .. n : w.list[s].piece = c
    BY <2>2 DEF WalkInv, Covers, n
  <2>4. s # w.at
    BY <1>3, <2>1, <2>3
  <2> DEFINE j == IF s < w.at THEN s ELSE s - 1
  <2>5. j \in 1 .. n - 1 /\ from(j) = s
    BY <1>3, <2>4 DEF from
  <2> HIDE DEF j
  <2>6. l[j].piece = c
    BY <1>11, <2>3, <2>5
  <2> QED BY <2>5, <2>6
<1>15. Placement(k + 1, v)
  <2> SUFFICES ASSUME NEW j \in 1 .. n - 1
               PROVE  (j < w.at \/ j > w.old - 1) <=> l[j].piece < k + 1
    BY <1>8, <1>9 DEF Placement
  <2>1. (from(j) < w.at \/ from(j) > w.old) <=> w.list[from(j)].piece < k
    BY <1>6 DEF WalkInv, Placement, n
  <2>2. (j < w.at \/ j > w.old - 1) <=> (from(j) < w.at \/ from(j) > w.old)
    BY <1>3 DEF from
  <2>3. l[j].piece < k <=> l[j].piece < k + 1
    BY <1>2, <1>11
  <2> QED BY <1>11, <2>1, <2>2, <2>3
<1>16. Rising(v)
  <2> SUFFICES ASSUME NEW i \in w.at .. w.old - 1, NEW j \in w.at .. w.old - 1, i < j
               PROVE  l[i].piece < l[j].piece
    BY <1>9 DEF Rising
  <2>1. /\ from(i) \in w.at .. w.old /\ from(j) \in w.at .. w.old /\ from(i) < from(j)
        /\ i \in 1 .. n - 1 /\ j \in 1 .. n - 1
    BY <1>3 DEF from
  <2>2. w.list[from(i)].piece < w.list[from(j)].piece
    BY <2>1 DEF WalkInv, Rising
  <2> QED BY <1>11, <2>1, <2>2
<1>17. Latest(T, k + 1, v)
  BY <1>2, <1>9 DEF Latest
<1> QED BY <1>9, <1>12, <1>13, <1>14, <1>15, <1>16, <1>17 DEF WalkInv, v

(* The walk begins with what there was.                                    *)
LEMMA WalkBegins ==
    ASSUME NEW l \in Lists, NEW T, NEW X, Coming(ToSet(l), T, X)
    PROVE  WalkInv(ToSet(l), T, X, 0, UpkeepStart(l))
<1> DEFINE E == ToSet(l)
           w == UpkeepStart(l)
           m == SortByPiece(l)
<1>1. Same(l, m) /\ Len(m) = Len(l) /\ \A i, j \in 1 .. Len(m) : i < j => m[i].piece < m[j].piece
  BY SortByPieceSame
<1>2. w.list = m /\ w.old = Len(m) /\ w.at = 1 /\ w.prev = 0 /\ w \in Walks
  BY <1>1, StartIs DEF UpkeepStart
<1> HIDE DEF w, m
<1>3. m \in Seq(Cands) /\ Keyed(m) /\ ToSet(m) = E /\ Len(m) \in Nat
      /\ (\A i \in 1 .. Len(m) : m[i] \in E) /\ E = {m[i] : i \in 1 .. Len(m)}
  BY <1>1, ListFacts DEF Same, Lists
<1> HIDE DEF E
<1>4. ASSUME NEW i \in 1 .. Len(m)
      PROVE  /\ m[i].piece \in Kept(E, T, 0) /\ m[i].piece \in Nat
             /\ m[i] = Now(E, T, X, 0, m[i].piece)
  <2> DEFINE c == m[i].piece
  <2>1. m[i] \in E /\ Listing(E, c)
    BY <1>3 DEF Listing
  <2>2. c \in Pieces /\ c \in Int /\ m[i] = OldOf(E, c)
    BY <2>1, OldIs DEF E
  <2>3. c \in Nat /\ c >= 0 /\ ~(c < 0) /\ ~(c < 0 - 1) /\ c # 0 - 1
    BY <2>2 DEF Pieces
  <2> HIDE DEF c
  <2>4. c \in Kept(E, T, 0)
    BY <2>1, <2>2, <2>3 DEF Kept
  <2>5. Now(E, T, X, 0, c) = OldOf(E, c)
    <3>1. CASE c = 0
      <4>1. ~Listing(E, c - 1)
        <5> SUFFICES ASSUME Listing(E, c - 1) PROVE FALSE
          OBVIOUS
        <5>1. c - 1 \in Pieces
          BY OldIs DEF E
        <5> QED BY <3>1, <5>1 DEF Pieces
      <4> QED BY <2>3, <3>1, <4>1 DEF Now, Begun
    <3>2. CASE c # 0
      BY <2>3, <3>2 DEF Now
    <3> QED BY <3>1, <3>2
  <2> QED BY <2>2, <2>3, <2>4, <2>5 DEF c
<1>5. Values(E, T, X, 0, m)
  BY <1>4 DEF Values
<1>6. Covers(E, T, 0, m)
  <2> SUFFICES ASSUME NEW c \in Kept(E, T, 0) PROVE \E i \in 1 .. Len(m) : m[i].piece = c
    BY DEF Covers
  <2>1. Listing(E, c)
    BY DEF Kept, Pieces
  <2>2. PICK x \in E : x.piece = c
    BY <2>1 DEF Listing
  <2> QED BY <1>3, <2>2
<1>7. Placement(0, w)
  <2> SUFFICES ASSUME NEW i \in 1 .. Len(m) PROVE (i < 1 \/ i > Len(m)) <=> m[i].piece < 0
    BY <1>2 DEF Placement
  <2>1. ~(i < 1) /\ ~(i > Len(m))
    BY <1>3
  <2>2. ~(m[i].piece < 0)
    BY <1>4
  <2> QED BY <2>1, <2>2
<1>8. Rising(w)
  BY <1>1, <1>2 DEF Rising
<1>9. Latest(T, 0, w)
  <2>1. 0 - 1 \notin T
    BY DEF Coming, Pieces
  <2> QED BY <1>2, <2>1 DEF Latest
<1> QED BY <1>2, <1>3, <1>5, <1>6, <1>7, <1>8, <1>9 DEF WalkInv, w, E

(* At its end there are candidates for the pieces T, and they are NewOf.   *)
LEMMA WalkEnds ==
    ASSUME NEW E, NEW T, NEW X, Coming(E, T, X), NEW w, WalkInv(E, T, X, PieceCount, w)
    PROVE  w.list \in Lists /\ ToSet(w.list) = {NewOf(E, T, X, c) : c \in T}
<1> DEFINE n == PieceCount
<1>1. n \in Nat /\ \A c \in Pieces : c \in Int /\ c < n
  BY Counts DEF Pieces
<1>2. WalkFacts(w) /\ Keyed(w.list)
  BY WalkIs DEF WalkInv
<1>3. w.list \in Lists
  BY <1>2 DEF WalkFacts, Lists
<1>4. Kept(E, T, n) = T
  <2>1. T \subseteq Pieces
    BY DEF Coming
  <2>2. ASSUME NEW c \in Pieces PROVE c \in Kept(E, T, n) <=> c \in T
    <3>1. c < n /\ ~(c >= n)
      BY <1>1
    <3> HIDE DEF n
    <3> QED BY <3>1 DEF Kept
  <2>3. Kept(E, T, n) \subseteq Pieces
    BY DEF Kept
  <2> QED BY <2>1, <2>2, <2>3
<1>5. ASSUME NEW c \in T PROVE Now(E, T, X, n, c) = NewOf(E, T, X, c)
  <2>1. c \in Pieces /\ c \in Int /\ c < n
    BY <1>1 DEF Coming
  <2>2. CASE c < n - 1
    BY <2>2 DEF Now
  <2>3. CASE c = n - 1
    <3>1. ~Listing(E, c + 1)
      <4> SUFFICES ASSUME Listing(E, c + 1) PROVE FALSE
        OBVIOUS
      <4>1. c + 1 \in Pieces
        BY OldIs
      <4> QED BY <1>1, <2>3, <4>1
    <3>2. ~(c < n - 1)
      BY <1>1, <2>3
    <3> HIDE DEF n
    <3> QED BY <2>3, <3>1, <3>2 DEF Now, NewOf
  <2> QED BY <1>1, <2>1, <2>2, <2>3
<1>6. \A i \in 1 .. Len(w.list) : w.list[i].piece \in T /\ w.list[i] = NewOf(E, T, X, w.list[i].piece)
  BY <1>4, <1>5 DEF WalkInv, Values
<1>7. \A c \in T : \E i \in 1 .. Len(w.list) : w.list[i].piece = c
  BY <1>4 DEF WalkInv, Covers
<1>8. ToSet(w.list) = {w.list[i] : i \in 1 .. Len(w.list)}
  BY <1>2, ListFacts DEF WalkFacts
<1>9. ToSet(w.list) = {NewOf(E, T, X, c) : c \in T}
  BY <1>6, <1>7, <1>8
<1> QED BY <1>3, <1>9

(* What candidate_list_upkeep leaves.                                      *)
LEMMA UpkeepIs ==
    ASSUME NEW l \in Lists, AllSound(ToSet(l)), NEW W, NEW H, NEW random, Settings(random)
    PROVE  LET m == Upkeep(l, W, H, random)
           IN  /\ m \in Lists
               /\ ToSet(m) = {NewOf(ToSet(l), Target(W, H), FreshOf(H, random), c) : c \in Target(W, H)}
               /\ SameMode(ToSet(m)) => InOrder(m)
<1> DEFINE E == ToSet(l)
           T == Target(W, H)
           X == FreshOf(H, random)
           m == Upkeep(l, W, H, random)
           n == PieceCount
<1>1. Coming(E, T, X)
  <2>1. T \subseteq Pieces /\ RawCands(X)
    BY FreshIs DEF Target
  <2>2. \A x, y \in E : x.piece = y.piece => x = y
    BY OneEach
  <2> QED BY <2>1, <2>2 DEF Coming
<1>2. PICK after : /\ after[0] = UpkeepStart(l)
                   /\ \A k \in 1 .. n : after[k] = UpkeepStep(W, H, random, after[k - 1], k - 1)
                   /\ UpkeepAll(l, W, H, random) = after[n]
  BY UpkeepIsWalked
<1>3. n \in Nat /\ \A k \in 1 .. n : k - 1 \in Pieces /\ k \in Int /\ (k - 1) + 1 = k
  BY Counts DEF Pieces
<1>4. WalkInv(E, T, X, 0, after[0])
  BY <1>1, <1>2, WalkBegins
<1> HIDE DEF E, T, X, n
<1>5. ASSUME NEW k \in Pieces, NEW w, WalkInv(E, T, X, k, w)
      PROVE  WalkInv(E, T, X, k + 1, UpkeepStep(W, H, random, w, k))
  <2> DEFINE v == UpkeepStep(W, H, random, w, k)
  <2>1. w \in Walks
    BY <1>5 DEF WalkInv
  <2>2. /\ k \in T /\ Existing(w, k) => v = Keep(w)
        /\ k \notin T /\ Existing(w, k) => v = Erase(w)
        /\ k \notin T /\ ~Existing(w, k) => v = w
    BY DEF UpkeepStep, Target, Existing, T
  <2>7. k \in T /\ ~Existing(w, k) =>
             IsWalk(v, Append(w.list, MadeOne(w, X[k])), w.old, w.at, Len(w.list) + 1)
    BY <2>1, UpkeepStepIs DEF T, X
  <2> HIDE DEF v
  <2>3. CASE k \in T /\ Existing(w, k)
    BY <1>1, <1>5, <2>2, <2>3, KeepGoesOn DEF v
  <2>4. CASE k \in T /\ ~Existing(w, k)
    BY <1>1, <1>5, <2>4, <2>7, MakeGoesOn DEF v
  <2>5. CASE k \notin T /\ Existing(w, k)
    BY <1>1, <1>5, <2>2, <2>5, EraseGoesOn DEF v
  <2>6. CASE k \notin T /\ ~Existing(w, k)
    BY <1>1, <1>5, <2>2, <2>6, SkipGoesOn DEF v
  <2> QED BY <2>3, <2>4, <2>5, <2>6
<1> DEFINE S == {k \in 0 .. n : WalkInv(E, T, X, k, after[k])}
<1>6. \A k \in 1 .. n : k - 1 \in S => k \in S
  <2> SUFFICES ASSUME NEW k \in 1 .. n, k - 1 \in S PROVE k \in S
    OBVIOUS
  <2>1. WalkInv(E, T, X, k - 1, after[k - 1]) /\ k - 1 \in Pieces /\ (k - 1) + 1 = k
    BY <1>3
  <2>2. WalkInv(E, T, X, (k - 1) + 1, UpkeepStep(W, H, random, after[k - 1], k - 1))
    BY <1>5, <2>1
  <2>3. WalkInv(E, T, X, k, after[k])
    BY <1>2, <2>1, <2>2
  <2> QED BY <1>3, <2>3
<1>7. 0 .. n \subseteq S
  <2>1. 0 \in S
    BY <1>3, <1>4
  <2> HIDE DEF S
  <2> QED BY <1>3, <1>6, <2>1, UpTo
<1>8. WalkInv(E, T, X, n, after[n])
  BY <1>3, <1>7
<1> DEFINE a == UpkeepAll(l, W, H, random).list
<1>9. a \in Lists /\ ToSet(a) = {NewOf(E, T, X, c) : c \in T}
  BY <1>1, <1>2, <1>8, WalkEnds DEF n
<1>10. m = Sort(a)
  BY UpkeepFoldIs
<1> HIDE DEF a, m
<1>11. Same(a, m) /\ (WeakOrder(LessPairs, ToSet(a)) => Ordered(LessPairs, m))
  BY <1>9, <1>10, SortSame
<1>12. m \in Lists /\ ToSet(m) = ToSet(a)
  BY <1>11 DEF Same
<1>13. SameMode(ToSet(m)) => InOrder(m)
  <2>1. ToSet(m) \subseteq Cands
    BY <1>12, ListFacts DEF Lists
  <2> QED BY <1>11, <1>12, <2>1, ModeIsOrder DEF InOrder
<1> QED BY <1>9, <1>12, <1>13 DEF m, E, T, X

(***************************************************************************)
(* What the handlers leave of a candidate: y has the span of x, and the    *)
(* same weights in the order.                                              *)
(***************************************************************************)
SpanKept(x, y) ==
    /\ y \in Cands /\ y.piece = x.piece /\ y.begin = x.begin /\ y.end = x.end
    /\ y.unrequested \subseteq x.begin .. x.end - 1
    /\ y.is_sequential = x.is_sequential

WeightsKept(x, y) ==
    /\ y.piece = x.piece /\ y.is_sequential = x.is_sequential
    /\ y.replication = x.replication /\ y.priority = x.priority /\ y.salt = x.salt

(* Candidates that keep their spans are sound.                             *)
LEMMA KeptSound ==
    ASSUME NEW E, NEW F, NEW D, D = {F[x] : x \in E}, AllSound(E), \A x \in E : SpanKept(x, F[x])
    PROVE  AllSound(D)
<1>1. ASSUME NEW x \in E PROVE Sound(F[x])
  BY <1>1 DEF AllSound, Sound, SpanKept
<1>2. Meet(D)
  <2> SUFFICES ASSUME NEW x \in E, NEW y \in E, F[y].piece = F[x].piece + 1
               PROVE  F[y].begin = F[x].end
    BY DEF Meet
  <2>1. SpanKept(x, F[x]) /\ SpanKept(y, F[y])
    OBVIOUS
  <2> QED BY <2>1 DEF AllSound, Meet, SpanKept
<1> QED BY <1>1, <1>2 DEF AllSound

(* Those that are left of sound candidates are sound.                      *)
LEMMA FewerSound ==
    ASSUME NEW E, NEW D, D \subseteq E, AllSound(E)
    PROVE  AllSound(D)
BY DEF AllSound, Meet

(* What the changes of the handlers keep.                                  *)
LEMMA TakeKeeps ==
    ASSUME NEW S, NEW x, Sound(x)
    PROVE  SpanKept(x, TakeFrom(S)[x]) /\ WeightsKept(x, TakeFrom(S)[x])
<1>1. x \in Cands /\ x.unrequested \subseteq x.begin .. x.end - 1
  BY DEF Sound
<1>2. Took(S, x, TakeFrom(S)[x])
  BY <1>1, TakeIs
<1> QED BY <1>1, <1>2 DEF Took, SpanKept, WeightsKept

(* What giving blocks back does to a candidate.                            *)
LEMMA GiveIs ==
    ASSUME NEW B, B \subseteq Blocks, NEW x \in Cands
    PROVE  Respan(x, x.begin, x.end, x.unrequested \cup ((x.begin .. x.end - 1) \cap B), GiveBack(B)[x])
BY DEF Respan, GiveBack, Cands

(* Giving blocks back keeps the span and the weights;                      *)
LEMMA GiveKeeps ==
    ASSUME NEW B, B \subseteq Blocks, NEW x, Sound(x)
    PROVE  SpanKept(x, GiveBack(B)[x]) /\ WeightsKept(x, GiveBack(B)[x])
<1>1. x \in Cands /\ x.unrequested \subseteq x.begin .. x.end - 1
  BY DEF Sound
<1>2. Respan(x, x.begin, x.end, x.unrequested \cup ((x.begin .. x.end - 1) \cap B), GiveBack(B)[x])
  BY <1>1, GiveIs
<1> QED BY <1>1, <1>2 DEF Respan, SpanKept, WeightsKept

(* counting peers changes only the replication,                            *)
LEMMA CountKeeps ==
    ASSUME NEW P, NEW n \in Int, NEW x, Sound(x)
    PROVE  LET y == Counted(P, n)[x]
           IN  /\ SpanKept(x, y) /\ y.priority = x.priority /\ y.salt = x.salt
               /\ y.replication = IF x.piece \in P THEN x.replication + n ELSE x.replication
<1>1. x \in Cands /\ x.unrequested \subseteq x.begin .. x.end - 1
  BY DEF Sound
<1> QED BY <1>1 DEF SpanKept, Counted, Cands

(* setting the priorities only the priority,                               *)
LEMMA WeighKeeps ==
    ASSUME NEW h, NEW x, Sound(x)
    PROVE  LET y == Weighed(h)[x]
           IN  /\ SpanKept(x, y) /\ y.replication = x.replication /\ y.salt = x.salt
               /\ y.priority = IF x.piece \in h THEN 1 ELSE 0
<1>1. x \in Cands /\ x.unrequested \subseteq x.begin .. x.end - 1
  BY DEF Sound
<1> QED BY <1>1 DEF SpanKept, Weighed, Cands

(* and new salts only the salt.                                            *)
LEMMA SaltKeeps ==
    ASSUME NEW random \in Randoms, NEW seq \in BOOLEAN, NEW from \in Pieces, NEW x, Sound(x)
    PROVE  LET y == Salted(random, seq, from)[x]
           IN  /\ SpanKept(x, y) /\ y.replication = x.replication /\ y.priority = x.priority
               /\ y.salt = Salt(x.piece, random, seq, from)
<1>1. x \in Cands /\ x.unrequested \subseteq x.begin .. x.end - 1 /\ x.piece \in Pieces
  BY SoundSpan DEF Sound
<1>2. Salt(x.piece, random, seq, from) \in Int
  BY <1>1, SaltType
<1> DEFINE s == Salt(x.piece, random, seq, from)
<1>3. Salted(random, seq, from)[x] = [x EXCEPT !.salt = s]
  BY <1>1 DEF Salted
<1> HIDE DEF s
<1>4. s \in Int
  BY <1>2 DEF s
<1> DEFINE y == [x EXCEPT !.salt = s]
<1>5. /\ SpanKept(x, y) /\ y.replication = x.replication /\ y.priority = x.priority
      /\ y.salt = s
  BY ONLY <1>1, <1>4 DEF SpanKept, Cands
<1> QED BY <1>3, <1>5 DEF s

(* A list whose candidates keep their spans.                               *)
LEMMA TurnsSound ==
    ASSUME NEW l \in Lists, AllSound(ToSet(l)), NEW m, NEW F, Turns(l, m, F),
           \A x \in ToSet(l) : SpanKept(x, F[x])
    PROVE  /\ m \in Lists /\ AllSound(ToSet(m))
           /\ \A y \in ToSet(m) : \E x \in ToSet(l) : y = F[x] /\ Sound(x)
<1>1. m \in Lists /\ ToSet(m) = {F[x] : x \in ToSet(l)}
  BY DEF Turns, Becomes
<1>2. AllSound(ToSet(m))
  BY <1>1, KeptSound
<1>3. \A x \in ToSet(l) : Sound(x)
  BY DEF AllSound
<1> QED BY <1>1, <1>2, <1>3

-----------------------------------------------------------------------------
(* How many peers have a piece.                                            *)
Having(N, c) == {p \in Peers : c \in N[p]}

(* The peers that have a piece are finitely many.                          *)
LEMMA HavingFinite ==
    ASSUME NEW N, NEW c
    PROVE  /\ IsFiniteSet(Having(N, c)) /\ Cardinality(Having(N, c)) \in 0 .. Cardinality(Peers)
           /\ Cardinality(Peers) \in Nat
<1>1. IsFiniteSet(Peers) /\ Having(N, c) \subseteq Peers
  BY ListAssumption DEF Having
<1>2. IsFiniteSet(Having(N, c)) /\ Cardinality(Having(N, c)) <= Cardinality(Peers)
  BY <1>1, FS_Subset
<1>3. Cardinality(Having(N, c)) \in Nat /\ Cardinality(Peers) \in Nat
  BY <1>1, <1>2, FS_CardinalityType
<1> QED BY <1>2, <1>3

(***************************************************************************)
(* What a candidate has from the torrent and the swarm: the pieces N of    *)
(* the peers, who may have been counted more than once, the pieces h of    *)
(* high priority, and the mode of download.                                *)
(***************************************************************************)
Known(N, h, x) ==
    /\ x.replication \in Nat /\ Cardinality(Having(N, x.piece)) <= x.replication
    /\ x.priority = IF x.piece \in h THEN 1 ELSE 0
    /\ x.salt \in Salts \cup Pieces

InMode(seq, from, x) ==
    /\ x.is_sequential = seq
    /\ seq => x.salt = SequentialSalt(PieceCount, x.piece, from)

(* It is so of a new one, and stays so with the weights.                   *)
LEMMA FreshKnown ==
    ASSUME NEW random, Settings(random), NEW c \in Pieces, NEW H, NEW x,
           Fresh(c, H, Salt(c, random, sequential, fromPiece), x)
    PROVE  Known(has, high, x) /\ InMode(sequential, fromPiece, x)
<1>1. PICK seq \in BOOLEAN : seq = sequential
  BY DEF Settings, ModeKnown
<1>2. /\ Salt(c, random, seq, fromPiece) \in Salts \cup Pieces
      /\ seq => Salt(c, random, seq, fromPiece) = SequentialSalt(PieceCount, c, fromPiece)
  BY SaltType DEF Settings
<1>3. /\ x.piece = c /\ x.replication = Cardinality(Having(has, c)) /\ x.priority = Priority(c)
      /\ x.salt = Salt(c, random, seq, fromPiece) /\ x.is_sequential = seq
  BY <1>1 DEF Fresh, Having
<1>4. Known(has, high, x)
  BY <1>2, <1>3, HavingFinite DEF Known, Priority
<1>5. InMode(seq, fromPiece, x)
  BY ONLY <1>2, <1>3 DEF InMode
<1> QED BY <1>1, <1>4, <1>5

(* A candidate whose weights are kept is as well known as before.          *)
LEMMA KnownKept ==
    ASSUME NEW x, NEW y, WeightsKept(x, y), NEW N, NEW h, NEW seq, NEW from
    PROVE  /\ Known(N, h, x) => Known(N, h, y)
           /\ InMode(seq, from, x) => InMode(seq, from, y)
<1>1. y.piece = x.piece /\ y.is_sequential = x.is_sequential
      /\ y.replication = x.replication /\ y.priority = x.priority /\ y.salt = x.salt
  BY DEF WeightsKept
<1>2. Known(N, h, x) => Known(N, h, y)
  BY <1>1 DEF Known
<1>3. InMode(seq, from, x) => InMode(seq, from, y)
  BY <1>1, Zenon DEF InMode
<1> QED BY <1>2, <1>3

(* Handing blocks over leaves the weights alone.                           *)
LEMMA HandWeights ==
    ASSUME NEW x \in Cands, NEW b, NEW y
    PROVE  /\ WeightsKept(x, CutBegin(x, b)) /\ WeightsKept(x, CutEnd(x, b))
           /\ WeightsKept(x, RegainBegin(x, y)) /\ WeightsKept(x, RegainEnd(x, y))
<1>1. WeightsKept(x, CutBegin(x, b))
  BY DEF WeightsKept, CutBegin, Cands
<1>2. WeightsKept(x, CutEnd(x, b))
  BY DEF WeightsKept, CutEnd, Cands
<1>3. WeightsKept(x, RegainBegin(x, y))
  BY DEF WeightsKept, RegainBegin, Cands
<1>4. WeightsKept(x, RegainEnd(x, y))
  BY DEF WeightsKept, RegainEnd, Cands
<1> QED BY <1>1, <1>2, <1>3, <1>4

(* The walk leaves a candidate the weights it came with.                   *)
LEMMA NewWeights ==
    ASSUME NEW E, NEW T, NEW X, Coming(E, T, X), NEW c \in T
    PROVE  WeightsKept(IF Listing(E, c) THEN OldOf(E, c) ELSE X[c], NewOf(E, T, X, c))
<1> DEFINE x == IF Listing(E, c) THEN OldOf(E, c) ELSE X[c]
           f == FirstOf(E, T, X, c)
           g == NewOf(E, T, X, c)
<1>1. x \in Cands
  <2>1. X[c] \in Cands
    BY DEF Coming, RawCands
  <2>2. Listing(E, c) => OldOf(E, c) \in Cands
    BY OldIs
  <2> QED BY <2>1, <2>2
<1>2. WeightsKept(x, x) /\ \A y, z : WeightsKept(x, y) /\ WeightsKept(y, z) => WeightsKept(x, z)
  BY DEF WeightsKept
<1>3. f = x \/ (\E y : f = RegainBegin(x, y)) \/ (\E b : f = CutBegin(x, b))
  BY DEF FirstOf, Begun
<1> HIDE DEF x
<1>4. WeightsKept(x, f)
  BY <1>1, <1>2, <1>3, HandWeights
<1>5. f \in Cands
  BY FirstIs DEF Sound
<1>6. g = f \/ (\E y : g = RegainEnd(f, y)) \/ (\E b : g = CutEnd(f, b))
  BY DEF NewOf
<1> HIDE DEF f, g
<1>7. WeightsKept(f, g) \/ g = f
  BY <1>5, <1>6, HandWeights
<1>8. WeightsKept(x, g)
  BY <1>2, <1>4, <1>7
<1> QED BY <1>8 DEF x, g

(* After a bad piece the candidates are sound, and are known as before.    *)
LEMMA RemadeSound ==
    ASSUME ModeKnown, NEW l \in Lists, AllSound(ToSet(l)), NEW c \in Pieces, NEW H, NEW salt \in Int
    PROVE  /\ AllSound(Remade(ToSet(l), c, H, salt))
           /\ \A y \in Remade(ToSet(l), c, H, salt) :
                \/ WeightsKept(Candidate(c, H, salt), y)
                \/ \E x \in ToSet(l) : Sound(x) /\ WeightsKept(x, y)
<1> DEFINE E == ToSet(l)
           lo == LoOf(E, c)
           hi == HiOf(E, c)
           z == Spanned(c, H, salt, lo, hi)
           B == BlockSpan[c]
           R == {y \in E : y.piece # c}
           F == GiveBack(B)
           D == Remade(E, c, H, salt)
<1>1. D = {z} \cup {F[x] : x \in R}
  BY DEF Remade
<1>2. /\ lo \in LowEdges(c) /\ hi \in HighEdges(c)
      /\ \A x \in E : (x.piece = c - 1 => x.end = lo) /\ (x.piece = c + 1 => x.begin = hi)
  BY EdgesOf
<1> HIDE DEF lo, hi
<1>3. /\ Respan(Candidate(c, H, salt), lo, hi, (lo .. hi - 1) \ H, z)
      /\ Sound(z)
  BY <1>2, SpannedIs
<1>4. B \subseteq Blocks
  BY <1>2, EdgeBlocks
<1> HIDE DEF B
<1>5. \A x \in E : Sound(x) /\ SpanKept(x, F[x]) /\ WeightsKept(x, F[x])
  BY <1>4, GiveKeeps DEF AllSound
<1> HIDE DEF F, z, D, E
<1>6. AllSound({F[x] : x \in R})
  <2>1. AllSound(R)
    BY FewerSound DEF E
  <2> DEFINE G == {F[x] : x \in R}
  <2>2. G = {F[x] : x \in R}
    OBVIOUS
  <2> HIDE DEF G
  <2>3. \A x \in R : SpanKept(x, F[x])
    BY <1>5
  <2> HIDE DEF R
  <2>4. AllSound(G)
    BY <2>1, <2>2, <2>3, KeptSound
  <2> QED BY <2>4 DEF G
<1>7. z.piece = c /\ z.begin = lo /\ z.end = hi /\ WeightsKept(Candidate(c, H, salt), z)
  <2>1. Fresh(c, H, salt, Candidate(c, H, salt))
    BY CandidateIs
  <2>2. Candidate(c, H, salt).piece = c
    BY <2>1 DEF Fresh
  <2> QED BY <1>3, <2>2 DEF Respan, WeightsKept
<1>8. \A x \in R : /\ F[x].piece = x.piece /\ F[x].begin = x.begin /\ F[x].end = x.end
                   /\ x.piece \in Int
                   /\ (x.piece = c - 1 => x.end = lo) /\ (x.piece = c + 1 => x.begin = hi)
  BY <1>2, <1>5, SoundSpan DEF SpanKept
<1>9. c \in Int
  BY DEF Pieces
<1>10. AllSound(D)
  <2>1. \A y \in D : Sound(y)
    BY <1>1, <1>3, <1>6 DEF AllSound
  <2>2. Meet(D)
    <3> SUFFICES ASSUME NEW u \in D, NEW v \in D, v.piece = u.piece + 1 PROVE v.begin = u.end
      BY DEF Meet
    <3>1. CASE u = z /\ v = z
      BY <1>7, <1>9, <3>1
    <3>2. CASE u = z /\ v \in {F[x] : x \in R}
      <4>1. PICK x \in R : v = F[x]
        BY <3>2
      <4> QED BY <1>7, <1>8, <1>9, <3>2, <4>1
    <3>3. CASE v = z /\ u \in {F[x] : x \in R}
      <4>1. PICK x \in R : u = F[x]
        BY <3>3
      <4> QED BY <1>7, <1>8, <1>9, <3>3, <4>1
    <3>4. CASE u \in {F[x] : x \in R} /\ v \in {F[x] : x \in R}
      <4> HIDE DEF R
      <4> QED BY <1>6, <3>4 DEF AllSound, Meet
    <3> QED BY <1>1, <3>1, <3>2, <3>3, <3>4
  <2> QED BY <2>1, <2>2 DEF AllSound
<1>11. \A y \in D : \/ WeightsKept(Candidate(c, H, salt), y)
                    \/ \E x \in E : Sound(x) /\ WeightsKept(x, y)
  BY <1>1, <1>5, <1>7
<1> QED BY <1>10, <1>11 DEF D, E

(***************************************************************************)
(* What a list l always is, for the pieces N of the peers and those of     *)
(* high priority, h; and what it is when the mode does not change midway.  *)
(***************************************************************************)
ListOf(l, N, h) == l \in Lists /\ AllSound(ToSet(l)) /\ \A x \in ToSet(l) : Known(N, h, x)

AllInMode(l, seq, from) == \A x \in ToSet(l) : InMode(seq, from, x)

OrderOf(l, seq, from) == InOrder(l) /\ AllInMode(l, seq, from)

(* In one mode the order is one.                                           *)
LEMMA ModeIsSame ==
    ASSUME NEW l, NEW seq, NEW from, AllInMode(l, seq, from)
    PROVE  SameMode(ToSet(l))
<1>1. \A x \in ToSet(l) : x.is_sequential = seq
  BY DEF AllInMode, InMode
<1> QED BY <1>1, Zenon DEF SameMode

(* A candidate that keeps its piece, mode and salt keeps its order.        *)
LEMMA ModeKept ==
    ASSUME NEW x, NEW y, y.piece = x.piece, y.is_sequential = x.is_sequential, y.salt = x.salt,
           NEW seq, NEW from, InMode(seq, from, x)
    PROVE  InMode(seq, from, y)
BY Zenon DEF InMode

(* A handler that turns the candidates into others of the same span.       *)
LEMMA TurnsHold ==
    ASSUME NEW N, NEW h, NEW l, ListOf(l, N, h), NEW m, NEW F, Turns(l, m, F), NEW M, NEW g,
           \A x \in ToSet(l) : SpanKept(x, F[x]) /\ Known(M, g, F[x])
    PROVE  ListOf(m, M, g)
<1>1. l \in Lists /\ AllSound(ToSet(l)) /\ \A x \in ToSet(l) : SpanKept(x, F[x])
  BY DEF ListOf
<1>2. /\ m \in Lists /\ AllSound(ToSet(m))
      /\ \A y \in ToSet(m) : \E x \in ToSet(l) : y = F[x] /\ Sound(x)
  BY <1>1, TurnsSound
<1> QED BY <1>2 DEF ListOf

(* A handler that turns every candidate in the same way keeps the list in  *)
(* order.                                                                  *)
LEMMA TurnsOrder ==
    ASSUME NEW l, NEW m, NEW F, Turns(l, m, F), NEW seq, NEW from, OrderOf(l, seq, from),
           NEW mode, NEW start, \A x \in ToSet(l) : InMode(mode, start, F[x])
    PROVE  OrderOf(m, mode, start)
<1>1. SameMode(ToSet(l)) /\ InOrder(l)
  BY ModeIsSame DEF OrderOf
<1>2. InOrder(m) /\ ToSet(m) = {F[x] : x \in ToSet(l)}
  BY <1>1 DEF Turns, Becomes
<1>3. \A y \in ToSet(m) : InMode(mode, start, y)
  BY <1>2, Zenon
<1> QED BY <1>2, <1>3, Zenon DEF OrderOf, AllInMode

(* One that does not touch the weights.                                    *)
LEMMA WeightsHold ==
    ASSUME NEW N, NEW h, NEW l, ListOf(l, N, h), NEW m, NEW F, Turns(l, m, F),
           \A x \in ToSet(l) : SpanKept(x, F[x]) /\ WeightsKept(x, F[x]), NEW seq, NEW from
    PROVE  ListOf(m, N, h) /\ (OrderOf(l, seq, from) => OrderOf(m, seq, from))
<1>1. ListOf(m, N, h)
  <2>1. \A x \in ToSet(l) : SpanKept(x, F[x]) /\ Known(N, h, F[x])
    <3> SUFFICES ASSUME NEW x \in ToSet(l) PROVE SpanKept(x, F[x]) /\ Known(N, h, F[x])
      OBVIOUS
    <3>1. Known(N, h, x) /\ WeightsKept(x, F[x])
      BY DEF ListOf
    <3> QED BY <3>1, KnownKept
  <2> QED BY <2>1, TurnsHold
<1>2. ASSUME OrderOf(l, seq, from) PROVE OrderOf(m, seq, from)
  <2>1. \A x \in ToSet(l) : InMode(seq, from, F[x])
    <3> SUFFICES ASSUME NEW x \in ToSet(l) PROVE InMode(seq, from, F[x])
      OBVIOUS
    <3>1. InMode(seq, from, x) /\ WeightsKept(x, F[x])
      BY <1>2, Zenon DEF OrderOf, AllInMode
    <3> QED BY <3>1, KnownKept, Zenon
  <2> QED BY <1>2, <2>1, TurnsOrder, Zenon
<1> QED BY <1>1, <1>2, Zenon

(* Candidates that are taken out of the list.                              *)
LEMMA FewerHold ==
    ASSUME NEW N, NEW h, NEW l, ListOf(l, N, h), NEW Good, NEW seq, NEW from
    PROVE  LET m == CompleteAll(l, Good)
           IN  ListOf(m, N, h) /\ (OrderOf(l, seq, from) => OrderOf(m, seq, from))
<1> DEFINE m == CompleteAll(l, Good)
<1>1. /\ m \in Lists /\ ToSet(m) = {x \in ToSet(l) : x.piece \notin Good}
      /\ InOrder(l) => InOrder(m)
  BY CompleteAllIs DEF ListOf
<1> HIDE DEF m
<1>2. ToSet(m) \subseteq ToSet(l)
  BY <1>1
<1>3. AllSound(ToSet(m))
  BY <1>2, FewerSound DEF ListOf
<1>4. ListOf(m, N, h)
  BY <1>1, <1>2, <1>3 DEF ListOf
<1>5. OrderOf(l, seq, from) => OrderOf(m, seq, from)
  BY <1>1, <1>2, Zenon DEF OrderOf, AllInMode
<1> QED BY <1>4, <1>5, Zenon DEF m

(* candidate_list_upkeep.                                                  *)
LEMMA UpkeepHolds ==
    ASSUME NEW l, ListOf(l, has, high), NEW W, NEW H, NEW random, Settings(random)
    PROVE  LET m == Upkeep(l, W, H, random)
           IN  /\ ListOf(m, has, high)
               /\ AllInMode(l, sequential, fromPiece) => OrderOf(m, sequential, fromPiece)
<1> DEFINE m == Upkeep(l, W, H, random)
           E == ToSet(l)
           T == Target(W, H)
           X == FreshOf(H, random)
<1>1. l \in Lists /\ AllSound(E)
  BY DEF ListOf
<1>2. m \in Lists /\ ToSet(m) = {NewOf(E, T, X, c) : c \in T} /\ (SameMode(ToSet(m)) => InOrder(m))
  BY <1>1, UpkeepIs
<1>3. Coming(E, T, X)
  <2>1. T \subseteq Pieces /\ RawCands(X)
    BY FreshIs DEF Target
  <2>2. \A x, y \in E : x.piece = y.piece => x = y
    BY <1>1, OneEach
  <2> QED BY <1>1, <2>1, <2>2 DEF Coming
<1>4. \A c \in T : Fresh(c, H, Salt(c, random, sequential, fromPiece), X[c])
  BY <1>3, FreshIs DEF Coming
<1> HIDE DEF m, T, X, E
<1>5. AllSound(ToSet(m))
  BY <1>2, <1>3, NewSound
<1>6. ASSUME NEW c \in T
      PROVE  /\ Known(has, high, NewOf(E, T, X, c))
             /\ AllInMode(l, sequential, fromPiece) => InMode(sequential, fromPiece, NewOf(E, T, X, c))
  <2> DEFINE x == IF Listing(E, c) THEN OldOf(E, c) ELSE X[c]
             g == NewOf(E, T, X, c)
  <2>1. WeightsKept(x, g)
    BY <1>3, NewWeights
  <2>2. c \in Pieces
    BY <1>3 DEF Coming
  <2>3. Known(has, high, X[c]) /\ InMode(sequential, fromPiece, X[c])
    BY <1>4, <2>2, FreshKnown, Zenon
  <2>4. ASSUME Listing(E, c) PROVE OldOf(E, c) \in ToSet(l)
    BY <1>3, <2>4, OldIs DEF E
  <2>5. Known(has, high, x)
    BY <2>3, <2>4 DEF ListOf
  <2>6. AllInMode(l, sequential, fromPiece) => InMode(sequential, fromPiece, x)
    BY <2>3, <2>4, Zenon DEF AllInMode
  <2> HIDE DEF x, g
  <2>7. Known(has, high, g)
    BY <2>1, <2>5, KnownKept
  <2>8. InMode(sequential, fromPiece, x) => InMode(sequential, fromPiece, g)
    BY <2>1, KnownKept, Zenon
  <2> QED BY <2>6, <2>7, <2>8, Zenon DEF g
<1>7. \A y \in ToSet(m) : Known(has, high, y)
  BY <1>2, <1>6
<1>8. ASSUME AllInMode(l, sequential, fromPiece) PROVE OrderOf(m, sequential, fromPiece)
  <2>1. AllInMode(m, sequential, fromPiece)
    BY <1>2, <1>6, <1>8, Zenon DEF AllInMode
  <2>2. SameMode(ToSet(m))
    BY <2>1, ModeIsSame, Zenon
  <2> QED BY <1>2, <2>1, <2>2, Zenon DEF OrderOf
<1> QED BY <1>2, <1>5, <1>7, <1>8, Zenon DEF m, ListOf

(* on_got_bad_piece                                                        *)
LEMMA BadHolds ==
    ASSUME NEW l, ListOf(l, has, high), NEW c \in Pieces, NEW H, NEW random, Settings(random)
    PROVE  LET m == BadPiece(l, c, H, Salt(c, random, sequential, fromPiece))
           IN  /\ ListOf(m, has, high)
               /\ AllInMode(l, sequential, fromPiece) => OrderOf(m, sequential, fromPiece)
<1> DEFINE s == Salt(c, random, sequential, fromPiece)
           m == BadPiece(l, c, H, s)
           x == Candidate(c, H, s)
<1>1. l \in Lists /\ AllSound(ToSet(l)) /\ ModeKnown
  BY DEF ListOf, Settings
<1>2. Fresh(c, H, s, x)
  <2>1. Fresh(c, H, s, FreshOf(H, random)[c])
    BY FreshIs
  <2> QED BY <2>1 DEF FreshOf
<1>3. s \in Int
  BY <1>2 DEF Fresh, Cands
<1>4. Known(has, high, x) /\ InMode(sequential, fromPiece, x)
  BY <1>2, FreshKnown, Zenon
<1> HIDE DEF s
<1>5. m \in Lists /\ ToSet(m) = Remade(ToSet(l), c, H, s) /\ (SameMode(ToSet(m)) => InOrder(m))
  BY <1>1, <1>3, BadPieceIs
<1>6. /\ AllSound(Remade(ToSet(l), c, H, s))
      /\ \A y \in Remade(ToSet(l), c, H, s) :
           \/ WeightsKept(x, y)
           \/ \E z \in ToSet(l) : Sound(z) /\ WeightsKept(z, y)
  BY <1>1, <1>3, RemadeSound
<1> HIDE DEF m, x
<1>7. ASSUME NEW y \in ToSet(m)
      PROVE  /\ Known(has, high, y)
             /\ AllInMode(l, sequential, fromPiece) => InMode(sequential, fromPiece, y)
  <2>1. PICK z : WeightsKept(z, y) /\ (z = x \/ z \in ToSet(l))
    BY <1>5, <1>6
  <2>2. Known(has, high, z)
    BY <1>4, <2>1 DEF ListOf
  <2>3. AllInMode(l, sequential, fromPiece) => InMode(sequential, fromPiece, z)
    BY <1>4, <2>1, Zenon DEF AllInMode
  <2>4. Known(has, high, y)
    BY <2>1, <2>2, KnownKept
  <2>5. InMode(sequential, fromPiece, z) => InMode(sequential, fromPiece, y)
    BY <2>1, KnownKept, Zenon
  <2> QED BY <2>3, <2>4, <2>5, Zenon
<1>8. ListOf(m, has, high)
  BY <1>5, <1>6, <1>7 DEF ListOf
<1>9. ASSUME AllInMode(l, sequential, fromPiece) PROVE OrderOf(m, sequential, fromPiece)
  <2>1. AllInMode(m, sequential, fromPiece)
    BY <1>7, <1>9, Zenon DEF AllInMode
  <2>2. SameMode(ToSet(m))
    BY <2>1, ModeIsSame, Zenon
  <2> QED BY <1>5, <2>1, <2>2, Zenon DEF OrderOf
<1> QED BY <1>8, <1>9, Zenon DEF m, s

(***************************************************************************)
(* The inductive invariant.  Of the order nothing can be said when the     *)
(* mode is switched midway, for operator<=> compares candidates of one     *)
(* mode only.                                                              *)
(***************************************************************************)
SwarmTypes ==
    /\ ModeKnown /\ fromPiece \in Pieces
    /\ have \subseteq Blocks /\ wanted \in Selections \cup {{}}
    /\ has \in [Peers -> SUBSET Pieces]

ListInv == ListOf(list, has, high) /\ SwarmTypes

OrderInv == OrderOf(list, sequential, fromPiece)

(* What each handler has to leave.                                         *)
Holding ==
    /\ ListOf(list', has', high')
    /\ ~TogglesMidway /\ OrderInv => OrderInv'

(* A handler that leaves the swarm, the settings and the weights alone.    *)
LEMMA WeightsHolding ==
    ASSUME ListInv, NEW F, Turns(list, list', F),
           \A x \in ToSet(list) : SpanKept(x, F[x]) /\ WeightsKept(x, F[x]),
           UNCHANGED <<settings, has>>
    PROVE  Holding
<1>1. /\ ListOf(list', has, high)
      /\ OrderOf(list, sequential, fromPiece) => OrderOf(list', sequential, fromPiece)
  BY WeightsHold, Zenon DEF ListInv
<1>2. has' = has /\ high' = high /\ sequential' = sequential /\ fromPiece' = fromPiece
  BY DEF settings
<1>3. ListOf(list', has', high')
  BY <1>1, <1>2
<1>4. OrderInv => OrderInv'
  BY <1>1, <1>2, Zenon DEF OrderInv
<1> QED BY <1>3, <1>4, Zenon DEF Holding

(* What the invariant says that the handlers need.                         *)
LEMMA InvFacts ==
    ASSUME ListInv
    PROVE  /\ list \in Lists /\ list \in Seq(Cands) /\ AllSound(ToSet(list))
           /\ \A x \in ToSet(list) : Sound(x) /\ x \in Cands /\ x.piece \in Pieces /\ Known(has, high, x)
           /\ fromPiece \in Pieces /\ ModeKnown /\ has \in [Peers -> SUBSET Pieces] /\ have \subseteq Blocks
<1>1. list \in Lists /\ AllSound(ToSet(list)) /\ \A x \in ToSet(list) : Known(has, high, x)
  BY DEF ListInv, ListOf
<1>2. \A x \in ToSet(list) : Sound(x) /\ x \in Cands /\ x.piece \in Pieces
  BY <1>1, SoundSpan DEF AllSound
<1>3. list \in Seq(Cands)
  BY <1>1 DEF Lists
<1> QED BY <1>1, <1>2, <1>3 DEF ListInv, SwarmTypes

(* A reject keeps the invariants.                                          *)
LEMMA RejectHolds ==
    ASSUME ListInv, NEW b \in Blocks, GotReject(b)
    PROVE  Holding
<1>1. Turns(list, list', GiveBack({b}))
  BY InvFacts, ResetBlockTurns DEF GotReject
<1>2. \A x \in ToSet(list) : SpanKept(x, GiveBack({b})[x]) /\ WeightsKept(x, GiveBack({b})[x])
  BY InvFacts, GiveKeeps
<1>3. UNCHANGED <<settings, has>>
  BY DEF GotReject
<1> QED BY <1>1, <1>2, <1>3, WeightsHolding

(* A choke keeps the invariants.                                           *)
LEMMA ChokeHolds ==
    ASSUME ListInv, NEW B \in SUBSET Blocks, GotChoke(B)
    PROVE  Holding
<1>1. Turns(list, list', GiveBack(B))
  BY InvFacts, ResetBlocksTurns DEF GotChoke
<1>2. \A x \in ToSet(list) : SpanKept(x, GiveBack(B)[x]) /\ WeightsKept(x, GiveBack(B)[x])
  BY InvFacts, GiveKeeps
<1>3. UNCHANGED <<settings, has>>
  BY DEF GotChoke
<1> QED BY <1>1, <1>2, <1>3, WeightsHolding

(* What is asked for was to be had of a candidate.                         *)
LEMMA NextOwned ==
    ASSUME ListInv, NEW n, NEW P
    PROVE  NextBlocks(n, P) \in SUBSET Blocks /\ list \in Owning(NextBlocks(n, P))
<1> DEFINE B == NextBlocks(n, P)
<1>1. \A b \in B : \E x \in ToSet(list) : b \in x.unrequested
  <2> SUFFICES ASSUME NEW b \in B PROVE \E x \in ToSet(list) : b \in x.unrequested
    OBVIOUS
  <2>1. PICK i \in Able(P) : b \in list[i].unrequested
    BY InvFacts, NextAvailable
  <2>2. i \in DOMAIN list
    BY DEF Able
  <2>3. list[i] \in ToSet(list)
    BY <2>2, InvFacts, ListFacts
  <2> QED BY <2>1, <2>3
<1>2. \A b \in B : b \in Blocks /\ \E x \in ToSet(list) : Owns(x, b)
  <2> SUFFICES ASSUME NEW b \in B PROVE b \in Blocks /\ \E x \in ToSet(list) : Owns(x, b)
    OBVIOUS
  <2>1. PICK x \in ToSet(list) : b \in x.unrequested
    BY <1>1
  <2>2. Sound(x) /\ x \in Cands
    BY InvFacts
  <2>3. Owns(x, b)
    BY <2>1, <2>2, SoundSpan
  <2> QED BY <2>1, <2>2, <2>3 DEF Cands
<1> HIDE DEF B
<1>3. list \in Owning(B)
  BY <1>2, InvFacts DEF Owning
<1> QED BY <1>2, <1>3 DEF B

(* Sending requests keeps the invariants.                                  *)
LEMMA SendHolds ==
    ASSUME ListInv, NEW p, NEW n, SendRequests(p, n)
    PROVE  Holding
<1> DEFINE B == NextBlocks(n, has[p])
<1>1. B \in SUBSET Blocks /\ list \in Owning(B) /\ list' = SentAll(list, B)
  BY NextOwned, SentFoldIs
<1> HIDE DEF B
<1>2. Turns(list, list', TakeFrom(B))
  BY <1>1, SentTurns
<1>3. \A x \in ToSet(list) : SpanKept(x, TakeFrom(B)[x]) /\ WeightsKept(x, TakeFrom(B)[x])
  BY InvFacts, TakeKeeps
<1>4. UNCHANGED <<settings, has>>
  BY DEF SendRequests
<1> QED BY <1>2, <1>3, <1>4, WeightsHolding

(* Of the peers that have a piece, those of the pieces P are at most n     *)
(* more than before.                                                       *)
Recounted(N, M, P, n) == \A c \in Pieces :
    Cardinality(Having(M, c)) <= Cardinality(Having(N, c)) + (IF c \in P THEN n ELSE 0)

(* A peer that turns out to have Q, where only P can be new, counts at     *)
(* most one more for each piece of P.                                      *)
LEMMA RecountedMore ==
    ASSUME NEW N \in [Peers -> SUBSET Pieces], NEW p \in Peers, NEW P, NEW Q \in SUBSET Pieces,
           Q \subseteq N[p] \cup P
    PROVE  Recounted(N, [N EXCEPT ![p] = Q], P, 1)
<1> DEFINE M == [N EXCEPT ![p] = Q]
<1> SUFFICES ASSUME NEW c \in Pieces
             PROVE  Cardinality(Having(M, c)) <= Cardinality(Having(N, c)) + (IF c \in P THEN 1 ELSE 0)
  BY DEF Recounted
<1>1. M = [N EXCEPT ![p] = Q]
  OBVIOUS
<1> HIDE DEF M
<1>2. IsFiniteSet(Having(N, c)) /\ Cardinality(Having(N, c)) \in Nat
  BY HavingFinite
<1>3. CASE c \in P
  <2> DEFINE more == Having(N, c) \cup {p}
  <2>1. Having(M, c) \subseteq more
    BY <1>1 DEF Having
  <2>2. IsFiniteSet(more) /\ Cardinality(more) <= Cardinality(Having(N, c)) + 1
    <3> DEFINE S == Having(N, c)
    <3>1. IsFiniteSet(S) /\ Cardinality(S) \in Nat
      BY <1>2
    <3> HIDE DEF S
    <3>2. /\ IsFiniteSet(S \cup {p})
          /\ Cardinality(S \cup {p}) = IF p \in S THEN Cardinality(S) ELSE Cardinality(S) + 1
      BY <3>1, FS_AddElement
    <3>3. IsFiniteSet(S \cup {p}) /\ Cardinality(S \cup {p}) <= Cardinality(S) + 1
      BY <3>1, <3>2
    <3> QED BY <3>3 DEF S
  <2>3. Cardinality(Having(M, c)) <= Cardinality(more)
    BY <2>1, <2>2, FS_Subset
  <2>4. Cardinality(more) \in Nat /\ Cardinality(Having(M, c)) \in Nat
    BY <2>2, FS_CardinalityType, HavingFinite
  <2> QED BY <1>2, <1>3, <2>2, <2>3, <2>4
<1>4. CASE c \notin P
  <2>1. Having(M, c) \subseteq Having(N, c)
    BY <1>1, <1>4 DEF Having
  <2>2. Cardinality(Having(M, c)) <= Cardinality(Having(N, c))
    BY <1>2, <2>1, FS_Subset
  <2> QED BY <1>2, <1>4, <2>2, HavingFinite
<1> QED BY <1>3, <1>4

(* A peer that leaves counts one less for each of its pieces.              *)
LEMMA RecountedLess ==
    ASSUME NEW N \in [Peers -> SUBSET Pieces], NEW p \in Peers
    PROVE  Recounted(N, [N EXCEPT ![p] = {}], N[p], -1)
<1> DEFINE M == [N EXCEPT ![p] = {}]
<1> SUFFICES ASSUME NEW c \in Pieces
             PROVE  Cardinality(Having(M, c)) <= Cardinality(Having(N, c)) + (IF c \in N[p] THEN -1 ELSE 0)
  BY DEF Recounted
<1>1. M = [N EXCEPT ![p] = {}]
  OBVIOUS
<1> HIDE DEF M
<1>2. CASE c \in N[p]
  <2>1. Having(M, c) = Having(N, c) \ {p} /\ p \in Having(N, c)
    BY <1>1, <1>2 DEF Having
  <2>2. IsFiniteSet(Having(N, c)) /\ Cardinality(Having(N, c)) \in Nat
    BY HavingFinite
  <2>3. Cardinality(Having(N, c) \ {p}) = Cardinality(Having(N, c)) - 1
    BY <2>1, <2>2, FS_RemoveElement
  <2> QED BY <1>2, <2>1, <2>2, <2>3
<1>3. CASE c \notin N[p]
  <2>1. Having(M, c) = Having(N, c)
    BY <1>1, <1>3 DEF Having
  <2> QED BY <1>3, <2>1, HavingFinite
<1> QED BY <1>2, <1>3

(* A list recounted with the peers keeps the replication high enough.      *)
LEMMA CountHolds ==
    ASSUME NEW l, NEW N, NEW h, ListOf(l, N, h), NEW m, NEW P, NEW n \in Int, Turns(l, m, Counted(P, n)),
           NEW M, Recounted(N, M, P, n), NEW seq, NEW from
    PROVE  ListOf(m, M, h) /\ (OrderOf(l, seq, from) => OrderOf(m, seq, from))
<1> DEFINE F == Counted(P, n)
<1>1. ASSUME NEW x \in ToSet(l)
      PROVE  /\ SpanKept(x, F[x]) /\ F[x].priority = x.priority /\ F[x].salt = x.salt
             /\ F[x].replication = IF x.piece \in P THEN x.replication + n ELSE x.replication
             /\ Known(N, h, x) /\ x.piece \in Pieces
  <2>1. Sound(x) /\ Known(N, h, x)
    BY DEF ListOf, AllSound
  <2> QED BY <2>1, CountKeeps, SoundSpan
<1> HIDE DEF F
<1>2. \A x \in ToSet(l) : SpanKept(x, F[x]) /\ Known(M, h, F[x])
  <2> SUFFICES ASSUME NEW x \in ToSet(l) PROVE SpanKept(x, F[x]) /\ Known(M, h, F[x])
    OBVIOUS
  <2> DEFINE k == Cardinality(Having(N, x.piece))
             m2 == Cardinality(Having(M, x.piece))
  <2>1. k \in Nat /\ m2 \in Nat
    BY HavingFinite
  <2>2. m2 <= k + (IF x.piece \in P THEN n ELSE 0)
    BY <1>1 DEF Recounted
  <2>3. x.replication \in Nat /\ k <= x.replication
    BY <1>1 DEF Known
  <2>4. F[x].piece = x.piece
    BY <1>1 DEF SpanKept
  <2> HIDE DEF k, m2
  <2>5. F[x].replication \in Nat /\ m2 <= F[x].replication
    BY <1>1, <2>1, <2>2, <2>3
  <2> QED BY <1>1, <2>4, <2>5 DEF Known, m2
<1>3. ListOf(m, M, h)
  BY <1>2, TurnsHold DEF F
<1>4. ASSUME OrderOf(l, seq, from) PROVE OrderOf(m, seq, from)
  <2>1. \A x \in ToSet(l) : InMode(seq, from, F[x])
    <3> SUFFICES ASSUME NEW x \in ToSet(l) PROVE InMode(seq, from, F[x])
      OBVIOUS
    <3>1. F[x].piece = x.piece /\ F[x].is_sequential = x.is_sequential /\ F[x].salt = x.salt
      BY <1>1 DEF SpanKept
    <3>2. InMode(seq, from, x)
      BY <1>4, Zenon DEF OrderOf, AllInMode
    <3> QED BY <3>1, <3>2, ModeKept, Zenon
  <2> QED BY <1>4, <2>1, TurnsOrder, Zenon DEF F
<1> QED BY <1>3, <1>4, Zenon

(* A have message keeps the invariants.                                    *)
LEMMA HaveHolds ==
    ASSUME ListInv, NEW p \in Peers, NEW c \in Pieces, GotHave(p, c)
    PROVE  Holding
<1>1. list' = CountPiece(list, c) /\ has' = [has EXCEPT ![p] = has[p] \cup {c}]
      /\ high' = high /\ sequential' = sequential /\ fromPiece' = fromPiece
  BY DEF GotHave, LearnPieces, settings
<1>2. Turns(list, list', Counted({c}, 1))
  BY <1>1, InvFacts, CountPieceTurns
<1>3. Recounted(has, has', {c}, 1)
  <2>1. has[p] \cup {c} \in SUBSET Pieces /\ has \in [Peers -> SUBSET Pieces]
    BY InvFacts
  <2> QED BY <1>1, <2>1, RecountedMore
<1>4. ListOf(list', has', high)
      /\ (OrderOf(list, sequential, fromPiece) => OrderOf(list', sequential, fromPiece))
  <2>1. ListOf(list, has, high) /\ 1 \in Int
    BY DEF ListInv
  <2> QED BY <1>2, <1>3, <2>1, CountHolds, Zenon
<1> QED BY <1>1, <1>4, Zenon DEF Holding, OrderInv

(* A bitfield keeps the invariants.                                        *)
LEMMA BitfieldHolds ==
    ASSUME ListInv, NEW p \in Peers, NEW P \in PeerPieces, GotBitfield(p, P)
    PROVE  Holding
<1> P \in SUBSET Pieces
  BY ListAssumption
<1>1. list' = CountBitfield(list, P, 1) /\ has' = [has EXCEPT ![p] = P]
      /\ high' = high /\ sequential' = sequential /\ fromPiece' = fromPiece
  BY DEF GotBitfield, LearnPieces, settings
<1>2. Turns(list, list', Counted(P, 1))
  BY <1>1, InvFacts, CountBitfieldTurns
<1>3. Recounted(has, has', P, 1)
  <2>1. has \in [Peers -> SUBSET Pieces]
    BY InvFacts
  <2> QED BY <1>1, <2>1, RecountedMore
<1>4. ListOf(list', has', high)
      /\ (OrderOf(list, sequential, fromPiece) => OrderOf(list', sequential, fromPiece))
  <2>1. ListOf(list, has, high) /\ 1 \in Int
    BY DEF ListInv
  <2> QED BY <1>2, <1>3, <2>1, CountHolds, Zenon
<1> QED BY <1>1, <1>4, Zenon DEF Holding, OrderInv

(* A peer that leaves keeps the invariants.                                *)
LEMMA DisconnectHolds ==
    ASSUME ListInv, NEW p \in Peers, NEW B \in SUBSET Blocks, PeerDisconnect(p, B)
    PROVE  Holding
<1> DEFINE P == has[p]
           l == CountBitfield(list, P, -1)
           F == GiveBack(B)
<1>1. list' = ResetBlocks(l, B) /\ has' = [has EXCEPT ![p] = {}]
      /\ high' = high /\ sequential' = sequential /\ fromPiece' = fromPiece
  BY DEF PeerDisconnect, settings
<1>2. P \in SUBSET Pieces
  BY InvFacts
<1> HIDE DEF l
<1>3. Turns(list, l, Counted(P, -1))
  BY <1>2, InvFacts, CountBitfieldTurns DEF l
<1>4. Recounted(has, has', P, -1)
  <2>1. has \in [Peers -> SUBSET Pieces]
    BY InvFacts
  <2> QED BY <1>1, <2>1, RecountedLess DEF P
<1>5. ListOf(l, has', high)
      /\ (OrderOf(list, sequential, fromPiece) => OrderOf(l, sequential, fromPiece))
  <2>1. ListOf(list, has, high) /\ -1 \in Int
    BY DEF ListInv
  <2> HIDE DEF P
  <2> QED BY <1>3, <1>4, <2>1, CountHolds, Zenon
<1>6. l \in Lists /\ \A x \in ToSet(l) : Sound(x)
  BY <1>5 DEF ListOf, AllSound
<1>7. Turns(l, list', F)
  BY <1>1, <1>6, ResetBlocksTurns
<1>8. \A x \in ToSet(l) : SpanKept(x, F[x]) /\ WeightsKept(x, F[x])
  BY <1>6, GiveKeeps
<1> HIDE DEF F
<1>9. ListOf(list', has', high)
      /\ (OrderOf(l, sequential, fromPiece) => OrderOf(list', sequential, fromPiece))
  BY <1>5, <1>7, <1>8, WeightsHold, Zenon
<1> QED BY <1>1, <1>5, <1>9, Zenon DEF Holding, OrderInv

(* on_priority_changed                                                     *)
LEMMA PriorityHolds ==
    ASSUME ListInv, NEW h, PriorityChanged(h)
    PROVE  Holding
<1> DEFINE F == Weighed(h)
<1>1. high' = h /\ has' = has /\ sequential' = sequential /\ fromPiece' = fromPiece
  BY DEF PriorityChanged
<1>2. Turns(list, list', F)
  BY InvFacts, PriorityTurns
<1>3. ASSUME NEW x \in ToSet(list)
      PROVE  /\ SpanKept(x, F[x]) /\ F[x].replication = x.replication /\ F[x].salt = x.salt
             /\ F[x].priority = (IF x.piece \in h THEN 1 ELSE 0) /\ Known(has, high, x)
  BY InvFacts, WeighKeeps
<1> HIDE DEF F
<1>4. \A x \in ToSet(list) : SpanKept(x, F[x]) /\ Known(has, h, F[x])
  BY <1>3 DEF SpanKept, Known
<1>5. ListOf(list', has, h)
  BY <1>2, <1>4, TurnsHold DEF ListInv
<1>6. OrderInv => OrderInv'
  <2> SUFFICES ASSUME OrderOf(list, sequential, fromPiece)
               PROVE  OrderOf(list', sequential, fromPiece)
    BY <1>1, Zenon DEF OrderInv
  <2>1. \A x \in ToSet(list) : InMode(sequential, fromPiece, F[x])
    <3> SUFFICES ASSUME NEW x \in ToSet(list) PROVE InMode(sequential, fromPiece, F[x])
      OBVIOUS
    <3>1. F[x].piece = x.piece /\ F[x].is_sequential = x.is_sequential /\ F[x].salt = x.salt
      BY <1>3 DEF SpanKept
    <3>2. InMode(sequential, fromPiece, x)
      BY Zenon DEF OrderOf, AllInMode
    <3> QED BY <3>1, <3>2, ModeKept, Zenon
  <2> QED BY <1>2, <2>1, TurnsOrder, Zenon
<1> QED BY <1>1, <1>5, <1>6, Zenon DEF Holding

(* recalculate_salt, in the mode seq from the piece `from'.                *)
LEMMA SaltsHold ==
    ASSUME ListInv, NEW random \in Randoms, NEW seq \in BOOLEAN, NEW from \in Pieces,
           NEW m, m = Resalted(seq, from, random)
    PROVE  /\ ListOf(m, has, high)
           /\ OrderInv /\ (\A x \in ToSet(list) : x.is_sequential = seq) => OrderOf(m, seq, from)
<1> DEFINE F == Salted(random, seq, from)
<1>1. Turns(list, m, F)
  BY InvFacts, ResaltedTurns
<1>2. ASSUME NEW x \in ToSet(list)
      PROVE  /\ SpanKept(x, F[x]) /\ F[x].replication = x.replication /\ F[x].priority = x.priority
             /\ F[x].salt \in Salts \cup Pieces
             /\ seq => F[x].salt = SequentialSalt(PieceCount, x.piece, from)
             /\ Known(has, high, x)
  <2>1. /\ SpanKept(x, F[x]) /\ F[x].replication = x.replication /\ F[x].priority = x.priority
        /\ F[x].salt = Salt(x.piece, random, seq, from)
    BY InvFacts, SaltKeeps
  <2>2. Known(has, high, x) /\ x.piece \in Pieces
    BY InvFacts
  <2> QED BY <2>1, <2>2, SaltType
<1> HIDE DEF F
<1>3. \A x \in ToSet(list) : SpanKept(x, F[x]) /\ Known(has, high, F[x])
  BY <1>2 DEF SpanKept, Known
<1>4. ListOf(m, has, high)
  BY <1>1, <1>3, TurnsHold DEF ListInv
<1>5. ASSUME OrderInv, \A x \in ToSet(list) : x.is_sequential = seq PROVE OrderOf(m, seq, from)
  <2>1. \A x \in ToSet(list) : InMode(seq, from, F[x])
    <3> SUFFICES ASSUME NEW x \in ToSet(list) PROVE InMode(seq, from, F[x])
      OBVIOUS
    <3>1. F[x].piece = x.piece /\ F[x].is_sequential = seq
          /\ (seq => F[x].salt = SequentialSalt(PieceCount, x.piece, from))
      BY <1>2, <1>5 DEF SpanKept
    <3> QED BY <3>1 DEF InMode
  <2> QED BY <1>1, <1>5, <2>1, TurnsOrder, Zenon DEF OrderInv
<1> QED BY <1>4, <1>5, Zenon

(* A change of mode keeps the invariants.                                  *)
LEMMA SequentialHolds ==
    ASSUME ListInv, NEW random \in Randoms, SequentialChanged(random)
    PROVE  Holding
<1>1. PICK seq \in BOOLEAN : seq = ~sequential
  OBVIOUS
<1>2. /\ sequential' = seq /\ list' = Resalted(seq, fromPiece, random)
      /\ high' = high /\ has' = has /\ fromPiece' = fromPiece
      /\ TogglesMidway \/ list = <<>>
  BY <1>1, Zenon DEF SequentialChanged
<1>3. fromPiece \in Pieces
  BY InvFacts
<1>4. /\ ListOf(list', has, high)
      /\ OrderInv /\ (\A x \in ToSet(list) : x.is_sequential = seq) => OrderOf(list', seq, fromPiece)
  BY <1>2, <1>3, SaltsHold
<1>5. ASSUME list = <<>> PROVE \A x \in ToSet(list) : x.is_sequential = seq
  BY <1>5 DEF ToSet
<1>6. ~TogglesMidway /\ OrderInv => OrderOf(list', seq, fromPiece)
  BY <1>2, <1>4, <1>5, Zenon
<1>7. OrderOf(list', seq, fromPiece) => OrderInv'
  BY <1>2, Zenon DEF OrderInv
<1>8. ListOf(list', has', high')
  BY <1>2, <1>4
<1> QED BY <1>6, <1>7, <1>8, Zenon DEF Holding

(* A change of the first sequential piece keeps the invariants.            *)
LEMMA FromPieceHolds ==
    ASSUME ListInv, NEW random \in Randoms, NEW c \in Pieces, FromPieceChanged(c, random)
    PROVE  Holding
<1>1. PICK seq \in BOOLEAN : seq = sequential
  BY InvFacts DEF ModeKnown
<1>2. /\ sequential' = seq /\ list' = Resalted(seq, c, random)
      /\ high' = high /\ has' = has /\ fromPiece' = c
  BY <1>1, Zenon DEF FromPieceChanged
<1>4. /\ ListOf(list', has, high)
      /\ OrderInv /\ (\A x \in ToSet(list) : x.is_sequential = seq) => OrderOf(list', seq, c)
  BY <1>2, SaltsHold
<1>5. OrderInv => \A x \in ToSet(list) : x.is_sequential = seq
  BY <1>1, Zenon DEF OrderInv, OrderOf, AllInMode, InMode
<1>6. OrderInv => OrderOf(list', seq, c)
  BY <1>4, <1>5, Zenon
<1>7. OrderOf(list', seq, c) => OrderInv'
  BY <1>2, Zenon DEF OrderInv
<1>8. ListOf(list', has', high')
  BY <1>2, <1>4
<1> QED BY <1>6, <1>7, <1>8, Zenon DEF Holding

(* A change of the files wanted keeps the invariants.                      *)
LEMMA WantedHolds ==
    ASSUME ListInv, NEW random \in Randoms, NEW w, FilesWanted(w, random)
    PROVE  Holding
<1> DEFINE m == Upkeep(list, w, have, random)
<1>1. /\ list' = m /\ has' = has
      /\ high' = high /\ sequential' = sequential /\ fromPiece' = fromPiece
  BY DEF FilesWanted, settings
<1>2. Settings(random)
  BY InvFacts DEF Settings
<1>3. ListOf(list, has, high)
  BY DEF ListInv
<1>4. /\ ListOf(m, has, high)
      /\ AllInMode(list, sequential, fromPiece) => OrderOf(m, sequential, fromPiece)
  BY <1>2, <1>3, UpkeepHolds, Zenon
<1> HIDE DEF m
<1>5. ListOf(list', has', high')
  BY <1>1, <1>4
<1>6. OrderInv => OrderInv'
  BY <1>1, <1>4, Zenon DEF OrderInv, OrderOf
<1> QED BY <1>5, <1>6, Zenon DEF Holding

(* A block comes, and may complete pieces, one of which may be bad.        *)
LEMMA ReceiveHolds ==
    ASSUME ListInv, NEW random \in Randoms, NEW b \in Blocks,
           NEW Bad, Bad = {} \/ \E c \in Pieces : Bad = {c}, Receive(b, Bad, random)
    PROVE  Holding
<1> DEFINE l == GotBlock(list, b)
           Good == Events!GoodBefore(b, Bad)
           m == CompleteAll(l, Good)
           c == CHOOSE d \in Bad : TRUE
           H == Events!HaveAfter(b, Bad)
           n == BadPiece(m, c, H, Salt(c, random, sequential, fromPiece))
<1>1. list' = IF Bad = {} THEN m ELSE n
  BY ReceiveIs
<1>2. has' = has /\ high' = high /\ sequential' = sequential /\ fromPiece' = fromPiece
  BY DEF Receive, settings
<1>3. b \in Int /\ list \in Lists /\ AllSound(ToSet(list)) /\ ListOf(list, has, high)
  BY InvFacts DEF Blocks, ListInv
<1>4. Turns(list, l, TakeFrom({b}))
  BY <1>3, GotBlockTurns
<1>5. \A x \in ToSet(list) : SpanKept(x, TakeFrom({b})[x]) /\ WeightsKept(x, TakeFrom({b})[x])
  BY InvFacts, TakeKeeps
<1> HIDE DEF l
<1>6. ListOf(l, has, high) /\ (OrderOf(list, sequential, fromPiece) => OrderOf(l, sequential, fromPiece))
  BY <1>3, <1>4, <1>5, WeightsHold, Zenon
<1> HIDE DEF Good
<1>7. ListOf(m, has, high) /\ (OrderOf(l, sequential, fromPiece) => OrderOf(m, sequential, fromPiece))
  BY <1>6, FewerHold, Zenon
<1> HIDE DEF m
<1>8. Settings(random)
  BY InvFacts DEF Settings
<1>9. CASE Bad = {}
  <2>1. ListOf(list', has', high')
    BY <1>1, <1>2, <1>7, <1>9
  <2>2. list' = m
    BY <1>1, <1>9
  <2>3. OrderInv => OrderInv'
    BY <1>2, <1>6, <1>7, <2>2, Zenon DEF OrderInv
  <2> QED BY <2>1, <2>3, Zenon DEF Holding
<1>10. CASE \E d \in Pieces : Bad = {d}
  <2>1. c \in Pieces /\ Bad # {}
    BY <1>10
  <2> HIDE DEF H, c
  <2>2. /\ ListOf(n, has, high)
        /\ AllInMode(m, sequential, fromPiece) => OrderOf(n, sequential, fromPiece)
    BY <1>7, <1>8, <2>1, BadHolds, Zenon
  <2> HIDE DEF n
  <2>3. list' = n
    BY <1>1, <2>1
  <2>4. ListOf(list', has', high')
    BY <1>2, <2>2, <2>3
  <2>5. OrderInv => OrderInv'
    BY <1>2, <1>6, <1>7, <2>2, <2>3, Zenon DEF OrderInv, OrderOf
  <2> QED BY <2>4, <2>5, Zenon DEF Holding
<1> QED BY <1>9, <1>10

(* What can have been asked for are blocks of the torrent.                 *)
LEMMA RequestedBlocks ==
    ASSUME ListInv
    PROVE  Requested \subseteq Blocks
<1> SUFFICES ASSUME NEW e \in ToSet(list), NEW b \in e.begin .. e.end - 1 PROVE b \in Blocks
  BY DEF Requested
<1>1. Sound(e)
  BY InvFacts
<1>2. e.piece \in Pieces /\ e.begin \in LowEdges(e.piece) /\ e.end \in HighEdges(e.piece)
  BY <1>1 DEF Sound, Cands
<1>3. /\ RawBegin(e.piece) \in Nat /\ RawEnd(e.piece) \in Nat /\ e.begin \in Nat /\ e.end \in Nat
      /\ RawBegin(e.piece) .. RawEnd(e.piece) - 1 \subseteq Blocks
  BY <1>2, EdgeBlocks
<1>4. RawBegin(e.piece) <= e.begin /\ e.end <= RawEnd(e.piece)
  BY <1>1, SoundSpan
<1> QED BY <1>3, <1>4

(* No event brings the swarm or the settings out of their types.           *)
LEMMA SwarmStep ==
    ASSUME SwarmTypes, Next
    PROVE  SwarmTypes'
<1> USE DEF SwarmTypes
<1>1. ASSUME NEW random \in Randoms, NEW w \in Selections, FilesWanted(w, random) PROVE SwarmTypes'
  BY <1>1 DEF FilesWanted, settings, ModeKnown
<1>2. ASSUME NEW random \in Randoms, NEW b \in Blocks \ have, NEW Bad, Receive(b, Bad, random)
      PROVE  SwarmTypes'
  <2>1. have' \subseteq Blocks /\ UNCHANGED <<settings, wanted, has>>
    BY <1>2 DEF Receive, Events!HaveAfter
  <2> QED BY <2>1 DEF settings, ModeKnown
<1>3. ASSUME NEW random \in Randoms, SequentialChanged(random) PROVE SwarmTypes'
  <2>1. ModeKnown'
    BY <1>3, Zenon DEF SequentialChanged, ModeKnown
  <2>2. UNCHANGED <<fromPiece, have, wanted, has>>
    BY <1>3 DEF SequentialChanged
  <2> QED BY <2>1, <2>2
<1>4. ASSUME NEW random \in Randoms, NEW c \in FromPieces, FromPieceChanged(c, random) PROVE SwarmTypes'
  <2>1. fromPiece' = c /\ UNCHANGED <<sequential, have, wanted, has>>
    BY <1>4 DEF FromPieceChanged
  <2> QED BY <2>1, ListAssumption DEF ModeKnown
<1>5. ASSUME NEW p \in Peers, NEW n \in 1 .. BlockCount, SendRequests(p, n) PROVE SwarmTypes'
  BY <1>5 DEF SendRequests, settings, ModeKnown
<1>6. ASSUME NEW b \in Requested, GotReject(b) PROVE SwarmTypes'
  BY <1>6 DEF GotReject, settings, ModeKnown
<1>7. ASSUME NEW B \in SUBSET Requested, GotChoke(B) PROVE SwarmTypes'
  BY <1>7 DEF GotChoke, settings, ModeKnown
<1>8. ASSUME NEW p \in Peers, NEW B \in SUBSET Requested, PeerDisconnect(p, B) PROVE SwarmTypes'
  BY <1>8 DEF PeerDisconnect, settings, ModeKnown
<1>9. ASSUME NEW p \in Peers, NEW c \in Pieces, GotHave(p, c) PROVE SwarmTypes'
  <2>1. /\ has' = [has EXCEPT ![p] = has[p] \cup {c}]
        /\ UNCHANGED <<settings, have, wanted>>
    BY <1>9 DEF GotHave, LearnPieces
  <2> QED BY <2>1 DEF settings, ModeKnown
<1>10. ASSUME NEW p \in Peers, NEW P \in PeerPieces, GotBitfield(p, P) PROVE SwarmTypes'
  <2>1. has' = [has EXCEPT ![p] = P] /\ UNCHANGED <<settings, have, wanted>> /\ P \in SUBSET Pieces
    BY <1>10, ListAssumption DEF GotBitfield, LearnPieces
  <2> QED BY <2>1 DEF settings, ModeKnown
<1>11. ASSUME NEW h \in HighPriorities, PriorityChanged(h) PROVE SwarmTypes'
  BY <1>11 DEF PriorityChanged, ModeKnown
<1> HIDE DEF SwarmTypes
<1> QED BY <1>1, <1>2, <1>3, <1>4, <1>5, <1>6, <1>7, <1>8, <1>9, <1>10, <1>11 DEF Next

(* Every event leaves the list as it has to be.                            *)
LEMMA ListStep ==
    ASSUME ListInv, Next
    PROVE  Holding
<1>1. Requested \subseteq Blocks /\ \A B \in SUBSET Requested : B \in SUBSET Blocks
  BY RequestedBlocks
<1>2. ASSUME NEW random \in Randoms, NEW b \in Blocks \ have,
             NEW Bad \in {{}} \cup {{c} : c \in Events!CompletedBy(b)}, Receive(b, Bad, random)
      PROVE  Holding
  <2>1. Bad = {} \/ \E c \in Pieces : Bad = {c}
    <3>1. Events!CompletedBy(b) \subseteq Pieces
      BY DEF Events!CompletedBy, Events!Pieces, Events!PieceCount, Pieces, PieceCount
    <3> QED BY <3>1
  <2> QED BY <1>2, <2>1, ReceiveHolds
<1>3. ASSUME NEW random \in Randoms, NEW w \in Selections, FilesWanted(w, random) PROVE Holding
  BY <1>3, WantedHolds
<1>4. ASSUME NEW random \in Randoms, SequentialChanged(random) PROVE Holding
  BY <1>4, SequentialHolds
<1>5. ASSUME NEW random \in Randoms, NEW c \in FromPieces, FromPieceChanged(c, random) PROVE Holding
  BY <1>5, FromPieceHolds, ListAssumption
<1>6. ASSUME NEW p \in Peers, NEW n \in 1 .. BlockCount, SendRequests(p, n) PROVE Holding
  BY <1>6, SendHolds
<1>7. ASSUME NEW b \in Requested, GotReject(b) PROVE Holding
  BY <1>1, <1>7, RejectHolds
<1>8. ASSUME NEW B \in SUBSET Requested, GotChoke(B) PROVE Holding
  BY <1>1, <1>8, ChokeHolds
<1>9. ASSUME NEW p \in Peers, NEW B \in SUBSET Requested, PeerDisconnect(p, B) PROVE Holding
  BY <1>1, <1>9, DisconnectHolds
<1>10. ASSUME NEW p \in Peers, NEW c \in Pieces, GotHave(p, c) PROVE Holding
  BY <1>10, HaveHolds
<1>11. ASSUME NEW p \in Peers, NEW P \in PeerPieces, GotBitfield(p, P) PROVE Holding
  BY <1>11, BitfieldHolds
<1>12. ASSUME NEW h \in HighPriorities, PriorityChanged(h) PROVE Holding
  BY <1>12, PriorityHolds
<1> QED BY <1>2, <1>3, <1>4, <1>5, <1>6, <1>7, <1>8, <1>9, <1>10, <1>11, <1>12 DEF Next

(* There is a first piece.                                                 *)
LEMMA FirstPiece == 0 \in Pieces
<1> DEFINE n == PieceCount
<1>1. /\ TotalSize + PieceSize - 1 \in Int /\ PieceSize \in Nat \ {0}
      /\ TotalSize + PieceSize - 1 >= PieceSize
  BY SizeAssumption
<1>2. n \in Int /\ TotalSize + PieceSize - 1 < PieceSize * n + PieceSize
  BY <1>1, DivBounds DEF PieceCount
<1> HIDE DEF n
<1>3. n >= 1
  <2> SUFFICES ASSUME n <= 0 PROVE FALSE
    BY <1>2
  <2>1. PieceSize * n <= 0
    BY <1>1, <1>2
  <2> QED BY <1>1, <1>2, <2>1
<1> QED BY <1>2, <1>3 DEF n, Pieces

(* The invariants hold when the wishlist is made.                          *)
LEMMA ListInit ==
    ASSUME Init
    PROVE  ListInv /\ OrderInv
<1>1. list = <<>> /\ ToSet(list) = {} /\ Len(list) = 0 /\ DOMAIN list = {}
  BY DEF Init, ToSet
<1>2. list \in Lists
  BY <1>1 DEF Lists, Keyed
<1>3. ListOf(list, has, high)
  BY <1>1, <1>2 DEF ListOf, AllSound, Meet
<1>4. OrderInv
  BY <1>1 DEF OrderInv, OrderOf, AllInMode, InOrder, Ordered
<1>5. SwarmTypes
  <2>1. ModeKnown
    BY Zenon DEF Init, ModeKnown
  <2> QED BY <2>1, FirstPiece DEF Init, SwarmTypes
<1> QED BY <1>3, <1>4, <1>5 DEF ListInv

(* The inductive invariant of the wishlist's list: a piece is listed once, *)
(* a candidate begins and ends where its piece or its neighbours let it,   *)
(* neighbours meet, and each has the priority of its piece, at least as    *)
(* many peers as have the piece, whatever they say and repeat, and a salt  *)
(* that get_salt gives.                                                    *)
THEOREM ListHolds == Spec => []ListInv
<1>1. Init => ListInv
  BY ListInit
<1>2. ListInv /\ [Next]_vars => ListInv'
  <2> SUFFICES ASSUME ListInv, [Next]_vars PROVE ListInv'
    OBVIOUS
  <2>1. CASE Next
    <3>1. Holding /\ SwarmTypes'
      BY <2>1, ListStep, SwarmStep DEF ListInv
    <3> QED BY <3>1 DEF Holding, ListInv
  <2>2. CASE UNCHANGED vars
    <3>1. list' = list /\ has' = has /\ high' = high /\ UNCHANGED <<sequential, fromPiece, have, wanted, has>>
      BY <2>2 DEF vars, settings
    <3>2. SwarmTypes'
      BY <3>1 DEF ListInv, SwarmTypes, ModeKnown
    <3>3. ListOf(list', has', high')
      BY <3>1 DEF ListInv
    <3> QED BY <3>2, <3>3 DEF ListInv
  <2> QED BY <2>1, <2>2
<1> QED BY <1>1, <1>2, PTL DEF Spec

(* Its order, which the partial resorts and the sorts keep as long as the  *)
(* mode is switched only when there are no candidates.                     *)
THEOREM OrderHolds ==
    ASSUME ~TogglesMidway
    PROVE  Spec => [](ListInv /\ OrderInv)
<1>1. Init => OrderInv
  BY ListInit
<1>2. ListInv /\ OrderInv /\ [Next]_vars => OrderInv'
  <2> SUFFICES ASSUME ListInv, OrderInv, [Next]_vars PROVE OrderInv'
    OBVIOUS
  <2>1. CASE Next
    <3>1. Holding
      BY <2>1, ListStep
    <3> QED BY <3>1, Zenon DEF Holding
  <2>2. CASE UNCHANGED vars
    <3>1. list' = list /\ sequential' = sequential /\ fromPiece' = fromPiece
      BY <2>2 DEF vars, settings
    <3> QED BY <3>1, Zenon DEF OrderInv
  <2> QED BY <2>1, <2>2
<1> QED BY <1>1, <1>2, ListHolds, PTL DEF Spec

-----------------------------------------------------------------------------
(* What follows from them.                                                 *)

(* The types of the wishlist: a candidate lies within its piece, counts    *)
(* never fewer than no peers, and is the only one of its piece.            *)
THEOREM ListTypes == Spec => []TypeOK
<1>1. ListInv => TypeOK
  <2> SUFFICES ASSUME ListInv PROVE TypeOK
    OBVIOUS
  <2>1. /\ DOMAIN list = 1 .. Len(list) /\ Keyed(list)
        /\ \A i \in 1 .. Len(list) : list[i] \in ToSet(list)
    BY InvFacts, ListFacts DEF Lists
  <2>2. ASSUME NEW e \in ToSet(list)
        PROVE  /\ e.piece \in Pieces
               /\ RawBegin(e.piece) <= e.begin /\ e.begin <= e.end /\ e.end <= RawEnd(e.piece)
               /\ e.unrequested \subseteq e.begin .. e.end - 1
               /\ e.replication \in Nat
               /\ e.priority = Priority(e.piece)
               /\ e.salt \in Salts \cup Pieces /\ e.is_sequential \in BOOLEAN
    <3>1. Sound(e) /\ Known(has, high, e)
      BY InvFacts
    <3>2. /\ e.piece \in Pieces
          /\ RawBegin(e.piece) <= e.begin /\ e.begin <= e.end /\ e.end <= RawEnd(e.piece)
          /\ e.unrequested \subseteq e.begin .. e.end - 1
      BY <3>1, SoundSpan DEF Sound
    <3>3. e.replication \in Nat
      BY <3>1 DEF Known
    <3>4. e.priority = Priority(e.piece) /\ e.salt \in Salts \cup Pieces
      BY <3>1 DEF Known, Priority
    <3>5. e.is_sequential \in BOOLEAN
      BY <3>1 DEF Sound, Cands
    <3> QED BY <3>2, <3>3, <3>4, <3>5
  <2>3. \A i, j \in DOMAIN list : list[i].piece = list[j].piece => i = j
    BY <2>1 DEF Keyed
  <2>4. have \subseteq Blocks /\ wanted \in Selections \cup {{}} /\ has \in [Peers -> SUBSET Pieces]
    BY DEF ListInv, SwarmTypes
  <2> QED BY <2>1, <2>2, <2>3, <2>4 DEF TypeOK
<1> QED BY <1>1, ListHolds, PTL

(* The ends of neighbouring candidates always meet, however they came to   *)
(* the list, for torrents of any size and any sizes of piece and block.    *)
THEOREM NeighboursAlwaysMeet == Spec => []NeighboursMeet
<1>1. ListInv => NeighboursMeet
  BY InvFacts DEF NeighboursMeet, AllSound, Meet
<1> QED BY <1>1, ListHolds, PTL

(* The wishlist keeps its candidates sorted although most handlers move    *)
(* one of them or none: what on_got_block, on_got_have and the others      *)
(* change moves a candidate no further than resort_piece brings it back.   *)
THEOREM StaysSorted ==
    ASSUME ~TogglesMidway
    PROVE  Spec => []ListSorted
<1>1. ListInv /\ OrderInv => ListSorted
  <2> SUFFICES ASSUME ListInv, InOrder(list) PROVE ListSorted
    BY DEF OrderInv, OrderOf
  <2>1. DOMAIN list = 1 .. Len(list) /\ \A i \in 1 .. Len(list) : list[i] \in Cands
    BY InvFacts, ListFacts
  <2>2. \A i, j \in 1 .. Len(list) : i < j => <<list[j], list[i]>> \notin LessPairs
    BY DEF InOrder, Ordered
  <2>3. \A i, j \in 1 .. Len(list) : Less(list[j], list[i]) => <<list[j], list[i]>> \in LessPairs
    BY <2>1 DEF LessPairs
  <2> QED BY <2>1, <2>2, <2>3 DEF ListSorted
<1> QED BY <1>1, OrderHolds, PTL

(* get_salt's numbers are in the order of the sequential download.         *)
LEMMA SaltRank ==
    ASSUME NEW n \in Nat, NEW c \in 0 .. n - 1, NEW d \in 0 .. n - 1, NEW from \in 0 .. n - 1
    PROVE  /\ SequentialSalt(n, c, from) < SequentialSalt(n, d, from)
                <=> Rank(n, c, from) < Rank(n, d, from)
           /\ Rank(n, c, from) \in Int /\ SequentialSalt(n, c, from) \in Int
           /\ Rank(n, c, from) = Rank(n, d, from) => c = d
BY DEF SequentialSalt, Rank

(* get_salt rotates the pieces of any torrent: the first, the last, and    *)
(* the others from `from' on, going round at the end.                      *)
THEOREM SaltsAlwaysRotate == \A n \in Nat : SaltsRotate(n)
<1> SUFFICES ASSUME NEW n \in Nat, NEW c \in 0 .. n - 1, NEW d \in 0 .. n - 1, NEW from \in 0 .. n - 1
             PROVE  SequentialSalt(n, c, from) < SequentialSalt(n, d, from)
                        <=> Rank(n, c, from) < Rank(n, d, from)
  BY DEF SaltsRotate
<1> QED BY SaltRank

(* Sequential download takes, among pieces of the same priority and        *)
(* replication, the first, the last, and the others from fromPiece on, if  *)
(* the mode is switched only while there are no candidates.                *)
THEOREM TakesInSequence ==
    ASSUME ~TogglesMidway
    PROVE  Spec => []SequentialOrder
<1>1. ListInv /\ OrderInv => SequentialOrder
  <2> SUFFICES ASSUME ListInv, OrderInv, sequential, NEW i \in DOMAIN list, NEW j \in DOMAIN list,
                      i < j, list[i].priority = list[j].priority,
                      list[i].replication = list[j].replication
               PROVE  Rank(PieceCount, list[i].piece, fromPiece) < Rank(PieceCount, list[j].piece, fromPiece)
    BY Zenon DEF SequentialOrder
  <2> DEFINE x == list[i]
             y == list[j]
             n == PieceCount
  <2>1. /\ i \in 1 .. Len(list) /\ j \in 1 .. Len(list) /\ Keyed(list)
        /\ x \in ToSet(list) /\ y \in ToSet(list) /\ x \in Cands /\ y \in Cands
    BY InvFacts, ListFacts DEF Lists
  <2>2. <<y, x>> \notin LessPairs
    BY <2>1 DEF OrderInv, OrderOf, InOrder, Ordered
  <2>3. ~Less(y, x)
    BY <2>1, <2>2 DEF LessPairs
  <2>4. InMode(sequential, fromPiece, x) /\ InMode(sequential, fromPiece, y)
    BY <2>1, Zenon DEF OrderInv, OrderOf, AllInMode
  <2>5. y.is_sequential
        /\ x.salt = SequentialSalt(n, x.piece, fromPiece) /\ y.salt = SequentialSalt(n, y.piece, fromPiece)
    BY <2>4, Zenon DEF InMode
  <2>6. /\ n \in Nat /\ x.piece \in 0 .. n - 1 /\ y.piece \in 0 .. n - 1 /\ fromPiece \in 0 .. n - 1
        /\ x.piece # y.piece
    BY <2>1, InvFacts, Counts DEF Pieces, Keyed
  <2> HIDE DEF x, y, n
  <2>7. ~(y.salt < x.salt)
    <3>1. y.priority = x.priority /\ y.replication = x.replication
      BY DEF x, y
    <3> QED BY <2>3, <2>5, <3>1 DEF Less
  <2>8. ~(Rank(n, y.piece, fromPiece) < Rank(n, x.piece, fromPiece))
    BY <2>5, <2>6, <2>7, SaltRank
  <2>9. Rank(n, x.piece, fromPiece) < Rank(n, y.piece, fromPiece)
    <3>1. /\ Rank(n, x.piece, fromPiece) \in Int /\ Rank(n, y.piece, fromPiece) \in Int
          /\ Rank(n, x.piece, fromPiece) # Rank(n, y.piece, fromPiece)
      BY <2>6, SaltRank
    <3> QED BY <2>8, <3>1
  <2> QED BY <2>9 DEF x, y, n
<1> QED BY <1>1, OrderHolds, PTL

(* What next() returns is to be had, is as much as there is or was asked   *)
(* for, and passes no better candidate over.                               *)
THEOREM TakesTheBest ==
    ASSUME ~TogglesMidway
    PROVE  Spec => []NextIsBest
<1>1. ListInv /\ OrderInv => NextIsBest
  <2> SUFFICES ASSUME ListInv, InOrder(list), NEW n \in 1 .. BlockCount, NEW P \in SUBSET Pieces
               PROVE  LET B  == NextBlocks(n, P)
                          able == {i \in DOMAIN list : list[i].replication > 0 /\ list[i].piece \in P}
                      IN  /\ \A b \in B : \E i \in able : b \in list[i].unrequested
                          /\ Cardinality(B) = Min2(n, Cardinality(UNION {list[i].unrequested : i \in able}))
                          /\ \A i, j \in able : /\ Less(list[i], list[j])
                                                /\ list[j].unrequested \cap B # {}
                                                => list[i].unrequested \subseteq B
    BY DEF NextIsBest, OrderInv, OrderOf
  <2> DEFINE B  == NextBlocks(n, P)
             able == {i \in DOMAIN list : list[i].replication > 0 /\ list[i].piece \in P}
             N == Len(list)
  <2>1. /\ list \in Lists /\ list \in Seq(Cands) /\ AllSound(ToSet(list)) /\ Keyed(list)
        /\ N \in Nat /\ DOMAIN list = 1 .. N
        /\ \A i \in 1 .. N : list[i] \in ToSet(list) /\ list[i] \in Cands /\ Sound(list[i])
    BY InvFacts, ListFacts DEF Lists
  <2>2. \A i \in 1 .. N : list[i].replication \in Nat
    <3> SUFFICES ASSUME NEW i \in 1 .. N PROVE list[i].replication \in Nat
      OBVIOUS
    <3>1. Known(has, high, list[i])
      BY <2>1, InvFacts
    <3> QED BY <3>1 DEF Known
  <2>3. able = Able(P)
    BY <2>1, <2>2 DEF Able
  <2>4. Can(P, N) = UNION {list[i].unrequested : i \in able}
    <3>1. {j \in Able(P) : j <= N} = able
      BY <2>1, <2>3 DEF Able
    <3> HIDE DEF able
    <3> QED BY <3>1 DEF Can
  <2>5. BestOf(n, P, N, B)
    <3>1. n \in Nat
      BY Counts
    <3> QED BY <2>1, <3>1, NextBest
  <2> HIDE DEF able, B
  <2>6. \A b \in B : \E i \in able : b \in list[i].unrequested
    BY <2>4, <2>5 DEF BestOf
  <2>7. Cardinality(B) = Min2(n, Cardinality(UNION {list[i].unrequested : i \in able}))
    BY <2>4, <2>5 DEF BestOf
  <2>8. ASSUME NEW i \in able, NEW j \in able, Less(list[i], list[j]), list[j].unrequested \cap B # {}
        PROVE  list[i].unrequested \subseteq B
    <3> SUFFICES ASSUME ~(list[i].unrequested \subseteq B) PROVE FALSE
      OBVIOUS
    <3>1. i \in Able(P) /\ j \in Able(P) /\ i \in 1 .. N /\ j \in 1 .. N
      BY <2>1, <2>3 DEF Able
    <3>2. B \subseteq Can(P, i)
      BY <2>5, <3>1 DEF BestOf
    <3>3. PICK b \in B : b \in list[j].unrequested
      BY <2>8
    <3>4. PICK k \in Able(P) : k <= i /\ b \in list[k].unrequested
      BY <3>2, <3>3 DEF Can
    <3>5. k \in 1 .. N
      BY <2>1, <3>4 DEF Able
    <3>6. b \in Int /\ Owns(list[j], b) /\ Owns(list[k], b)
      BY <2>1, <3>1, <3>3, <3>4, <3>5, SoundSpan
    <3>7. list[j] = list[k]
      BY <2>1, <3>1, <3>5, <3>6, OneOwner
    <3>8. j = k
      BY <2>1, <3>1, <3>5, <3>7 DEF Keyed
    <3>9. CASE j = i
      BY <2>1, <2>8, <3>1, <3>9 DEF Less, Cands
    <3>10. CASE j < i
      <4>1. <<list[i], list[j]>> \notin LessPairs
        BY <3>1, <3>10 DEF InOrder, Ordered
      <4> QED BY <2>1, <2>8, <3>1, <4>1 DEF LessPairs
    <3> QED BY <3>1, <3>4, <3>8, <3>9, <3>10
  <2> QED BY <2>6, <2>7, <2>8 DEF B, able
<1> QED BY <1>1, OrderHolds, PTL
=============================================================================
