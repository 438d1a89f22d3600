-------------------------- MODULE TorrentQueueProofs -------------------------
(***************************************************************************)
(* Proofs about TorrentQueue, for queues of any length over any ids: each  *)
(* of the operations that mend pos_of_ in place leaves it in agreement     *)
(* with queue_, so that no id is lost or queued twice.                     *)
(*                                                                         *)
(* Indexed is enough by itself: that the table gives every position back   *)
(* is also why an order has no id twice, which is what makes the choice of *)
(* a position in Reindex unique.                                           *)
(***************************************************************************)
EXTENDS TorrentQueue, FiniteSetTheorems, WellFoundedInduction, TLAPS

Queue(T) ==
    [order : Seq(T), posOf : [T -> Int], dirty : BOOLEAN, file : Seq(T \X BOOLEAN)]

(* The table of an order.                                                  *)
Inverts(posOf, order, T) ==
    /\ posOf \in [T -> Int]
    /\ \A p \in 0 .. Len(order) - 1 : posOf[order[p + 1]] = p
    /\ \A t \in T : \/ posOf[t] = NotQueued
                    \/ posOf[t] \in 0 .. Len(order) - 1 /\ order[posOf[t] + 1] = t

(* Reindexing what lies in [first, last) gives the table of the new order, *)
(* when nothing outside of it has moved.                                   *)
LEMMA Reindexed ==
    ASSUME NEW T, NEW order \in Seq(T), NEW posOf \in [T -> Int],
           NEW first \in Nat, NEW last \in Nat, last <= Len(order),
           \A i, j \in 1 .. Len(order) : order[i] = order[j] => i = j,
           \A p \in 0 .. Len(order) - 1 :
              p \in first .. last - 1 \/ posOf[order[p + 1]] = p,
           \A t \in T : \/ posOf[t] = NotQueued
                        \/ \E p \in 0 .. Len(order) - 1 : order[p + 1] = t
    PROVE  Inverts(Reindex(posOf, order, first, last), order, T)
<1> DEFINE r == Reindex(posOf, order, first, last)
           At(t, p) == p \in first .. last - 1 /\ order[p + 1] = t
<1>1. \A t \in T : r[t] = IF \E p \in first .. last - 1 : order[p + 1] = t
                          THEN CHOOSE p \in first .. last - 1 : order[p + 1] = t
                          ELSE posOf[t]
  BY DEF Reindex
<1>2. r = [t \in T |-> r[t]]
  BY DEF Reindex
<1> HIDE DEF r
<1>3. \A p \in first .. last - 1 : p \in 0 .. Len(order) - 1
  OBVIOUS
<1>4. ASSUME NEW t \in T, NEW p \in 0 .. Len(order) - 1, order[p + 1] = t
      PROVE  r[t] = p
  <2>1. CASE \E k \in first .. last - 1 : order[k + 1] = t
    <3>1. r[t] \in first .. last - 1 /\ order[r[t] + 1] = t
      BY <1>1, <2>1
    <3>2. r[t] + 1 \in 1 .. Len(order) /\ p + 1 \in 1 .. Len(order)
      BY <1>3, <3>1
    <3>3. r[t] + 1 = p + 1
      BY <1>4, <3>1, <3>2
    <3>4. r[t] \in Int /\ p \in Int
      BY <3>1
    <3> QED BY <3>3, <3>4
  <2>2. CASE ~\E k \in first .. last - 1 : order[k + 1] = t
    BY <1>1, <1>4, <2>2
  <2> QED BY <2>1, <2>2
<1>5. \A p \in 0 .. Len(order) - 1 : order[p + 1] \in T /\ p \in Int
  OBVIOUS
<1>6. ASSUME NEW t \in T
      PROVE  r[t] = NotQueued \/ (r[t] \in 0 .. Len(order) - 1 /\ order[r[t] + 1] = t)
  <2>1. CASE \E p \in 0 .. Len(order) - 1 : order[p + 1] = t
    BY <1>4, <2>1
  <2>2. CASE ~\E p \in 0 .. Len(order) - 1 : order[p + 1] = t
    <3>1. ~\E p \in first .. last - 1 : order[p + 1] = t
      BY <1>3, <2>2
    <3> QED BY <1>1, <2>2, <3>1
  <2> QED BY <2>1, <2>2
<1>7. \A t \in T : r[t] \in Int
  BY <1>6 DEF NotQueued
<1> QED BY <1>2, <1>4, <1>5, <1>6, <1>7 DEF r, Inverts

(* No id is queued twice.                                                  *)
LEMMA NoDuplicates ==
    ASSUME NEW T, NEW q \in Queue(T), Indexed(q)
    PROVE  \A i, j \in 1 .. Len(q.order) : q.order[i] = q.order[j] => i = j
<1>1. ASSUME NEW i \in 1 .. Len(q.order) PROVE q.posOf[q.order[i]] = i - 1
  <2>1. q.order \in Seq(T)
    BY DEF Queue
  <2>2. i - 1 \in 0 .. Len(q.order) - 1 /\ (i - 1) + 1 = i
    BY <2>1
  <2>3. \A p \in 0 .. Len(q.order) - 1 : q.posOf[q.order[p + 1]] = p
    BY DEF Indexed
  <2> QED BY <2>2, <2>3
<1> QED BY <1>1

-----------------------------------------------------------------------------
(* add(): a new id is queued last.                                         *)
THEOREM AddKeepsIndex ==
    ASSUME NEW T, NEW q \in Queue(T), Indexed(q), NEW t \in T, q.posOf[t] = NotQueued
    PROVE  /\ QueueAdd(q, t) \in Queue(T)
           /\ Indexed(QueueAdd(q, t))
<1> DEFINE order == Append(q.order, t)
           posOf == [q.posOf EXCEPT ![t] = Len(q.order)]
           u     == [q EXCEPT !.order = order, !.posOf = posOf, !.dirty = TRUE]
<1>1. q.order \in Seq(T) /\ q.posOf \in [T -> Int] /\ Len(q.order) \in Nat
  BY DEF Queue
<1>2. u = QueueAdd(q, t)
  BY DEF QueueAdd
<1>3. order \in Seq(T) /\ posOf \in [T -> Int] /\ Len(order) = Len(q.order) + 1
  BY <1>1
<1>4. \A p \in 0 .. Len(order) - 1 :
         order[p + 1] = IF p = Len(q.order) THEN t ELSE q.order[p + 1]
  BY <1>1
<1>5. \A v \in T : posOf[v] = IF v = t THEN Len(q.order) ELSE q.posOf[v]
  BY <1>1
<1> HIDE DEF order, posOf
<1>6. u \in Queue(T) /\ u.order = order /\ u.posOf = posOf
  BY <1>3 DEF Queue
<1>7. ASSUME NEW p \in 0 .. Len(order) - 1 PROVE posOf[order[p + 1]] = p
  <2>1. CASE p = Len(q.order)
    BY <1>4, <1>5, <2>1
  <2>2. CASE p # Len(q.order)
    <3>1. p \in 0 .. Len(q.order) - 1
      BY <1>1, <1>3, <2>2
    <3>2. q.posOf[q.order[p + 1]] = p /\ q.order[p + 1] \in T /\ p # NotQueued
      <4>1. q.posOf[q.order[p + 1]] = p
        BY <3>1 DEF Indexed
      <4>2. p + 1 \in 1 .. Len(q.order) /\ p # -1
        BY <1>1, <3>1
      <4> QED BY <1>1, <4>1, <4>2 DEF NotQueued
    <3> QED BY <1>4, <1>5, <2>2, <3>2
  <2> QED BY <2>1, <2>2
<1>8. ASSUME NEW v \in T
      PROVE  posOf[v] = NotQueued \/ (posOf[v] \in 0 .. Len(order) - 1 /\ order[posOf[v] + 1] = v)
  <2>1. CASE v = t
    BY <1>1, <1>3, <1>4, <1>5, <2>1
  <2>2. CASE v # t
    <3>1. q.posOf[v] = NotQueued \/ (q.posOf[v] \in 0 .. Len(q.order) - 1 /\ q.order[q.posOf[v] + 1] = v)
      BY <1>1 DEF Indexed
    <3>2. \A p \in 0 .. Len(q.order) - 1 : p \in 0 .. Len(order) - 1 /\ order[p + 1] = q.order[p + 1]
      <4>1. ASSUME NEW p \in 0 .. Len(q.order) - 1
            PROVE  p \in 0 .. Len(order) - 1 /\ p # Len(q.order)
        <5>1. ASSUME NEW m \in Nat, NEW k \in 0 .. m - 1 PROVE k \in 0 .. (m + 1) - 1 /\ k # m
          OBVIOUS
        <5>2. Len(order) = Len(q.order) + 1
          BY <1>3
        <5> QED BY <1>1, <5>1, <5>2
      <4> QED BY <1>4, <4>1
    <3> QED BY <1>5, <2>2, <3>1, <3>2
  <2> QED BY <2>1, <2>2
<1> HIDE DEF u
<1>9. DOMAIN posOf = T
  BY <1>3
<1> QED BY <1>2, <1>6, <1>7, <1>8, <1>9 DEF Indexed

(* What RemoveAt leaves, position by position.                             *)
LEMMA Removed ==
    ASSUME NEW T, NEW s \in Seq(T), NEW k \in 0 .. Len(s) - 1
    PROVE  /\ RemoveAt(s, k + 1) \in Seq(T) /\ Len(RemoveAt(s, k + 1)) = Len(s) - 1
           /\ \A i \in 1 .. Len(s) - 1 :
                 RemoveAt(s, k + 1)[i] = IF i <= k THEN s[i] ELSE s[i + 1]
<1> DEFINE a == SubSeq(s, 1, (k + 1) - 1)
           b == SubSeq(s, (k + 1) + 1, Len(s))
<1>1. k \in Nat /\ Len(s) \in Nat /\ k < Len(s)
  OBVIOUS
<1>2. a \in Seq(T) /\ Len(a) = k /\ \A i \in 1 .. k : a[i] = s[i]
  BY <1>1
<1>3. b \in Seq(T) /\ Len(b) = Len(s) - (k + 1)
      /\ \A i \in 1 .. Len(s) - (k + 1) : b[i] = s[k + 1 + i]
  BY <1>1
<1>4. RemoveAt(s, k + 1) = a \o b
  BY DEF RemoveAt
<1> HIDE DEF a, b
<1>5. a \o b \in Seq(T) /\ Len(a \o b) = Len(s) - 1
  <2>1. a \o b \in Seq(T) /\ Len(a \o b) = Len(a) + Len(b)
    <3>1. \A x, y \in Seq(T) : x \o y \in Seq(T) /\ Len(x \o y) = Len(x) + Len(y)
      OBVIOUS
    <3>2. a \in Seq(T) /\ b \in Seq(T)
      BY <1>2, <1>3
    <3> QED BY <3>1, <3>2
  <2>2. Len(a) + Len(b) = Len(s) - 1
    BY <1>1, <1>2, <1>3
  <2> QED BY <2>1, <2>2
<1>6. ASSUME NEW i \in 1 .. Len(s) - 1
      PROVE  (a \o b)[i] = IF i <= k THEN s[i] ELSE s[i + 1]
  <2>1. CASE i <= k
    BY <1>1, <1>2, <1>3, <2>1
  <2>2. CASE ~(i <= k)
    <3>1. i - k \in 1 .. Len(s) - (k + 1) /\ k + 1 + (i - k) = i + 1
      BY <1>1, <2>2
    <3>2. (a \o b)[i] = b[i - k]
      BY <1>1, <1>2, <1>3, <2>2
    <3> QED BY <1>3, <2>2, <3>1, <3>2
  <2> QED BY <2>1, <2>2
<1> QED BY <1>4, <1>5, <1>6

(* remove(): what was queued behind the id moves up.                       *)
THEOREM RemoveKeepsIndex ==
    ASSUME NEW T, NEW q \in Queue(T), Indexed(q), NEW t \in T
    PROVE  /\ QueueRemove(q, t) \in Queue(T)
           /\ Indexed(QueueRemove(q, t))
<1> DEFINE pos   == q.posOf[t]
           n     == Len(q.order)
           order == RemoveAt(q.order, pos + 1)
           old   == [q.posOf EXCEPT ![t] = NotQueued]
           posOf == Reindex(old, order, pos, Len(order))
           u     == [q EXCEPT !.order = order, !.posOf = posOf, !.dirty = TRUE]
<1>1. q.order \in Seq(T) /\ q.posOf \in [T -> Int] /\ n \in Nat
  BY DEF Queue
<1>2. CASE ~InQueue(q, t)
  BY <1>2 DEF QueueRemove
<1>3. CASE InQueue(q, t)
  <2>1. QueueRemove(q, t) = u
    BY <1>3 DEF QueueRemove
  <2>2. pos \in 0 .. n - 1
    BY <1>3 DEF InQueue
  <2>3. order \in Seq(T) /\ Len(order) = n - 1
    BY <1>1, <2>2, Removed
  <2>0. n \in Nat /\ Len(order) = n - 1
    BY <1>1, <2>3
  <2>4. \A i \in 1 .. Len(order) : order[i] = IF i <= pos THEN q.order[i] ELSE q.order[i + 1]
    BY <1>1, <2>2, <2>3, Removed
  <2>5. q.order[pos + 1] = t
    BY <1>1, <2>2 DEF Indexed, NotQueued
  <2>6. old \in [T -> Int] /\ \A v \in T : old[v] = IF v = t THEN NotQueued ELSE q.posOf[v]
    BY <1>1 DEF NotQueued
  <2> HIDE DEF order, old, pos
  <2>7. \A i, j \in 1 .. n : q.order[i] = q.order[j] => i = j
    BY NoDuplicates
  <2>8. ASSUME NEW i \in 1 .. Len(order), NEW j \in 1 .. Len(order), order[i] = order[j] PROVE i = j
    <3> DEFINE I == IF i <= pos THEN i ELSE i + 1
               J == IF j <= pos THEN j ELSE j + 1
    <3>1. I \in 1 .. n /\ J \in 1 .. n
      <4>1. i \in 1 .. n - 1 /\ j \in 1 .. n - 1
        BY <2>0
      <4> QED BY ONLY <2>0, <2>2, <4>1
    <3>2. q.order[I] = q.order[J]
      BY <2>4, <2>8
    <3>3. I = J
      BY <2>7, <3>1, <3>2
    <3> QED BY <2>2, <2>3, <3>3
  <2>9. ASSUME NEW p \in 0 .. Len(order) - 1, p \notin pos .. Len(order) - 1
        PROVE  old[order[p + 1]] = p
    <3>1. p < pos /\ p \in 0 .. n - 1 /\ p + 1 \in 1 .. Len(order) /\ p + 1 <= pos
      <4>1. p \in Nat /\ p < n - 1 /\ pos \in Nat /\ pos < n
        BY <1>1, <2>2, <2>3
      <4>2. p < pos
        BY <1>1, <2>3, <2>9, <4>1
      <4>3. p + 1 \in 1 .. n - 1
        BY <1>1, <4>1
      <4> QED BY ONLY <2>0, <4>1, <4>2, <4>3
    <3>2. order[p + 1] = q.order[p + 1] /\ q.order[p + 1] \in T
      <4>1. order[p + 1] = q.order[p + 1]
        BY ONLY <2>4, <3>1
      <4>2. p + 1 \in 1 .. n
        BY ONLY <2>0, <3>1
      <4>3. q.order[p + 1] \in T
        BY <1>1, <4>2
      <4> QED BY <4>1, <4>3
    <3>3. q.posOf[q.order[p + 1]] = p
      BY <3>1 DEF Indexed
    <3>4. q.order[p + 1] # t
      BY <3>1, <3>3 DEF pos
    <3> QED BY <2>6, <3>2, <3>3, <3>4
  <2>10. ASSUME NEW v \in T, old[v] # NotQueued
         PROVE  \E p \in 0 .. Len(order) - 1 : order[p + 1] = v
    <3>1. v # t /\ old[v] = q.posOf[v]
      BY <2>6, <2>10
    <3>2. q.posOf[v] \in 0 .. n - 1 /\ q.order[q.posOf[v] + 1] = v
      BY <1>1, <2>10, <3>1 DEF Indexed
    <3> DEFINE k == q.posOf[v]
    <3>3. k # pos
      BY <2>5, <3>1, <3>2
    <3> HIDE DEF k
    <3>4. CASE k < pos
      <4>1. k \in 0 .. Len(order) - 1 /\ k + 1 \in 1 .. Len(order) /\ k + 1 <= pos
        <5>1. k \in Nat /\ pos \in Nat /\ pos < n
          BY <1>1, <2>2, <3>2 DEF k
        <5> QED BY ONLY <2>0, <3>4, <5>1
      <4> QED BY <2>4, <3>2, <4>1 DEF k
    <3>5. CASE k > pos
      <4>1. k - 1 \in 0 .. Len(order) - 1 /\ k \in 1 .. Len(order) /\ ~(k <= pos) /\ (k - 1) + 1 = k
        <5>1. k \in Nat /\ k < n /\ pos \in Nat
          BY <1>1, <2>2, <3>2 DEF k
        <5> QED BY ONLY <2>0, <3>5, <5>1
      <4> QED BY <2>4, <3>2, <4>1 DEF k
    <3> QED BY <1>1, <2>2, <3>2, <3>3, <3>4, <3>5 DEF k
  <2>11. pos \in Nat /\ Len(order) \in Nat /\ Len(order) <= Len(order)
    BY <2>2, <2>3
  <2>12. Inverts(posOf, order, T)
    <3>1. /\ \A i, j \in 1 .. Len(order) : order[i] = order[j] => i = j
          /\ \A p \in 0 .. Len(order) - 1 :
                p \in pos .. Len(order) - 1 \/ old[order[p + 1]] = p
          /\ \A v \in T : \/ old[v] = NotQueued
                          \/ \E p \in 0 .. Len(order) - 1 : order[p + 1] = v
      BY <2>8, <2>9, <2>10
    <3>2. old \in [T -> Int]
      BY <2>6
    <3> QED BY <2>3, <2>11, <3>1, <3>2, Reindexed
  <2> HIDE DEF posOf
  <2>13. u \in Queue(T) /\ u.order = order /\ u.posOf = posOf
    BY <2>3, <2>12 DEF Queue, Inverts
  <2> HIDE DEF u
  <2> QED BY <2>1, <2>12, <2>13 DEF Indexed, Inverts
<1> QED BY <1>2, <1>3

(* Where the id that is at position i after a rotation came from, and back *)
(* (counting from 1).                                                      *)
Source(i, from, to) ==
    IF i = to + 1 THEN from + 1
    ELSE IF to < from /\ to + 2 <= i /\ i <= from + 1 THEN i - 1
    ELSE IF from < to /\ from + 1 <= i /\ i <= to THEN i + 1
    ELSE i

Target(i, from, to) == Source(i, to, from)

(* The rotation of positions is one to one and moves only those between    *)
(* the two ends.                                                           *)
LEMMA Sources ==
    ASSUME NEW n \in Nat, NEW from \in 0 .. n - 1, NEW to \in 0 .. n - 1
    PROVE  /\ \A i \in 1 .. n : Source(i, from, to) \in 1 .. n
           /\ \A i \in 1 .. n : Target(i, from, to) \in 1 .. n
                              /\ Source(Target(i, from, to), from, to) = i
           /\ \A i, j \in 1 .. n : Source(i, from, to) = Source(j, from, to) => i = j
           /\ \A i \in 1 .. n :
                 (i < from + 1 /\ i < to + 1) \/ (i > from + 1 /\ i > to + 1) => Source(i, from, to) = i
BY DEF Source, Target

(* std::rotate, position by position.                                      *)
LEMMA Rotated ==
    ASSUME NEW T, NEW order \in Seq(T), NEW from \in 0 .. Len(order) - 1,
           NEW to \in 0 .. Len(order) - 1
    PROVE  /\ Rotate(order, from, to) \in Seq(T)
           /\ Len(Rotate(order, from, to)) = Len(order)
           /\ \A i \in 1 .. Len(order) :
                 Rotate(order, from, to)[i] = order[Source(i, from, to)]
<1> DEFINE r == Rotate(order, from, to)
<1>1. Len(order) \in Nat
  OBVIOUS
<1>2. DOMAIN r = 1 .. Len(order) /\ r = [i \in 1 .. Len(order) |-> r[i]]
  BY DEF Rotate
<1>3. ASSUME NEW i \in 1 .. Len(order) PROVE r[i] = order[Source(i, from, to)]
  BY <1>1 DEF Rotate, Source
<1> HIDE DEF r
<1>4. \A i \in 1 .. Len(order) : r[i] \in T
  <2>1. \A i \in 1 .. Len(order) : Source(i, from, to) \in 1 .. Len(order)
    BY <1>1, Sources
  <2>2. \A k \in 1 .. Len(order) : order[k] \in T
    OBVIOUS
  <2> QED BY <1>3, <2>1, <2>2
<1>5. r \in Seq(T) /\ Len(r) = Len(order)
  BY <1>1, <1>2, <1>4
<1> QED BY <1>3, <1>5 DEF r

(* set_pos(): what lies between the old and the new position moves by one. *)
THEOREM SetPosKeepsIndex ==
    ASSUME NEW T, NEW q \in Queue(T), Indexed(q), NEW t \in T, NEW newPos \in Nat
    PROVE  /\ QueueSetPos(q, t, newPos) \in Queue(T)
           /\ Indexed(QueueSetPos(q, t, newPos))
<1> DEFINE old   == q.posOf[t]
           n     == Len(q.order)
           to    == IF newPos < n THEN newPos ELSE n - 1
           order == Rotate(q.order, old, to)
           first == IF old < to THEN old ELSE to
           last  == IF old < to THEN to ELSE old
           posOf == Reindex(q.posOf, order, first, last + 1)
           u     == [q EXCEPT !.order = order, !.posOf = posOf, !.dirty = TRUE]
<1>1. q.order \in Seq(T) /\ q.posOf \in [T -> Int] /\ n \in Nat
  BY DEF Queue
<1>2. CASE ~InQueue(q, t) \/ old = to
  BY <1>2 DEF QueueSetPos
<1>3. CASE InQueue(q, t) /\ old # to
  <2>1. QueueSetPos(q, t, newPos) = u
    BY <1>3 DEF QueueSetPos
  <2>2. old \in 0 .. n - 1
    BY <1>3 DEF InQueue
  <2> HIDE DEF old
  <2>3. to \in 0 .. n - 1
    BY <1>1, <2>2
  <2> HIDE DEF to
  <2>4. order \in Seq(T) /\ Len(order) = n
        /\ \A i \in 1 .. n : order[i] = q.order[Source(i, old, to)]
    <3>1. old \in 0 .. Len(q.order) - 1 /\ to \in 0 .. Len(q.order) - 1
      BY <2>2, <2>3
    <3> HIDE DEF n
    <3>2. /\ order \in Seq(T) /\ Len(order) = Len(q.order)
          /\ \A i \in 1 .. Len(q.order) : order[i] = q.order[Source(i, old, to)]
      <4> DEFINE s == q.order
      <4>1. s \in Seq(T) /\ old \in 0 .. Len(s) - 1 /\ to \in 0 .. Len(s) - 1
        BY <1>1, <3>1
      <4> HIDE DEF s
      <4>2. /\ Rotate(s, old, to) \in Seq(T) /\ Len(Rotate(s, old, to)) = Len(s)
            /\ \A i \in 1 .. Len(s) : Rotate(s, old, to)[i] = s[Source(i, old, to)]
        BY <4>1, Rotated
      <4> QED BY <4>2 DEF s
    <3> QED BY <3>2 DEF n
  <2>0. /\ \A i \in 1 .. n : Source(i, old, to) \in 1 .. n
        /\ \A i \in 1 .. n : Target(i, old, to) \in 1 .. n
                           /\ Source(Target(i, old, to), old, to) = i
        /\ \A i, j \in 1 .. n : Source(i, old, to) = Source(j, old, to) => i = j
        /\ \A i \in 1 .. n :
              (i < old + 1 /\ i < to + 1) \/ (i > old + 1 /\ i > to + 1) => Source(i, old, to) = i
    <3> HIDE DEF n
    <3> QED BY <1>1, <2>2, <2>3, Sources
  <2>5. \A i, j \in 1 .. n : q.order[i] = q.order[j] => i = j
    BY NoDuplicates
  <2> HIDE DEF order
  <2>6. ASSUME NEW i \in 1 .. n, NEW j \in 1 .. n, order[i] = order[j] PROVE i = j
    <3>1. Source(i, old, to) \in 1 .. n /\ Source(j, old, to) \in 1 .. n
      BY <2>0
    <3>2. Source(i, old, to) = Source(j, old, to)
      BY <2>4, <2>5, <2>6, <3>1
    <3> QED BY <2>0, <3>2
  <2>7. first \in Nat /\ last + 1 \in Nat /\ last + 1 <= n /\ (last + 1) - 1 = last
        /\ first <= old /\ first <= to /\ old <= last /\ to <= last
    BY <1>1, <2>2, <2>3
  <2>8. first \in {old, to} /\ last \in {old, to}
    OBVIOUS
  <2> HIDE DEF first, last
  <2>9. ASSUME NEW p \in 0 .. n - 1, p \notin first .. (last + 1) - 1
        PROVE  q.posOf[order[p + 1]] = p
    <3>1. (p + 1 < old + 1 /\ p + 1 < to + 1) \/ (p + 1 > old + 1 /\ p + 1 > to + 1)
      <4>1. p < first \/ p > last
        BY <2>2, <2>3, <2>7, <2>8, <2>9
      <4> QED BY <2>2, <2>3, <2>7, <2>8, <4>1
    <3>2. p + 1 \in 1 .. n
      BY <1>1
    <3>3. order[p + 1] = q.order[p + 1]
      BY <2>4, <2>0, <3>1, <3>2
    <3> QED BY <3>3 DEF Indexed
  <2>10. ASSUME NEW v \in T, q.posOf[v] # NotQueued
         PROVE  \E p \in 0 .. n - 1 : order[p + 1] = v
    <3> DEFINE k == q.posOf[v]
               i == Target(k + 1, old, to)
    <3>1. k \in 0 .. n - 1 /\ q.order[k + 1] = v
      BY <1>1, <2>10 DEF Indexed
    <3> HIDE DEF k
    <3>2. k + 1 \in 1 .. n
      BY <1>1, <3>1
    <3>3. i \in 1 .. n /\ Source(i, old, to) = k + 1
      BY <2>0, <3>2
    <3> HIDE DEF i
    <3>4. order[i] = v
      BY <2>4, <3>1, <3>3
    <3>5. i - 1 \in 0 .. n - 1 /\ (i - 1) + 1 = i
      BY <1>1, <3>3
    <3> QED BY <3>4, <3>5
  <2>11. Inverts(posOf, order, T)
    <3>1. /\ \A i, j \in 1 .. Len(order) : order[i] = order[j] => i = j
          /\ \A p \in 0 .. Len(order) - 1 :
                p \in first .. (last + 1) - 1 \/ q.posOf[order[p + 1]] = p
          /\ \A v \in T : \/ q.posOf[v] = NotQueued
                          \/ \E p \in 0 .. Len(order) - 1 : order[p + 1] = v
      BY <2>4, <2>6, <2>9, <2>10
    <3> QED BY <1>1, <2>4, <2>7, <3>1, Reindexed
  <2> HIDE DEF posOf
  <2>12. u \in Queue(T) /\ u.order = order /\ u.posOf = posOf
    BY <2>4, <2>11 DEF Queue, Inverts
  <2> HIDE DEF u
  <2> QED BY <2>1, <2>11, <2>12 DEF Indexed, Inverts
<1> QED BY <1>2, <1>3

-----------------------------------------------------------------------------
(* Induction up to a bound, over a set.                                    *)
LEMMA LeastOf ==
    ASSUME NEW S, S \subseteq Nat, S # {}
    PROVE  \E x \in S : \A y \in S : x <= y
<1> DEFINE R == OpToRel(<, Nat)
<1>1. IsWellFoundedOn(R, Nat)
  BY NatLessThanWellFounded
<1>2. \A x, y \in Nat : y < x => <<y, x>> \in R
  BY DEF OpToRel
<1> HIDE DEF R
<1>3. PICK x \in S : \A y \in S : ~(<<y, x>> \in R)
  BY <1>1, WFMin
<1>4. ASSUME NEW y \in S PROVE x <= y
  <2>1. x \in Nat /\ y \in Nat /\ ~(y < x)
    BY <1>2, <1>3
  <2> QED BY <2>1
<1> QED BY <1>4

(* Induction up to n, from a least counterexample.                         *)
LEMMA UpTo ==
    ASSUME NEW n \in Nat, NEW S, 0 \in S,
           \A i \in 1 .. n : i - 1 \in S => i \in S
    PROVE  0 .. n \subseteq S
<1> DEFINE B == {i \in 0 .. n : i \notin S}
<1>1. SUFFICES ASSUME B # {} PROVE FALSE
  OBVIOUS
<1>2. PICK x \in B : \A y \in B : x <= y
  <2>1. B \subseteq Nat
    OBVIOUS
  <2> HIDE DEF B
  <2> QED BY <1>1, <2>1, LeastOf
<1>3. x \in 1 .. n /\ x - 1 \in 0 .. n /\ ~(x <= x - 1)
  OBVIOUS
<1>4. x - 1 \notin B
  BY <1>2, <1>3
<1> QED BY <1>3, <1>4

(* There is a sequence of values that starts with b and goes on by g, as   *)
(* far as g leads from each of the Q to the next.                          *)
Leads(g, Q, n) == \A i \in 1 .. n : \A x \in Q[i - 1] : g[<<x, i>>] \in Q[i]

Goes(f, b, g, Q, n) ==
    /\ f[0] = b
    /\ \A i \in 1 .. n : f[i] = g[<<f[i - 1], i>>]
    /\ \A i \in 0 .. n : f[i] \in Q[i]

(* A recursion over the numbers up to n has a solution, as Q says of its   *)
(* values.                                                                 *)
LEMMA Iterated ==
    ASSUME NEW n \in Nat, NEW U, NEW Q \in [0 .. n -> SUBSET U], NEW b \in Q[0], NEW g,
           Leads(g, Q, n)
    PROVE  \E f \in [0 .. n -> U] : Goes(f, b, g, Q, n)
<1> DEFINE Upto(k, f) == /\ f \in [0 .. k -> U] /\ f[0] = b
                         /\ \A i \in 1 .. k : f[i] = g[<<f[i - 1], i>>]
                         /\ \A i \in 0 .. k : f[i] \in Q[i]
           S == {k \in 0 .. n : \E f : Upto(k, f)}
<1>0. \A i \in 0 .. n : Q[i] \subseteq U
  OBVIOUS
<1>1. 0 \in S
  <2> DEFINE f == [i \in 0 .. 0 |-> b]
  <2>1. 0 \in 0 .. n /\ \A i \in 0 .. 0 : i = 0
    OBVIOUS
  <2>2. b \in U
    BY <1>0, <2>1
  <2>3. f \in [0 .. 0 -> U] /\ f[0] = b
    BY <2>2
  <2>4. \A i \in 1 .. 0 : f[i] = g[<<f[i - 1], i>>]
    OBVIOUS
  <2>5. \A i \in 0 .. 0 : f[i] \in Q[i]
    BY <2>1, <2>3
  <2> HIDE DEF f
  <2> QED BY <2>1, <2>3, <2>4, <2>5
<1>2. ASSUME NEW k \in 1 .. n, k - 1 \in S PROVE k \in S
  <2>1. PICK f : Upto(k - 1, f)
    BY <1>2
  <2> DEFINE h == [i \in 0 .. k |-> IF i = k THEN g[<<f[k - 1], k>>] ELSE f[i]]
  <2>2. k \in 0 .. n /\ k \in Nat /\ k # 0 /\ k - 1 \in 0 .. k - 1
    OBVIOUS
  <2>3. \A i \in 0 .. k : i # k => i \in 0 .. k - 1 /\ i \in 0 .. n
    OBVIOUS
  <2>4. f[k - 1] \in Q[k - 1]
    BY <2>1, <2>2
  <2>5. g[<<f[k - 1], k>>] \in Q[k]
    BY <1>2, <2>4 DEF Leads
  <2>6. \A i \in 0 .. k : h[i] \in Q[i]
    BY <2>1, <2>3, <2>5
  <2>7. h \in [0 .. k -> U]
    <3>1. \A i \in 0 .. k : h[i] \in U
      BY <1>0, <2>2, <2>3, <2>6
    <3> QED BY <3>1
  <2>8. h[0] = b
    BY <2>1, <2>2
  <2>9. ASSUME NEW i \in 1 .. k PROVE h[i] = g[<<h[i - 1], i>>]
    <3>1. i - 1 \in 0 .. k /\ i - 1 # k /\ i \in 0 .. k
      OBVIOUS
    <3>2. h[i - 1] = f[i - 1]
      BY <3>1
    <3>3. CASE i = k
      BY <3>1, <3>2, <3>3
    <3>4. CASE i # k
      <4>1. i \in 1 .. k - 1
        BY <3>4
      <4> QED BY <2>1, <3>1, <3>2, <3>4, <4>1
    <3> QED BY <3>3, <3>4
  <2> HIDE DEF h
  <2>10. Upto(k, h)
    BY <2>6, <2>7, <2>8, <2>9
  <2> QED BY <2>2, <2>10
<1> HIDE DEF Upto
<1>3. 0 .. n \subseteq S
  <2> HIDE DEF S
  <2> QED BY <1>1, <1>2, UpTo
<1>4. PICK f : Upto(n, f)
  BY <1>3
<1> QED BY <1>4 DEF Upto, Goes

(* What holds at first and is kept by each step holds of each value.       *)
LEMMA Iterates ==
    ASSUME NEW n \in Nat, NEW Q, NEW f, f[0] \in Q[0],
           \A i \in 1 .. n : f[i - 1] \in Q[i - 1] => f[i] \in Q[i]
    PROVE  \A i \in 0 .. n : f[i] \in Q[i]
<1> DEFINE S == {i \in 0 .. n : f[i] \in Q[i]}
<1>1. 0 \in S
  OBVIOUS
<1>2. \A i \in 1 .. n : i - 1 \in S => i \in S
  OBVIOUS
<1> HIDE DEF S
<1>3. 0 .. n \subseteq S
  BY <1>1, <1>2, UpTo
<1> QED BY <1>3 DEF S

-----------------------------------------------------------------------------
(* What the operations do to the ids that are queued and to the file.  A   *)
(* queue that has nothing to save is in the file, but under the names the  *)
(* torrents had when it was saved.                                         *)
Written(q) ==
    ~q.dirty /\ q.order # <<>> =>
        /\ Len(q.file) = Len(q.order)
        /\ \A i \in 1 .. Len(q.order) : q.file[i][1] = q.order[i]

Sound(q, T) == q \in Queue(T) /\ Indexed(q)

Reordered(q, r) ==
    /\ Len(r.order) = Len(q.order) /\ ToSet(r.order) = ToSet(q.order)
    /\ r.file = q.file /\ (r.dirty \/ r = q)

(* The ids that are queued are those with a position.                      *)
LEMMA Held ==
    ASSUME NEW T, NEW q, Sound(q, T), NEW t \in T
    PROVE  /\ t \in ToSet(q.order) <=> q.posOf[t] # NotQueued
           /\ t \in ToSet(q.order) <=> InQueue(q, t)
           /\ t \in ToSet(q.order) => q.posOf[t] \in 0 .. Len(q.order) - 1
                                      /\ q.order[q.posOf[t] + 1] = t
<1>1. q.order \in Seq(T) /\ q.posOf \in [T -> Int] /\ Len(q.order) \in Nat
  BY DEF Sound, Queue
<1>2. ASSUME NEW i \in 1 .. Len(q.order), q.order[i] = t
      PROVE  q.posOf[t] \in 0 .. Len(q.order) - 1 /\ q.posOf[t] # NotQueued
  <2>1. i - 1 \in 0 .. Len(q.order) - 1 /\ (i - 1) + 1 = i /\ i - 1 # -1
    BY <1>1
  <2>2. q.posOf[t] = i - 1
    BY <1>2, <2>1 DEF Sound, Indexed
  <2> QED BY <2>1, <2>2 DEF NotQueued
<1>3. ASSUME q.posOf[t] # NotQueued
      PROVE  /\ q.posOf[t] \in 0 .. Len(q.order) - 1 /\ q.order[q.posOf[t] + 1] = t
             /\ q.posOf[t] + 1 \in 1 .. Len(q.order)
  <2>1. q.posOf[t] \in 0 .. Len(q.order) - 1 /\ q.order[q.posOf[t] + 1] = t
    BY <1>1, <1>3 DEF Sound, Indexed
  <2> QED BY <1>1, <2>1
<1>4. DOMAIN q.order = 1 .. Len(q.order)
  BY <1>1
<1>5. t \in ToSet(q.order) <=> \E i \in 1 .. Len(q.order) : q.order[i] = t
  BY <1>4 DEF ToSet
<1>6. 0 .. Len(q.order) - 1 = 0 .. Len(q.order) - 1 /\ -1 \notin 0 .. Len(q.order) - 1
  BY <1>1
<1> QED BY <1>2, <1>3, <1>5, <1>6 DEF InQueue, NotQueued

(* Adding an id adds it alone and marks the file for saving.               *)
LEMMA AddHolds ==
    ASSUME NEW T, NEW q, Sound(q, T), NEW t \in T
    PROVE  /\ ToSet(QueueAdd(q, t).order) = ToSet(q.order) \cup {t}
           /\ QueueAdd(q, t).file = q.file /\ QueueAdd(q, t).dirty = TRUE
<1> DEFINE order == Append(q.order, t)
           u     == [q EXCEPT !.order = order, !.posOf[t] = Len(q.order), !.dirty = TRUE]
<1>1. q.order \in Seq(T) /\ Len(q.order) \in Nat
  BY DEF Sound, Queue
<1>2. QueueAdd(q, t) = u
  BY DEF QueueAdd
<1>3. /\ DOMAIN order = 1 .. Len(q.order) + 1 /\ DOMAIN q.order = 1 .. Len(q.order)
      /\ \A i \in 1 .. Len(q.order) : order[i] = q.order[i]
      /\ order[Len(q.order) + 1] = t
      /\ Len(q.order) + 1 \in 1 .. Len(q.order) + 1
  BY <1>1
<1>4. 1 .. Len(q.order) + 1 = 1 .. Len(q.order) \cup {Len(q.order) + 1}
  BY <1>1
<1> HIDE DEF order
<1>5. u.order = order /\ u.file = q.file /\ u.dirty
  BY DEF Sound, Queue
<1>6. ToSet(order) = ToSet(q.order) \cup {t}
  BY <1>3, <1>4 DEF ToSet
<1> HIDE DEF u
<1> QED BY <1>2, <1>5, <1>6 DEF order

(* Removing an id removes it alone and marks the file for saving if it was *)
(* there.                                                                  *)
LEMMA RemoveHolds ==
    ASSUME NEW T, NEW q, Sound(q, T), NEW t \in T
    PROVE  /\ ToSet(QueueRemove(q, t).order) = ToSet(q.order) \ {t}
           /\ QueueRemove(q, t).file = q.file
           /\ QueueRemove(q, t).dirty \/ QueueRemove(q, t) = q
<1> DEFINE pos   == q.posOf[t]
           n     == Len(q.order)
           order == RemoveAt(q.order, pos + 1)
           posOf == Reindex([q.posOf EXCEPT ![t] = NotQueued], order, pos, Len(order))
           u     == [q EXCEPT !.order = order, !.posOf = posOf, !.dirty = TRUE]
<1>1. q.order \in Seq(T) /\ n \in Nat /\ DOMAIN q.order = 1 .. n
  BY DEF Sound, Queue
<1>2. CASE ~InQueue(q, t)
  BY <1>2, Held DEF QueueRemove
<1>3. CASE InQueue(q, t)
  <2>1. QueueRemove(q, t) = u
    BY <1>3 DEF QueueRemove
  <2>2. pos \in 0 .. n - 1 /\ q.order[pos + 1] = t
    BY <1>3, Held DEF InQueue
  <2>3. /\ order \in Seq(T) /\ Len(order) = n - 1
        /\ \A i \in 1 .. n - 1 : order[i] = IF i <= pos THEN q.order[i] ELSE q.order[i + 1]
    BY <1>1, <2>2, Removed
  <2>4. DOMAIN order = 1 .. n - 1
    BY <1>1, <2>3
  <2> HIDE DEF posOf, order, pos
  <2>5. u.order = order /\ u.file = q.file /\ u.dirty
    BY DEF Sound, Queue
  <2>6. \A i, j \in 1 .. n : q.order[i] = q.order[j] => i = j
    BY NoDuplicates DEF Sound
  <2>7. ASSUME NEW v \in ToSet(order) PROVE v \in ToSet(q.order) \ {t}
    <3>1. PICK i \in 1 .. n - 1 : v = order[i]
      BY <2>4 DEF ToSet
    <3> DEFINE j == IF i <= pos THEN i ELSE i + 1
    <3>2. j \in 1 .. n /\ j # pos + 1 /\ pos + 1 \in 1 .. n
      BY <1>1, <2>2
    <3>3. v = q.order[j]
      BY <2>3, <3>1
    <3> QED BY <1>1, <2>2, <2>6, <3>2, <3>3 DEF ToSet
  <2>8. ASSUME NEW v \in ToSet(q.order), v # t PROVE v \in ToSet(order)
    <3>1. PICK j \in 1 .. n : v = q.order[j]
      BY <1>1 DEF ToSet
    <3> DEFINE i == IF j <= pos THEN j ELSE j - 1
    <3>2. j # pos + 1
      BY <2>2, <2>8, <3>1
    <3>3. i \in 1 .. n - 1 /\ (IF i <= pos THEN i ELSE i + 1) = j
      BY <1>1, <2>2, <3>2
    <3>4. order[i] = v
      BY <2>3, <3>1, <3>3
    <3> HIDE DEF i
    <3> QED BY <2>4, <3>3, <3>4 DEF ToSet
  <2>9. ToSet(order) = ToSet(q.order) \ {t}
    BY <2>7, <2>8
  <2> HIDE DEF u
  <2> QED BY <2>1, <2>5, <2>9
<1> QED BY <1>2, <1>3

(* Nothing behind both of two positions has moved.                         *)
Behind(q, r, from, to) ==
    \A i \in 1 .. Len(q.order) : i > from + 1 /\ i > to + 1 => r.order[i] = q.order[i]

(* Moving an id to a position only reorders, and what stands before both   *)
(* places stays.                                                           *)
LEMMA SetPosReorders ==
    ASSUME NEW T, NEW q, Sound(q, T), NEW t \in T, NEW newPos \in Nat
    PROVE  LET r == QueueSetPos(q, t, newPos)
           IN  Sound(r, T) /\ Reordered(q, r) /\ Behind(q, r, q.posOf[t], newPos)
<1> DEFINE old   == q.posOf[t]
           n     == Len(q.order)
           to    == IF newPos < n THEN newPos ELSE n - 1
           order == Rotate(q.order, old, to)
           first == IF old < to THEN old ELSE to
           last  == IF old < to THEN to ELSE old
           posOf == Reindex(q.posOf, order, first, last + 1)
           u     == [q EXCEPT !.order = order, !.posOf = posOf, !.dirty = TRUE]
           r     == QueueSetPos(q, t, newPos)
<1>1. q.order \in Seq(T) /\ n \in Nat /\ DOMAIN q.order = 1 .. n
  BY DEF Sound, Queue
<1>2. Sound(r, T)
  BY SetPosKeepsIndex DEF Sound
<1>3. CASE ~InQueue(q, t) \/ old = to
  <2>1. r = q
    BY <1>3 DEF QueueSetPos
  <2> QED BY <1>2, <2>1 DEF Reordered, Behind
<1>4. CASE InQueue(q, t) /\ old # to
  <2>1. r = u
    BY <1>4 DEF QueueSetPos
  <2>2. old \in 0 .. n - 1
    BY <1>4 DEF InQueue
  <2> HIDE DEF old, posOf, r
  <2>3. to \in 0 .. n - 1 /\ to <= newPos
    BY <1>1, <2>2
  <2> HIDE DEF to
  <2>4. /\ order \in Seq(T) /\ Len(order) = Len(q.order)
        /\ \A i \in 1 .. n : order[i] = q.order[Source(i, old, to)]
    <3> DEFINE s == q.order
    <3>1. s \in Seq(T) /\ old \in 0 .. Len(s) - 1 /\ to \in 0 .. Len(s) - 1
      BY <1>1, <2>2, <2>3
    <3> HIDE DEF s
    <3>2. /\ Rotate(s, old, to) \in Seq(T) /\ Len(Rotate(s, old, to)) = Len(s)
          /\ \A i \in 1 .. Len(s) : Rotate(s, old, to)[i] = s[Source(i, old, to)]
      BY <3>1, Rotated
    <3> QED BY <3>2 DEF s
  <2>5. DOMAIN order = 1 .. n
    BY <1>1, <2>4
  <2> HIDE DEF order
  <2>6. u.order = order /\ u.file = q.file /\ u.dirty
    BY DEF Sound, Queue
  <2> HIDE DEF u
  <2>7. /\ \A i \in 1 .. n : Source(i, old, to) \in 1 .. n
        /\ \A i \in 1 .. n : Target(i, old, to) \in 1 .. n
                           /\ Source(Target(i, old, to), old, to) = i
        /\ \A i, j \in 1 .. n : Source(i, old, to) = Source(j, old, to) => i = j
        /\ \A i \in 1 .. n :
              (i < old + 1 /\ i < to + 1) \/ (i > old + 1 /\ i > to + 1) => Source(i, old, to) = i
    <3>1. n \in Nat
      BY <1>1
    <3> HIDE DEF n
    <3> QED BY <3>1, <2>2, <2>3, Sources
  <2>8. ToSet(order) = ToSet(q.order)
    <3>1. ASSUME NEW v \in ToSet(order) PROVE v \in ToSet(q.order)
      <4>1. PICK i \in 1 .. n : v = order[i]
        BY <2>5 DEF ToSet
      <4>2. Source(i, old, to) \in 1 .. n /\ v = q.order[Source(i, old, to)]
        BY <2>4, <2>7, <4>1
      <4> QED BY <1>1, <4>2 DEF ToSet
    <3>2. ASSUME NEW v \in ToSet(q.order) PROVE v \in ToSet(order)
      <4>1. PICK k \in 1 .. n : v = q.order[k]
        BY <1>1 DEF ToSet
      <4>2. order[Target(k, old, to)] = v /\ Target(k, old, to) \in 1 .. n
        BY <2>4, <2>7, <4>1
      <4> QED BY <2>5, <4>2 DEF ToSet
    <3> QED BY <3>1, <3>2
  <2>9. ASSUME NEW i \in 1 .. n, i > old + 1, i > newPos + 1 PROVE order[i] = q.order[i]
    <3>1. i > to + 1
      BY <1>1, <2>3, <2>9
    <3> QED BY <2>4, <2>7, <2>9, <3>1
  <2> QED BY <1>2, <2>1, <2>4, <2>6, <2>8, <2>9 DEF Reordered, Behind, old, r
<1> QED BY <1>3, <1>4

(* Two reorderings are one.                                                *)
LEMMA ReorderedTwice ==
    ASSUME NEW q, NEW r, NEW s, Reordered(q, r), Reordered(r, s)
    PROVE  Reordered(q, s)
BY DEF Reordered

(* A position, or NotQueued, plus one is a position.                       *)
LEMMA PositionType ==
    ASSUME NEW T, NEW q, Sound(q, T), NEW t \in T
    PROVE  q.posOf[t] + 1 \in Nat
<1>1. Len(q.order) \in Nat /\ DOMAIN q.posOf = T
  BY DEF Sound, Queue
<1>2. q.posOf[t] = -1 \/ q.posOf[t] \in 0 .. Len(q.order) - 1
  BY <1>1 DEF Sound, Indexed, NotQueued
<1> QED BY <1>1, <1>2

-----------------------------------------------------------------------------
(* A selection moves to the top, or to the bottom.                         *)
LEMMA MoveTopReorders ==
    ASSUME NEW T, NEW q, Sound(q, T), NEW sel
    PROVE  Sound(MoveTop(q, sel), T) /\ Reordered(q, MoveTop(q, sel))
<1> DEFINE n    == Len(q.order)
           seq  == Reverse(q.order)
           Q    == {r \in Queue(T) : Sound(r, T) /\ Reordered(q, r)}
           g    == [p \in Q \X (1 .. n) |->
                      IF seq[p[2]] \in sel THEN QueueSetPos(p[1], seq[p[2]], 0) ELSE p[1]]
           A(f) == f = [i \in 0 .. Len(seq) |->
                          IF i = 0 THEN q
                          ELSE IF seq[i] \in sel THEN QueueSetPos(f[i - 1], seq[i], 0) ELSE f[i - 1]]
           after == CHOOSE f : A(f)
<1>1. n \in Nat /\ q.order \in Seq(T) /\ q \in Q
  BY DEF Sound, Queue, Reordered
<1>2. Len(seq) = n /\ \A i \in 1 .. n : seq[i] \in T
  <2>1. seq = [i \in 1 .. n |-> q.order[(n - i) + 1]]
    BY DEF Reverse
  <2>2. \A i \in 1 .. n : (n - i) + 1 \in 1 .. n
    BY <1>1
  <2>3. \A i \in 1 .. n : q.order[i] \in T
    BY <1>1
  <2>4. \A i \in 1 .. n : seq[i] = q.order[(n - i) + 1]
    BY <2>1
  <2>5. Len(seq) = n
    BY <1>1, <2>1
  <2> QED BY <2>2, <2>3, <2>4, <2>5
<1> HIDE DEF seq, n
<1>3. ASSUME NEW i \in 1 .. n, NEW r \in Q
      PROVE  (IF seq[i] \in sel THEN QueueSetPos(r, seq[i], 0) ELSE r) \in Q
  <2>1. Sound(QueueSetPos(r, seq[i], 0), T) /\ Reordered(r, QueueSetPos(r, seq[i], 0))
    BY <1>2, SetPosReorders
  <2>2. QueueSetPos(r, seq[i], 0) \in Q
    BY <2>1, ReorderedTwice DEF Sound
  <2> QED BY <2>2
<1> HIDE DEF Q
<1>4. \E f : A(f)
  <2> DEFINE K == [i \in 0 .. n |-> Q]
  <2>1. K \in [0 .. n -> SUBSET Q] /\ q \in K[0]
    BY <1>1
  <2>2. ASSUME NEW i \in 1 .. n, NEW r \in K[i - 1] PROVE g[<<r, i>>] \in K[i]
    <3>1. r \in Q /\ K[i] = Q
      BY <1>1
    <3>2. g[<<r, i>>] = IF seq[i] \in sel THEN QueueSetPos(r, seq[i], 0) ELSE r
      BY <3>1
    <3> QED BY <1>3, <3>1, <3>2
  <2> HIDE DEF g, K
  <2>3. PICK f \in [0 .. n -> Q] : Goes(f, q, g, K, n)
    <3>1. Leads(g, K, n)
      BY <2>2 DEF Leads
    <3> QED BY <1>1, <2>1, <3>1, Iterated
  <2>4. ASSUME NEW i \in 0 .. n, i # 0
        PROVE  f[i] = IF seq[i] \in sel THEN QueueSetPos(f[i - 1], seq[i], 0) ELSE f[i - 1]
    <3>1. i \in 1 .. n /\ i - 1 \in 0 .. n
      BY <1>1, <2>4
    <3>2. f[i - 1] \in Q
      BY <3>1
    <3>3. f[i] = g[<<f[i - 1], i>>]
      BY <2>3, <3>1 DEF Goes
    <3> QED BY <3>1, <3>2, <3>3 DEF g
  <2>5. f[0] = q
    BY <2>3 DEF Goes
  <2> QED BY <1>2, <2>3, <2>4, <2>5
<1>5. A(after)
  BY <1>4, Zenon
<1>6. MoveTop(q, sel) = after[n]
  BY <1>2, Zenon DEF MoveTop, Visit, seq
<1> HIDE DEF after
<1>7. \A i \in 0 .. n : after[i] \in Q
  <2> DEFINE K == [i \in 0 .. n |-> Q]
  <2>1. after[0] \in K[0]
    BY <1>1, <1>2, <1>5
  <2>2. ASSUME NEW i \in 1 .. n, after[i - 1] \in K[i - 1] PROVE after[i] \in K[i]
    <3>1. i \in 0 .. n /\ i - 1 \in 0 .. n /\ i # 0
      BY <1>1
    <3>2. after[i] = IF seq[i] \in sel THEN QueueSetPos(after[i - 1], seq[i], 0) ELSE after[i - 1]
      BY <1>2, <1>5, <3>1
    <3> QED BY <1>3, <2>2, <3>1, <3>2
  <2> HIDE DEF K
  <2>3. \A i \in 0 .. n : after[i] \in K[i]
    BY <1>1, <2>1, <2>2, Iterates
  <2> QED BY <2>3 DEF K
<1>8. after[n] \in Q
  BY <1>1, <1>7
<1> QED BY <1>6, <1>8 DEF Q

(* Moving a selection to the bottom only reorders.                         *)
LEMMA MoveBottomReorders ==
    ASSUME NEW T, NEW q, Sound(q, T), NEW sel
    PROVE  Sound(MoveBottom(q, sel), T) /\ Reordered(q, MoveBottom(q, sel))
<1> DEFINE n    == Len(q.order)
           seq  == q.order
           Q    == {r \in Queue(T) : Sound(r, T) /\ Reordered(q, r)}
           g    == [p \in Q \X (1 .. n) |->
                      IF seq[p[2]] \in sel THEN QueueSetPos(p[1], seq[p[2]], Len(p[1].order)) ELSE p[1]]
           A(f) == f = [i \in 0 .. Len(seq) |->
                          IF i = 0 THEN q
                          ELSE IF seq[i] \in sel THEN QueueSetPos(f[i - 1], seq[i], Len(f[i - 1].order)) ELSE f[i - 1]]
           after == CHOOSE f : A(f)
<1>1. n \in Nat /\ q.order \in Seq(T) /\ q \in Q
  BY DEF Sound, Queue, Reordered
<1>2. Len(seq) = n /\ \A i \in 1 .. n : seq[i] \in T
  BY <1>1
<1> HIDE DEF seq, n
<1>3. ASSUME NEW i \in 1 .. n, NEW r \in Q
      PROVE  (IF seq[i] \in sel THEN QueueSetPos(r, seq[i], Len(r.order)) ELSE r) \in Q
  <2>1. Sound(QueueSetPos(r, seq[i], Len(r.order)), T) /\ Reordered(r, QueueSetPos(r, seq[i], Len(r.order)))
    <3>1. Len(r.order) \in Nat
      BY DEF Sound, Queue
    <3> QED BY <1>2, <3>1, SetPosReorders
  <2>2. QueueSetPos(r, seq[i], Len(r.order)) \in Q
    BY <2>1, ReorderedTwice DEF Sound
  <2> QED BY <2>2
<1> HIDE DEF Q
<1>4. \E f : A(f)
  <2> DEFINE K == [i \in 0 .. n |-> Q]
  <2>1. K \in [0 .. n -> SUBSET Q] /\ q \in K[0]
    BY <1>1
  <2>2. ASSUME NEW i \in 1 .. n, NEW r \in K[i - 1] PROVE g[<<r, i>>] \in K[i]
    <3>1. r \in Q /\ K[i] = Q
      BY <1>1
    <3>2. g[<<r, i>>] = IF seq[i] \in sel THEN QueueSetPos(r, seq[i], Len(r.order)) ELSE r
      BY <3>1
    <3> QED BY <1>3, <3>1, <3>2
  <2> HIDE DEF g, K
  <2>3. PICK f \in [0 .. n -> Q] : Goes(f, q, g, K, n)
    <3>1. Leads(g, K, n)
      BY <2>2 DEF Leads
    <3> QED BY <1>1, <2>1, <3>1, Iterated
  <2>4. ASSUME NEW i \in 0 .. n, i # 0
        PROVE  f[i] = IF seq[i] \in sel THEN QueueSetPos(f[i - 1], seq[i], Len(f[i - 1].order)) ELSE f[i - 1]
    <3>1. i \in 1 .. n /\ i - 1 \in 0 .. n
      BY <1>1, <2>4
    <3>2. f[i - 1] \in Q
      BY <3>1
    <3>3. f[i] = g[<<f[i - 1], i>>]
      BY <2>3, <3>1 DEF Goes
    <3> QED BY <3>1, <3>2, <3>3 DEF g
  <2>5. f[0] = q
    BY <2>3 DEF Goes
  <2> QED BY <1>2, <2>3, <2>4, <2>5
<1>5. A(after)
  BY <1>4, Zenon
<1>6. MoveBottom(q, sel) = after[n]
  BY <1>2, Zenon DEF MoveBottom, Visit, seq
<1> HIDE DEF after
<1>7. \A i \in 0 .. n : after[i] \in Q
  <2> DEFINE K == [i \in 0 .. n |-> Q]
  <2>1. after[0] \in K[0]
    BY <1>1, <1>2, <1>5
  <2>2. ASSUME NEW i \in 1 .. n, after[i - 1] \in K[i - 1] PROVE after[i] \in K[i]
    <3>1. i \in 0 .. n /\ i - 1 \in 0 .. n /\ i # 0
      BY <1>1
    <3>2. after[i] = IF seq[i] \in sel THEN QueueSetPos(after[i - 1], seq[i], Len(after[i - 1].order)) ELSE after[i - 1]
      BY <1>2, <1>5, <3>1
    <3> QED BY <1>3, <2>2, <3>1, <3>2
  <2> HIDE DEF K
  <2>3. \A i \in 0 .. n : after[i] \in K[i]
    BY <1>1, <2>1, <2>2, Iterates
  <2> QED BY <2>3 DEF K
<1>8. after[n] \in Q
  BY <1>1, <1>7
<1> QED BY <1>6, <1>8 DEF Q

-----------------------------------------------------------------------------
(* A selection moves up: until torrent i is gone through nothing behind it *)
(* has moved, and no more than i of them touch the top, so that one that   *)
(* does not touch it has a position to move up to.                         *)
LEMMA MoveUpReorders ==
    ASSUME NEW T, NEW q, Sound(q, T), NEW sel
    PROVE  Sound(MoveUp(q, sel), T) /\ Reordered(q, MoveUp(q, sel))
<1> DEFINE n    == Len(q.order)
           seq  == q.order
           b    == [q |-> q, edge |-> 0]
           U    == [q : Queue(T), edge : Int]
           K    == [i \in 0 .. n |-> {x \in U : /\ Sound(x.q, T) /\ Reordered(q, x.q)
                               /\ x.edge \in 0 .. i
                               /\ \A j \in i + 1 .. n : x.q.order[j] = q.order[j]}]
           Step(x, t) == IF x.q.posOf[t] # x.edge
                         THEN [x EXCEPT !.q = QueueSetPos(@, t, @.posOf[t] - 1)]
                         ELSE [x EXCEPT !.edge = @ + 1]
           g    == [p \in U \X (1 .. n) |->
                      IF seq[p[2]] \in sel THEN Step(p[1], seq[p[2]]) ELSE p[1]]
           A(f) == f = [i \in 0 .. Len(seq) |->
                          IF i = 0 THEN b
                          ELSE IF seq[i] \in sel THEN Step(f[i - 1], seq[i]) ELSE f[i - 1]]
           after == CHOOSE f : A(f)
<1>1. n \in Nat /\ q.order \in Seq(T) /\ q \in Queue(T)
  BY DEF Sound, Queue
<1>2. Len(seq) = n /\ \A i \in 1 .. n : seq[i] \in T
  BY <1>1
<1>0. b \in K[0]
  <2>1. Reordered(q, q) /\ b \in U
    BY <1>1 DEF Reordered
  <2> QED BY <1>1, <2>1
<1>3. ASSUME NEW i \in 1 .. n, NEW x \in K[i - 1]
      PROVE  (IF seq[i] \in sel THEN Step(x, seq[i]) ELSE x) \in K[i]
  <2> DEFINE t == seq[i]
             r == QueueSetPos(x.q, t, x.q.posOf[t] - 1)
  <2>1. /\ x \in U /\ Sound(x.q, T) /\ Reordered(q, x.q) /\ x.edge \in 0 .. i - 1 /\ t \in T
        /\ \A j \in i .. n : x.q.order[j] = q.order[j]
    <3>1. i - 1 \in 0 .. n /\ (i - 1) + 1 = i
      BY <1>1
    <3> QED BY <1>2, <3>1
  <2>2. Len(x.q.order) = n /\ i \in 0 .. n /\ i \in i .. n /\ i - 1 \in 0 .. n - 1
    BY <1>1, <2>1 DEF Reordered
  <2>3. x.q.posOf[t] = i - 1
    <3>1. x.q.order[(i - 1) + 1] = t
      BY <2>1, <2>2
    <3> QED BY <2>1, <2>2, <3>1 DEF Sound, Indexed
  <2>4. CASE seq[i] \notin sel
    <3>1. x.edge \in 0 .. i /\ \A j \in i + 1 .. n : j \in i .. n
      BY <2>1
    <3> QED BY <2>1, <2>2, <2>4, <3>1
  <2>5. CASE seq[i] \in sel /\ x.q.posOf[t] # x.edge
    <3>1. x.q.posOf[t] - 1 \in Nat /\ x.edge \in 0 .. i
      BY <2>1, <2>3, <2>5
    <3>2. /\ Sound(r, T) /\ Reordered(x.q, r)
          /\ \A j \in 1 .. Len(x.q.order) :
                j > x.q.posOf[t] + 1 /\ j > (x.q.posOf[t] - 1) + 1 => r.order[j] = x.q.order[j]
      <4> DEFINE p == x.q.posOf[t] - 1
      <4>1. p \in Nat /\ Sound(x.q, T) /\ t \in T
        BY <2>1, <3>1
      <4> HIDE DEF p, t
      <4>2. LET s == QueueSetPos(x.q, t, p)
            IN  Sound(s, T) /\ Reordered(x.q, s) /\ Behind(x.q, s, x.q.posOf[t], p)
        BY <4>1, SetPosReorders
      <4> QED BY <4>2 DEF p, t, Behind
    <3>3. Reordered(q, r)
      BY <2>1, <3>2, ReorderedTwice
    <3>4. ASSUME NEW j \in i + 1 .. n PROVE r.order[j] = q.order[j]
      <4>1. j \in i .. n /\ j \in 1 .. n /\ j > (i - 1) + 1 /\ j > ((i - 1) - 1) + 1
        BY <1>1
      <4> QED BY <2>1, <2>2, <2>3, <3>2, <4>1
    <3> DEFINE y == [x EXCEPT !.q = r]
    <3>5. Step(x, t) = y
      BY <2>5
    <3> HIDE DEF r
    <3>6. y \in U /\ y.q = r /\ y.edge = x.edge
      BY <2>1, <3>2 DEF Sound
    <3> HIDE DEF y, Step
    <3> QED BY <2>2, <2>5, <3>1, <3>2, <3>3, <3>4, <3>5, <3>6
  <2>6. CASE seq[i] \in sel /\ ~(x.q.posOf[t] # x.edge)
    <3> DEFINE y == [x EXCEPT !.edge = @ + 1]
    <3>1. Step(x, t) = y
      BY <2>6
    <3>2. y \in U /\ y.q = x.q /\ y.edge = x.edge + 1
      BY <2>1
    <3>3. x.edge + 1 \in 0 .. i /\ \A j \in i + 1 .. n : j \in i .. n
      BY <2>1
    <3> HIDE DEF y, Step
    <3> QED BY <2>1, <2>2, <2>6, <3>1, <3>2, <3>3
  <2> QED BY <2>4, <2>5, <2>6
<1>9. K \in [0 .. n -> SUBSET U]
  OBVIOUS
<1> HIDE DEF K, U, b, Step
<1>4. \E f : A(f)
  <2>2. ASSUME NEW i \in 1 .. n, NEW x \in K[i - 1]
        PROVE  g[<<x, i>>] \in K[i]
    <3>1. x \in U
      BY <1>1, <1>9
    <3>2. g[<<x, i>>] = IF seq[i] \in sel THEN Step(x, seq[i]) ELSE x
      BY <3>1
    <3> QED BY <1>3, <3>2
  <2> HIDE DEF g
  <2>3. PICK f \in [0 .. n -> U] : Goes(f, b, g, K, n)
    <3>1. Leads(g, K, n)
      BY <2>2 DEF Leads
    <3> QED BY <1>0, <1>1, <1>9, <3>1, Iterated
  <2>4. ASSUME NEW i \in 0 .. n, i # 0
        PROVE  f[i] = IF seq[i] \in sel THEN Step(f[i - 1], seq[i]) ELSE f[i - 1]
    <3>1. i \in 1 .. n /\ i - 1 \in 0 .. n
      BY <1>1, <2>4
    <3>2. f[i - 1] \in U
      BY <3>1
    <3>3. f[i] = g[<<f[i - 1], i>>]
      BY <2>3, <3>1 DEF Goes
    <3> QED BY <3>1, <3>2, <3>3 DEF g
  <2>5. f[0] = b
    BY <2>3 DEF Goes
  <2> QED BY <1>2, <2>3, <2>4, <2>5
<1>5. A(after)
  BY <1>4, Zenon
<1>6. MoveUp(q, sel) = after[n].q
  BY <1>2, Zenon DEF MoveUp, Visit, Step, b
<1> HIDE DEF after
<1>7. \A i \in 0 .. n : after[i] \in K[i]
  <2>1. after[0] \in K[0]
    BY <1>0, <1>1, <1>2, <1>5
  <2>2. ASSUME NEW i \in 1 .. n, after[i - 1] \in K[i - 1] PROVE after[i] \in K[i]
    <3>1. i \in 0 .. n /\ i - 1 \in 0 .. n /\ i # 0
      BY <1>1
    <3>2. after[i] = IF seq[i] \in sel THEN Step(after[i - 1], seq[i]) ELSE after[i - 1]
      BY <1>2, <1>5, <3>1
    <3> QED BY <1>3, <2>2, <3>2
  <2> QED BY <1>1, <2>1, <2>2, Iterates
<1>8. after[n] \in K[n]
  BY <1>1, <1>7
<1> QED BY <1>1, <1>6, <1>8 DEF K

(* A selection moves down.                                                 *)
LEMMA MoveDownReorders ==
    ASSUME NEW T, NEW q, Sound(q, T), NEW sel
    PROVE  Sound(MoveDown(q, sel), T) /\ Reordered(q, MoveDown(q, sel))
<1> DEFINE n    == Len(q.order)
           seq  == Reverse(q.order)
           b    == [q |-> q, edge |-> Len(q.order) - 1]
           U    == [q : Queue(T), edge : Int]
           K    == [i \in 0 .. n |-> {x \in U : /\ Sound(x.q, T) /\ Reordered(q, x.q)}]
           Step(x, t) == IF x.q.posOf[t] # x.edge
                         THEN [x EXCEPT !.q = QueueSetPos(@, t, @.posOf[t] + 1)]
                         ELSE [x EXCEPT !.edge = @ - 1]
           g    == [p \in U \X (1 .. n) |->
                      IF seq[p[2]] \in sel THEN Step(p[1], seq[p[2]]) ELSE p[1]]
           A(f) == f = [i \in 0 .. Len(seq) |->
                          IF i = 0 THEN b
                          ELSE IF seq[i] \in sel THEN Step(f[i - 1], seq[i]) ELSE f[i - 1]]
           after == CHOOSE f : A(f)
<1>1. n \in Nat /\ q.order \in Seq(T) /\ q \in Queue(T)
  BY DEF Sound, Queue
<1>2. Len(seq) = n /\ \A i \in 1 .. n : seq[i] \in T
  <2>1. seq = [i \in 1 .. n |-> q.order[(n - i) + 1]]
    BY DEF Reverse
  <2>2. \A i \in 1 .. n : (n - i) + 1 \in 1 .. n
    BY <1>1
  <2>3. \A i \in 1 .. n : q.order[i] \in T
    BY <1>1
  <2>4. \A i \in 1 .. n : seq[i] = q.order[(n - i) + 1]
    BY <2>1
  <2>5. Len(seq) = n
    BY <1>1, <2>1
  <2> QED BY <2>2, <2>3, <2>4, <2>5
<1> HIDE DEF seq, n
<1>0. b \in K[0]
  <2>1. Reordered(q, q) /\ b \in U
    BY <1>1 DEF Reordered
  <2> QED BY <1>1, <2>1
<1>3. ASSUME NEW i \in 1 .. n, NEW x \in K[i - 1]
      PROVE  (IF seq[i] \in sel THEN Step(x, seq[i]) ELSE x) \in K[i]
  <2> DEFINE t == seq[i]
             r == QueueSetPos(x.q, t, x.q.posOf[t] + 1)
  <2>1. i \in 0 .. n /\ x \in U /\ Sound(x.q, T) /\ Reordered(q, x.q) /\ t \in T
    <3>1. i \in 0 .. n /\ i - 1 \in 0 .. n
      BY <1>1
    <3> QED BY <1>2, <3>1
  <2>2. CASE seq[i] \notin sel
    BY <2>1, <2>2
  <2>3. CASE seq[i] \in sel /\ x.q.posOf[t] # x.edge
    <3>1. Sound(r, T) /\ Reordered(x.q, r)
      BY <2>1, PositionType, SetPosReorders
    <3>2. Reordered(q, r)
      BY <2>1, <3>1, ReorderedTwice
    <3> DEFINE y == [x EXCEPT !.q = r]
    <3>3. Step(x, t) = y
      BY <2>3
    <3> HIDE DEF r
    <3>4. y \in U /\ y.q = r
      BY <2>1, <3>1 DEF Sound
    <3> HIDE DEF y, Step
    <3> QED BY <2>1, <2>3, <3>1, <3>2, <3>3, <3>4
  <2>4. CASE seq[i] \in sel /\ ~(x.q.posOf[t] # x.edge)
    <3> DEFINE y == [x EXCEPT !.edge = @ - 1]
    <3>1. Step(x, t) = y
      BY <2>4
    <3>2. y \in U /\ y.q = x.q
      BY <2>1
    <3> HIDE DEF y, Step
    <3> QED BY <2>1, <2>4, <3>1, <3>2
  <2> QED BY <2>2, <2>3, <2>4
<1>9. K \in [0 .. n -> SUBSET U]
  OBVIOUS
<1> HIDE DEF K, U, b, Step
<1>4. \E f : A(f)
  <2>2. ASSUME NEW i \in 1 .. n, NEW x \in K[i - 1]
        PROVE  g[<<x, i>>] \in K[i]
    <3>1. x \in U
      BY <1>1, <1>9
    <3>2. g[<<x, i>>] = IF seq[i] \in sel THEN Step(x, seq[i]) ELSE x
      BY <3>1
    <3> QED BY <1>3, <3>2
  <2> HIDE DEF g
  <2>3. PICK f \in [0 .. n -> U] : Goes(f, b, g, K, n)
    <3>1. Leads(g, K, n)
      BY <2>2 DEF Leads
    <3> QED BY <1>0, <1>1, <1>9, <3>1, Iterated
  <2>4. ASSUME NEW i \in 0 .. n, i # 0
        PROVE  f[i] = IF seq[i] \in sel THEN Step(f[i - 1], seq[i]) ELSE f[i - 1]
    <3>1. i \in 1 .. n /\ i - 1 \in 0 .. n
      BY <1>1, <2>4
    <3>2. f[i - 1] \in U
      BY <3>1
    <3>3. f[i] = g[<<f[i - 1], i>>]
      BY <2>3, <3>1 DEF Goes
    <3> QED BY <3>1, <3>2, <3>3 DEF g
  <2>5. f[0] = b
    BY <2>3 DEF Goes
  <2> QED BY <1>2, <2>3, <2>4, <2>5
<1>5. A(after)
  BY <1>4, Zenon
<1>6. MoveDown(q, sel) = after[n].q
  BY <1>2, Zenon DEF MoveDown, Visit, Step, b, seq, n
<1> HIDE DEF after
<1>7. \A i \in 0 .. n : after[i] \in K[i]
  <2>1. after[0] \in K[0]
    BY <1>0, <1>1, <1>2, <1>5
  <2>2. ASSUME NEW i \in 1 .. n, after[i - 1] \in K[i - 1] PROVE after[i] \in K[i]
    <3>1. i \in 0 .. n /\ i - 1 \in 0 .. n /\ i # 0
      BY <1>1
    <3>2. after[i] = IF seq[i] \in sel THEN Step(after[i - 1], seq[i]) ELSE after[i - 1]
      BY <1>2, <1>5, <3>1
    <3> QED BY <1>3, <2>2, <3>2
  <2> QED BY <1>1, <2>1, <2>2, Iterates
<1>8. after[n] \in K[n]
  BY <1>1, <1>7
<1> QED BY <1>1, <1>6, <1>8 DEF K

-----------------------------------------------------------------------------
(* Sequences without a double, as the list of what is to be loaded is one. *)
Distinct(s) == \A i, j \in 1 .. Len(s) : s[i] = s[j] => i = j

(* The elements of a sequence are those at its positions.                  *)
LEMMA InSet ==
    ASSUME NEW T, NEW s \in Seq(T), NEW t
    PROVE  t \in ToSet(s) <=> \E i \in 1 .. Len(s) : s[i] = t
BY DEF ToSet

(* A new element keeps a sequence without repetitions.                     *)
LEMMA AppendDistinct ==
    ASSUME NEW T, NEW s \in Seq(T), Distinct(s), NEW t \in T, t \notin ToSet(s)
    PROVE  Distinct(Append(s, t))
<1> DEFINE a == Append(s, t)
           n == Len(s)
<1>1. n \in Nat /\ Len(a) = n + 1 /\ a[n + 1] = t /\ \A i \in 1 .. n : a[i] = s[i]
  OBVIOUS
<1>2. \A i \in 1 .. n : s[i] # t
  BY InSet
<1>3. \A i \in 1 .. n + 1 : i = n + 1 \/ i \in 1 .. n
  BY <1>1
<1> HIDE DEF a
<1>4. ASSUME NEW i \in 1 .. n + 1, NEW j \in 1 .. n + 1, a[i] = a[j] PROVE i = j
  BY <1>1, <1>2, <1>3, <1>4 DEF Distinct
<1> QED BY <1>1, <1>4 DEF Distinct, a

(* The set of a sequence with one element more.                            *)
LEMMA AppendSet ==
    ASSUME NEW T, NEW s \in Seq(T), NEW t \in T
    PROVE  ToSet(Append(s, t)) = ToSet(s) \cup {t}
<1> DEFINE a == Append(s, t)
           n == Len(s)
<1>1. /\ a \in Seq(T) /\ n \in Nat /\ Len(a) = n + 1 /\ a[n + 1] = t
      /\ \A i \in 1 .. n : a[i] = s[i]
  OBVIOUS
<1>2. 1 .. n + 1 = 1 .. n \cup {n + 1}
  BY <1>1
<1> HIDE DEF a
<1>3. \A v : v \in ToSet(a) <=> \E i \in 1 .. n + 1 : a[i] = v
  BY <1>1, InSet
<1>4. \A v : v \in ToSet(s) <=> \E i \in 1 .. n : s[i] = v
  BY InSet
<1>5. ASSUME NEW v PROVE v \in ToSet(a) <=> v \in ToSet(s) \cup {t}
  BY <1>1, <1>2, <1>3, <1>4
<1> QED BY <1>5 DEF a

(* Two sequences that have nothing in common, one after the other.         *)
LEMMA ConcatDistinct ==
    ASSUME NEW T, NEW r \in Seq(T), NEW s \in Seq(T), Distinct(r), Distinct(s),
           ToSet(r) \cap ToSet(s) = {}
    PROVE  /\ r \o s \in Seq(T) /\ Distinct(r \o s)
           /\ ToSet(r \o s) = ToSet(r) \cup ToSet(s)
<1> DEFINE c == r \o s
           m == Len(r)
           n == Len(s)
<1>1. /\ c \in Seq(T) /\ m \in Nat /\ n \in Nat /\ Len(c) = m + n
      /\ \A i \in 1 .. m : c[i] = r[i]
      /\ \A i \in m + 1 .. m + n : c[i] = s[i - m]
  OBVIOUS
<1>2. /\ \A i \in 1 .. m + n : i \in 1 .. m \/ (i \in m + 1 .. m + n /\ i - m \in 1 .. n)
      /\ \A i \in 1 .. n : i + m \in m + 1 .. m + n /\ (i + m) - m = i /\ i + m \in 1 .. m + n
      /\ \A i \in 1 .. m : i \in 1 .. m + n
      /\ \A i, j \in m + 1 .. m + n : i - m = j - m => i = j
  BY <1>1
<1> HIDE DEF c, m, n
<1>3. /\ \A v : v \in ToSet(c) <=> \E i \in 1 .. m + n : c[i] = v
      /\ \A v : v \in ToSet(r) <=> \E i \in 1 .. m : r[i] = v
      /\ \A v : v \in ToSet(s) <=> \E i \in 1 .. n : s[i] = v
  <2>1. \A v : v \in ToSet(c) <=> \E i \in 1 .. Len(c) : c[i] = v
    <3>1. c \in Seq(T)
      BY <1>1
    <3> QED BY <3>1, InSet
  <2>2. \A v : v \in ToSet(r) <=> \E i \in 1 .. m : r[i] = v
    BY InSet DEF m
  <2>3. \A v : v \in ToSet(s) <=> \E i \in 1 .. n : s[i] = v
    BY InSet DEF n
  <2> QED BY <1>1, <2>1, <2>2, <2>3
<1>4. \A i \in 1 .. m, j \in 1 .. n : r[i] # s[j]
  BY <1>3
<1>5. ASSUME NEW i \in 1 .. m + n, NEW j \in 1 .. m + n, c[i] = c[j] PROVE i = j
  <2>1. CASE i \in 1 .. m /\ j \in 1 .. m
    BY <1>1, <1>5, <2>1 DEF Distinct, m
  <2>2. CASE i \in 1 .. m /\ j \in m + 1 .. m + n /\ j - m \in 1 .. n
    BY <1>1, <1>4, <1>5, <2>2
  <2>3. CASE j \in 1 .. m /\ i \in m + 1 .. m + n /\ i - m \in 1 .. n
    BY <1>1, <1>4, <1>5, <2>3
  <2>4. CASE /\ i \in m + 1 .. m + n /\ i - m \in 1 .. n
             /\ j \in m + 1 .. m + n /\ j - m \in 1 .. n
    <3>1. s[i - m] = s[j - m]
      BY <1>1, <1>5, <2>4
    <3>2. i - m = j - m
      BY <2>4, <3>1 DEF Distinct, n
    <3> QED BY <1>2, <2>4, <3>2
  <2> QED BY <1>2, <2>1, <2>2, <2>3, <2>4
<1>6. ASSUME NEW v PROVE v \in ToSet(c) <=> v \in ToSet(r) \/ v \in ToSet(s)
  <2>1. ASSUME v \in ToSet(c) PROVE v \in ToSet(r) \/ v \in ToSet(s)
    BY <1>1, <1>2, <1>3, <2>1
  <2>2. ASSUME v \in ToSet(r) PROVE v \in ToSet(c)
    BY <1>1, <1>2, <1>3, <2>2
  <2>3. ASSUME v \in ToSet(s) PROVE v \in ToSet(c)
    <3>1. PICK i \in 1 .. n : s[i] = v
      BY <1>3, <2>3
    <3>2. c[i + m] = v /\ i + m \in 1 .. m + n
      BY <1>1, <1>2, <3>1
    <3> QED BY <1>3, <3>2
  <2> QED BY <2>1, <2>2, <2>3
<1> QED BY <1>1, <1>5, <1>6 DEF Distinct, c

(* What is left of a sequence without repetitions when its head is taken.  *)
LEMMA TailDistinct ==
    ASSUME NEW T, NEW s \in Seq(T), s # <<>>, Distinct(s)
    PROVE  /\ Tail(s) \in Seq(T) /\ Distinct(Tail(s)) /\ Head(s) \in T
           /\ Head(s) \in ToSet(s) /\ ToSet(Tail(s)) = ToSet(s) \ {Head(s)}
<1> DEFINE r == Tail(s)
           n == Len(s)
<1>1. /\ r \in Seq(T) /\ n \in Nat /\ n > 0 /\ Len(r) = n - 1 /\ Head(s) = s[1] /\ s[1] \in T
      /\ \A i \in 1 .. n - 1 : r[i] = s[i + 1]
  OBVIOUS
<1>2. /\ \A i \in 1 .. n - 1 : i + 1 \in 1 .. n /\ i + 1 # 1
      /\ \A i, j \in 1 .. n - 1 : i + 1 = j + 1 => i = j
      /\ \A i \in 1 .. n : i # 1 => i - 1 \in 1 .. n - 1 /\ (i - 1) + 1 = i
      /\ 1 \in 1 .. n
  BY <1>1
<1> HIDE DEF r
<1>3. /\ \A v : v \in ToSet(r) <=> \E i \in 1 .. n - 1 : r[i] = v
      /\ \A v : v \in ToSet(s) <=> \E i \in 1 .. n : s[i] = v
  BY <1>1, InSet
<1>4. ASSUME NEW v PROVE v \in ToSet(r) <=> v \in ToSet(s) \ {s[1]}
  <2>1. ASSUME v \in ToSet(r) PROVE v \in ToSet(s) /\ v # s[1]
    <3>1. PICK i \in 1 .. n - 1 : r[i] = v
      BY <1>3, <2>1
    <3>2. v = s[i + 1] /\ i + 1 \in 1 .. n /\ i + 1 # 1
      BY <1>1, <1>2, <3>1
    <3> QED BY <1>2, <1>3, <3>2 DEF Distinct
  <2>2. ASSUME v \in ToSet(s), v # s[1] PROVE v \in ToSet(r)
    <3>1. PICK i \in 1 .. n : s[i] = v
      BY <1>3, <2>2
    <3>2. i - 1 \in 1 .. n - 1 /\ (i - 1) + 1 = i
      BY <1>2, <2>2, <3>1
    <3>3. r[i - 1] = v
      BY <1>1, <3>1, <3>2
    <3> QED BY <1>3, <3>2, <3>3
  <2> QED BY <2>1, <2>2
<1>5. ASSUME NEW i \in 1 .. n - 1, NEW j \in 1 .. n - 1, r[i] = r[j] PROVE i = j
  <2>1. s[i + 1] = s[j + 1] /\ i + 1 \in 1 .. n /\ j + 1 \in 1 .. n
    BY <1>1, <1>2, <1>5
  <2>2. i + 1 = j + 1
    BY <2>1 DEF Distinct
  <2> QED BY <1>2, <2>2
<1> QED BY <1>1, <1>2, <1>3, <1>4, <1>5 DEF Distinct, r

(* A finite set as a sequence has each element once.                       *)
LEMMA SetAsSeq ==
    ASSUME NEW S, IsFiniteSet(S)
    PROVE  /\ SetToSeq(S) \in Seq(S) /\ Distinct(SetToSeq(S))
           /\ ToSet(SetToSeq(S)) = S /\ Len(SetToSeq(S)) = Cardinality(S)
<1> DEFINE n == Cardinality(S)
           D == 1 .. n
           f == SetToSeq(S)
<1>1. n \in Nat /\ \E b : b \in Bijection(D, S)
  BY FS_CardinalityType, Zenon DEF ExistsBijection
<1>2. PICK b : b \in Bijection(D, S)
  BY <1>1
<1>3. b \in [D -> S] /\ IsInjective(b)
  BY <1>2 DEF Bijection, Injection, IsInjective
<1>4. f \in [D -> S] /\ IsInjective(f)
  BY <1>3, Zenon DEF SetToSeq
<1> HIDE DEF f
<1>5. f \in Seq(S) /\ Len(f) = n
  BY <1>1, <1>4
<1>6. f \in Injection(D, S)
  BY <1>4 DEF Injection, IsInjective
<1>7. Cardinality(D) = n
  <2> HIDE DEF n
  <2>1. Cardinality(1 .. n) = IF 1 > n THEN 0 ELSE n - 1 + 1
    BY <1>1, FS_Interval
  <2> QED BY <1>1, <2>1
<1>8. f \in Surjection(D, S)
  BY <1>6, <1>7, FS_Injection
<1>9. ToSet(f) = S
  BY <1>4, <1>8 DEF Surjection, ToSet
<1> QED BY <1>4, <1>5, <1>9 DEF Distinct, IsInjective, f

(* u is before v in a sequence.                                            *)
Before(s, u, v) == \E a, b \in 1 .. Len(s) : a < b /\ s[a] = u /\ s[b] = v

(* What Reopen makes of queue.json: the files it lists that are stored, in *)
(* its order.                                                              *)
LEMMA FileAsListed ==
    ASSUME NEW T, NEW file \in Seq(T), Distinct(file), NEW stored
    PROVE  LET listed == Visit(file, stored, LAMBDA s, t : Append(s, t), <<>>)
           IN  /\ listed \in Seq(T) /\ Distinct(listed)
               /\ ToSet(listed) = ToSet(file) \cap stored
               /\ \A j, k \in 1 .. Len(file) :
                     j < k /\ file[j] \in stored /\ file[k] \in stored
                        => Before(listed, file[j], file[k])
<1> DEFINE n    == Len(file)
           Kept(i, x) == \A j, k \in 1 .. i :
                            j < k /\ file[j] \in stored /\ file[k] \in stored
                               => Before(x, file[j], file[k])
           Upto(i) == {file[j] : j \in 1 .. i}
           K    == [i \in 0 .. n |->
                      {x \in Seq(T) : /\ Distinct(x) /\ ToSet(x) = Upto(i) \cap stored
                                      /\ Kept(i, x)}]
           g    == [p \in Seq(T) \X (1 .. n) |->
                      IF file[p[2]] \in stored THEN Append(p[1], file[p[2]]) ELSE p[1]]
           A(f) == f = [i \in 0 .. Len(file) |->
                          IF i = 0 THEN <<>>
                          ELSE IF file[i] \in stored THEN Append(f[i - 1], file[i]) ELSE f[i - 1]]
           after == CHOOSE f : A(f)
<1>1. n \in Nat /\ (\A i \in 1 .. n : file[i] \in T) /\ ToSet(file) = Upto(n)
  BY DEF ToSet
<1>2. <<>> \in K[0]
  <2>1. <<>> \in Seq(T) /\ Len(<<>>) = 0 /\ \A j \in 1 .. 0 : FALSE
    OBVIOUS
  <2>2. ToSet(<<>>) = {}
    BY <2>1, InSet
  <2>3. Upto(0) = {}
    BY <2>1
  <2>4. Distinct(<<>>)
    BY <2>1 DEF Distinct
  <2> QED BY <1>1, <2>1, <2>2, <2>3, <2>4
<1>3. ASSUME NEW i \in 1 .. n, NEW x \in K[i - 1]
      PROVE  (IF file[i] \in stored THEN Append(x, file[i]) ELSE x) \in K[i]
  <2> DEFINE t == file[i]
  <2>1. i \in 0 .. n /\ i - 1 \in 0 .. n /\ t \in T /\ t \in ToSet(file)
    BY <1>1, InSet
  <2>2. /\ x \in Seq(T) /\ Distinct(x) /\ ToSet(x) = Upto(i - 1) \cap stored
        /\ Kept(i - 1, x)
    BY <2>1
  <2>3. Upto(i) = Upto(i - 1) \cup {t}
    <3>1. 1 .. i = 1 .. i - 1 \cup {i}
      BY <1>1
    <3> QED BY <3>1
  <2>4. t \notin Upto(i - 1)
    <3>1. ASSUME NEW j \in 1 .. i - 1 PROVE file[j] # t
      <4>1. j \in 1 .. n /\ j # i
        BY <1>1
      <4> QED BY <4>1 DEF Distinct
    <3> QED BY <3>1
  <2>5. /\ \A j \in 1 .. i : j = i \/ j \in 1 .. i - 1
        /\ \A j, k \in 1 .. i : j < k => j \in 1 .. i - 1
        /\ \A j \in 1 .. i - 1 : j \in 1 .. i
    BY <2>1
  <2>6. CASE t \in stored
    <3> DEFINE a == Append(x, t)
               m == Len(x)
    <3>1. a \in Seq(T) /\ Distinct(a) /\ ToSet(a) = ToSet(x) \cup {t}
      BY <2>1, <2>2, <2>4, AppendDistinct, AppendSet
    <3>2. ToSet(a) = Upto(i) \cap stored
      BY <2>2, <2>3, <2>6, <3>1
    <3>3. /\ m \in Nat /\ Len(a) = m + 1 /\ a[m + 1] = t /\ m + 1 \in 1 .. Len(a)
          /\ \A c \in 1 .. m : a[c] = x[c] /\ c \in 1 .. Len(a) /\ c < m + 1
      BY <2>1, <2>2
    <3> HIDE DEF a, m
    <3>4. ASSUME NEW j \in 1 .. i, NEW k \in 1 .. i, j < k, file[j] \in stored, file[k] \in stored
          PROVE  Before(a, file[j], file[k])
      <4>1. j \in 1 .. i - 1
        BY <2>5, <3>4
      <4>2. CASE k = i
        <5>1. file[j] \in ToSet(x)
          BY <2>2, <3>4, <4>1
        <5>2. PICK c \in 1 .. m : x[c] = file[j]
          BY <2>2, <5>1, InSet DEF m
        <5> QED BY <3>3, <4>2, <5>2 DEF Before
      <4>3. CASE k \in 1 .. i - 1
        <5>1. Before(x, file[j], file[k])
          BY <2>2, <3>4, <4>1, <4>3
        <5>2. PICK c, d \in 1 .. m : c < d /\ x[c] = file[j] /\ x[d] = file[k]
          BY <5>1 DEF Before, m
        <5> QED BY <3>3, <5>2 DEF Before
      <4> QED BY <2>5, <4>2, <4>3
    <3>5. Kept(i, a)
      BY <3>4
    <3> HIDE DEF Kept, t, Upto
    <3>6. a \in K[i]
      BY <2>1, <3>1, <3>2, <3>5
    <3> QED BY <2>6, <3>6 DEF a, t
  <2>7. CASE t \notin stored
    <3>1. ToSet(x) = Upto(i) \cap stored
      BY <2>2, <2>3, <2>7
    <3>2. Kept(i, x)
      BY <2>2, <2>5, <2>7
    <3> HIDE DEF Kept, Upto
    <3> QED BY <2>1, <2>2, <2>7, <3>1, <3>2
  <2> QED BY <2>6, <2>7
<1>9. K \in [0 .. n -> SUBSET Seq(T)]
  OBVIOUS
<1> HIDE DEF K, Upto, Kept
<1>4. \E f : A(f)
  <2>2. ASSUME NEW i \in 1 .. n, NEW x \in K[i - 1]
        PROVE  g[<<x, i>>] \in K[i]
    <3>1. x \in Seq(T)
      BY <1>1, <1>9
    <3>2. g[<<x, i>>] = IF file[i] \in stored THEN Append(x, file[i]) ELSE x
      BY <3>1
    <3> QED BY <1>3, <3>2
  <2> HIDE DEF g
  <2>3. PICK f \in [0 .. n -> Seq(T)] : Goes(f, <<>>, g, K, n)
    <3>1. Leads(g, K, n)
      BY <2>2 DEF Leads
    <3> DEFINE U == Seq(T)
               b == <<>>
    <3>2. K \in [0 .. n -> SUBSET U] /\ b \in K[0]
      BY <1>2, <1>9
    <3> HIDE DEF U, b, n
    <3>3. \E f \in [0 .. n -> U] : Goes(f, b, g, K, n)
      BY <1>1, <3>1, <3>2, Iterated
    <3> QED BY <3>3 DEF U, b
  <2>4. ASSUME NEW i \in 0 .. n, i # 0
        PROVE  f[i] = IF file[i] \in stored THEN Append(f[i - 1], file[i]) ELSE f[i - 1]
    <3>1. i \in 1 .. n /\ i - 1 \in 0 .. n
      BY <1>1, <2>4
    <3>2. f[i - 1] \in Seq(T)
      BY <3>1
    <3>3. f[i] = g[<<f[i - 1], i>>]
      BY <2>3, <3>1 DEF Goes
    <3> QED BY <3>1, <3>2, <3>3 DEF g
  <2>5. f[0] = <<>>
    BY <2>3 DEF Goes
  <2> QED BY <2>3, <2>4, <2>5
<1>5. A(after)
  BY <1>4, Zenon
<1>6. Visit(file, stored, LAMBDA s, t : Append(s, t), <<>>) = after[n]
  BY Zenon DEF Visit
<1> HIDE DEF after
<1>7. \A i \in 0 .. n : after[i] \in K[i]
  <2>1. after[0] \in K[0]
    BY <1>1, <1>2, <1>5
  <2>2. ASSUME NEW i \in 1 .. n, after[i - 1] \in K[i - 1] PROVE after[i] \in K[i]
    <3>1. i \in 0 .. n /\ i - 1 \in 0 .. n /\ i # 0
      BY <1>1
    <3>2. after[i] = IF file[i] \in stored THEN Append(after[i - 1], file[i]) ELSE after[i - 1]
      BY <1>5, <3>1
    <3> QED BY <1>3, <2>2, <3>2
  <2> HIDE DEF n
  <2> QED BY <1>1, <2>1, <2>2, Iterates
<1>8. after[n] \in K[n] /\ n \in 0 .. n
  BY <1>1, <1>7
<1> DEFINE r == after[n]
<1>10. /\ r \in Seq(T) /\ Distinct(r) /\ ToSet(r) = Upto(n) \cap stored
       /\ Kept(n, r)
  BY <1>8 DEF K
<1> HIDE DEF r
<1> QED BY <1>1, <1>6, <1>10 DEF r, Kept

(* Each torrent has one name in a file.                                    *)
OneName(file) == \A i, j \in 1 .. Len(file) : file[i][1] = file[j][1] => i = j

(* A file of a queue, and the files that are stored.                       *)
Loadable(T, file, stored) ==
    /\ file \in Seq(T \X BOOLEAN) /\ OneName(file)
    /\ stored \in SUBSET (T \X BOOLEAN) /\ IsFiniteSet(stored)
    /\ \A m, n \in stored : m[1] = n[1] => m = n

(* The torrents whose files are named.                                     *)
NamesOf(files) == {name[1] : name \in files}

(* Every stored torrent is loaded once; those whose file queue.json names  *)
(* come in its order, and before the others.                               *)
LEMMA LoadOrderHolds ==
    ASSUME NEW T, NEW file, NEW stored, Loadable(T, file, stored)
    PROVE  LET loaded == LoadOrder(file, stored)
           IN  /\ loaded \in Seq(T) /\ Distinct(loaded)
               /\ ToSet(loaded) = NamesOf(stored)
               /\ \A j, k \in 1 .. Len(file) :
                     j < k /\ file[j] \in stored /\ file[k] \in stored
                        => Before(loaded, file[j][1], file[k][1])
               /\ \A j \in 1 .. Len(file), m \in stored \ ToSet(file) :
                     file[j] \in stored => Before(loaded, file[j][1], m[1])
<1> DEFINE N      == T \X BOOLEAN
           listed == Visit(file, stored, LAMBDA s, name : Append(s, name), <<>>)
           rest   == stored \ ToSet(listed)
           with   == {name \in rest : name[2]}
           bare   == {name \in rest : ~name[2]}
           after  == SetToSeq(with) \o SetToSeq(bare)
           names  == listed \o SetToSeq(with) \o SetToSeq(bare)
           loaded == [i \in DOMAIN names |-> names[i][1]]
<1>0. /\ file \in Seq(N) /\ OneName(file) /\ stored \in SUBSET N /\ IsFiniteSet(stored)
      /\ \A m, n \in stored : m[1] = n[1] => m = n
  BY DEF Loadable
<1>1. Distinct(file)
  BY <1>0 DEF OneName, Distinct
<1>2. /\ listed \in Seq(N) /\ Distinct(listed) /\ ToSet(listed) = ToSet(file) \cap stored
      /\ \A j, k \in 1 .. Len(file) :
            j < k /\ file[j] \in stored /\ file[k] \in stored => Before(listed, file[j], file[k])
  BY <1>0, <1>1, FileAsListed
<1>3. loaded = LoadOrder(file, stored)
  BY Zenon DEF LoadOrder
<1> HIDE DEF listed
<1>4. /\ IsFiniteSet(with) /\ IsFiniteSet(bare) /\ with \cap bare = {} /\ with \cup bare = rest
      /\ with \subseteq N /\ bare \subseteq N
  <2>1. with \subseteq stored /\ bare \subseteq stored
    OBVIOUS
  <2>2. IsFiniteSet(with) /\ IsFiniteSet(bare)
    BY <1>0, <2>1, FS_Subset
  <2> QED BY <1>0, <2>1, <2>2
<1> HIDE DEF with, bare
<1>5. /\ SetToSeq(with) \in Seq(N) /\ Distinct(SetToSeq(with)) /\ ToSet(SetToSeq(with)) = with
      /\ SetToSeq(bare) \in Seq(N) /\ Distinct(SetToSeq(bare)) /\ ToSet(SetToSeq(bare)) = bare
  <2>1. SetToSeq(with) \in Seq(with) /\ SetToSeq(bare) \in Seq(bare)
    BY <1>4, SetAsSeq
  <2>2. Seq(with) \subseteq Seq(N) /\ Seq(bare) \subseteq Seq(N)
    BY <1>4
  <2> QED BY <1>4, <2>1, <2>2, SetAsSeq
<1> HIDE DEF N
<1>6. after \in Seq(N) /\ Distinct(after) /\ ToSet(after) = rest
  BY <1>4, <1>5, ConcatDistinct
<1>7. names = listed \o after
  BY <1>2, <1>5
<1>8. ToSet(listed) \cap ToSet(after) = {} /\ ToSet(listed) \cup ToSet(after) = stored
  BY <1>2, <1>6
<1>9. names \in Seq(N) /\ Distinct(names) /\ ToSet(names) = stored
  <2> HIDE DEF after, names, rest
  <2>1. /\ listed \o after \in Seq(N) /\ Distinct(listed \o after)
        /\ ToSet(listed \o after) = ToSet(listed) \cup ToSet(after)
    BY <1>2, <1>6, <1>8, ConcatDistinct
  <2> QED BY <1>7, <1>8, <2>1
<1> HIDE DEF names
<1>10. /\ Len(names) \in Nat /\ DOMAIN names = 1 .. Len(names)
       /\ \A i \in 1 .. Len(names) : names[i] \in stored
  BY <1>9, InSet
<1>11. /\ loaded \in Seq(T) /\ Len(loaded) = Len(names)
       /\ \A i \in 1 .. Len(names) : loaded[i] = names[i][1]
  <2>1. \A i \in 1 .. Len(names) : names[i][1] \in T
    BY <1>0, <1>10 DEF N
  <2> QED BY <1>10, <2>1
<1> HIDE DEF loaded
<1>12. Distinct(loaded)
  BY <1>0, <1>9, <1>10, <1>11 DEF Distinct
<1>13. ToSet(loaded) = NamesOf(stored)
  <2>1. \A v : v \in ToSet(loaded) <=> \E i \in 1 .. Len(names) : loaded[i] = v
    BY <1>11, InSet
  <2>2. \A m : m \in stored <=> \E i \in 1 .. Len(names) : names[i] = m
    BY <1>9, InSet
  <2>3. ASSUME NEW v PROVE v \in ToSet(loaded) <=> v \in NamesOf(stored)
    BY <1>10, <1>11, <2>1, <2>2 DEF NamesOf
  <2> QED BY <2>3
<1>14. /\ Len(listed) \in Nat /\ Len(after) \in Nat /\ Len(names) = Len(listed) + Len(after)
       /\ \A i \in 1 .. Len(listed) : names[i] = listed[i] /\ i \in 1 .. Len(names)
       /\ \A i \in 1 .. Len(after) : /\ names[Len(listed) + i] = after[i]
                                      /\ Len(listed) + i \in 1 .. Len(names)
       /\ \A i \in 1 .. Len(listed), j \in 1 .. Len(after) : i < Len(listed) + j
  <2> HIDE DEF after
  <2> QED BY <1>2, <1>6, <1>7
<1> HIDE DEF after, rest
<1>15. ASSUME NEW j \in 1 .. Len(file), NEW k \in 1 .. Len(file),
              j < k, file[j] \in stored, file[k] \in stored
       PROVE  Before(loaded, file[j][1], file[k][1])
  <2>1. PICK a, b \in 1 .. Len(listed) : a < b /\ listed[a] = file[j] /\ listed[b] = file[k]
    BY <1>2, <1>15 DEF Before
  <2>2. /\ a \in 1 .. Len(loaded) /\ b \in 1 .. Len(loaded)
        /\ loaded[a] = file[j][1] /\ loaded[b] = file[k][1]
    BY <1>11, <1>14, <2>1
  <2> QED BY <2>1, <2>2 DEF Before
<1>16. ASSUME NEW j \in 1 .. Len(file), NEW m \in stored \ ToSet(file), file[j] \in stored
       PROVE  Before(loaded, file[j][1], m[1])
  <2>1. file[j] \in ToSet(listed)
    BY <1>0, <1>2, <1>16, InSet
  <2>2. PICK a \in 1 .. Len(listed) : listed[a] = file[j]
    BY <1>2, <2>1, InSet
  <2>3. m \in ToSet(after)
    BY <1>2, <1>6 DEF rest
  <2>4. PICK b \in 1 .. Len(after) : after[b] = m
    BY <1>6, <2>3, InSet
  <2> DEFINE c == Len(listed) + b
  <2>5. /\ a \in 1 .. Len(loaded) /\ c \in 1 .. Len(loaded) /\ a < c
        /\ names[a] = file[j] /\ names[c] = m
    BY <1>11, <1>14, <2>2, <2>4
  <2> HIDE DEF c
  <2>6. loaded[a] = file[j][1] /\ loaded[c] = m[1]
    BY <1>11, <2>5
  <2> QED BY <2>5, <2>6 DEF Before
<1> QED BY <1>3, <1>11, <1>12, <1>13, <1>15, <1>16

=============================================================================
