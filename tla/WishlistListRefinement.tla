----------------------- MODULE WishlistListRefinement -----------------------
(***************************************************************************)
(* The vector implements the sets: every handler of WishlistList is an     *)
(* event of WishlistEvents, seen through the set of candidates, for every  *)
(* number of pieces, blocks and peers.  What the handlers do to that set   *)
(* is shown in WishlistListProofs, which also has the invariant, ListInv;  *)
(* here it is put in the words of Wishlist's operators.                    *)
(***************************************************************************)
EXTENDS WishlistListProofs

-----------------------------------------------------------------------------
(* The refinement.  What WishlistEvents sees of the list is its set of     *)
(* candidates, a piece at a time.                                          *)

PiecesIn(E) == {x.piece : x \in E}
SpanIn(E, c) == OldOf(E, c).begin .. OldOf(E, c).end - 1

(* The view of the set E: the functions that WishlistEvents has.           *)
SpansIn(E) == [c \in Pieces |-> IF c \in PiecesIn(E) THEN SpanIn(E, c) ELSE {}]
OpenIn(E)  == [c \in Pieces |-> IF c \in PiecesIn(E) THEN OldOf(E, c).unrequested ELSE {}]
CountIn(E) == [c \in Pieces |-> IF c \in PiecesIn(E) THEN OldOf(E, c).replication ELSE 0]

(* Candidates that stand for their pieces.                                 *)
Single(E) == AllSound(E) /\ \A x, y \in E : x.piece = y.piece => x = y

(* The candidate of a piece is the only one.                               *)
LEMMA OnlyOne ==
    ASSUME NEW E, Single(E), NEW x \in E
    PROVE  /\ OldOf(E, x.piece) = x /\ x.piece \in PiecesIn(E) /\ x.piece \in Pieces
           /\ SpanIn(E, x.piece) = x.begin .. x.end - 1
<1>1. x.piece \in Pieces
  BY SoundSpan DEF Single, AllSound
<1>2. OldOf(E, x.piece) \in E /\ OldOf(E, x.piece).piece = x.piece
  BY DEF OldOf
<1>3. OldOf(E, x.piece) = x
  BY <1>2 DEF Single
<1> QED BY <1>1, <1>3 DEF PiecesIn, SpanIn

(* A piece that has a candidate.                                           *)
LEMMA InPieces ==
    ASSUME NEW E, Single(E), NEW c \in PiecesIn(E)
    PROVE  /\ OldOf(E, c) \in E /\ OldOf(E, c).piece = c /\ c \in Pieces /\ Listing(E, c)
           /\ Sound(OldOf(E, c))
<1>1. PICK x \in E : x.piece = c
  BY DEF PiecesIn
<1>2. OldOf(E, c) = x /\ c \in Pieces
  BY <1>1, OnlyOne
<1> QED BY <1>1, <1>2 DEF Listing, Single, AllSound

(* The list's candidates stand for their pieces.                           *)
LEMMA ListSingle ==
    ASSUME NEW l \in Lists, AllSound(ToSet(l))
    PROVE  Single(ToSet(l))
BY OneEach DEF Single

(* The refinement mapping is the view of the list's set.                   *)
LEMMA Views ==
    /\ Listed = PiecesIn(ToSet(list))
    /\ \A c \in PiecesIn(ToSet(list)) : Entry(c) = OldOf(ToSet(list), c)
<1>1. Listed = PiecesIn(ToSet(list))
  BY DEF Listed, PiecesIn, ToSet
<1>2. \A c : Entry(c) = OldOf(ToSet(list), c)
  BY DEF Entry, OldOf
<1> QED BY <1>1, <1>2

(* The geometry is that of WishlistEvents.                                 *)
LEMMA Geometry ==
    /\ Events!Pieces = Pieces /\ Events!Blocks = Blocks /\ Events!BlockSpan = BlockSpan
<1>1. Events!Pieces = Pieces /\ Events!Blocks = Blocks
  BY DEF Events!Pieces, Events!PieceCount, Pieces, PieceCount, Events!Blocks, Events!BlockCount, Blocks, BlockCount
<1>2. \A p, b : /\ Events!BlockOfByte(Events!PieceBegin(p)) = BlockOfByte(PieceBegin(p))
                /\ Events!BlockOfByte(Events!PieceEnd(p) - 1) = BlockOfByte(PieceEnd(p) - 1)
  BY DEF Events!BlockOfByte, Events!PieceBegin, Events!PieceEnd, BlockOfByte, PieceBegin, PieceEnd
<1> QED BY <1>1, <1>2 DEF Events!BlockSpan, BlockSpan

(* A handler that turns the candidates, as the view sees it.               *)
LEMMA ViewTurned ==
    ASSUME NEW E, Single(E), NEW F, NEW D, D = {F[x] : x \in E}, \A x \in E : SpanKept(x, F[x])
    PROVE  /\ PiecesIn(D) = PiecesIn(E) /\ SpansIn(D) = SpansIn(E)
           /\ \A c \in PiecesIn(E) : OldOf(D, c) = F[OldOf(E, c)]
<1>1. \A x \in E : F[x].piece = x.piece
  BY DEF SpanKept
<1>2. PiecesIn(D) = PiecesIn(E)
  BY <1>1 DEF PiecesIn
<1>3. ASSUME NEW c \in PiecesIn(E) PROVE OldOf(D, c) = F[OldOf(E, c)]
  <2>1. OldOf(E, c) \in E /\ OldOf(E, c).piece = c
    BY InPieces
  <2>2. F[OldOf(E, c)] \in D /\ F[OldOf(E, c)].piece = c
    BY <1>1, <2>1
  <2>3. ASSUME NEW y \in D, y.piece = c PROVE y = F[OldOf(E, c)]
    <3>1. PICK x \in E : y = F[x]
      OBVIOUS
    <3>2. x.piece = c
      BY <1>1, <2>3, <3>1
    <3>3. x = OldOf(E, c)
      BY <2>1, <3>2 DEF Single
    <3> QED BY <3>1, <3>3
  <2> QED BY <2>2, <2>3 DEF OldOf
<1>4. ASSUME NEW c \in PiecesIn(E) PROVE SpanIn(D, c) = SpanIn(E, c)
  <2>1. OldOf(E, c) \in E
    BY InPieces
  <2> QED BY <1>3, <2>1 DEF SpanIn, SpanKept
<1>5. SpansIn(D) = SpansIn(E)
  BY <1>2, <1>4 DEF SpansIn
<1> QED BY <1>2, <1>3, <1>5

(* The mapped variables, before a step and after it.                       *)
LEMMA ViewNow ==
    /\ Listed = PiecesIn(ToSet(list))
    /\ [c \in Pieces |-> IF c \in Listed THEN Entry(c).begin .. Entry(c).end - 1 ELSE {}] = SpansIn(ToSet(list))
    /\ [c \in Pieces |-> IF c \in Listed THEN Entry(c).unrequested ELSE {}] = OpenIn(ToSet(list))
    /\ [c \in Pieces |-> IF c \in Listed THEN Entry(c).replication ELSE 0] = CountIn(ToSet(list))
<1>1. Listed = PiecesIn(ToSet(list))
  BY DEF Listed, PiecesIn, ToSet
<1>2. \A c : Entry(c) = OldOf(ToSet(list), c)
  BY DEF Entry, OldOf
<1> QED BY <1>1, <1>2 DEF SpansIn, SpanIn, OpenIn, CountIn

(* The mapped variables after a step.                                      *)
LEMMA ViewNext ==
    /\ Listed' = PiecesIn(ToSet(list'))
    /\ [c \in Pieces |-> IF c \in Listed THEN Entry(c).begin .. Entry(c).end - 1 ELSE {}]' = SpansIn(ToSet(list'))
    /\ [c \in Pieces |-> IF c \in Listed THEN Entry(c).unrequested ELSE {}]' = OpenIn(ToSet(list'))
    /\ [c \in Pieces |-> IF c \in Listed THEN Entry(c).replication ELSE 0]' = CountIn(ToSet(list'))
<1>1. Listed' = PiecesIn(ToSet(list'))
  BY DEF Listed, PiecesIn, ToSet
<1>2. \A c : Entry(c)' = OldOf(ToSet(list'), c)
  BY DEF Entry, OldOf
<1> QED BY <1>1, <1>2 DEF SpansIn, SpanIn, OpenIn, CountIn

(* The view is unchanged.                                                  *)
SameView(E, D) ==
    /\ PiecesIn(D) = PiecesIn(E) /\ SpansIn(D) = SpansIn(E)
    /\ OpenIn(D) = OpenIn(E) /\ CountIn(D) = CountIn(E)

(* A step that the view does not see.                                      *)
LEMMA StutterIs ==
    ASSUME SameView(ToSet(list), ToSet(list')), UNCHANGED <<have, wanted, has>>
    PROVE  UNCHANGED Events!vars
BY ViewNow, ViewNext DEF SameView, Events!vars, Events!wishlistVars, Events!environment

(* The blocks that can be requested, as the events know them.              *)
Opened == [c \in Pieces |-> IF c \in Listed THEN Entry(c).unrequested ELSE {}]

(* Blocks are given back to the candidates that own them.                  *)
GivenBack(E, D, B) ==
    /\ PiecesIn(D) = PiecesIn(E) /\ SpansIn(D) = SpansIn(E)
    /\ OpenIn(D) = [c \in Pieces |-> OpenIn(E)[c] \cup (B \cap SpansIn(E)[c])]

(* Blocks given back, and nothing else, are blocks that were refused.      *)
LEMMA RefuseIs ==
    ASSUME NEW B \in SUBSET (Blocks \ have), GivenBack(ToSet(list), ToSet(list'), B),
           CountIn(ToSet(list')) = CountIn(ToSet(list)), UNCHANGED <<have, wanted, has>>
    PROVE  Events!Refuse
<1>1. Opened' = Events!ResetBlocks(Opened, B)
  BY ViewNow, ViewNext, Geometry DEF GivenBack, Events!ResetBlocks, Opened
<1>2. \E X \in SUBSET (Events!Blocks \ have) : Opened' = Events!ResetBlocks(Opened, X)
  BY <1>1, Geometry
<1> QED BY <1>2, ViewNow, ViewNext DEF GivenBack, Events!Refuse, Opened

(* Blocks are taken from all candidates.                                   *)
TakenFrom(E, D, B) ==
    /\ PiecesIn(D) = PiecesIn(E) /\ SpansIn(D) = SpansIn(E)
    /\ OpenIn(D) = [c \in Pieces |-> OpenIn(E)[c] \ B]

(* Blocks taken, all of which were available to the peer, are blocks asked *)
(* of it.                                                                  *)
LEMMA AskIs ==
    ASSUME NEW p, NEW B, TakenFrom(ToSet(list), ToSet(list'), B), CountIn(ToSet(list')) = CountIn(ToSet(list)),
           \A b \in B : \E c \in PiecesIn(ToSet(list)) \cap has[p] :
               CountIn(ToSet(list))[c] # 0 /\ b \in OpenIn(ToSet(list))[c],
           UNCHANGED <<have, wanted, has>>
    PROVE  Events!Ask(p)
<1>1. B \subseteq Events!Available(PiecesIn(ToSet(list)), OpenIn(ToSet(list)), CountIn(ToSet(list)), has[p])
  BY DEF Events!Available
<1>2. Opened' = Events!TakeBlocks(Opened, B)
  BY ViewNow, ViewNext, Geometry DEF TakenFrom, Events!TakeBlocks, Opened
<1>3. \E X \in SUBSET Events!Available(PiecesIn(ToSet(list)), OpenIn(ToSet(list)), CountIn(ToSet(list)), has[p]) :
          Opened' = Events!TakeBlocks(Opened, X)
  BY <1>1, <1>2
<1> QED BY <1>3, ViewNow, ViewNext DEF TakenFrom, Events!Ask, Opened

(* The candidates of the pieces P count n more peers.                      *)
CountedIn(E, D, P, n) ==
    CountIn(D) = [c \in Pieces |-> IF c \in PiecesIn(E) \cap P THEN CountIn(E)[c] + n ELSE CountIn(E)[c]]

(* Blocks given back and a peer's pieces counted down: the peer has left.  *)
LEMMA LeaveIs ==
    ASSUME NEW p, NEW B \in SUBSET (Blocks \ have), GivenBack(ToSet(list), ToSet(list'), B),
           CountedIn(ToSet(list), ToSet(list'), has[p], -1),
           has' = [has EXCEPT ![p] = {}], UNCHANGED <<have, wanted>>
    PROVE  Events!Leave(p)
<1>1. Opened' = Events!ResetBlocks(Opened, B)
  BY ViewNow, ViewNext, Geometry DEF GivenBack, Events!ResetBlocks, Opened
<1>2. \E X \in SUBSET (Events!Blocks \ have) : Opened' = Events!ResetBlocks(Opened, X)
  BY <1>1, Geometry
<1> QED BY <1>2, ViewNow, ViewNext, Geometry DEF GivenBack, CountedIn, Events!Leave, Events!AddReplication, Opened

(* The peer is known to have Q, and the pieces P are counted up.           *)
LEMMA LearnIs ==
    ASSUME NEW p, NEW Q, NEW P,
           PiecesIn(ToSet(list')) = PiecesIn(ToSet(list)), SpansIn(ToSet(list')) = SpansIn(ToSet(list)),
           OpenIn(ToSet(list')) = OpenIn(ToSet(list)),
           CountedIn(ToSet(list), ToSet(list'), P, 1),
           has' = [has EXCEPT ![p] = Q], UNCHANGED <<have, wanted>>
    PROVE  Events!Learn(p, Q, P)
BY ViewNow, ViewNext, Geometry DEF CountedIn, Events!Learn, Events!AddReplication

(* Giving back, taking and counting, as the view sees them.                *)
LEMMA GiveSeen ==
    ASSUME NEW E, Single(E), NEW B, B \subseteq Blocks, NEW D, D = {GiveBack(B)[x] : x \in E}
    PROVE  GivenBack(E, D, B) /\ CountIn(D) = CountIn(E)
<1> DEFINE F == GiveBack(B)
<1>1. ASSUME NEW x \in E
      PROVE  /\ SpanKept(x, F[x]) /\ F[x].replication = x.replication
             /\ F[x].unrequested = x.unrequested \cup ((x.begin .. x.end - 1) \cap B)
  <2>1. Sound(x) /\ x \in Cands
    BY DEF Single, AllSound, Sound
  <2>2. SpanKept(x, F[x]) /\ WeightsKept(x, F[x])
    BY <2>1, GiveKeeps
  <2>3. F[x].unrequested = x.unrequested \cup ((x.begin .. x.end - 1) \cap B)
    BY <2>1, GiveIs DEF Respan
  <2> QED BY <2>2, <2>3 DEF WeightsKept
<1> HIDE DEF F
<1>2. /\ PiecesIn(D) = PiecesIn(E) /\ SpansIn(D) = SpansIn(E)
      /\ \A c \in PiecesIn(E) : OldOf(D, c) = F[OldOf(E, c)]
  <2>1. D = {F[x] : x \in E} /\ \A x \in E : SpanKept(x, F[x])
    BY <1>1 DEF F
  <2> QED BY <2>1, ViewTurned
<1>3. \A c \in PiecesIn(E) : /\ OldOf(D, c).replication = OldOf(E, c).replication
                             /\ OldOf(D, c).unrequested = OldOf(E, c).unrequested \cup (SpanIn(E, c) \cap B)
  BY <1>1, <1>2, InPieces DEF SpanIn
<1>4. CountIn(D) = CountIn(E)
  BY <1>2, <1>3 DEF CountIn
<1>5. OpenIn(D) = [c \in Pieces |-> OpenIn(E)[c] \cup (B \cap SpansIn(E)[c])]
  BY <1>2, <1>3 DEF OpenIn, SpansIn
<1> QED BY <1>2, <1>4, <1>5 DEF GivenBack

(* TakeFrom, as the view sees it.                                          *)
LEMMA TakeSeen ==
    ASSUME NEW E, Single(E), NEW B, NEW D, D = {TakeFrom(B)[x] : x \in E}
    PROVE  TakenFrom(E, D, B) /\ CountIn(D) = CountIn(E)
<1> DEFINE F == TakeFrom(B)
<1>1. ASSUME NEW x \in E
      PROVE  SpanKept(x, F[x]) /\ F[x].replication = x.replication /\ F[x].unrequested = x.unrequested \ B
  <2>1. Sound(x) /\ x \in Cands
    BY DEF Single, AllSound, Sound
  <2>2. SpanKept(x, F[x]) /\ WeightsKept(x, F[x])
    BY <2>1, TakeKeeps
  <2>3. F[x].unrequested = x.unrequested \ B
    BY <2>1, TakeIs DEF Took
  <2> QED BY <2>2, <2>3 DEF WeightsKept
<1> HIDE DEF F
<1>2. /\ PiecesIn(D) = PiecesIn(E) /\ SpansIn(D) = SpansIn(E)
      /\ \A c \in PiecesIn(E) : OldOf(D, c) = F[OldOf(E, c)]
  <2>1. D = {F[x] : x \in E} /\ \A x \in E : SpanKept(x, F[x])
    BY <1>1 DEF F
  <2> QED BY <2>1, ViewTurned
<1>3. \A c \in PiecesIn(E) : /\ OldOf(D, c).replication = OldOf(E, c).replication
                             /\ OldOf(D, c).unrequested = OldOf(E, c).unrequested \ B
  BY <1>1, <1>2, InPieces
<1>4. CountIn(D) = CountIn(E)
  BY <1>2, <1>3 DEF CountIn
<1>5. OpenIn(D) = [c \in Pieces |-> OpenIn(E)[c] \ B]
  BY <1>2, <1>3 DEF OpenIn
<1> QED BY <1>2, <1>4, <1>5 DEF TakenFrom

(* An F that changes weights only,                                         *)
LEMMA WeightsSeen ==
    ASSUME NEW E, Single(E), NEW F, NEW D, D = {F[x] : x \in E},
           \A x \in E : SpanKept(x, F[x]) /\ F[x].unrequested = x.unrequested
    PROVE  PiecesIn(D) = PiecesIn(E) /\ SpansIn(D) = SpansIn(E) /\ OpenIn(D) = OpenIn(E)
<1>1. /\ PiecesIn(D) = PiecesIn(E) /\ SpansIn(D) = SpansIn(E)
      /\ \A c \in PiecesIn(E) : OldOf(D, c) = F[OldOf(E, c)]
  BY ViewTurned
<1>2. \A c \in PiecesIn(E) : OldOf(E, c) \in E /\ OldOf(E, c).piece = c
  BY InPieces
<1>3. OpenIn(D) = OpenIn(E)
  BY <1>1, <1>2 DEF OpenIn
<1> QED BY <1>1, <1>3

(* other than the replication,                                             *)
LEMMA ReplicationKept ==
    ASSUME NEW E, Single(E), NEW F, NEW D, D = {F[x] : x \in E},
           \A x \in E : /\ SpanKept(x, F[x]) /\ F[x].unrequested = x.unrequested
                        /\ F[x].replication = x.replication
    PROVE  SameView(E, D)
<1>1. PiecesIn(D) = PiecesIn(E) /\ SpansIn(D) = SpansIn(E) /\ OpenIn(D) = OpenIn(E)
  BY WeightsSeen
<1>2. \A c \in PiecesIn(E) : OldOf(D, c) = F[OldOf(E, c)]
  BY ViewTurned
<1>3. \A c \in PiecesIn(E) : OldOf(E, c) \in E
  BY InPieces
<1>4. CountIn(D) = CountIn(E)
  BY <1>1, <1>2, <1>3 DEF CountIn
<1> QED BY <1>1, <1>4 DEF SameView

(* and one that counts.                                                    *)
LEMMA WeightsCounted ==
    ASSUME NEW E, Single(E), NEW F, NEW D, D = {F[x] : x \in E}, NEW P, NEW n,
           \A x \in E : /\ SpanKept(x, F[x]) /\ F[x].unrequested = x.unrequested
                        /\ F[x].replication = IF x.piece \in P THEN x.replication + n ELSE x.replication
    PROVE  CountedIn(E, D, P, n)
<1>1. PiecesIn(D) = PiecesIn(E)
  BY ViewTurned
<1>2. \A c \in PiecesIn(E) : OldOf(D, c) = F[OldOf(E, c)]
  BY ViewTurned
<1>3. \A c \in PiecesIn(E) : OldOf(E, c) \in E /\ OldOf(E, c).piece = c
  BY InPieces
<1>4. \A c \in PiecesIn(E) : OldOf(D, c).replication = IF c \in P THEN OldOf(E, c).replication + n
                                                       ELSE OldOf(E, c).replication
  BY <1>2, <1>3
<1>5. CountIn(D) = [c \in Pieces |-> IF c \in PiecesIn(E) \cap P THEN CountIn(E)[c] + n ELSE CountIn(E)[c]]
  BY <1>1, <1>4 DEF CountIn
<1> QED BY <1>5 DEF CountedIn

(* Counted, as the view sees it.                                           *)
LEMMA CountSeen ==
    ASSUME NEW E, Single(E), NEW P, NEW n \in Int, NEW D, D = {Counted(P, n)[x] : x \in E}
    PROVE  /\ PiecesIn(D) = PiecesIn(E) /\ SpansIn(D) = SpansIn(E) /\ OpenIn(D) = OpenIn(E)
           /\ CountedIn(E, D, P, n)
<1> DEFINE F == Counted(P, n)
<1>1. ASSUME NEW x \in E
      PROVE  /\ SpanKept(x, F[x]) /\ F[x].unrequested = x.unrequested
             /\ F[x].replication = IF x.piece \in P THEN x.replication + n ELSE x.replication
  <2>1. Sound(x) /\ x \in Cands
    BY DEF Single, AllSound, Sound
  <2>2. F[x].unrequested = x.unrequested
    BY <2>1 DEF Counted, Cands
  <2> QED BY <2>1, <2>2, CountKeeps
<1> HIDE DEF F
<1>2. D = {F[x] : x \in E}
  BY DEF F
<1>3. \A x \in E : SpanKept(x, F[x]) /\ F[x].unrequested = x.unrequested
  BY <1>1
<1>4. PiecesIn(D) = PiecesIn(E) /\ SpansIn(D) = SpansIn(E) /\ OpenIn(D) = OpenIn(E)
  BY <1>2, <1>3, WeightsSeen
<1>5. CountedIn(E, D, P, n)
  BY <1>1, <1>2, WeightsCounted
<1> QED BY <1>4, <1>5

(* What can have been asked for are blocks that are not here.              *)
LEMMA Requestable ==
    ASSUME ListInv
    PROVE  Requested \subseteq Blocks \ have
<1>1. Requested \subseteq Blocks
  BY RequestedBlocks
<1>2. Requested \cap have = {}
  BY DEF Requested
<1> QED BY <1>1, <1>2

(* The handlers that keep the candidates, as events.                       *)
LEMMA RejectRefines ==
    ASSUME ListInv, NEW b \in Blocks \ have, GotReject(b)
    PROVE  Events!Refuse
<1>1. Turns(list, list', GiveBack({b}))
  BY InvFacts, ResetBlockTurns DEF GotReject
<1>2. Single(ToSet(list))
  BY InvFacts, ListSingle
<1>3. GivenBack(ToSet(list), ToSet(list'), {b}) /\ CountIn(ToSet(list')) = CountIn(ToSet(list))
  <2>1. {b} \subseteq Blocks /\ ToSet(list') = {GiveBack({b})[x] : x \in ToSet(list)}
    BY <1>1 DEF Turns, Becomes
  <2>2. PICK B : B = {b}
    OBVIOUS
  <2> QED BY <1>2, <2>1, <2>2, GiveSeen
<1>4. UNCHANGED <<have, wanted, has>>
  BY DEF GotReject
<1>5. PICK B \in SUBSET (Blocks \ have) : B = {b}
  OBVIOUS
<1> QED BY <1>3, <1>4, <1>5, RefuseIs

(* A choke: the blocks asked of the peer are refused.                      *)
LEMMA ChokeRefines ==
    ASSUME ListInv, NEW B \in SUBSET (Blocks \ have), GotChoke(B)
    PROVE  Events!Refuse
<1>1. Turns(list, list', GiveBack(B))
  BY InvFacts, ResetBlocksTurns DEF GotChoke
<1>2. Single(ToSet(list))
  BY InvFacts, ListSingle
<1>3. GivenBack(ToSet(list), ToSet(list'), B) /\ CountIn(ToSet(list')) = CountIn(ToSet(list))
  BY <1>1, <1>2, GiveSeen DEF Turns, Becomes
<1>4. UNCHANGED <<have, wanted, has>>
  BY DEF GotChoke
<1> QED BY <1>3, <1>4, RefuseIs

(* Requests: the blocks that next() found are asked of the peer.           *)
LEMMA SendRefines ==
    ASSUME ListInv, NEW p, NEW n, SendRequests(p, n)
    PROVE  Events!Ask(p)
<1> DEFINE E == ToSet(list)
<1>1. PICK B \in SUBSET Blocks : B = NextBlocks(n, has[p])
  BY NextOwned
<1>2. Single(E)
  BY InvFacts, ListSingle
<1>3. ASSUME NEW b \in B
      PROVE  \E c \in PiecesIn(E) \cap has[p] : CountIn(E)[c] # 0 /\ b \in OpenIn(E)[c]
  <2>1. PICK i \in Able(has[p]) : b \in list[i].unrequested
    BY <1>1, InvFacts, NextAvailable
  <2>2. i \in DOMAIN list /\ list[i].replication # 0 /\ list[i].piece \in has[p]
    BY DEF Able
  <2>3. list[i] \in E
    BY <2>2, InvFacts, ListFacts
  <2>4. /\ OldOf(E, list[i].piece) = list[i] /\ list[i].piece \in PiecesIn(E) /\ list[i].piece \in Pieces
    BY <1>2, <2>3, OnlyOne
  <2>5. CountIn(E)[list[i].piece] # 0 /\ b \in OpenIn(E)[list[i].piece]
    BY <2>1, <2>2, <2>4 DEF CountIn, OpenIn
  <2> QED BY <2>2, <2>4, <2>5
<1>4. Turns(list, list', TakeFrom(B))
  <2>1. list \in Owning(B) /\ list' = SentAll(list, B)
    BY <1>1, NextOwned, SentFoldIs
  <2> QED BY <2>1, SentTurns
<1>5. TakenFrom(E, ToSet(list'), B) /\ CountIn(ToSet(list')) = CountIn(E)
  BY <1>2, <1>4, TakeSeen DEF Turns, Becomes
<1>6. UNCHANGED <<have, wanted, has>>
  BY DEF SendRequests
<1>7. Events!Ask(p)
  <2> HIDE DEF E
  <2> QED BY <1>3, <1>5, <1>6, AskIs DEF E
<1> QED BY <1>7

(* A have: one more piece of the peer is known.                            *)
LEMMA HaveRefines ==
    ASSUME ListInv, NEW p \in Peers, NEW c \in Pieces, GotHave(p, c)
    PROVE  Events!Learn(p, has[p] \cup {c}, {c}) /\ c \notin has[p]
<1>1. list' = CountPiece(list, c) /\ has' = [has EXCEPT ![p] = has[p] \cup {c}] /\ c \notin has[p]
      /\ UNCHANGED <<have, wanted>>
  BY DEF GotHave, LearnPieces
<1>2. Turns(list, list', Counted({c}, 1))
  BY <1>1, InvFacts, CountPieceTurns
<1>3. Single(ToSet(list))
  BY InvFacts, ListSingle
<1>4. /\ PiecesIn(ToSet(list')) = PiecesIn(ToSet(list)) /\ SpansIn(ToSet(list')) = SpansIn(ToSet(list))
      /\ OpenIn(ToSet(list')) = OpenIn(ToSet(list)) /\ CountedIn(ToSet(list), ToSet(list'), {c}, 1)
  <2>1. 1 \in Int /\ ToSet(list') = {Counted({c}, 1)[x] : x \in ToSet(list)}
    BY <1>2 DEF Turns, Becomes
  <2> QED BY <1>3, <2>1, CountSeen
<1> QED BY <1>1, <1>4, LearnIs

(* A change of priorities sorts the list, and the view does not see it.    *)
LEMMA PriorityRefines ==
    ASSUME ListInv, NEW h, PriorityChanged(h)
    PROVE  UNCHANGED Events!vars
<1> DEFINE F == Weighed(h)
<1>1. Turns(list, list', F)
  BY InvFacts, PriorityTurns
<1>2. ASSUME NEW x \in ToSet(list)
      PROVE  SpanKept(x, F[x]) /\ F[x].unrequested = x.unrequested /\ F[x].replication = x.replication
  <2>1. x \in Cands
    BY InvFacts
  <2>2. F[x].unrequested = x.unrequested
    BY <2>1 DEF Weighed, Cands
  <2> QED BY <2>2, InvFacts, WeighKeeps
<1>3. Single(ToSet(list))
  BY InvFacts, ListSingle
<1> HIDE DEF F
<1>4. ToSet(list') = {F[x] : x \in ToSet(list)}
  BY <1>1 DEF Turns, Becomes
<1>5. SameView(ToSet(list), ToSet(list'))
  BY <1>2, <1>3, <1>4, ReplicationKept
<1>6. UNCHANGED <<have, wanted, has>>
  BY DEF PriorityChanged
<1> QED BY <1>5, <1>6, StutterIs

(* Nor does it see new salts,                                              *)
LEMMA SaltsRefine ==
    ASSUME ListInv, NEW random \in Randoms, NEW seq \in BOOLEAN, NEW from \in Pieces,
           list' = Resalted(seq, from, random), UNCHANGED <<have, wanted, has>>
    PROVE  UNCHANGED Events!vars
<1> DEFINE F == Salted(random, seq, from)
<1>1. Turns(list, list', F)
  BY InvFacts, ResaltedTurns
<1>2. ASSUME NEW x \in ToSet(list)
      PROVE  SpanKept(x, F[x]) /\ F[x].unrequested = x.unrequested /\ F[x].replication = x.replication
  <2>1. x \in Cands
    BY InvFacts
  <2>2. F[x].unrequested = x.unrequested
    BY <2>1 DEF Salted, Cands
  <2> QED BY <2>2, InvFacts, SaltKeeps
<1>3. Single(ToSet(list))
  BY InvFacts, ListSingle
<1> HIDE DEF F
<1>4. ToSet(list') = {F[x] : x \in ToSet(list)}
  BY <1>1 DEF Turns, Becomes
<1>5. SameView(ToSet(list), ToSet(list'))
  BY <1>2, <1>3, <1>4, ReplicationKept
<1> QED BY <1>5, StutterIs

(* as they come with the mode,                                             *)
LEMMA SequentialRefines ==
    ASSUME ListInv, NEW random \in Randoms, SequentialChanged(random)
    PROVE  UNCHANGED Events!vars
<1>1. PICK seq \in BOOLEAN : seq = ~sequential
  OBVIOUS
<1>2. list' = Resalted(seq, fromPiece, random) /\ UNCHANGED <<have, wanted, has>>
  BY <1>1, Zenon DEF SequentialChanged
<1>3. fromPiece \in Pieces
  BY InvFacts
<1> QED BY <1>2, <1>3, SaltsRefine

(* and with the piece that sequential download begins at.                  *)
LEMMA FromPieceRefines ==
    ASSUME ListInv, NEW random \in Randoms, NEW c \in Pieces, FromPieceChanged(c, random)
    PROVE  UNCHANGED Events!vars
<1>1. PICK seq \in BOOLEAN : seq = sequential
  BY InvFacts DEF ModeKnown
<1>2. list' = Resalted(seq, c, random) /\ UNCHANGED <<have, wanted, has>>
  BY <1>1, Zenon DEF FromPieceChanged
<1> QED BY <1>2, SaltsRefine

(* A bitfield: the pieces of the peer are known, and all of them counted.  *)
LEMMA BitfieldRefines ==
    ASSUME ListInv, NEW p \in Peers, NEW P \in SUBSET Pieces, GotBitfield(p, P)
    PROVE  Events!Learn(p, P, P)
<1>1. list' = CountBitfield(list, P, 1) /\ UNCHANGED <<have, wanted>>
      /\ has' = [has EXCEPT ![p] = P]
  BY DEF GotBitfield, LearnPieces
<1>3. Turns(list, list', Counted(P, 1))
  BY <1>1, InvFacts, CountBitfieldTurns
<1>4. Single(ToSet(list))
  BY InvFacts, ListSingle
<1>5. /\ PiecesIn(ToSet(list')) = PiecesIn(ToSet(list)) /\ SpansIn(ToSet(list')) = SpansIn(ToSet(list))
      /\ OpenIn(ToSet(list')) = OpenIn(ToSet(list)) /\ CountedIn(ToSet(list), ToSet(list'), P, 1)
  <2>1. 1 \in Int /\ ToSet(list') = {Counted(P, 1)[x] : x \in ToSet(list)}
    BY <1>3 DEF Turns, Becomes
  <2> QED BY <1>4, <2>1, CountSeen
<1> QED BY <1>1, <1>5, LearnIs

(* First the pieces of the peer are counted down, then its blocks come     *)
(* back.                                                                   *)
LEMMA DisconnectRefines ==
    ASSUME ListInv, NEW p \in Peers, NEW B \in SUBSET (Blocks \ have), PeerDisconnect(p, B)
    PROVE  Events!Leave(p)
<1> DEFINE l == CountBitfield(list, has[p], -1)
           E == ToSet(list)
           M == ToSet(l)
           D == ToSet(list')
<1>1. list' = ResetBlocks(l, B) /\ has' = [has EXCEPT ![p] = {}] /\ UNCHANGED <<have, wanted>>
  BY DEF PeerDisconnect
<1>2. PICK P \in SUBSET Pieces : P = has[p]
  BY InvFacts
<1>3. Turns(list, l, Counted(P, -1))
  BY <1>2, InvFacts, CountBitfieldTurns
<1>4. Single(E)
  BY InvFacts, ListSingle
<1> HIDE DEF l
<1>5. /\ PiecesIn(M) = PiecesIn(E) /\ SpansIn(M) = SpansIn(E) /\ OpenIn(M) = OpenIn(E)
      /\ CountedIn(E, M, P, -1)
  <2>1. -1 \in Int /\ M = {Counted(P, -1)[x] : x \in E}
    BY <1>3 DEF Turns, Becomes
  <2> HIDE DEF M, E
  <2> QED BY <1>4, <2>1, CountSeen
<1>6. l \in Lists /\ AllSound(M)
  <2>1. \A x \in E : SpanKept(x, Counted(P, -1)[x])
    <3>1. -1 \in Int /\ \A x \in E : Sound(x)
      BY InvFacts
    <3> QED BY <3>1, CountKeeps
  <2>2. l \in Lists /\ M = {Counted(P, -1)[x] : x \in E} /\ AllSound(E)
    BY <1>3, InvFacts DEF Turns, Becomes
  <2> HIDE DEF M, E
  <2> QED BY <2>1, <2>2, KeptSound
<1>7. Single(M)
  BY <1>6, ListSingle
<1>8. GivenBack(M, D, B) /\ CountIn(D) = CountIn(M)
  <2>1. D = {GiveBack(B)[x] : x \in M}
    BY <1>1, <1>6, ResetBlocksTurns DEF Turns, Becomes
  <2> HIDE DEF D, M
  <2> QED BY <1>7, <2>1, GiveSeen
<1>9. GivenBack(E, D, B)
  BY <1>5, <1>8 DEF GivenBack
<1>10. CountedIn(E, D, has[p], -1)
  BY <1>2, <1>5, <1>8 DEF CountedIn
<1> QED BY <1>1, <1>9, <1>10, LeaveIs

(* An empty list is an empty wishlist.                                     *)
LEMMA InitRefines == Init => Events!Init
<1> SUFFICES ASSUME Init PROVE Events!Init
  OBVIOUS
<1>1. ToSet(list) = {}
  BY DEF Init, ToSet
<1>2. PiecesIn({}) = {}
  BY DEF PiecesIn
<1>3. SpansIn({}) = [c \in Pieces |-> {}] /\ OpenIn({}) = [c \in Pieces |-> {}] /\ CountIn({}) = [c \in Pieces |-> 0]
  BY <1>2 DEF SpansIn, OpenIn, CountIn
<1> QED BY <1>1, <1>2, <1>3, ViewNow, Geometry DEF Init, Events!Init, Events!NoBlocks

(* What is left of a piece between its neighbours.                         *)
LEMMA BetweenIs ==
    ASSUME NEW E, Single(E), NEW c \in Pieces
    PROVE  /\ LoOf(E, c) \in LowEdges(c) /\ HiOf(E, c) \in HighEdges(c)
           /\ LoOf(E, c) .. HiOf(E, c) - 1
              = BlockSpan[c] \ UNION {SpanIn(E, d) : d \in PiecesIn(E) \ {c}}
<1> DEFINE lo == LoOf(E, c)
           hi == HiOf(E, c)
           U == UNION {SpanIn(E, d) : d \in PiecesIn(E) \ {c}}
<1>1. /\ lo \in LowEdges(c) /\ hi \in HighEdges(c)
      /\ \A x \in E : (x.piece = c - 1 => x.end = lo) /\ (x.piece = c + 1 => x.begin = hi)
  BY SetEdges DEF Single
<1>2. /\ BlockSpan[c] = RawBegin(c) .. RawEnd(c) - 1 /\ RawBegin(c) \in Nat /\ RawEnd(c) \in Nat
      /\ lo \in Nat /\ hi \in Nat /\ RawBegin(c) <= lo /\ hi <= RawEnd(c)
  BY <1>1, EdgeBlocks, LowEdge, HighEdge
<1>3. c \in Int
  BY DEF Pieces
<1>4. ASSUME NEW b \in BlockSpan[c], b \in U PROVE b < lo \/ b >= hi
  <2>1. PICK d \in PiecesIn(E) \ {c} : b \in SpanIn(E, d)
    BY <1>4
  <2> DEFINE x == OldOf(E, d)
  <2>2. Sound(x) /\ x \in E /\ x.piece = d /\ SpanIn(E, d) = x.begin .. x.end - 1
    BY <2>1, InPieces DEF SpanIn
  <2> HIDE DEF x
  <2>3. b \in (x.begin .. x.end - 1) \cap BlockSpan[c] /\ x.piece # c
    BY <2>1, <2>2
  <2>4. /\ x.piece = c - 1 => b \in RawBegin(c) .. x.end - 1
        /\ x.piece = c + 1 => b \in x.begin .. RawEnd(c) - 1
        /\ x.piece = c - 1 \/ x.piece = c + 1
    BY <2>2, <2>3, ShareOf
  <2> HIDE DEF lo, hi
  <2>5. x.piece = c - 1 => b < lo
    BY <1>1, <1>2, <2>2, <2>4
  <2>6. x.piece = c + 1 => b >= hi
    BY <1>1, <1>2, <2>2, <2>4
  <2> QED BY <2>4, <2>5, <2>6
<1>5. ASSUME NEW b \in BlockSpan[c], b < lo PROVE b \in U
  <2>1. PICK x \in E : x.piece = c - 1
    <3>1. RawBegin(c) # lo
      <4> HIDE DEF lo
      <4> QED BY <1>2, <1>5
    <3> QED BY <3>1 DEF LoOf
  <2>2. Sound(x) /\ x.end = lo /\ x.piece # c
    BY <1>1, <1>3, <2>1 DEF Single, AllSound
  <2>3. b \in x.begin .. x.end - 1
    <3>1. (x.begin .. x.end - 1) \cap BlockSpan[c] = RawBegin(c) .. x.end - 1
      BY <2>1, <2>2, ShareOf
    <3> HIDE DEF lo
    <3>2. b \in RawBegin(c) .. x.end - 1
      BY <1>2, <1>5, <2>2
    <3> QED BY <3>1, <3>2
  <2>4. x.piece \in PiecesIn(E) \ {c} /\ SpanIn(E, x.piece) = x.begin .. x.end - 1
    BY <2>2, OnlyOne
  <2> QED BY <2>3, <2>4
<1>6. ASSUME NEW b \in BlockSpan[c], b >= hi PROVE b \in U
  <2>1. PICK x \in E : x.piece = c + 1
    <3>1. RawEnd(c) # hi
      <4> HIDE DEF hi
      <4> QED BY <1>2, <1>6
    <3> QED BY <3>1 DEF HiOf
  <2>2. Sound(x) /\ x.begin = hi /\ x.piece # c
    BY <1>1, <1>3, <2>1 DEF Single, AllSound
  <2>3. b \in x.begin .. x.end - 1
    <3>1. (x.begin .. x.end - 1) \cap BlockSpan[c] = x.begin .. RawEnd(c) - 1
      BY <2>1, <2>2, ShareOf
    <3> HIDE DEF hi
    <3>2. b \in x.begin .. RawEnd(c) - 1
      BY <1>2, <1>6, <2>2
    <3> QED BY <3>1, <3>2
  <2>4. x.piece \in PiecesIn(E) \ {c} /\ SpanIn(E, x.piece) = x.begin .. x.end - 1
    BY <2>2, OnlyOne
  <2> QED BY <2>3, <2>4
<1> HIDE DEF lo, hi, U
<1>7. \A b \in BlockSpan[c] : b \notin U <=> b \in lo .. hi - 1
  <2> SUFFICES ASSUME NEW b \in BlockSpan[c] PROVE b \notin U <=> b \in lo .. hi - 1
    OBVIOUS
  <2>1. b \in Int
    BY <1>2
  <2>2. b \in U <=> b < lo \/ b >= hi
    BY <1>4, <1>5, <1>6
  <2> QED BY ONLY <1>2, <2>1, <2>2
<1>8. lo .. hi - 1 \subseteq BlockSpan[c]
  BY <1>2
<1>9. lo .. hi - 1 = BlockSpan[c] \ U
  BY <1>7, <1>8
<1> QED BY <1>1, <1>9 DEF lo, hi, U

(* Some of the candidates.                                                 *)
LEMMA SomeSingle ==
    ASSUME NEW E, Single(E), NEW D, D \subseteq E
    PROVE  /\ Single(D) /\ \A c \in PiecesIn(D) : c \in PiecesIn(E) /\ OldOf(D, c) = OldOf(E, c)
<1>1. Single(D)
  BY DEF Single, AllSound, Meet
<1>2. ASSUME NEW c \in PiecesIn(D) PROVE c \in PiecesIn(E) /\ OldOf(D, c) = OldOf(E, c)
  <2>1. OldOf(D, c) \in D /\ OldOf(D, c).piece = c
    BY <1>1, InPieces
  <2>2. OldOf(D, c) \in E
    BY <2>1
  <2> QED BY <2>1, <2>2, OnlyOne
<1> QED BY <1>1, <1>2

(* Some pieces leave the list.                                             *)
FewerIn(E, D, Good) ==
    /\ PiecesIn(D) = PiecesIn(E) \ Good
    /\ SpansIn(D) = [c \in Pieces |-> IF c \in Good THEN {} ELSE SpansIn(E)[c]]
    /\ OpenIn(D) = [c \in Pieces |-> IF c \in Good THEN {} ELSE OpenIn(E)[c]]
    /\ CountIn(D) = [c \in Pieces |-> IF c \in Good THEN 0 ELSE CountIn(E)[c]]

(* Candidates that are taken out, as the view sees it.                     *)
LEMMA FewerSeen ==
    ASSUME NEW E, Single(E), NEW Good, NEW D, D = {x \in E : x.piece \notin Good}
    PROVE  Single(D) /\ FewerIn(E, D, Good)
<1>1. Single(D) /\ \A c \in PiecesIn(D) : c \in PiecesIn(E) /\ OldOf(D, c) = OldOf(E, c)
  BY SomeSingle
<1>2. PiecesIn(D) = PiecesIn(E) \ Good
  BY DEF PiecesIn
<1>3. \A c \in PiecesIn(D) : c \notin Good /\ SpanIn(D, c) = SpanIn(E, c) /\ OldOf(D, c) = OldOf(E, c)
  BY <1>1, <1>2 DEF SpanIn
<1> HIDE DEF PiecesIn
<1>4. SpansIn(D) = [c \in Pieces |-> IF c \in Good THEN {} ELSE SpansIn(E)[c]]
  BY <1>2, <1>3 DEF SpansIn
<1>5. OpenIn(D) = [c \in Pieces |-> IF c \in Good THEN {} ELSE OpenIn(E)[c]]
  BY <1>2, <1>3 DEF OpenIn
<1>6. CountIn(D) = [c \in Pieces |-> IF c \in Good THEN 0 ELSE CountIn(E)[c]]
  BY <1>2, <1>3 DEF CountIn
<1> QED BY <1>1, <1>2, <1>4, <1>5, <1>6 DEF FewerIn

(* A bad piece comes back with what its neighbours leave of it, none of    *)
(* which we have, and its other blocks may be requested of them.           *)
RemadeView(E, D, c) ==
    /\ PiecesIn(D) = PiecesIn(E) \cup {c}
    /\ \A d \in Pieces \ {c} :
         /\ SpansIn(D)[d] = SpansIn(E)[d] /\ CountIn(D)[d] = CountIn(E)[d]
         /\ OpenIn(D)[d] = OpenIn(E)[d] \cup (SpansIn(E)[d] \cap BlockSpan[c])
    /\ SpansIn(D)[c] = BlockSpan[c] \ UNION {SpansIn(E)[d] : d \in PiecesIn(E) \ {c}}
    /\ OpenIn(D)[c] = SpansIn(D)[c]
    /\ CountIn(D)[c] = Cardinality({p \in Peers : c \in has[p]})

(* What on_got_bad_piece leaves, as the view sees it.                      *)
LEMMA RemadeSeen ==
    ASSUME ModeKnown, NEW l \in Lists, AllSound(ToSet(l)), NEW c \in Pieces,
           NEW H, H \cap BlockSpan[c] = {}, NEW salt \in Int
    PROVE  RemadeView(ToSet(l), Remade(ToSet(l), c, H, salt), c)
<1> DEFINE E == ToSet(l)
           lo == LoOf(E, c)
           hi == HiOf(E, c)
           z == Spanned(c, H, salt, lo, hi)
           B == BlockSpan[c]
           F == GiveBack(B)
           R == {y \in E : y.piece # c}
           D == Remade(E, c, H, salt)
<1>1. Single(E)
  BY ListSingle
<1>2. /\ lo \in LowEdges(c) /\ hi \in HighEdges(c)
      /\ lo .. hi - 1 = B \ UNION {SpanIn(E, d) : d \in PiecesIn(E) \ {c}}
  BY <1>1, BetweenIs
<1>3. /\ Respan(Candidate(c, H, salt), lo, hi, (lo .. hi - 1) \ H, z)
      /\ Fresh(c, H, salt, Candidate(c, H, salt))
  BY <1>2, SpannedIs, CandidateIs
<1>4. (lo .. hi - 1) \ H = lo .. hi - 1
  BY <1>2
<1>5. /\ z.piece = c /\ z.begin = lo /\ z.end = hi /\ z.unrequested = lo .. hi - 1
      /\ z.replication = Cardinality({p \in Peers : c \in has[p]})
  BY <1>3, <1>4 DEF Respan, Fresh
<1>6. D = {z} \cup {F[x] : x \in R} /\ AllSound(D)
  BY RemadeSound DEF Remade
<1>7. B \subseteq Blocks
  BY <1>2, EdgeBlocks
<1>8. ASSUME NEW x \in R
      PROVE  /\ SpanKept(x, F[x]) /\ F[x].replication = x.replication /\ F[x].piece = x.piece
             /\ F[x].unrequested = x.unrequested \cup ((x.begin .. x.end - 1) \cap B)
             /\ F[x].begin = x.begin /\ F[x].end = x.end
  <2>1. Sound(x) /\ x \in Cands
    BY DEF AllSound, Sound
  <2>2. SpanKept(x, F[x]) /\ WeightsKept(x, F[x])
    BY <1>7, <2>1, GiveKeeps
  <2>3. F[x].unrequested = x.unrequested \cup ((x.begin .. x.end - 1) \cap B)
    BY <1>7, <2>1, GiveIs DEF Respan
  <2> QED BY <2>2, <2>3 DEF WeightsKept, SpanKept
<1> HIDE DEF F, z, D, lo, hi, E, B
<1>9. Single(D)
  <2>1. ASSUME NEW u \in D, NEW v \in D, u.piece = v.piece PROVE u = v
    <3>1. CASE u = z \/ v = z
      BY <1>5, <1>6, <1>8, <2>1, <3>1
    <3>2. CASE u # z /\ v # z
      <4>1. PICK x \in R : u = F[x]
        BY <1>6, <3>2
      <4>2. PICK y \in R : v = F[y]
        BY <1>6, <3>2
      <4>3. x = y
        BY <1>1, <1>8, <2>1, <4>1, <4>2 DEF Single
      <4> QED BY <4>1, <4>2, <4>3
    <3> QED BY <3>1, <3>2
  <2> QED BY <1>6, <2>1 DEF Single
<1>10. PiecesIn(D) = PiecesIn(E) \cup {c}
  <2>1. ASSUME NEW d \in PiecesIn(D) PROVE d \in PiecesIn(E) \cup {c}
    BY <1>5, <1>6, <1>8, <2>1 DEF PiecesIn
  <2>2. c \in PiecesIn(D)
    BY <1>5, <1>6 DEF PiecesIn
  <2>3. ASSUME NEW d \in PiecesIn(E), d # c PROVE d \in PiecesIn(D)
    BY <1>6, <1>8, <2>3 DEF PiecesIn
  <2> QED BY <2>1, <2>2, <2>3
<1>11. OldOf(D, c) = z
  BY <1>5, <1>6, <1>9, OnlyOne
<1>12. SpansIn(D)[c] = lo .. hi - 1 /\ OpenIn(D)[c] = lo .. hi - 1
       /\ CountIn(D)[c] = Cardinality({p \in Peers : c \in has[p]})
  BY <1>5, <1>10, <1>11 DEF SpansIn, OpenIn, CountIn, SpanIn
<1>13. SpansIn(D)[c] = B \ UNION {SpansIn(E)[d] : d \in PiecesIn(E) \ {c}}
  <2>1. \A d \in PiecesIn(E) : SpansIn(E)[d] = SpanIn(E, d)
    BY <1>1, InPieces DEF SpansIn
  <2>2. UNION {SpansIn(E)[d] : d \in PiecesIn(E) \ {c}} = UNION {SpanIn(E, d) : d \in PiecesIn(E) \ {c}}
    BY <2>1
  <2> QED BY <1>2, <1>12, <2>2
<1>14. ASSUME NEW d \in Pieces, d # c
       PROVE  /\ SpansIn(D)[d] = SpansIn(E)[d] /\ CountIn(D)[d] = CountIn(E)[d]
              /\ OpenIn(D)[d] = OpenIn(E)[d] \cup (SpansIn(E)[d] \cap B)
  <2>1. CASE d \notin PiecesIn(E)
    BY <1>10, <1>14, <2>1 DEF SpansIn, OpenIn, CountIn
  <2>2. CASE d \in PiecesIn(E)
    <3> DEFINE x == OldOf(E, d)
    <3>1. x \in R /\ x.piece = d
      BY <1>1, <1>14, <2>2, InPieces
    <3>2. F[x] \in D /\ F[x].piece = d
      BY <1>6, <1>8, <3>1
    <3>3. OldOf(D, d) = F[x] /\ d \in PiecesIn(D)
      BY <1>9, <3>2, OnlyOne
    <3>4. /\ SpanIn(D, d) = SpanIn(E, d) /\ OldOf(D, d).replication = x.replication
          /\ OldOf(D, d).unrequested = x.unrequested \cup (SpanIn(E, d) \cap B)
      <4>1. x.piece = d /\ SpanIn(E, d) = x.begin .. x.end - 1
        BY <3>1 DEF SpanIn
      <4> HIDE DEF x
      <4> QED BY <1>8, <3>1, <3>3, <4>1 DEF SpanIn
    <3> QED BY <2>2, <3>3, <3>4 DEF SpansIn, OpenIn, CountIn
  <2> QED BY <2>1, <2>2
<1>15. RemadeView(E, D, c)
  BY <1>10, <1>12, <1>13, <1>14 DEF RemadeView, B
<1> QED BY <1>15 DEF E, D

(* The salt of a piece is an integer.                                      *)
LEMMA SaltInt ==
    ASSUME NEW random, Settings(random), NEW c \in Pieces
    PROVE  Salt(c, random, sequential, fromPiece) \in Int
<1> DEFINE s == Salt(c, random, sequential, fromPiece)
<1>1. Fresh(c, {}, s, FreshOf({}, random)[c])
  BY FreshIs
<1> HIDE DEF s
<1>2. s \in Int
  BY <1>1 DEF Fresh, Cands
<1> QED BY <1>2 DEF s

(* A block has come and the pieces Good have been completed.               *)
LEMMA CompletedSeen ==
    ASSUME ListInv, NEW b \in Blocks, NEW Good
    PROVE  LET E == ToSet(list)
               m == CompleteAll(GotBlock(list, b), Good)
               D == ToSet(m)
           IN  /\ m \in Lists /\ AllSound(D)
               /\ PiecesIn(D) = PiecesIn(E) \ Good
               /\ SpansIn(D) = [c \in Pieces |-> IF c \in Good THEN {} ELSE SpansIn(E)[c]]
               /\ OpenIn(D) = [c \in Pieces |-> IF c \in Good THEN {} ELSE OpenIn(E)[c] \ {b}]
               /\ CountIn(D) = [c \in Pieces |-> IF c \in Good THEN 0 ELSE CountIn(E)[c]]
<1> DEFINE E == ToSet(list)
           l == GotBlock(list, b)
           M == ToSet(l)
           m == CompleteAll(l, Good)
           D == ToSet(m)
<1>1. Turns(list, l, TakeFrom({b}))
  BY InvFacts, GotBlockTurns DEF Blocks
<1>2. Single(E) /\ AllSound(E)
  BY InvFacts, ListSingle
<1>3. l \in Lists /\ M = {TakeFrom({b})[x] : x \in E}
  BY <1>1 DEF Turns, Becomes
<1> HIDE DEF l
<1>4. m \in Lists /\ D = {x \in M : x.piece \notin Good}
  BY <1>3, CompleteAllIs
<1>5. \A x \in E : SpanKept(x, TakeFrom({b})[x])
  BY InvFacts, TakeKeeps
<1> HIDE DEF m, M, D, E
<1>6. AllSound(M)
  BY <1>2, <1>3, <1>5, KeptSound
<1>7. TakenFrom(E, M, {b}) /\ CountIn(M) = CountIn(E)
  <2>1. PICK B : B = {b}
    OBVIOUS
  <2>2. M = {TakeFrom(B)[x] : x \in E}
    BY <1>3, <2>1
  <2>3. TakenFrom(E, M, B) /\ CountIn(M) = CountIn(E)
    BY <1>2, <2>2, TakeSeen
  <2> QED BY <2>1, <2>3
<1>8. Single(M)
  BY <1>3, <1>6, ListSingle DEF M
<1>9. Single(D) /\ FewerIn(M, D, Good)
  BY <1>4, <1>8, FewerSeen
<1>10. OpenIn(D) = [c \in Pieces |-> IF c \in Good THEN {} ELSE OpenIn(E)[c] \ {b}]
  BY <1>7, <1>9 DEF TakenFrom, FewerIn
<1> QED BY <1>4, <1>7, <1>9, <1>10 DEF TakenFrom, FewerIn, Single, m, l, D, E

(* A block arrives, and completes pieces, all of them good.                *)
LEMMA ReceiveGoodRefines ==
    ASSUME ListInv, NEW random \in Randoms, NEW b \in Blocks, NEW Bad, Bad = {}, Receive(b, Bad, random)
    PROVE  Events!Receive(b, Bad)
<1> DEFINE E == ToSet(list)
           Good == Events!GoodBefore(b, Bad)
           D == ToSet(list')
<1>1. list' = CompleteAll(GotBlock(list, b), Good)
  BY ReceiveIs
<1>2. have' = Events!HaveAfter(b, Bad) /\ UNCHANGED <<wanted, has>>
  BY DEF Receive
<1>3. /\ PiecesIn(D) = PiecesIn(E) \ Good
      /\ SpansIn(D) = [c \in Pieces |-> IF c \in Good THEN {} ELSE SpansIn(E)[c]]
      /\ OpenIn(D) = [c \in Pieces |-> IF c \in Good THEN {} ELSE OpenIn(E)[c] \ {b}]
      /\ CountIn(D) = [c \in Pieces |-> IF c \in Good THEN 0 ELSE CountIn(E)[c]]
  <2> HIDE DEF Good
  <2> QED BY <1>1, CompletedSeen
<1>4. Events!CheckedCandidates(Good, Bad) = PiecesIn(D)
  BY <1>3, ViewNow DEF Events!CheckedCandidates
<1>5. Events!CheckedSpan(Good, Bad) = SpansIn(D)
  <2> HIDE DEF Good, D
  <2> QED BY <1>3, ViewNow, Geometry DEF Events!CheckedSpan
<1>6. Events!CheckedReplication(Good, Bad, Events!Replication) = CountIn(D)
  <2> HIDE DEF Good, D
  <2> QED BY <1>3, ViewNow, Geometry DEF Events!CheckedReplication
<1>7. Events!CheckedUnrequested(Events!TakeBlocks(OpenIn(E), {b}), Good, Bad) = OpenIn(D)
  <2> HIDE DEF Good, D, E
  <2>1. UNION {BlockSpan[d] : d \in Bad} = {}
    OBVIOUS
  <2>2. Events!CheckedUnrequested(Events!TakeBlocks(OpenIn(E), {b}), Good, Bad)
        = [c \in Pieces |-> IF c \in Good THEN {} ELSE Events!TakeBlocks(OpenIn(E), {b})[c]]
    BY <2>1, Geometry DEF Events!CheckedUnrequested
  <2>3. Events!TakeBlocks(OpenIn(E), {b}) = [c \in Pieces |-> OpenIn(E)[c] \ {b}]
    BY Geometry DEF Events!TakeBlocks
  <2> QED BY <1>3, <2>2, <2>3
<1> QED BY <1>2, <1>4, <1>5, <1>6, <1>7, ViewNow, ViewNext DEF Events!Receive

(* Sets, and the peers of a piece, are counted in the same way.            *)
LEMMA Counting ==
    /\ \A S : Events!Cardinality(S) = Cardinality(S)
    /\ Events!Replication = [c \in Pieces |-> Cardinality({p \in Peers : c \in has[p]})]
<1>1. \A S : Events!Cardinality(S) = Cardinality(S)
  BY Zenon DEF Events!Cardinality, Cardinality
<1>2. Events!Pieces = Pieces
  BY Geometry
<1>3. Events!Replication = [c \in Events!Pieces |-> Events!Cardinality({p \in Peers : c \in has[p]})]
  BY DEF Events!Replication
<1>4. \A c : Events!Cardinality({p \in Peers : c \in has[p]}) = Cardinality({p \in Peers : c \in has[p]})
  BY <1>1
<1> QED BY <1>1, <1>2, <1>3, <1>4

(* A block arrives, and of the pieces it completes c is bad.               *)
LEMMA ReceiveBadRefines ==
    ASSUME ListInv, NEW random \in Randoms, NEW b \in Blocks, NEW Bad, NEW c \in Pieces, Bad = {c},
           Receive(b, Bad, random)
    PROVE  Events!Receive(b, Bad)
<1> DEFINE E == ToSet(list)
           Good == Events!GoodBefore(b, Bad)
           m == CompleteAll(GotBlock(list, b), Good)
           M == ToSet(m)
           H == Events!HaveAfter(b, Bad)
           s == Salt(c, random, sequential, fromPiece)
           D == ToSet(list')
           N(d) == Cardinality({p \in Peers : d \in has[p]})
           owned == [d \in Pieces |-> IF d \in Listed THEN Entry(d).begin .. Entry(d).end - 1 ELSE {}]
<1>1. list' = BadPiece(m, c, H, s)
  <2>1. Bad # {} /\ (CHOOSE d \in Bad : TRUE) = c
    OBVIOUS
  <2> QED BY <2>1, ReceiveIs
<1>2. have' = H /\ UNCHANGED <<wanted, has>>
  BY DEF Receive
<1>3. c \notin Good
  <2>1. c \in Int /\ c \in Bad
    BY DEF Pieces
  <2> QED BY <2>1 DEF Events!GoodBefore
<1>4. H \cap BlockSpan[c] = {}
  BY Geometry DEF Events!HaveAfter
<1>5. s \in Int /\ ModeKnown
  <2>1. Settings(random)
    BY InvFacts DEF Settings
  <2> QED BY <2>1, SaltInt, InvFacts
<1> HIDE DEF Good, H, s
<1>6. /\ m \in Lists /\ AllSound(M)
      /\ PiecesIn(M) = PiecesIn(E) \ Good
      /\ SpansIn(M) = [d \in Pieces |-> IF d \in Good THEN {} ELSE SpansIn(E)[d]]
      /\ OpenIn(M) = [d \in Pieces |-> IF d \in Good THEN {} ELSE OpenIn(E)[d] \ {b}]
      /\ CountIn(M) = [d \in Pieces |-> IF d \in Good THEN 0 ELSE CountIn(E)[d]]
  BY CompletedSeen
<1> HIDE DEF m
<1>7. RemadeView(M, D, c)
  <2>1. D = Remade(M, c, H, s)
    BY <1>1, <1>5, <1>6, BadPieceIs
  <2>2. RemadeView(M, Remade(M, c, H, s), c)
    BY <1>4, <1>5, <1>6, RemadeSeen
  <2> QED BY <2>1, <2>2
<1>8. SpansIn(D) = [d \in Pieces |-> SpansIn(D)[d]] /\ OpenIn(D) = [d \in Pieces |-> OpenIn(D)[d]]
      /\ CountIn(D) = [d \in Pieces |-> CountIn(D)[d]]
  BY DEF SpansIn, OpenIn, CountIn
<1>a. /\ Listed = PiecesIn(E) /\ owned = SpansIn(E)
  BY ViewNow DEF E
<1>b. CountIn(D)[c] = N(c)
  BY <1>7 DEF RemadeView
<1>c. Events!Replication = [d \in Pieces |-> N(d)]
  BY Counting
<1> HIDE DEF E, M, D, N
<1>9. PiecesIn(E) \subseteq Pieces
  BY InvFacts, ListSingle, InPieces DEF E
<1>10. Events!CheckedCandidates(Good, Bad) = PiecesIn(D)
  BY <1>6, <1>7, ViewNow DEF Events!CheckedCandidates, RemadeView, E
<1>11. Events!CheckedSpan(Good, Bad) = SpansIn(D)
  <2>1. Events!CheckedSpan(Good, Bad)
        = [d \in Pieces |-> IF d \in Bad
                            THEN BlockSpan[d] \ UNION {SpansIn(E)[e] : e \in PiecesIn(E) \ (Good \cup Bad)}
                            ELSE IF d \in Good THEN {} ELSE SpansIn(E)[d]]
    <3>1. \A X : UNION {owned[e] : e \in Listed \ X} = UNION {SpansIn(E)[e] : e \in PiecesIn(E) \ X}
      <4> HIDE DEF owned
      <4> QED BY <1>a
    <3>2. Events!CheckedSpan(Good, Bad)
          = [d \in Pieces |-> IF d \in Bad THEN BlockSpan[d] \ UNION {owned[e] : e \in Listed \ (Good \cup Bad)}
                              ELSE IF d \in Good THEN {} ELSE owned[d]]
      BY Geometry DEF Events!CheckedSpan
    <3> HIDE DEF owned
    <3> QED BY <1>a, <3>1, <3>2
  <2>2. {SpansIn(E)[e] : e \in PiecesIn(E) \ (Good \cup Bad)} = {SpansIn(M)[e] : e \in PiecesIn(M) \ {c}}
    <3>1. PiecesIn(E) \ (Good \cup Bad) = PiecesIn(M) \ {c}
      BY <1>6
    <3>2. \A e \in PiecesIn(M) \ {c} : SpansIn(M)[e] = SpansIn(E)[e]
      BY <1>6, <1>9
    <3> QED BY <3>1, <3>2
  <2>3. \A d \in Pieces : SpansIn(D)[d] = IF d \in Bad
                            THEN BlockSpan[d] \ UNION {SpansIn(E)[e] : e \in PiecesIn(E) \ (Good \cup Bad)}
                            ELSE IF d \in Good THEN {} ELSE SpansIn(E)[d]
    BY <1>6, <1>7, <2>2 DEF RemadeView
  <2> QED BY <1>8, <2>1, <2>3
<1>12. Events!CheckedReplication(Good, Bad, Events!Replication) = CountIn(D)
  <2>2. Events!CheckedReplication(Good, Bad, Events!Replication)
        = [d \in Pieces |-> IF d \in Bad THEN N(d) ELSE IF d \in Good THEN 0 ELSE CountIn(E)[d]]
    BY <1>c, ViewNow, Geometry DEF Events!CheckedReplication, E
  <2>3. \A d \in Pieces : CountIn(D)[d] = IF d \in Bad THEN N(d) ELSE IF d \in Good THEN 0 ELSE CountIn(E)[d]
    BY <1>6, <1>7, <1>b DEF RemadeView
  <2> QED BY <1>8, <2>2, <2>3
<1>13. Events!CheckedUnrequested(Events!TakeBlocks(OpenIn(E), {b}), Good, Bad) = OpenIn(D)
  <2>1. UNION {BlockSpan[d] : d \in Bad} = BlockSpan[c]
    OBVIOUS
  <2>2. Events!TakeBlocks(OpenIn(E), {b}) = [d \in Pieces |-> OpenIn(E)[d] \ {b}]
    BY Geometry DEF Events!TakeBlocks
  <2>3. Events!CheckedUnrequested(Events!TakeBlocks(OpenIn(E), {b}), Good, Bad)
        = [d \in Pieces |-> IF d \in Bad THEN SpansIn(D)[d]
                            ELSE IF d \in Good THEN {}
                            ELSE (OpenIn(E)[d] \ {b}) \cup (SpansIn(E)[d] \cap BlockSpan[c])]
    <3> DEFINE taken == Events!TakeBlocks(OpenIn(E), {b})
    <3>1. Events!CheckedUnrequested(taken, Good, Bad)
          = [d \in Pieces |-> IF d \in Bad THEN SpansIn(D)[d] ELSE IF d \in Good THEN {}
                              ELSE taken[d] \cup (owned[d] \cap UNION {BlockSpan[e] : e \in Bad})]
      <4> HIDE DEF taken
      <4> QED BY <1>11, Geometry DEF Events!CheckedUnrequested
    <3>2. \A d \in Pieces : taken[d] = OpenIn(E)[d] \ {b}
      BY <2>2
    <3> HIDE DEF taken, owned
    <3> QED BY <1>a, <2>1, <3>1, <3>2 DEF taken
  <2>4. \A d \in Pieces : OpenIn(D)[d] = IF d \in Bad THEN SpansIn(D)[d]
                            ELSE IF d \in Good THEN {}
                            ELSE (OpenIn(E)[d] \ {b}) \cup (SpansIn(E)[d] \cap BlockSpan[c])
    <3> SUFFICES ASSUME NEW d \in Pieces, d # c
                 PROVE  OpenIn(D)[d] = IF d \in Good THEN {}
                            ELSE (OpenIn(E)[d] \ {b}) \cup (SpansIn(E)[d] \cap BlockSpan[c])
      BY <1>7 DEF RemadeView
    <3>1. OpenIn(D)[d] = OpenIn(M)[d] \cup (SpansIn(M)[d] \cap BlockSpan[c])
      BY <1>7 DEF RemadeView
    <3> QED BY <1>6, <3>1
  <2> QED BY <1>8, <2>3, <2>4
<1> QED BY <1>2, <1>10, <1>11, <1>12, <1>13, ViewNow, ViewNext DEF Events!Receive, E, D, Good, H

(* The blocks that two pieces share.                                       *)
LEMMA RawShared ==
    ASSUME NEW c \in Pieces, NEW d \in Pieces, d # c
    PROVE  LET V == BlockSpan[d] \cap BlockSpan[c]
           IN  /\ d = c - 1 => V = RawBegin(c) .. RawEnd(d) - 1
               /\ d = c + 1 => V = RawBegin(d) .. RawEnd(c) - 1
               /\ d # c - 1 /\ d # c + 1 => V = {}
<1> DEFINE V == BlockSpan[d] \cap BlockSpan[c]
<1>1. /\ c \in Int /\ d \in Int
      /\ RawBegin(c) \in Nat /\ RawEnd(c) \in Nat /\ RawBegin(c) < RawEnd(c)
      /\ RawBegin(d) \in Nat /\ RawEnd(d) \in Nat /\ RawBegin(d) < RawEnd(d)
      /\ BlockSpan[c] = RawBegin(c) .. RawEnd(c) - 1 /\ BlockSpan[d] = RawBegin(d) .. RawEnd(d) - 1
  BY RawSpan DEF Pieces
<1>2. ASSUME d = c - 1 PROVE V = RawBegin(c) .. RawEnd(d) - 1
  <2>1. c = d + 1
    BY <1>1, <1>2
  <2>2. RawBegin(d) < RawBegin(c) /\ RawEnd(d) \in {RawBegin(c), RawBegin(c) + 1}
    BY <2>1, RawNeighbours
  <2> QED BY ONLY <1>1, <2>2
<1>3. ASSUME d = c + 1 PROVE V = RawBegin(d) .. RawEnd(c) - 1
  <2>1. RawBegin(c) < RawBegin(d) /\ RawEnd(c) \in {RawBegin(d), RawBegin(d) + 1}
    BY <1>3, RawNeighbours
  <2> QED BY ONLY <1>1, <2>1
<1>4. ASSUME d # c - 1, d # c + 1 PROVE V = {}
  <2>1. d + 2 <= c \/ c + 2 <= d
    BY <1>1, <1>4
  <2>2. d + 2 <= c => RawEnd(d) <= RawBegin(c)
    BY RawNeighbours
  <2>3. c + 2 <= d => RawEnd(c) <= RawBegin(d)
    BY RawNeighbours
  <2> QED BY ONLY <1>1, <2>1, <2>2, <2>3
<1> QED BY <1>2, <1>3, <1>4

(* Whether the candidate before c, or after it, is erased.                 *)
GoneBelow(E, T, c) == Listing(E, c - 1) /\ c - 1 \notin T
GoneAbove(E, T, c) == Listing(E, c + 1) /\ c + 1 \notin T

(* What the upkeep makes of a candidate that stays.                        *)
LEMMA StayingIs ==
    ASSUME NEW E, NEW T, NEW X, Coming(E, T, X), NEW c \in T, Listing(E, c)
    PROVE  LET x == OldOf(E, c)
               g == NewOf(E, T, X, c)
           IN  /\ g.begin = IF GoneBelow(E, T, c) THEN RawBegin(c) ELSE x.begin
               /\ g.end = IF GoneAbove(E, T, c) THEN RawEnd(c) ELSE x.end
               /\ g.unrequested =
                    x.unrequested
                    \cup (IF GoneBelow(E, T, c) THEN (RawBegin(c) .. x.begin - 1) \cap OldOf(E, c - 1).unrequested ELSE {})
                    \cup (IF GoneAbove(E, T, c) THEN (x.end .. RawEnd(c) - 1) \cap OldOf(E, c + 1).unrequested ELSE {})
               /\ g.replication = x.replication
<1> DEFINE x == OldOf(E, c)
           f == FirstOf(E, T, X, c)
           g == NewOf(E, T, X, c)
           low == GoneBelow(E, T, c)
           lowBlocks == IF low THEN (RawBegin(c) .. x.begin - 1) \cap OldOf(E, c - 1).unrequested ELSE {}
           y == OldOf(E, c + 1)
<1>1. /\ c \in Pieces /\ c \in Int /\ x \in Cands /\ Sound(x) /\ x.piece = c
  BY OldIs
<1>2. /\ Sound(f) /\ f.piece = c /\ f.end = x.end
      /\ f.begin = IF low THEN RawBegin(c) ELSE x.begin
  <2>1. /\ Sound(f) /\ f.piece = c /\ f.end = EndBefore(E, c)
        /\ f.begin = IF Listing(E, c)
                     THEN IF Listing(E, c - 1) /\ c - 1 \notin T THEN RawBegin(c) ELSE OldOf(E, c).begin
                     ELSE IF c - 1 \in T THEN EndBefore(E, c - 1) ELSE RawBegin(c)
    BY FirstIs
  <2> HIDE DEF f
  <2> QED BY <2>1 DEF EndBefore, GoneBelow
<1>3. f.unrequested = x.unrequested \cup lowBlocks
  <2>1. f = Begun(E, T, c)
    BY DEF FirstOf
  <2>2. CASE low
    <3>1. OldOf(E, c - 1) \in Cands
      BY <2>2, OldIs DEF GoneBelow
    <3>2. f = RegainBegin(x, OldOf(E, c - 1))
      BY <2>1, <2>2 DEF Begun, GoneBelow
    <3>3. Respan(x, RawBegin(x.piece), x.end,
                 x.unrequested \cup ((RawBegin(x.piece) .. x.begin - 1) \cap OldOf(E, c - 1).unrequested),
                 RegainBegin(x, OldOf(E, c - 1)))
      BY <1>1, <3>1, RegainIs
    <3> HIDE DEF x, f
    <3> QED BY <1>1, <2>2, <3>2, <3>3 DEF Respan
  <2>3. CASE ~low
    <3>1. f = x
      BY <2>1, <2>3 DEF Begun, GoneBelow
    <3> HIDE DEF x, f
    <3> QED BY <2>3, <3>1
  <2> QED BY <2>2, <2>3
<1>4. /\ g.begin = f.begin
      /\ g.end = IF ~Listing(E, c + 1) THEN x.end
                 ELSE IF c + 1 \in T THEN y.begin ELSE RawEnd(c)
  <2>1. /\ g.begin = f.begin
        /\ g.end = IF ~Listing(E, c + 1) THEN EndBefore(E, c)
                   ELSE IF c + 1 \in T THEN OldOf(E, c + 1).begin ELSE RawEnd(c)
    BY NewIs
  <2> HIDE DEF f, g
  <2> QED BY <2>1 DEF EndBefore
<1>5. Listing(E, c + 1) => y.begin = x.end /\ y \in Cands /\ y.begin \in Int
  <2>1. Listing(E, c + 1) => y.begin = x.end
    BY <1>1, OldEdge
  <2>2. Listing(E, c + 1) => y \in Cands
    BY OldIs
  <2> QED BY <2>1, <2>2 DEF Cands
<1>6. WeightsKept(x, g)
  <2>1. WeightsKept(IF Listing(E, c) THEN OldOf(E, c) ELSE X[c], g)
    BY NewWeights
  <2> QED BY <2>1
<1>7. g = IF ~Listing(E, c + 1) THEN f
          ELSE IF c + 1 \in T THEN CutEnd(f, y.begin) ELSE RegainEnd(f, y)
  BY DEF NewOf
<1>8. f \in Cands /\ f.end \in Int /\ f.unrequested \subseteq f.begin .. f.end - 1
  BY <1>2 DEF Sound, Cands
<1> HIDE DEF f, g, x, y, lowBlocks
<1>9. g.unrequested = f.unrequested \cup (IF GoneAbove(E, T, c) THEN (x.end .. RawEnd(c) - 1) \cap y.unrequested ELSE {})
  <2>1. CASE ~Listing(E, c + 1)
    BY <1>7, <2>1 DEF GoneAbove
  <2>2. CASE Listing(E, c + 1) /\ c + 1 \in T
    <3>1. f.end <= f.end /\ CutEnd(f, f.end) = f
      BY <1>8, CutNothing
    <3> QED BY <1>2, <1>5, <1>7, <2>2, <3>1 DEF GoneAbove
  <2>3. CASE GoneAbove(E, T, c)
    <3>1. Respan(f, f.begin, RawEnd(f.piece),
                 f.unrequested \cup ((f.end .. RawEnd(f.piece) - 1) \cap y.unrequested), RegainEnd(f, y))
      BY <1>5, <1>8, <2>3, RegainIs DEF GoneAbove
    <3>2. g = RegainEnd(f, y)
      BY <1>7, <2>3 DEF GoneAbove
    <3> QED BY <1>2, <2>3, <3>1, <3>2 DEF Respan
  <2> QED BY <2>1, <2>2, <2>3 DEF GoneAbove
<1>10. g.end = IF GoneAbove(E, T, c) THEN RawEnd(c) ELSE x.end
  BY <1>4, <1>5 DEF GoneAbove
<1>11. g.begin = (IF low THEN RawBegin(c) ELSE x.begin) /\ g.replication = x.replication
  BY <1>2, <1>4, <1>6 DEF WeightsKept
<1>12. g.unrequested = x.unrequested \cup lowBlocks
                       \cup (IF GoneAbove(E, T, c) THEN (x.end .. RawEnd(c) - 1) \cap y.unrequested ELSE {})
  BY <1>3, <1>9
<1> QED BY <1>10, <1>11, <1>12 DEF f, g, x, y, lowBlocks

(* The pieces next to c whose candidates are erased.                       *)
Beside(E, T, c) == {d \in PiecesIn(E) \ T : d = c - 1 \/ d = c + 1}

(* They are the ones before and after c, when these are erased.            *)
LEMMA BesideIs ==
    ASSUME NEW E, NEW T, NEW X, Coming(E, T, X), NEW c \in Pieces
    PROVE  /\ Single(E) /\ Beside(E, T, c) \subseteq Pieces \ {c}
           /\ c - 1 \in Beside(E, T, c) <=> GoneBelow(E, T, c)
           /\ c + 1 \in Beside(E, T, c) <=> GoneAbove(E, T, c)
           /\ \A d \in Beside(E, T, c) : d = c - 1 \/ d = c + 1
<1>1. Single(E) /\ c \in Int
  BY DEF Coming, Single, Pieces
<1>2. \A d : d \in PiecesIn(E) <=> Listing(E, d)
  BY DEF PiecesIn, Listing
<1>3. \A d \in PiecesIn(E) : d \in Pieces
  BY <1>1, InPieces
<1> QED BY <1>1, <1>2, <1>3 DEF Beside, GoneBelow, GoneAbove

(* A candidate that stays, as the view sees it.                            *)
LEMMA StayingSpan ==
    ASSUME NEW E, NEW T, NEW X, Coming(E, T, X), NEW c \in T, Listing(E, c)
    PROVE  LET g == NewOf(E, T, X, c)
           IN  g.begin .. g.end - 1
               = SpanIn(E, c) \cup (BlockSpan[c] \cap UNION {BlockSpan[d] : d \in Beside(E, T, c)})
<1> DEFINE x == OldOf(E, c)
           g == NewOf(E, T, X, c)
           S == Beside(E, T, c)
           U == BlockSpan[c] \cap UNION {BlockSpan[d] : d \in S}
           low == GoneBelow(E, T, c)
           top == GoneAbove(E, T, c)
           lowEnd == RawEnd(c - 1)
           topBegin == RawBegin(c + 1)
<1>1. /\ c \in Pieces /\ c \in Int /\ Sound(x) /\ x.piece = c
  BY OldIs
<1>2. /\ Single(E) /\ S \subseteq Pieces \ {c}
      /\ c - 1 \in S <=> low
      /\ c + 1 \in S <=> top
      /\ \A d \in S : d = c - 1 \/ d = c + 1
  BY <1>1, BesideIs
<1>3. /\ g.begin = IF low THEN RawBegin(c) ELSE x.begin
      /\ g.end = IF top THEN RawEnd(c) ELSE x.end
  BY StayingIs
<1>4. /\ x.begin \in Nat /\ x.end \in Nat /\ RawBegin(c) \in Nat /\ RawEnd(c) \in Nat
      /\ RawBegin(c) <= x.begin /\ x.begin <= x.end /\ x.end <= RawEnd(c)
      /\ x.begin \in LowEdges(c) /\ x.end \in HighEdges(c)
  BY <1>1, SoundSpan DEF Sound
<1> HIDE DEF x, g, S
<1>5. ASSUME low
      PROVE  /\ lowEnd \in Nat /\ x.begin <= lowEnd /\ lowEnd <= x.end
             /\ BlockSpan[c - 1] \cap BlockSpan[c] = RawBegin(c) .. lowEnd - 1
  <2>1. c - 1 \in Pieces /\ c = (c - 1) + 1 /\ c - 1 # c
    BY <1>1, <1>2, <1>5
  <2>2. lowEnd \in Nat /\ lowEnd \in {RawBegin(c), RawBegin(c) + 1}
    BY <1>1, <2>1, RawSpan, RawNeighbours
  <2>3. lowEnd <= x.end
    BY <1>1, <1>4, <2>1, HighEdge
  <2>4. x.begin \in {RawBegin(c), lowEnd}
    <3>1. \A e \in Pieces : e + 1 = c => e = c - 1
      BY <1>1 DEF Pieces
    <3> QED BY <1>4, <3>1 DEF LowEdges
  <2>5. BlockSpan[c - 1] \cap BlockSpan[c] = RawBegin(c) .. lowEnd - 1
    BY <1>1, <2>1, RawShared
  <2> HIDE DEF lowEnd
  <2> QED BY <1>4, <2>2, <2>3, <2>4, <2>5
<1>6. ASSUME top
      PROVE  /\ topBegin \in Nat /\ x.begin <= topBegin /\ topBegin <= x.end
             /\ BlockSpan[c + 1] \cap BlockSpan[c] = topBegin .. RawEnd(c) - 1
  <2>1. c + 1 \in Pieces /\ c + 1 # c
    BY <1>1, <1>2, <1>6
  <2>2. topBegin \in Nat /\ RawEnd(c) \in {topBegin, topBegin + 1}
    BY <1>1, <2>1, RawSpan, RawNeighbours
  <2>3. x.begin <= topBegin
    BY <1>1, <1>4, <2>1, LowEdge
  <2>4. x.end \in {RawEnd(c), topBegin}
    BY <1>4 DEF HighEdges
  <2>5. BlockSpan[c + 1] \cap BlockSpan[c] = topBegin .. RawEnd(c) - 1
    BY <1>1, <2>1, RawShared
  <2> HIDE DEF topBegin
  <2> QED BY <1>4, <2>2, <2>3, <2>4, <2>5
<1>7. U = (IF low THEN RawBegin(c) .. lowEnd - 1 ELSE {}) \cup (IF top THEN topBegin .. RawEnd(c) - 1 ELSE {})
  <2>1. \A b : b \in U <=> (low /\ b \in BlockSpan[c - 1] \cap BlockSpan[c])
                           \/ (top /\ b \in BlockSpan[c + 1] \cap BlockSpan[c])
    BY <1>2
  <2> HIDE DEF U, low, top, lowEnd, topBegin
  <2> QED BY <1>5, <1>6, <2>1
<1> HIDE DEF U, low, top, lowEnd, topBegin
<1>8. g.begin .. g.end - 1 = (x.begin .. x.end - 1) \cup U
  <2>1. CASE low /\ top
    BY <1>3, <1>4, <1>5, <1>6, <1>7, <2>1
  <2>2. CASE low /\ ~top
    BY <1>3, <1>4, <1>5, <1>7, <2>2
  <2>3. CASE ~low /\ top
    BY <1>3, <1>4, <1>6, <1>7, <2>3
  <2>4. CASE ~low /\ ~top
    BY <1>3, <1>7, <2>4
  <2> QED BY <2>1, <2>2, <2>3, <2>4
<1> QED BY <1>8 DEF g, x, U, S, SpanIn

(* The blocks it may still request: its own and those of its erased        *)
(* neighbours.                                                             *)
LEMMA StayingOpen ==
    ASSUME NEW E, NEW T, NEW X, Coming(E, T, X), NEW c \in T, Listing(E, c)
    PROVE  NewOf(E, T, X, c).unrequested
           = OldOf(E, c).unrequested \cup (BlockSpan[c] \cap UNION {OpenIn(E)[d] : d \in Beside(E, T, c)})
<1> DEFINE x == OldOf(E, c)
           g == NewOf(E, T, X, c)
           S == Beside(E, T, c)
           U == BlockSpan[c] \cap UNION {OpenIn(E)[d] : d \in S}
           low == GoneBelow(E, T, c)
           top == GoneAbove(E, T, c)
           y == OldOf(E, c - 1)
           z == OldOf(E, c + 1)
<1>1. /\ c \in Pieces /\ c \in Int /\ Sound(x) /\ x.piece = c /\ x \in E
  BY OldIs
<1>2. /\ Single(E) /\ S \subseteq Pieces \ {c}
      /\ c - 1 \in S <=> low
      /\ c + 1 \in S <=> top
      /\ \A d \in S : d = c - 1 \/ d = c + 1
  BY <1>1, BesideIs
<1>3. g.unrequested = x.unrequested
                      \cup (IF low THEN (RawBegin(c) .. x.begin - 1) \cap y.unrequested ELSE {})
                      \cup (IF top THEN (x.end .. RawEnd(c) - 1) \cap z.unrequested ELSE {})
  BY StayingIs
<1>4. \A d \in S : OpenIn(E)[d] = OldOf(E, d).unrequested
  BY <1>2 DEF Beside, OpenIn
<1> HIDE DEF g, S
<1>5. ASSUME low PROVE BlockSpan[c] \cap y.unrequested = (RawBegin(c) .. x.begin - 1) \cap y.unrequested
  <2>1. y \in E /\ y.piece = c - 1 /\ Sound(y) /\ y.piece # c
    BY <1>1, <1>5, OldIs DEF GoneBelow
  <2>2. y.end = x.begin
    <3>1. x.piece = y.piece + 1
      BY <1>1, <2>1
    <3> HIDE DEF x, y
    <3> QED BY <1>1, <1>2, <2>1, <3>1 DEF Single, AllSound, Meet
  <2>3. (y.begin .. y.end - 1) \cap BlockSpan[c] = RawBegin(c) .. y.end - 1
    BY <1>1, <2>1, ShareOf
  <2>4. y.unrequested \subseteq y.begin .. y.end - 1
    BY <2>1 DEF Sound
  <2>5. y.begin <= RawBegin(c) /\ y.begin \in Nat /\ RawBegin(c) \in Nat /\ x.begin \in Nat
    <3>1. y.piece \in Pieces /\ y.begin \in LowEdges(y.piece) /\ c = y.piece + 1 /\ x.begin = y.end /\ y.end \in Nat
      BY <1>1, <2>1, <2>2, SoundSpan DEF Sound
    <3> HIDE DEF x, y
    <3> QED BY <1>1, <3>1, LowEdge, RawSpan
  <2> HIDE DEF x, y
  <2> QED BY <2>2, <2>3, <2>4, <2>5
<1>6. ASSUME top PROVE BlockSpan[c] \cap z.unrequested = (x.end .. RawEnd(c) - 1) \cap z.unrequested
  <2>1. z \in E /\ z.piece = c + 1 /\ Sound(z) /\ z.piece # c
    BY <1>1, <1>6, OldIs DEF GoneAbove
  <2>2. z.begin = x.end
    <3> HIDE DEF x, z
    <3> QED BY <1>1, <1>2, <2>1 DEF Single, AllSound, Meet
  <2>3. (z.begin .. z.end - 1) \cap BlockSpan[c] = z.begin .. RawEnd(c) - 1
    BY <1>1, <2>1, ShareOf
  <2>4. z.unrequested \subseteq z.begin .. z.end - 1
    BY <2>1 DEF Sound
  <2> HIDE DEF x, z
  <2> QED BY <2>2, <2>3, <2>4
<1>7. U = (IF low THEN BlockSpan[c] \cap y.unrequested ELSE {}) \cup (IF top THEN BlockSpan[c] \cap z.unrequested ELSE {})
  <2>1. \A b : b \in UNION {OpenIn(E)[d] : d \in S} <=> (low /\ b \in y.unrequested) \/ (top /\ b \in z.unrequested)
    BY <1>2, <1>4
  <2> HIDE DEF low, top, y, z
  <2> QED BY <2>1
<1> HIDE DEF U, low, top, x, y, z
<1>8. g.unrequested = x.unrequested \cup U
  BY <1>3, <1>5, <1>6, <1>7
<1> QED BY <1>8 DEF g, x, U, S

(* A candidate that the upkeep makes.                                      *)
LEMMA MadeIs ==
    ASSUME NEW E, NEW T, NEW X, Coming(E, T, X), NEW c \in T, ~Listing(E, c),
           NEW H, X[c].unrequested = (RawBegin(c) .. RawEnd(c) - 1) \ H
    PROVE  LET g == NewOf(E, T, X, c)
           IN  /\ g.begin = IF c - 1 \in T THEN EndBefore(E, c - 1) ELSE RawBegin(c)
               /\ g.end = IF Listing(E, c + 1) /\ c + 1 \in T THEN OldOf(E, c + 1).begin ELSE RawEnd(c)
               /\ g.unrequested = (g.begin .. g.end - 1) \ H
               /\ g.replication = X[c].replication
<1> DEFINE x == X[c]
           f == FirstOf(E, T, X, c)
           g == NewOf(E, T, X, c)
           b == EndBefore(E, c - 1)
           y == OldOf(E, c + 1)
<1>1. /\ c \in Pieces /\ c \in Int
      /\ x \in Cands /\ x.piece = c /\ x.begin = RawBegin(c) /\ x.end = RawEnd(c)
      /\ x.unrequested \subseteq RawBegin(c) .. RawEnd(c) - 1
      /\ RawBegin(c) \in Nat /\ RawEnd(c) \in Nat
  BY RawSpan DEF Coming, RawCands, Pieces
<1>2. /\ Sound(f) /\ f.piece = c /\ f.end = RawEnd(c)
      /\ f.begin = IF c - 1 \in T THEN b ELSE RawBegin(c)
  <2>1. /\ Sound(f) /\ f.piece = c /\ f.end = EndBefore(E, c)
        /\ f.begin = IF Listing(E, c)
                     THEN IF Listing(E, c - 1) /\ c - 1 \notin T THEN RawBegin(c) ELSE OldOf(E, c).begin
                     ELSE IF c - 1 \in T THEN EndBefore(E, c - 1) ELSE RawBegin(c)
    BY FirstIs
  <2> HIDE DEF f
  <2> QED BY <2>1 DEF EndBefore
<1>3. /\ Sound(g) /\ g.piece = c /\ g.begin = f.begin
      /\ g.end = IF Listing(E, c + 1) /\ c + 1 \in T THEN y.begin ELSE RawEnd(c)
  <2>1. /\ Sound(g) /\ g.piece = c /\ g.begin = f.begin
        /\ g.end = IF ~Listing(E, c + 1) THEN EndBefore(E, c)
                   ELSE IF c + 1 \in T THEN OldOf(E, c + 1).begin ELSE RawEnd(c)
    BY NewIs
  <2> HIDE DEF f, g
  <2> QED BY <2>1 DEF EndBefore
<1>4. c - 1 \in T => b \in Nat /\ RawBegin(c) <= b
  <2> SUFFICES ASSUME c - 1 \in T PROVE b \in Nat /\ RawBegin(c) <= b
    OBVIOUS
  <2>1. c - 1 \in Pieces /\ c = (c - 1) + 1
    BY <1>1 DEF Coming
  <2>2. b \in LowEdges(c)
    <3>1. b \in HighEdges(c - 1)
      BY <2>1, EndBeforeIs
    <3> QED BY <1>1, <2>1, <3>1, EdgesShared
  <2> QED BY <1>1, <2>2, LowEdge
<1>5. f = IF c - 1 \in T THEN CutBegin(x, b) ELSE x
  BY DEF FirstOf
<1>6. g = IF ~Listing(E, c + 1) THEN f
          ELSE IF c + 1 \in T THEN CutEnd(f, y.begin) ELSE RegainEnd(f, y)
  BY DEF NewOf
<1>7. Listing(E, c + 1) => y \in Cands /\ y.begin \in Int /\ y.begin <= RawEnd(c)
  <2> SUFFICES ASSUME Listing(E, c + 1) PROVE y \in Cands /\ y.begin \in Int /\ y.begin <= RawEnd(c)
    OBVIOUS
  <2>1. y \in Cands
    BY OldIs
  <2>2. y.begin <= EndBefore(E, c)
    BY <1>1, OldEdge
  <2> HIDE DEF y
  <2> QED BY <2>1, <2>2 DEF Cands, EndBefore
<1>8. WeightsKept(x, g)
  <2>1. WeightsKept(IF Listing(E, c) THEN OldOf(E, c) ELSE X[c], g)
    BY NewWeights
  <2> QED BY <2>1
<1> HIDE DEF f, g, x, b, y
<1>9. f.unrequested = (f.begin .. RawEnd(c) - 1) \ H
  <2>1. CASE c - 1 \in T
    <3>1. Respan(x, Max2(x.begin, b), x.end, AtLeast(x.unrequested, b), CutBegin(x, b))
      BY <1>1, <1>4, <2>1, CutIs
    <3>2. f.unrequested = AtLeast(x.unrequested, b)
      BY <1>5, <2>1, <3>1 DEF Respan
    <3>3. f.begin = b /\ x.unrequested = (RawBegin(c) .. RawEnd(c) - 1) \ H
      BY <1>2, <2>1 DEF x
    <3> QED BY <1>1, <1>4, <2>1, <3>2, <3>3 DEF AtLeast
  <2>2. CASE c - 1 \notin T
    BY <1>2, <1>5, <2>2 DEF x
  <2> QED BY <2>1, <2>2
<1>10. f \in Cands /\ f.begin \in Nat /\ f.end \in Nat
  BY <1>2, SoundSpan
<1>11. g.unrequested = (g.begin .. g.end - 1) \ H
  <2>1. CASE ~Listing(E, c + 1)
    BY <1>3, <1>6, <1>9, <2>1
  <2>2. CASE Listing(E, c + 1) /\ c + 1 \in T
    <3>1. Respan(f, f.begin, Min2(f.end, y.begin), Below(f.unrequested, y.begin), CutEnd(f, y.begin))
      BY <1>7, <1>10, <2>2, CutIs
    <3>2. g.unrequested = Below(f.unrequested, y.begin)
      BY <1>6, <2>2, <3>1 DEF Respan
    <3> QED BY <1>1, <1>3, <1>7, <1>9, <1>10, <2>2, <3>2 DEF Below
  <2>3. CASE Listing(E, c + 1) /\ c + 1 \notin T
    <3>1. Respan(f, f.begin, RawEnd(f.piece),
                 f.unrequested \cup ((f.end .. RawEnd(f.piece) - 1) \cap y.unrequested), RegainEnd(f, y))
      BY <1>7, <1>10, <2>3, RegainIs
    <3>2. f.end .. RawEnd(f.piece) - 1 = {}
      BY <1>1, <1>2
    <3>3. g.unrequested = f.unrequested
      BY <1>6, <2>3, <3>1, <3>2 DEF Respan
    <3> QED BY <1>3, <1>9, <2>3, <3>3
  <2> QED BY <2>1, <2>2, <2>3
<1>12. g.replication = x.replication
  BY <1>8 DEF WeightsKept
<1>13. g.begin = IF c - 1 \in T THEN b ELSE RawBegin(c)
  BY <1>2, <1>3
<1> QED BY <1>3, <1>11, <1>12, <1>13 DEF g, x, b, y

(* It has what the candidates that stay leave of its piece, without the    *)
(* block that the candidate made before it may have taken.                 *)
LEMMA MadeSpan ==
    ASSUME NEW E, NEW T, NEW X, Coming(E, T, X), NEW c \in T, ~Listing(E, c),
           NEW g, g.begin = IF c - 1 \in T THEN EndBefore(E, c - 1) ELSE RawBegin(c),
           g.end = IF Listing(E, c + 1) /\ c + 1 \in T THEN OldOf(E, c + 1).begin ELSE RawEnd(c)
    PROVE  g.begin .. g.end - 1
           = (BlockSpan[c] \ UNION {SpanIn(E, d) : d \in PiecesIn(E) \cap T})
                \ UNION {BlockSpan[d] : d \in {e \in T \ PiecesIn(E) : e < c}}
<1> DEFINE K == {x \in E : x.piece \in T}
           lo == LoOf(K, c)
           hi == HiOf(K, c)
           U == UNION {SpanIn(E, d) : d \in PiecesIn(E) \cap T}
           V == UNION {BlockSpan[d] : d \in {e \in T \ PiecesIn(E) : e < c}}
           made == c - 1 \in T /\ ~Listing(E, c - 1)
           lowEnd == RawEnd(c - 1)
<1>1. Single(E) /\ c \in Pieces /\ c \in Int /\ T \subseteq Pieces
  BY DEF Coming, Single, Pieces
<1>2. Single(K) /\ \A d \in PiecesIn(K) : d \in PiecesIn(E) /\ OldOf(K, d) = OldOf(E, d)
  BY <1>1, SomeSingle
<1>3. PiecesIn(K) = PiecesIn(E) \cap T /\ c \notin PiecesIn(K)
      /\ \A d : (d \in PiecesIn(E) <=> Listing(E, d)) /\ (d \in PiecesIn(K) <=> Listing(K, d))
  BY DEF PiecesIn, Listing
<1>4. /\ lo \in LowEdges(c) /\ hi \in HighEdges(c)
      /\ lo .. hi - 1 = BlockSpan[c] \ UNION {SpanIn(K, d) : d \in PiecesIn(K) \ {c}}
  BY <1>1, <1>2, BetweenIs
<1>5. UNION {SpanIn(K, d) : d \in PiecesIn(K) \ {c}} = U
  <2>1. \A d \in PiecesIn(K) : SpanIn(K, d) = SpanIn(E, d)
    BY <1>2 DEF SpanIn
  <2> HIDE DEF K
  <2> QED BY <1>3, <2>1
<1>6. lo = IF Listing(E, c - 1) /\ c - 1 \in T THEN OldOf(E, c - 1).end ELSE RawBegin(c)
  <2> HIDE DEF K
  <2> QED BY <1>2, <1>3 DEF LoOf, Listing, OldOf
<1>7. hi = IF Listing(E, c + 1) /\ c + 1 \in T THEN OldOf(E, c + 1).begin ELSE RawEnd(c)
  <2> HIDE DEF K
  <2> QED BY <1>2, <1>3 DEF HiOf, Listing, OldOf
<1>8. g.end = hi /\ g.begin = IF made THEN lowEnd ELSE lo
  BY <1>6, <1>7 DEF EndBefore
<1>9. /\ lo \in Nat /\ hi \in Nat /\ RawBegin(c) <= lo /\ hi <= RawEnd(c) /\ lo <= hi
      /\ RawBegin(c) \in Nat /\ RawEnd(c) \in Nat /\ BlockSpan[c] = RawBegin(c) .. RawEnd(c) - 1
  BY <1>1, <1>4, LowEdge, HighEdge, RawSpan
<1>10. BlockSpan[c] \cap V = IF made THEN RawBegin(c) .. lowEnd - 1 ELSE {}
  <2>1. \A d \in T \ PiecesIn(E) : d < c /\ BlockSpan[d] \cap BlockSpan[c] # {} => d = c - 1
    <3> SUFFICES ASSUME NEW d \in T, d < c, BlockSpan[d] \cap BlockSpan[c] # {} PROVE d = c - 1
      OBVIOUS
    <3>1. d \in Pieces /\ d \in Int /\ d # c /\ d # c + 1
      <4>1. d \in Pieces
        BY <1>1
      <4>2. d \in Int
        BY <4>1 DEF Pieces
      <4> QED BY ONLY d < c, <1>1, <4>1, <4>2
    <3> QED BY <1>1, <3>1, RawShared
  <2>2. CASE made
    <3>1. c - 1 \in {e \in T \ PiecesIn(E) : e < c} /\ c - 1 \in Pieces /\ c - 1 # c
      BY <1>1, <1>3, <2>2
    <3>2. BlockSpan[c - 1] \cap BlockSpan[c] = RawBegin(c) .. lowEnd - 1
      BY <1>1, <3>1, RawShared
    <3> HIDE DEF lowEnd, made
    <3> QED BY <2>1, <2>2, <3>1, <3>2
  <2>3. CASE ~made
    BY <1>3, <2>1, <2>3
  <2> QED BY <2>2, <2>3
<1>11. ASSUME made PROVE lowEnd \in Nat /\ RawBegin(c) <= lowEnd /\ lo = RawBegin(c)
  <2>1. c - 1 \in Pieces /\ c = (c - 1) + 1
    BY <1>1, <1>11
  <2>2. lowEnd \in Nat /\ lowEnd \in {RawBegin(c), RawBegin(c) + 1}
    BY <1>1, <2>1, RawSpan, RawNeighbours
  <2> HIDE DEF lo, lowEnd
  <2> QED BY <1>6, <1>9, <1>11, <2>2
<1> HIDE DEF lo, hi, U, V, lowEnd, made
<1>12. g.begin .. g.end - 1 = (lo .. hi - 1) \ V
  <2>1. (lo .. hi - 1) \ V = (lo .. hi - 1) \ (BlockSpan[c] \cap V)
    BY <1>9
  <2>2. CASE made
    BY <1>8, <1>9, <1>10, <1>11, <2>1, <2>2
  <2>3. CASE ~made
    BY <1>8, <1>10, <2>1, <2>3
  <2> QED BY <2>2, <2>3
<1>13. g.begin .. g.end - 1 = (BlockSpan[c] \ U) \ V
  BY <1>4, <1>5, <1>12
<1> QED BY <1>13 DEF U, V

(* What WishlistEvents says of the upkeep, in terms of the view.           *)
LEMMA UpkeepSaid ==
    ASSUME NEW T, T \subseteq Pieces, Single(ToSet(list))
    PROVE  LET E == ToSet(list)
           IN  /\ \A c \in Pieces : Events!UpkeepSpan(T)[c] =
                    IF c \in PiecesIn(E) \cap T
                    THEN SpansIn(E)[c] \cup (BlockSpan[c] \cap UNION {BlockSpan[d] : d \in Beside(E, T, c)})
                    ELSE IF c \in T
                    THEN (BlockSpan[c] \ UNION {SpansIn(E)[d] : d \in PiecesIn(E) \cap T})
                            \ UNION {BlockSpan[d] : d \in {e \in T \ PiecesIn(E) : e < c}}
                    ELSE {}
               /\ Events!UpkeepSpan(T) = [c \in Pieces |-> Events!UpkeepSpan(T)[c]]
<1> DEFINE E == ToSet(list)
           owned == [c \in Pieces |-> IF c \in Listed THEN Entry(c).begin .. Entry(c).end - 1 ELSE {}]
<1>1. Listed = PiecesIn(E) /\ owned = SpansIn(E)
  BY ViewNow
<1>2. Events!UpkeepSpan(T) = [c \in Pieces |->
        IF c \in Events!Retained(T)
        THEN owned[c] \cup (BlockSpan[c] \cap UNION {BlockSpan[d] : d \in Events!DroppedBeside(T, c)})
        ELSE IF c \in Events!Fresh(T)
        THEN (BlockSpan[c] \ UNION {owned[d] : d \in Events!Retained(T)})
                \ UNION {BlockSpan[d] : d \in {e \in Events!Fresh(T) : e < c}}
        ELSE {}]
  BY Geometry DEF Events!UpkeepSpan
<1> HIDE DEF owned, E
<1>3. Events!Retained(T) = PiecesIn(E) \cap T /\ Events!Fresh(T) = T \ PiecesIn(E)
  BY <1>1 DEF Events!Retained, Events!Fresh
<1>4. \A c : Events!DroppedBeside(T, c) = Beside(E, T, c)
  BY <1>1 DEF Events!DroppedBeside, Events!Dropped, Beside
<1>5. ASSUME NEW c \in Pieces
      PROVE  Events!UpkeepSpan(T)[c] =
                    IF c \in PiecesIn(E) \cap T
                    THEN SpansIn(E)[c] \cup (BlockSpan[c] \cap UNION {BlockSpan[d] : d \in Beside(E, T, c)})
                    ELSE IF c \in T
                    THEN (BlockSpan[c] \ UNION {SpansIn(E)[d] : d \in PiecesIn(E) \cap T})
                            \ UNION {BlockSpan[d] : d \in {e \in T \ PiecesIn(E) : e < c}}
                    ELSE {}
  <2>1. UNION {owned[d] : d \in Events!Retained(T)} = UNION {SpansIn(E)[d] : d \in PiecesIn(E) \cap T}
    BY <1>1, <1>3
  <2>2. UNION {BlockSpan[d] : d \in Events!DroppedBeside(T, c)} = UNION {BlockSpan[d] : d \in Beside(E, T, c)}
    BY <1>4
  <2>3. UNION {BlockSpan[d] : d \in {e \in Events!Fresh(T) : e < c}} = UNION {BlockSpan[d] : d \in {e \in T \ PiecesIn(E) : e < c}}
    BY <1>3
  <2>4. c \in T /\ c \notin PiecesIn(E) \cap T => c \in T \ PiecesIn(E)
    OBVIOUS
  <2>5. CASE c \in PiecesIn(E) \cap T
    BY <1>1, <1>2, <1>3, <2>2, <2>5
  <2>6. CASE c \in T \ PiecesIn(E)
    BY <1>1, <1>2, <1>3, <2>1, <2>3, <2>6
  <2>7. CASE c \notin T
    BY <1>1, <1>2, <1>3, <2>7
  <2> QED BY <2>5, <2>6, <2>7
<1>6. Events!UpkeepSpan(T) = [c \in Pieces |-> Events!UpkeepSpan(T)[c]]
  BY <1>2
<1> QED BY <1>5, <1>6 DEF E

(* The candidates after the upkeep, as the view sees them.                 *)
LEMMA UpkeepSeen ==
    ASSUME NEW E, NEW T, NEW X, Coming(E, T, X), NEW M, M = {NewOf(E, T, X, c) : c \in T}
    PROVE  /\ Single(M) /\ PiecesIn(M) = T
           /\ \A c \in T : OldOf(M, c) = NewOf(E, T, X, c)
<1>1. AllSound(M)
  BY NewSound
<1>2. \A c \in T : NewOf(E, T, X, c).piece = c
  BY NewIs
<1>3. Single(M)
  BY <1>1, <1>2 DEF Single
<1>4. PiecesIn(M) = T
  BY <1>2 DEF PiecesIn
<1>5. \A c \in T : OldOf(M, c) = NewOf(E, T, X, c)
  BY <1>2, <1>3, OnlyOne
<1> QED BY <1>3, <1>4, <1>5

(* The files to be downloaded change.                                      *)
LEMMA WantedRefines ==
    ASSUME ListInv, NEW random \in Randoms, NEW w \in SUBSET Pieces, FilesWanted(w, random)
    PROVE  Events!FilesWanted(w)
<1> DEFINE E == ToSet(list)
           T == Target(w, have)
           X == FreshOf(have, random)
           M == ToSet(list')
           N(c) == Cardinality({p \in Peers : c \in has[p]})
           open == [c \in Pieces |-> IF c \in Listed THEN Entry(c).unrequested ELSE {}]
           g(c) == NewOf(E, T, X, c)
<1>1. list' = Upkeep(list, w, have, random) /\ wanted' = w /\ UNCHANGED <<have, has>>
  BY DEF FilesWanted
<1>2. Settings(random) /\ Single(E)
  BY InvFacts, ListSingle DEF Settings
<1>3. Coming(E, T, X) /\ T \subseteq Pieces
  <2>1. T \subseteq Pieces /\ RawCands(X)
    BY <1>2, FreshIs DEF Target
  <2> QED BY <1>2, <2>1 DEF Coming, Single
<1>4. M = {g(c) : c \in T}
  BY <1>1, <1>2, InvFacts, UpkeepIs
<1>5. Events!Lacking(have, w) = T
  <2>1. \A c \in Pieces : BlockSpan[c] = RawBegin(c) .. RawEnd(c) - 1
    BY RawSpan
  <2> QED BY <2>1, Geometry DEF Events!Lacking, Events!HasPiece, Target
<1>6. \A c \in T : X[c].unrequested = (RawBegin(c) .. RawEnd(c) - 1) \ have /\ X[c].replication = N(c)
  BY <1>2, <1>3, FreshIs DEF Fresh
<1>7. Events!Replication = [c \in Pieces |-> N(c)]
  BY Counting
<1>8. Listed = PiecesIn(E) /\ open = OpenIn(E) /\ \A c : c \in PiecesIn(E) <=> Listing(E, c)
  BY ViewNow DEF PiecesIn, Listing
<1>9. Events!Retained(T) = PiecesIn(E) \cap T /\ Events!Fresh(T) = T \ PiecesIn(E)
  BY <1>8 DEF Events!Retained, Events!Fresh
<1>10. \A c : Events!DroppedBeside(T, c) = Beside(E, T, c)
  BY <1>8 DEF Events!DroppedBeside, Events!Dropped, Beside
<1>11. /\ \A c \in Pieces : Events!UpkeepSpan(T)[c] =
             IF c \in PiecesIn(E) \cap T
             THEN SpansIn(E)[c] \cup (BlockSpan[c] \cap UNION {BlockSpan[d] : d \in Beside(E, T, c)})
             ELSE IF c \in T
             THEN (BlockSpan[c] \ UNION {SpansIn(E)[d] : d \in PiecesIn(E) \cap T})
                     \ UNION {BlockSpan[d] : d \in {e \in T \ PiecesIn(E) : e < c}}
             ELSE {}
       /\ Events!UpkeepSpan(T) = [c \in Pieces |-> Events!UpkeepSpan(T)[c]]
  <2> HIDE DEF T
  <2> QED BY <1>2, <1>3, UpkeepSaid
<1>12. Events!UpkeepUnrequested(T, have) = [c \in Pieces |->
         IF c \in Events!Retained(T)
         THEN open[c] \cup (BlockSpan[c] \cap UNION {open[d] : d \in Events!DroppedBeside(T, c)})
         ELSE IF c \in Events!Fresh(T) THEN Events!UpkeepSpan(T)[c] \ have
         ELSE {}]
  <2> HIDE DEF T
  <2> QED BY Geometry DEF Events!UpkeepUnrequested
<1>13. Events!UpkeepReplication(T, Events!Replication) = [c \in Pieces |->
         IF c \in PiecesIn(E) \cap T THEN CountIn(E)[c] ELSE IF c \in T \ PiecesIn(E) THEN N(c) ELSE 0]
  <2> HIDE DEF T, N
  <2> QED BY <1>7, <1>9, ViewNow, Geometry DEF Events!UpkeepReplication
<1> HIDE DEF T, X, M, N, open, E
<1>14. Single(M) /\ PiecesIn(M) = T /\ \A c \in T : OldOf(M, c) = g(c)
  <2>1. M = {NewOf(E, T, X, c) : c \in T}
    BY <1>4
  <2> QED BY <1>3, <2>1, UpkeepSeen
<1> HIDE DEF g
<1>15. \A c \in Pieces : /\ SpansIn(M)[c] = IF c \in T THEN g(c).begin .. g(c).end - 1 ELSE {}
                         /\ OpenIn(M)[c] = IF c \in T THEN g(c).unrequested ELSE {}
                         /\ CountIn(M)[c] = IF c \in T THEN g(c).replication ELSE 0
  BY <1>14 DEF SpansIn, OpenIn, CountIn, SpanIn
<1>16. \A c \in PiecesIn(E) \cap Pieces :
         /\ SpansIn(E)[c] = SpanIn(E, c) /\ OpenIn(E)[c] = OldOf(E, c).unrequested
         /\ CountIn(E)[c] = OldOf(E, c).replication
  BY DEF SpansIn, OpenIn, CountIn
<1>17. ASSUME NEW c \in T, c \in PiecesIn(E)
       PROVE  /\ g(c).begin .. g(c).end - 1
                 = SpansIn(E)[c] \cup (BlockSpan[c] \cap UNION {BlockSpan[d] : d \in Beside(E, T, c)})
              /\ g(c).unrequested
                 = OpenIn(E)[c] \cup (BlockSpan[c] \cap UNION {OpenIn(E)[d] : d \in Beside(E, T, c)})
              /\ g(c).replication = CountIn(E)[c]
  <2>1. Listing(E, c) /\ c \in Pieces
    BY <1>3, <1>8, <1>17
  <2>2. g(c).begin .. g(c).end - 1
        = SpanIn(E, c) \cup (BlockSpan[c] \cap UNION {BlockSpan[d] : d \in Beside(E, T, c)})
    BY <1>3, <2>1, StayingSpan DEF g
  <2>3. g(c).unrequested
        = OldOf(E, c).unrequested \cup (BlockSpan[c] \cap UNION {OpenIn(E)[d] : d \in Beside(E, T, c)})
    BY <1>3, <2>1, StayingOpen DEF g
  <2>4. g(c).replication = OldOf(E, c).replication
    BY <1>3, <2>1, StayingIs DEF g
  <2> QED BY <1>16, <1>17, <2>1, <2>2, <2>3, <2>4
<1>18. ASSUME NEW c \in T, c \notin PiecesIn(E)
       PROVE  /\ g(c).begin .. g(c).end - 1
                 = (BlockSpan[c] \ UNION {SpansIn(E)[d] : d \in PiecesIn(E) \cap T})
                     \ UNION {BlockSpan[d] : d \in {e \in T \ PiecesIn(E) : e < c}}
              /\ g(c).unrequested = (g(c).begin .. g(c).end - 1) \ have
              /\ g(c).replication = N(c)
  <2>1. ~Listing(E, c)
    BY <1>8, <1>18
  <2>2. /\ g(c).begin = IF c - 1 \in T THEN EndBefore(E, c - 1) ELSE RawBegin(c)
        /\ g(c).end = IF Listing(E, c + 1) /\ c + 1 \in T THEN OldOf(E, c + 1).begin ELSE RawEnd(c)
        /\ g(c).unrequested = (g(c).begin .. g(c).end - 1) \ have
        /\ g(c).replication = X[c].replication
    BY <1>3, <1>6, <2>1, MadeIs DEF g
  <2>3. g(c).begin .. g(c).end - 1
        = (BlockSpan[c] \ UNION {SpanIn(E, d) : d \in PiecesIn(E) \cap T})
             \ UNION {BlockSpan[d] : d \in {e \in T \ PiecesIn(E) : e < c}}
    BY <1>3, <2>1, <2>2, MadeSpan
  <2>4. UNION {SpanIn(E, d) : d \in PiecesIn(E) \cap T} = UNION {SpansIn(E)[d] : d \in PiecesIn(E) \cap T}
    BY <1>3, <1>16
  <2> QED BY <1>6, <2>2, <2>3, <2>4
<1>19. Events!UpkeepSpan(T) = SpansIn(M)
  <2>1. SpansIn(M) = [c \in Pieces |-> SpansIn(M)[c]]
    BY DEF SpansIn
  <2>2. \A c \in Pieces : Events!UpkeepSpan(T)[c] = SpansIn(M)[c]
    BY <1>11, <1>15, <1>17, <1>18
  <2> QED BY <1>11, <2>1, <2>2
<1>20. Events!UpkeepUnrequested(T, have) = OpenIn(M)
  <2>1. OpenIn(M) = [c \in Pieces |-> OpenIn(M)[c]]
    BY DEF OpenIn
  <2>2. ASSUME NEW c \in Pieces PROVE Events!UpkeepUnrequested(T, have)[c] = OpenIn(M)[c]
    <3>1. UNION {open[d] : d \in Events!DroppedBeside(T, c)} = UNION {OpenIn(E)[d] : d \in Beside(E, T, c)}
      BY <1>8, <1>10
    <3>2. CASE c \in PiecesIn(E) \cap T
      BY <1>8, <1>9, <1>12, <1>15, <1>17, <3>1, <3>2
    <3>3. CASE c \in T \ PiecesIn(E)
      <4>1. Events!UpkeepUnrequested(T, have)[c] = Events!UpkeepSpan(T)[c] \ have
        BY <1>9, <1>12, <3>3
      <4>2. OpenIn(M)[c] = g(c).unrequested /\ SpansIn(M)[c] = g(c).begin .. g(c).end - 1
        BY <1>15, <3>3
      <4>3. g(c).unrequested = (g(c).begin .. g(c).end - 1) \ have
        BY <1>18, <3>3
      <4> QED BY <1>19, <4>1, <4>2, <4>3
    <3>4. CASE c \notin T
      BY <1>9, <1>12, <1>15, <3>4
    <3> QED BY <3>2, <3>3, <3>4
  <2>3. Events!UpkeepUnrequested(T, have) = [c \in Pieces |-> Events!UpkeepUnrequested(T, have)[c]]
    BY <1>12
  <2> QED BY <2>1, <2>2, <2>3
<1>21. Events!UpkeepReplication(T, Events!Replication) = CountIn(M)
  <2>1. CountIn(M) = [c \in Pieces |-> CountIn(M)[c]]
    BY DEF CountIn
  <2>2. \A c \in Pieces : CountIn(M)[c] = IF c \in PiecesIn(E) \cap T THEN CountIn(E)[c]
                                          ELSE IF c \in T \ PiecesIn(E) THEN N(c) ELSE 0
    BY <1>15, <1>17, <1>18
  <2> QED BY <1>13, <2>1, <2>2
<1> QED BY <1>1, <1>5, <1>14, <1>19, <1>20, <1>21, ViewNext DEF Events!FilesWanted, M

(* Every step of the list is an event of the wishlist, or none.            *)
LEMMA StepRefines ==
    ASSUME ListInv, [Next]_vars
    PROVE  [Events!Next]_Events!vars
<1>1. ASSUME NEW random \in Randoms, NEW w \in Selections, FilesWanted(w, random)
      PROVE  Events!Next
  <2>1. w \in SUBSET Pieces
    BY ListAssumption
  <2>2. Events!FilesWanted(w)
    BY <1>1, <2>1, WantedRefines
  <2> QED BY <2>2 DEF Events!Next
<1>2. ASSUME NEW random \in Randoms, NEW b \in Blocks \ have,
             NEW Bad \in {{}} \cup {{c} : c \in Events!CompletedBy(b)}, Receive(b, Bad, random)
      PROVE  Events!Next
  <2>1. Events!Receive(b, Bad)
    <3>1. CASE Bad = {}
      BY <1>2, <3>1, ReceiveGoodRefines
    <3>2. CASE Bad # {}
      <4>1. PICK c \in Events!CompletedBy(b) : Bad = {c}
        BY <3>2
      <4>2. c \in Pieces
        BY Geometry DEF Events!CompletedBy
      <4> QED BY <1>2, <4>1, <4>2, ReceiveBadRefines
    <3> QED BY <3>1, <3>2
  <2>2. b \in Events!Blocks \ have
    BY Geometry
  <2> QED BY <2>1, <2>2 DEF Events!Next
<1>3. ASSUME NEW random \in Randoms, SequentialChanged(random) PROVE UNCHANGED Events!vars
  BY <1>3, SequentialRefines
<1>4. ASSUME NEW random \in Randoms, NEW c \in FromPieces, FromPieceChanged(c, random)
      PROVE  UNCHANGED Events!vars
  BY <1>4, FromPieceRefines, ListAssumption
<1>5. ASSUME NEW p \in Peers, NEW n \in 1 .. BlockCount, SendRequests(p, n) PROVE Events!Next
  BY <1>5, SendRefines DEF Events!Next
<1>6. ASSUME NEW b \in Requested, GotReject(b) PROVE Events!Next
  <2>1. b \in Blocks \ have
    BY Requestable
  <2> QED BY <1>6, <2>1, RejectRefines DEF Events!Next
<1>7. ASSUME NEW B \in SUBSET Requested, GotChoke(B) PROVE Events!Next
  <2>1. B \in SUBSET (Blocks \ have)
    BY Requestable
  <2> QED BY <1>7, <2>1, ChokeRefines DEF Events!Next
<1>8. ASSUME NEW p \in Peers, NEW B \in SUBSET Requested, PeerDisconnect(p, B) PROVE Events!Next
  <2>1. B \in SUBSET (Blocks \ have)
    BY Requestable
  <2> QED BY <1>8, <2>1, DisconnectRefines DEF Events!Next
<1>9. ASSUME NEW p \in Peers, NEW c \in Pieces, GotHave(p, c) PROVE Events!Next
  <2>1. Events!Learn(p, has[p] \cup {c}, {c}) /\ c \in Events!Pieces \ has[p]
    BY <1>9, HaveRefines, Geometry
  <2> QED BY <2>1 DEF Events!Next
<1>10. ASSUME NEW p \in Peers, NEW P \in PeerPieces, GotBitfield(p, P) PROVE Events!Next
  <2>1. P \in SUBSET Pieces
    BY ListAssumption
  <2>2. Events!Learn(p, P, P)
    BY <1>10, <2>1, BitfieldRefines
  <2>3. P \in SUBSET Events!Pieces
    BY <2>1, Geometry
  <2> QED BY <2>2, <2>3 DEF Events!Next
<1>11. ASSUME NEW h \in HighPriorities, PriorityChanged(h) PROVE UNCHANGED Events!vars
  BY <1>11, PriorityRefines
<1>12. ASSUME UNCHANGED vars PROVE UNCHANGED Events!vars
  <2>1. SameView(ToSet(list), ToSet(list'))
    BY <1>12 DEF vars, SameView
  <2>2. UNCHANGED <<have, wanted, has>>
    BY <1>12 DEF vars
  <2> QED BY <2>1, <2>2, StutterIs
<1>13. ASSUME Next PROVE Events!Next \/ UNCHANGED Events!vars
  BY <1>1, <1>2, <1>3, <1>4, <1>5, <1>6, <1>7, <1>8, <1>9, <1>10, <1>11, <1>13, Zenon DEF Next
<1> QED BY <1>12, <1>13

(* The vector, its indices and its partial resorts compute what the events *)
(* promise of the sets: which pieces are candidates, the blocks that each  *)
(* of them owns and may still request, and how many peers have it, after   *)
(* every handler, for torrents of any size and swarms of any number.       *)
THEOREM ListImplementsEvents == Spec => ImplementsEvents
<1>1. Init => Events!Init
  BY InitRefines
<1>2. ListInv /\ [Next]_vars => [Events!Next]_Events!vars
  BY StepRefines
<1>3. Spec => []ListInv
  BY ListHolds
<1> QED BY <1>1, <1>2, <1>3, PTL DEF Spec, ImplementsEvents, Events!Spec
=============================================================================
