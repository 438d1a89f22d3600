---------------------------- MODULE WishlistList ----------------------------
(***************************************************************************)
(* The wishlist as it is written: a vector of candidates, each with the    *)
(* begin and end index of its blocks, kept sorted so that next() can take  *)
(* from the front; handlers walk it, hand edge blocks over by index, and   *)
(* sort it again or move the one candidate that changed.                   *)
(*                                                                         *)
(* The set-level view of it implements WishlistEvents; the order, which    *)
(* that view does not have, is what the invariants are about.              *)
(***************************************************************************)
EXTENDS BlockInfo, Sequences, SequencesExt

CONSTANTS Peers, Selections,
          Salts,              \* what salter_ may yield
          HighPriorities,     \* the sets of pieces that may have high priority
          TogglesMidway,      \* may is_sequential_download() be switched while
                              \* there are candidates?
          FromPieces,         \* what sequential_download_from_piece() may be
          PeerPieces,         \* the sets of pieces that a peer may have
          MaxReplication      \* bound on a candidate's replication, for TLC

ASSUME ListAssumption ==
    /\ IsFiniteSet(Peers)
    /\ Selections \subseteq SUBSET Pieces
    /\ Salts \subseteq Nat
    /\ HighPriorities \subseteq SUBSET Pieces
    /\ TogglesMidway \in BOOLEAN
    /\ FromPieces \subseteq Pieces
    /\ PeerPieces \subseteq SUBSET Pieces
    /\ MaxReplication \in Nat

VARIABLES list,           \* candidates_
          high,           \* the pieces of high priority
          sequential,     \* is_sequential_download()
          fromPiece,      \* sequential_download_from_piece()
          have, wanted, has  \* as in WishlistEvents

settings == <<high, sequential, fromPiece>>
vars == <<list, settings, have, wanted, has>>

Listed == {list[i].piece : i \in DOMAIN list}
Entry(c) == CHOOSE e \in ToSet(list) : e.piece = c

Events == INSTANCE WishlistEvents WITH
    candidates  <- Listed,
    block_span  <- [c \in Pieces |-> IF c \in Listed THEN Entry(c).begin .. Entry(c).end - 1 ELSE {}],
    unrequested <- [c \in Pieces |-> IF c \in Listed THEN Entry(c).unrequested ELSE {}],
    replication <- [c \in Pieces |-> IF c \in Listed THEN Entry(c).replication ELSE 0]

RawBegin(c) == BlockOfByte(PieceBegin(c))
RawEnd(c)   == BlockOfByte(PieceEnd(c) - 1) + 1

Priority(c) == IF c \in high THEN 1 ELSE 0

-----------------------------------------------------------------------------
(* The order.                                                              *)

(* operator<=>, as less-than.                                              *)
Less(x, y) ==
    LET m == Cardinality(x.unrequested)
        n == Cardinality(y.unrequested)
    IN  IF ~x.is_sequential /\ m # n THEN m < n
        ELSE IF x.priority # y.priority THEN x.priority > y.priority
        ELSE IF x.replication # y.replication THEN x.replication < y.replication
        ELSE x.salt < y.salt

(* std::ranges::sort: an insertion sort, at these lengths.                 *)
Insert(l, x, Before(_, _)) ==
    InsertAt(l, SelectLastInSeq(l, LAMBDA y : ~Before(x, y)) + 1, x)
Sort(l)        == FoldLeft(LAMBDA s, x : Insert(s, x, Less), <<>>, l)
SortByPiece(l) == FoldLeft(LAMBDA s, x : Insert(s, x, LAMBDA y, z : y.piece < z.piece), <<>>, l)

(* How many of l[m..n] are before x: where lower_bound points, from m.     *)
LowerBound(l, m, n, x) == Cardinality({k \in m .. n : Less(l[k], x)})

ResortForward(l, i) ==                                            \* mutant
    IF i > 1 /\ Less(l[i], l[i - 1])
    THEN InsertAt(RemoveAt(l, i), 1 + LowerBound(l, 1, i - 1, l[i]), l[i])
    ELSE l

(* resort_piece: the candidate at i moves to the front or to the back.     *)
Resort(l, i) ==
    IF i > 1 /\ Less(l[i], l[i - 1])
    THEN InsertAt(RemoveAt(l, i), 1 + LowerBound(l, 1, i - 1, l[i]), l[i])
    ELSE IF i < Len(l) /\ Less(l[i + 1], l[i])
    THEN InsertAt(RemoveAt(l, i), i + LowerBound(l, i + 1, Len(l), l[i]), l[i])
    ELSE l

(* get_salt in sequential mode, with n pieces: the first and the last one, *)
(* then those from `from' on.                                              *)
SequentialSalt(n, c, from) ==
    IF c = 0 THEN 0
    ELSE IF c = n - 1 THEN 1
    ELSE IF from <= 1 THEN c + 1
    ELSE IF c < from THEN n - (from - c)
    ELSE c - from + 2

Salt(c, random, seq, from) ==
    IF seq THEN SequentialSalt(PieceCount, c, from) ELSE random[c]

-----------------------------------------------------------------------------
(* Candidates.                                                             *)

Candidate(c, H, salt) ==
    [piece |-> c, begin |-> RawBegin(c), end |-> RawEnd(c),
     unrequested |-> (RawBegin(c) .. RawEnd(c) - 1) \ H,
     replication |-> Cardinality({p \in Peers : c \in has[p]}),
     priority |-> Priority(c), salt |-> salt, is_sequential |-> sequential]

(* find_by_piece, find_by_block: an index, zero when there is none.        *)
FindPiece(l, c) == SelectInSeq(l, LAMBDA e : e.piece = c)
FindBlock(l, b) == SelectInSeq(l, LAMBDA e : e.begin <= b /\ b < e.end)

(* The numbers below n.                                                    *)
Ascending(n) == [i \in 1 .. n |-> i - 1]

Min2(m, n) == IF m < n THEN m ELSE n
Max2(m, n) == IF m > n THEN m ELSE n

CutEndKeeps(e, b)   == [e EXCEPT !.end = Min2(@, b)]              \* mutant
CutBeginKeeps(e, b) == [e EXCEPT !.unrequested = {x \in @ : x >= b}] \* mutant

(* The candidate gives up its blocks from b on, or those before b.         *)
CutEnd(e, b)   == [e EXCEPT !.end = Min2(@, b), !.unrequested = {x \in @ : x < b}]
CutBegin(e, b) == [e EXCEPT !.begin = Max2(@, b), !.unrequested = {x \in @ : x >= b}]

(* The candidate owns all of its piece again towards the end, or towards   *)
(* the beginning; what can be requested there is known to its neighbour.   *)
RegainEnd(e, from) ==
    [e EXCEPT !.end = RawEnd(e.piece),
              !.unrequested = @ \cup ((e.end .. RawEnd(e.piece) - 1) \cap from.unrequested)]
RegainBegin(e, from) ==
    [e EXCEPT !.begin = RawBegin(e.piece),
              !.unrequested = @ \cup ((RawBegin(e.piece) .. e.begin - 1) \cap from.unrequested)]

-----------------------------------------------------------------------------
(* candidate_list_upkeep: a walk over the pieces and, with the index at,   *)
(* over the old candidates, which come first and by piece; prev points to  *)
(* the last candidate that was kept or made, zero when there is none or    *)
(* when one has been erased since.                                         *)

Keep(w) ==
    [w EXCEPT !.list = IF w.prev = 0 THEN @
                       ELSE [w.list EXCEPT ![w.prev] = CutEnd(@, w.list[w.at].begin)],
              !.at = @ + 1, !.prev = w.at]

Make(w, c, H, salt) ==
    LET fresh == Candidate(c, H, salt)
    IN  [w EXCEPT !.list = Append(@, IF w.prev = 0 THEN fresh
                                     ELSE CutBegin(fresh, w.list[w.prev].end)),
                  !.prev = Len(w.list) + 1]

EraseKeepsBegin(w) ==                                             \* mutant
    LET e == w.list[w.at]
        l == IF w.prev # 0 /\ w.list[w.prev].piece + 1 = e.piece
             THEN [w.list EXCEPT ![w.prev] = RegainEnd(@, e)] ELSE w.list
    IN  [w EXCEPT !.list = RemoveAt(l, w.at), !.old = @ - 1, !.prev = 0]

Erase(w) ==
    LET e == w.list[w.at]
        l == IF w.prev # 0 /\ w.list[w.prev].piece + 1 = e.piece
             THEN [w.list EXCEPT ![w.prev] = RegainEnd(@, e)] ELSE w.list
        m == IF w.at < w.old /\ l[w.at + 1].piece = e.piece + 1
             THEN [l EXCEPT ![w.at + 1] = RegainBegin(@, e)] ELSE l
    IN  [w EXCEPT !.list = RemoveAt(m, w.at), !.old = @ - 1, !.prev = 0]

Upkeep(l, W, H, random) ==
    LET Walk(w, c) ==
            LET existing == w.at <= w.old /\ w.list[w.at].piece = c
                target   == c \in W /\ ~((RawBegin(c) .. RawEnd(c) - 1) \subseteq H)
            IN  IF target THEN IF existing THEN Keep(w) ELSE Make(w, c, H, Salt(c, random, sequential, fromPiece))
                ELSE IF existing THEN Erase(w) ELSE w
    IN  Sort(FoldLeft(Walk, [list |-> SortByPiece(l), old |-> Len(l), at |-> 1, prev |-> 0],
                      Ascending(PieceCount)).list)

-----------------------------------------------------------------------------
(* The other handlers, as functions of the list.                           *)

(* on_got_bad_piece                                                        *)
BadPiece(l, c, H, salt) ==
    LET i == IF FindPiece(l, c) = 0 THEN Len(l) + 1 ELSE FindPiece(l, c)
        made == IF i > Len(l) THEN Append(l, Candidate(c, H, salt))
                              ELSE ReplaceAt(l, i, Candidate(c, H, salt))
        j == IF c > 0 THEN FindPiece(made, c - 1) ELSE 0
        left == IF j = 0 THEN made
                ELSE LET e == CutBegin(made[i], made[j].end)
                     IN  [made EXCEPT ![i] = e,
                            ![j].unrequested = @ \cup (RawBegin(c) .. e.begin - 1)]
        k == IF c < PieceCount - 1 THEN FindPiece(left, c + 1) ELSE 0
        both == IF k = 0 THEN left
                ELSE LET e == CutEnd(left[i], left[k].begin)
                     IN  [left EXCEPT ![i] = e,
                            ![k].unrequested = @ \cup (e.end .. RawEnd(c) - 1)]
    IN  Sort(both)

(* remove_piece                                                            *)
RemovePiece(l, c) ==
    IF FindPiece(l, c) = 0 THEN l ELSE RemoveAt(l, FindPiece(l, c))

(* on_got_block, reset_block                                               *)
GotBlock(l, b) ==
    LET i == FindBlock(l, b)
    IN  IF i = 0 THEN l ELSE Resort([l EXCEPT ![i].unrequested = @ \ {b}], i)
ResetBlock(l, b) ==
    LET i == FindBlock(l, b)
    IN  IF i = 0 THEN l ELSE Resort([l EXCEPT ![i].unrequested = @ \cup {b}], i)

(* reset_blocks_bitfield                                                   *)
ResetBlocks(l, B) ==
    Sort([i \in DOMAIN l |->
            [l[i] EXCEPT !.unrequested = @ \cup ((l[i].begin .. l[i].end - 1) \cap B)]])

(* inc_replication_bitfield, dec_replication_bitfield, with those that     *)
(* change the replication of all candidates and sort nothing.              *)
CountBitfield(l, P, n) ==
    LET m == [i \in DOMAIN l |-> IF l[i].piece \in P
                                 THEN [l[i] EXCEPT !.replication = @ + n] ELSE l[i]]
    IN  IF P \in {{}, Pieces} THEN m ELSE Sort(m)

(* inc_replication of one piece, in on_got_have                            *)
CountPiece(l, c) ==
    LET i == FindPiece(l, c)
    IN  IF i = 0 THEN l ELSE Resort([l EXCEPT ![i].replication = @ + 1], i)

(* requested_block_span, from owner to owner.                              *)
RequestedSpan(l, span) ==
    LET Take(w, b) ==
            LET i == FindBlock(w.list, b)
            IN  IF b < w.block THEN w
                ELSE IF i = 0 THEN [w EXCEPT !.block = span.end]
                ELSE [list  |-> Resort([w.list EXCEPT ![i].unrequested =
                                          @ \ (span.begin .. span.end - 1)], i),
                      block |-> w.list[i].end]
    IN  FoldLeft(Take, [list |-> l, block |-> span.begin],
                 [i \in 1 .. span.end - span.begin |-> span.begin + i - 1]).list

-----------------------------------------------------------------------------
(* next: at most n blocks, from the front of the list, of the pieces P.    *)

Lowest(S, n) == {x \in S : Cardinality({y \in S : y < x}) < n}

NextAnyReplication(n, P) ==                                       \* mutant
    FoldLeft(LAMBDA got, e :
                IF e.piece \notin P THEN got
                ELSE got \cup Lowest(e.unrequested, n - Cardinality(got)), {}, list)

NextBlocks(n, P) ==
    FoldLeft(LAMBDA got, e :
                IF e.replication = 0 \/ e.piece \notin P THEN got
                ELSE got \cup Lowest(e.unrequested, n - Cardinality(got)), {}, list)

(* make_spans: the span of B that begins at b.                             *)
SpanFrom(B, b) ==
    [begin |-> b,
     end   |-> CHOOSE e \in b .. BlockCount : e \notin B /\ (b .. e - 1) \subseteq B]

-----------------------------------------------------------------------------
(* What happens to the torrent and its swarm.  The salter's next numbers   *)
(* are in random.                                                          *)

Randoms == [Pieces -> Salts]

Init ==
    /\ list = <<>>
    /\ high = {} /\ sequential = FALSE /\ fromPiece = 0
    /\ have = {} /\ wanted = {} /\ has = [p \in Peers |-> {}]

(* on_files_wanted_changed, and the constructor                            *)
FilesWanted(w, random) ==
    /\ wanted' = w
    /\ list' = Upkeep(list, w, have, random)
    /\ UNCHANGED <<settings, have, has>>

(* on_got_block, then on_piece_completed and on_got_bad_piece for what the *)
(* block completes.                                                        *)
Receive(b, Bad, random) ==
    LET H    == Events!HaveAfter(b, Bad)
        Complete(l, c) == IF c \in Events!GoodBefore(b, Bad) THEN RemovePiece(l, c) ELSE l
        kept == FoldLeft(Complete, GotBlock(list, b), Ascending(PieceCount))
    IN  /\ have' = H
        /\ list' = IF Bad = {} THEN kept
                   ELSE LET c == CHOOSE d \in Bad : TRUE
                        IN  BadPiece(kept, c, H, Salt(c, random, sequential, fromPiece))
        /\ UNCHANGED <<settings, wanted, has>>

(* tr_peerMgrGetNextRequests, then on_sent_request for each span           *)
SendRequests(p, n) ==
    LET B == NextBlocks(n, has[p])
        Sent(l, b) == IF b \in B /\ b - 1 \notin B THEN RequestedSpan(l, SpanFrom(B, b)) ELSE l
    IN
    /\ B # {}
    /\ list' = FoldLeft(Sent, list, Ascending(BlockCount))
    /\ UNCHANGED <<settings, have, wanted, has>>

(* on_got_reject, on_sent_cancel                                           *)
GotReject(b) ==
    /\ list' = ResetBlock(list, b)
    /\ UNCHANGED <<settings, have, wanted, has>>

(* on_got_choke: B are the blocks asked of the peer.                       *)
GotChoke(B) ==
    /\ list' = ResetBlocks(list, B)
    /\ UNCHANGED <<settings, have, wanted, has>>

(* on_peer_disconnect                                                      *)
PeerDisconnect(p, B) ==
    /\ list' = ResetBlocks(CountBitfield(list, has[p], -1), B)
    /\ has' = [has EXCEPT ![p] = {}]
    /\ UNCHANGED <<settings, have, wanted>>

(* Have, Bitfield and HaveAll: a peer turns out to have the pieces P, and  *)
(* the list becomes counted.  A piece may be counted more than once.       *)
LearnPieces(p, P, counted) ==
    /\ P \in PeerPieces
    /\ \A i \in DOMAIN list : list[i].replication < MaxReplication
    /\ has' = [has EXCEPT ![p] = P]
    /\ list' = counted
    /\ UNCHANGED <<settings, have, wanted>>

(* on_got_have: only the first of several for a piece gets here.           *)
GotHave(p, c) == c \notin has[p] /\ LearnPieces(p, has[p] \cup {c}, CountPiece(list, c))

(* on_got_bitfield, on_got_have_all; HaveNone, which takes nothing off the *)
(* replication, is as an empty bitfield.                                   *)
GotBitfield(p, P) == LearnPieces(p, P, CountBitfield(list, P, 1))

(* on_priority_changed                                                     *)
PriorityChanged(h) ==
    /\ h # high /\ high' = h
    /\ list' = Sort([i \in DOMAIN list |->
                       [list[i] EXCEPT !.priority = IF list[i].piece \in h THEN 1 ELSE 0]])
    /\ UNCHANGED <<sequential, fromPiece, have, wanted, has>>

(* recalculate_salt                                                        *)
Resalted(seq, from, random) ==
    Sort([i \in DOMAIN list |-> [list[i] EXCEPT !.salt = Salt(list[i].piece, random, seq, from)]])

(* The user may switch at any time.  A candidate keeps the is_sequential it *)
(* was made with, so that a switch while there are candidates has the list *)
(* ordered in two ways at once; what that leads to is seen with            *)
(* TogglesMidway, and what the list promises otherwise without it.         *)
SequentialChanged(random) ==
    /\ TogglesMidway \/ list = <<>>
    /\ sequential' = ~sequential
    /\ list' = Resalted(~sequential, fromPiece, random)
    /\ UNCHANGED <<high, fromPiece, have, wanted, has>>

FromPieceChanged(c, random) ==
    /\ c # fromPiece /\ fromPiece' = c
    /\ list' = Resalted(sequential, c, random)
    /\ UNCHANGED <<high, sequential, have, wanted, has>>

(* The blocks that can have been asked for: to reset another one, which is *)
(* here, or listed as unrequested, or owned by nobody, changes nothing.    *)
Requested == (UNION {(e.begin .. e.end - 1) \ e.unrequested : e \in ToSet(list)}) \ have

Next ==
    \/ \E random \in Randoms :
        \/ \E w \in Selections : FilesWanted(w, random)
        \/ \E b \in Blocks \ have :
             \E Bad \in {{}} \cup {{c} : c \in Events!CompletedBy(b)} : Receive(b, Bad, random)
        \/ SequentialChanged(random)
        \/ \E c \in FromPieces : FromPieceChanged(c, random)
    \/ \E p \in Peers, n \in 1 .. BlockCount : SendRequests(p, n)
    \/ \E b \in Requested : GotReject(b)
    \/ \E B \in SUBSET Requested : GotChoke(B)
    \/ \E p \in Peers, B \in SUBSET Requested : PeerDisconnect(p, B)
    \/ \E p \in Peers, c \in Pieces : GotHave(p, c)
    \/ \E p \in Peers, P \in PeerPieces : GotBitfield(p, P)
    \/ \E h \in HighPriorities : PriorityChanged(h)

Spec == Init /\ [][Next]_vars

-----------------------------------------------------------------------------
(* Types; a piece is listed once.                                          *)
TypeOK ==
    /\ \A i \in DOMAIN list :
        LET e == list[i] IN
        /\ e.piece \in Pieces
        /\ RawBegin(e.piece) <= e.begin /\ e.begin <= e.end /\ e.end <= RawEnd(e.piece)
        /\ e.unrequested \subseteq e.begin .. e.end - 1
        /\ e.replication \in Nat
        /\ e.priority = Priority(e.piece)
        /\ e.salt \in Salts \cup Pieces /\ e.is_sequential \in BOOLEAN
    /\ \A i, j \in DOMAIN list : list[i].piece = list[j].piece => i = j
    /\ have \subseteq Blocks /\ wanted \in Selections \cup {{}}
    /\ has \in [Peers -> SUBSET Pieces]

(* The wishlist keeps its candidates sorted although most handlers move    *)
(* only one of them or sort nothing at all, so that the binary searches of *)
(* resort_piece and the walk of next() find what they look for.            *)
ListSorted == \A i, j \in DOMAIN list : i < j => ~Less(list[j], list[i])

(* The ends of neighbouring candidates meet: there is no gap between them  *)
(* and no overlap, in whatever order they came to the list.  It is what    *)
(* on_got_bad_piece asserts of the candidate it makes (TR_ASSERT).         *)
NeighboursMeet == \A x, y \in ToSet(list) :
    y.piece = x.piece + 1 => y.begin = x.end

(* Every span that next() returns lies in candidates to whom each of its   *)
(* blocks is unrequested, so that requested_block_span may dereference the *)
(* first and the last of them; there are as many blocks as were asked for  *)
(* or can be had; and no candidate was passed over for a later one.        *)
NextIsBest == \A n \in 1 .. BlockCount, P \in SUBSET Pieces :
    LET B  == NextBlocks(n, P)
        able == {i \in DOMAIN list : list[i].replication > 0 /\ list[i].piece \in P}
    IN  /\ \A b \in B : \E i \in able : b \in list[i].unrequested
        /\ Cardinality(B) = Min2(n, Cardinality(UNION {list[i].unrequested : i \in able}))
        /\ \A i, j \in able : /\ Less(list[i], list[j])
                              /\ list[j].unrequested \cap B # {}
                              => list[i].unrequested \subseteq B

(* The place of piece c, of n, in a sequential download from piece `from'. *)
Rank(n, c, from) ==
    IF c = 0 THEN 0 ELSE IF c = n - 1 THEN 1 ELSE IF c >= from THEN c - from + 2 ELSE c + n

(* get_salt puts n pieces in that order.                                   *)
SaltsRotate(n) == \A c, d, from \in 0 .. n - 1 :
    SequentialSalt(n, c, from) < SequentialSalt(n, d, from) <=> Rank(n, c, from) < Rank(n, d, from)

(* Sequential download takes, among pieces of the same priority and        *)
(* replication, the first one, the last one, and then those from fromPiece *)
(* on in order, going round at the end ("we should get pieces in           *)
(* sequential order when we ask for blocks",                               *)
(* peer-mgr-wishlist-test.cc).  It is kept where the mode is only switched *)
(* while there are no candidates, and lost with TogglesMidway.             *)
SequentialOrder ==
    sequential => \A i, j \in DOMAIN list :
        /\ i < j
        /\ list[i].priority = list[j].priority
        /\ list[i].replication = list[j].replication
        => Rank(PieceCount, list[i].piece, fromPiece) < Rank(PieceCount, list[j].piece, fromPiece)

(* The vector, its indices and its partial resorts compute what the events *)
(* promise of the sets.                                                    *)
ImplementsEvents == Events!Spec

=============================================================================
