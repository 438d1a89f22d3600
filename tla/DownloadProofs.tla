--------------------------- MODULE DownloadProofs ---------------------------
(***************************************************************************)
(* Theorems about Download, for every torrent geometry and every set of    *)
(* peers and webseeds.                                                     *)
(***************************************************************************)
EXTENDS Download, WishlistProofs, FiniteSetTheorems

-----------------------------------------------------------------------------
(* Helpers: what is chosen for a request is available, and what is         *)
(* available is unrequested.                                               *)
LEMMA AsksAvailable ==
    ASSUME NEW may, NEW avail, NEW act, NEW S \in Asks(may, avail, act)
    PROVE  S \subseteq avail
BY DEF Asks

(* See AsksAvailable.                                                      *)
LEMMA WebseedAsksAvailable ==
    ASSUME NEW w, NEW avail, NEW ts, NEW S \in WebseedAsks(w, avail, ts)
    PROVE  S \subseteq avail
BY DEF WebseedAsks

(* See AsksAvailable.                                                      *)
LEMMA AvailableUnrequested ==
    ASSUME NEW cs, NEW un, NEW repl, NEW P, NEW b \in Available(cs, un, repl, P)
    PROVE  \E c \in cs : b \in un[c]
BY DEF Available

(* See AsksAvailable.                                                      *)
LEMMA AvailableBlocks ==
    ASSUME NEW cs, NEW sp, NEW un, Proper(cs, sp, un), NEW repl, NEW P
    PROVE  Available(cs, un, repl, P) \subseteq Blocks
BY DEF Available, Proper

(* The runs of a set of blocks are sets of blocks.                         *)
LEMMA RunsBlocks ==
    ASSUME NEW S \in SUBSET Blocks
    PROVE  Runs(S) \in SUBSET SUBSET Blocks
BY DEF Runs

(* The number of sources of a piece is a natural number.                   *)
LEMMA CountType ==
    ASSUME NEW c, connected \subseteq Peers
    PROVE  CountReplication(c) \in Nat
<1>1. IsFiniteSet(Peers) /\ IsFiniteSet(Webseeds)
  BY SourceAssumption
<1>2. IsFiniteSet({p \in connected : c \in peerHas[p]})
  BY <1>1, FS_Subset
<1>3. Cardinality({p \in connected : c \in peerHas[p]}) \in Nat /\ Cardinality(Webseeds) \in Nat
  BY <1>1, <1>2, FS_CardinalityType
<1> QED
  BY <1>3 DEF CountReplication

(* The part of the type invariant that is about the list.                  *)
LEMMA ProperType ==
    WishlistTypeOK <=> /\ Proper(candidates, block_span, unrequested)
                       /\ replication \in [Pieces -> Int]
BY DEF WishlistTypeOK, Proper

-----------------------------------------------------------------------------
(* The type invariant, action by action.                                   *)

(* The list comes and goes without touching the types.                     *)
LEMMA DropType ==
    ASSUME DropWishlist
    PROVE  WishlistTypeOK' /\ candidates' = {}
BY DEF DropWishlist, WishlistTypeOK, NoBlocks

(* See DropType.                                                           *)
LEMMA UpkeepType ==
    ASSUME WishlistTypeOK, connected \subseteq Peers,
           NEW Target \in SUBSET Pieces, NEW H,
           candidates' = Target,
           block_span' = UpkeepSpan(Target),
           unrequested' = UpkeepUnrequested(Target, H),
           replication' = UpkeepReplication(Target, Counts)
    PROVE  WishlistTypeOK'
<1>1. Proper(candidates', block_span', unrequested')
  BY UpkeepProper, ProperType
<1>2. replication' \in [Pieces -> Int]
  BY CountType, ProperType DEF UpkeepReplication, Counts
<1> QED
  BY <1>1, <1>2 DEF Proper, WishlistTypeOK

(* The checksums that are tested when a block arrives give a verdict.      *)
LEMMA VerdictHolds ==
    ASSUME NEW b, NEW Bad \in Verdicts(b)
    PROVE  Verdict(have \cup {b}, Passed(b, Bad), Bad)
<1>1. Completed(b) \subseteq Pieces /\ \A c \in Completed(b) : BlockSpan[c] \subseteq have \cup {b}
  BY DEF Completed, PiecesOf, HasPiece
<1>2. Bad \subseteq Completed(b) /\ \A c, d \in Bad : c = d
  BY DEF Verdicts
<1>3. Passed(b, Bad) \subseteq Completed(b) /\ \A c \in Passed(b, Bad) : \A d \in Bad : c < d
  BY DEF Passed
<1>4. \A c \in Pieces : ~ c < c
  BY DEF Pieces
<1> QED
  BY <1>1, <1>2, <1>3, <1>4 DEF Verdict

(* Before the next requests are chosen, and after they are sent.           *)
LEMMA ReceivedType ==
    ASSUME TypeOK, NEW b \in Blocks, NEW Bad \in Verdicts(b), BlockReceived(b, Bad)
    PROVE  /\ Proper(candidates', block_span', UnreqAfter(b, Bad))
           /\ replication' \in [Pieces -> Int]
           /\ have' \subseteq Blocks
           /\ needsCheck' \in BOOLEAN
           /\ ~hasWishlist => candidates' = {}
<1> DEFINE Good == Passed(b, Bad)
<1>1. Proper(candidates, block_span, unrequested) /\ replication \in [Pieces -> Int]
  BY ProperType DEF TypeOK
<1>2. have' \subseteq Blocks /\ needsCheck' \in BOOLEAN
  BY DEF BlockReceived, HaveAfter, TypeOK
<1>3. CASE hasWishlist
  <2>1. Proper(candidates, block_span, TakeBlocks(unrequested, {b}))
    BY <1>1, TakeProper
  <2>2. Proper(candidates', block_span', UnreqAfter(b, Bad))
    BY <1>3, <2>1, VerdictHolds, CheckedProper DEF BlockReceived, UnreqAfter
  <2>3. replication' \in [Pieces -> Int]
    <3>1. \A c : CountReplication(c) \in Int
      BY CountType DEF TypeOK
    <3> QED
      BY <1>1, <1>3, <3>1 DEF BlockReceived, CheckedReplication, Counts
  <2> QED
    BY <1>2, <1>3, <2>2, <2>3
<1>4. CASE ~hasWishlist
  BY <1>1, <1>2, <1>4 DEF BlockReceived, UnreqAfter, TypeOK
<1> QED
  BY <1>3, <1>4

(* Requests and their answers without a block: the list stays, up to what  *)
(* is unrequested.                                                         *)
LEMMA SameListType ==
    ASSUME TypeOK, UNCHANGED <<candidates, block_span>>,
           replication' \in [Pieces -> Int],
           NEW un, Proper(candidates, block_span, un), NEW S,
           unrequested' = TakeBlocks(un, S) \/ unrequested' = un
    PROVE  WishlistTypeOK'
<1>1. Proper(candidates, block_span, TakeBlocks(un, S))
  BY TakeProper
<1>2. Proper(candidates', block_span', unrequested')
  BY <1>1
<1> QED
  BY <1>2 DEF Proper, WishlistTypeOK

(* The user's commands, the timer of the torrent and updateInterest.       *)
LEMMA UserStepType ==
    ASSUME TypeOK, UserStep
    PROVE  TypeOK'
<1> USE DEF torrentVars, peerVars, seedVars, wishlistVars
<1>1. connected \subseteq Peers /\ WishlistTypeOK
  BY DEF TypeOK
<1>2. CASE Start
  <2>1. Lacking(have, wanted) \in SUBSET Pieces
    BY DEF Lacking, TypeOK
  <2>2. WishlistTypeOK'
    BY <1>1, <1>2, <2>1, UpkeepType DEF Start
  <2> QED
    BY <1>2, <2>2 DEF Start, TypeOK, Status
<1>3. CASE Stop
  <2>1. WishlistTypeOK' /\ candidates' = {}
    BY <1>3, DropType DEF Stop, StopEffect
  <2> QED
    BY <1>3, <2>1 DEF Stop, StopEffect, DropWishlist, TypeOK, Sources
<1>4. CASE DoIdleWork
  <2>1. CASE DropWishlist
    BY <1>4, <2>1, DropType DEF DoIdleWork, Recheck, DropWishlist, Status, TypeOK
  <2>2. CASE UNCHANGED <<hasWishlist, wishlistVars>>
    BY <1>4, <2>2 DEF DoIdleWork, Recheck, Status, TypeOK, WishlistTypeOK
  <2> QED
    BY <1>4, <2>1, <2>2 DEF DoIdleWork, Recheck
<1>5. ASSUME NEW W \in SUBSET Pieces, SetFilesWanted(W) PROVE TypeOK'
  <2> DEFINE Target == Lacking(have, W)
  <2>1. Target \in SUBSET Pieces
    BY DEF Lacking
  <2>2. (WishlistTypeOK /\ (~hasWishlist => candidates = {}))'
    <3>1. CASE DropWishlist
      BY <3>1, DropType
    <3>2. CASE UNCHANGED <<hasWishlist, wishlistVars>>
      BY <3>2 DEF TypeOK, WishlistTypeOK
    <3>3. CASE /\ hasWishlist
               /\ candidates' = Target
               /\ block_span' = UpkeepSpan(Target)
               /\ unrequested' = UpkeepUnrequested(Target, have)
               /\ replication' = UpkeepReplication(Target, Counts)
               /\ UNCHANGED hasWishlist
      BY <1>1, <2>1, <3>3, UpkeepType
    <3> QED
      BY <1>5, <3>1, <3>2, <3>3 DEF SetFilesWanted, Recheck
  <2>3. hasWishlist' \in BOOLEAN /\ clientInterested' \in [Peers -> BOOLEAN]
    BY <1>5 DEF SetFilesWanted, Recheck, DropWishlist, TypeOK
  <2> QED
    BY <1>5, <2>2, <2>3 DEF SetFilesWanted, Recheck, Status, TypeOK
<1>6. CASE UpdateInterest
  <2> DEFINE changed == {p \in connected : clientInterested[p] # Interesting(p)}
  <2>1. PICK S \in [changed -> SUBSET Blocks] :
            /\ unrequested' = TakeBlocks(unrequested, UNION {S[p] : p \in changed})
            /\ active' = [q \in Sources |-> IF q \in changed
                              THEN active[q] \cup S[q] ELSE active[q]]
    BY <1>6 DEF UpdateInterest
  <2>2. Proper(candidates, block_span, unrequested) /\ replication \in [Pieces -> Int]
    BY <1>1, ProperType
  <2>3. WishlistTypeOK'
    BY <1>6, <2>1, <2>2, SameListType DEF UpdateInterest
  <2>4. active' \in [Sources -> SUBSET Blocks]
    BY <2>1 DEF TypeOK
  <2>5. clientInterested' \in [Peers -> BOOLEAN]
    BY <1>6 DEF UpdateInterest, Interesting
  <2> QED
    BY <1>6, <2>3, <2>4, <2>5 DEF UpdateInterest, TypeOK
<1> QED
  BY <1>2, <1>3, <1>4, <1>5, <1>6 DEF UserStep

(* Who gets a strike, and who is banned by it.                             *)
LEMMA StrikesType ==
    ASSUME TypeOK, NEW Bad, NEW blm \in [Webseeds -> SUBSET Pieces], StrikesFor(Bad, blm)
    PROVE  /\ blame' \in [Webseeds -> SUBSET Pieces]
           /\ strikes' \in [Webseeds -> Nat]
           /\ banned' \subseteq Webseeds
BY DEF TypeOK, StrikesFor, NewlyBanned, Struck

(* The messages of a peer, its coming and its going.                       *)
LEMMA PeerStepType ==
    ASSUME TypeOK, NEW p \in Peers, PeerStep(p)
    PROVE  TypeOK'
<1> USE DEF torrentVars, peerVars, seedVars, wishlistVars
<1>1. /\ connected \subseteq Peers
      /\ WishlistTypeOK
      /\ Proper(candidates, block_span, unrequested)
      /\ replication \in [Pieces -> Int]
      /\ p \in Sources
  BY ProperType DEF TypeOK, Sources
<1>2. \A un, repl, P : Proper(candidates, block_span, un)
                          => Available(candidates, un, repl, P) \subseteq Blocks
  BY AvailableBlocks
<1>3. \A may, avail, act : \A S \in Asks(may, avail, act) : S \subseteq avail
  BY AsksAvailable
<1>4. \A P \in SUBSET Pieces, n \in Int : AddReplication(P, n) \in [Pieces -> Int]
  BY <1>1 DEF AddReplication
<1>5. \A B : Proper(candidates, block_span, ResetBlocks(unrequested, B))
  BY <1>1, ResetProper
<1>6. CASE Connect(p)
  BY <1>6 DEF Connect, TypeOK, WishlistTypeOK
<1>7. CASE Disconnect(p)
  <2>1. replication' \in [Pieces -> Int]
    <3>1. peerHas[p] \in SUBSET Pieces /\ -1 \in Int
      BY DEF TypeOK
    <3>2. AddReplication(peerHas[p], -1) \in [Pieces -> Int]
      BY <1>4, <3>1
    <3> QED
      BY <1>7, <3>2 DEF Disconnect
  <2>2. WishlistTypeOK'
    BY <1>5, <1>7, <2>1, SameListType DEF Disconnect
  <2> QED
    BY <1>1, <1>7, <2>2 DEF Disconnect, TypeOK
<1>8. CASE GotChoke(p)
  <2>1. unrequested' = unrequested \/ unrequested' = ResetBlocks(unrequested, active[p])
    BY <1>8 DEF GotChoke
  <2>2. WishlistTypeOK'
    BY <1>1, <1>5, <1>8, <2>1, SameListType DEF GotChoke
  <2>3. active' \in [Sources -> SUBSET Blocks]
    BY <1>1, <1>8 DEF GotChoke, TypeOK
  <2> QED
    BY <1>1, <1>8, <2>2, <2>3 DEF GotChoke, TypeOK
<1>9. ASSUME UNCHANGED <<candidates, block_span>>, replication' \in [Pieces -> Int],
             NEW un, Proper(candidates, block_span, un),
             NEW S, S \subseteq Blocks, NEW old, old \subseteq Blocks,
             unrequested' = TakeBlocks(un, S),
             active' = [active EXCEPT ![p] = old \cup S]
      PROVE  WishlistTypeOK' /\ active' \in [Sources -> SUBSET Blocks]
  BY <1>1, <1>9, SameListType DEF TypeOK
<1>10. active[p] \subseteq Blocks
  BY <1>1 DEF TypeOK
<1>11. CASE GotUnchoke(p)
  <2>1. PICK S : /\ S \subseteq Blocks
                 /\ unrequested' = TakeBlocks(unrequested, S)
                 /\ active' = [active EXCEPT ![p] = active[p] \cup S]
    BY <1>1, <1>2, <1>3, <1>11 DEF GotUnchoke, AsksThen
  <2>2. WishlistTypeOK' /\ active' \in [Sources -> SUBSET Blocks]
    BY <1>1, <1>9, <1>10, <1>11, <2>1 DEF GotUnchoke
  <2> QED
    BY <1>11, <2>2 DEF GotUnchoke, TypeOK
<1>12. ASSUME NEW P \in SUBSET Pieces, NEW Added \in SUBSET Pieces, LearnPieces(p, P, Added)
       PROVE  TypeOK'
  <2>1. PICK S : /\ S \subseteq Blocks
                 /\ unrequested' = TakeBlocks(unrequested, S)
                 /\ active' = [active EXCEPT ![p] = active[p] \cup S]
    BY <1>1, <1>2, <1>3, <1>12 DEF LearnPieces, AsksThen
  <2>2. replication' \in [Pieces -> Int]
    <3>1. replication' = AddReplication(Added, 1)
      BY <1>12 DEF LearnPieces
    <3> QED BY <1>4, <3>1
  <2>3. WishlistTypeOK' /\ active' \in [Sources -> SUBSET Blocks]
    BY <1>1, <1>9, <1>10, <1>12, <2>1, <2>2 DEF LearnPieces
  <2> QED
    BY <1>12, <2>3 DEF LearnPieces, TypeOK
<1>13. ASSUME NEW c \in Pieces, GotHave(p, c) PROVE TypeOK'
  <2>1. peerHas[p] \cup {c} \in SUBSET Pieces /\ {c} \in SUBSET Pieces
    BY DEF TypeOK
  <2> QED
    BY <1>12, <1>13, <2>1 DEF GotHave
<1>14. ASSUME NEW P \in PeerBitfields, GotBitfield(p, P) PROVE TypeOK'
  BY <1>12, <1>14, SourceAssumption DEF GotBitfield
<1>15. CASE GotHaveAll(p)
  BY <1>12, <1>15 DEF GotHaveAll
<1>16. CASE GotHaveNone(p)
  BY <1>16 DEF GotHaveNone, TypeOK, WishlistTypeOK
<1>17. ASSUME NEW b \in active[p], GotReject(p, b) PROVE TypeOK'
  <2>1. PICK S : /\ S \subseteq Blocks
                 /\ unrequested' = ResetBlocks(TakeBlocks(unrequested, S), {b})
                 /\ active' = [active EXCEPT ![p] = (active[p] \ {b}) \cup S]
    BY <1>1, <1>2, <1>3, <1>17 DEF GotReject, AvailableTo
  <2>2. Proper(candidates, block_span, unrequested')
    BY <1>1, <2>1, TakeProper, ResetProper
  <2>3. WishlistTypeOK'
    BY <1>1, <1>17, <2>2, SameListType DEF GotReject
  <2> QED
    BY <1>1, <1>10, <1>17, <2>1, <2>3 DEF GotReject, TypeOK
<1>18. ASSUME NEW Late \in SUBSET active[p], Pulse(p, Late) PROVE TypeOK'
  <2> DEFINE unreq == ResetBlocks(unrequested, Late)
  <2>1. PICK S : /\ S \subseteq Blocks
                 /\ unrequested' = TakeBlocks(unreq, S)
                 /\ active' = [active EXCEPT ![p] = (active[p] \ Late) \cup S]
    BY <1>2, <1>3, <1>5, <1>18 DEF Pulse, AvailableTo
  <2>2. Proper(candidates, block_span, unreq) /\ active[p] \ Late \subseteq Blocks
    BY <1>5, <1>10
  <2>3. UNCHANGED <<candidates, block_span>> /\ replication' \in [Pieces -> Int]
    BY <1>1, <1>18 DEF Pulse
  <2> HIDE DEF unreq
  <2>4. WishlistTypeOK' /\ active' \in [Sources -> SUBSET Blocks]
    BY <1>9, <2>1, <2>2, <2>3
  <2> QED
    BY <1>18, <2>4 DEF Pulse, TypeOK
<1>19. ASSUME NEW b \in Blocks, GotUnwelcomePiece(p, b) PROVE TypeOK'
  <2>1. PICK S : /\ S \subseteq Blocks
                 /\ unrequested' = TakeBlocks(unrequested, S)
                 /\ active' = [active EXCEPT ![p] = active[p] \cup S]
    BY <1>1, <1>2, <1>3, <1>19 DEF GotUnwelcomePiece, AsksThen
  <2>2. WishlistTypeOK' /\ active' \in [Sources -> SUBSET Blocks]
    BY <1>1, <1>9, <1>10, <1>19, <2>1 DEF GotUnwelcomePiece
  <2> QED
    BY <1>19, <2>2 DEF GotUnwelcomePiece, TypeOK
<1>20. ASSUME NEW b \in Blocks, NEW Bad \in Verdicts(b), GotPiece(p, b, Bad) PROVE TypeOK'
  <2> DEFINE unreq == UnreqAfter(b, Bad)
             act   == ActiveAfter(b, p)
  <2>1. /\ Proper(candidates', block_span', unreq)
        /\ replication' \in [Pieces -> Int]
        /\ have' \subseteq Blocks
        /\ needsCheck' \in BOOLEAN
        /\ ~hasWishlist => candidates' = {}
    BY <1>20, ReceivedType DEF GotPiece
  <2>2. act \in [Sources -> SUBSET Blocks]
    BY DEF ActiveAfter, TypeOK
  <2>3. PICK S : /\ S \in Asks(MayAsk(p), Available(candidates', unreq, replication',
                                                   peerHas[p]), act[p])
                 /\ unrequested' = TakeBlocks(unreq, S)
                 /\ active' = [act EXCEPT ![p] = act[p] \cup S]
    BY <1>20 DEF GotPiece
  <2>4. S \subseteq Blocks
    BY <1>3, <2>1, <2>3, AvailableBlocks
  <2>5. Proper(candidates', block_span', unrequested')
    BY <2>1, <2>3, TakeProper
  <2>6. WishlistTypeOK'
    BY <2>1, <2>5 DEF Proper, WishlistTypeOK
  <2>7. active' \in [Sources -> SUBSET Blocks]
    BY <1>1, <2>2, <2>3, <2>4
  <2>8. tasks' \in [Webseeds -> SUBSET SUBSET Blocks]
    BY <1>20 DEF GotPiece, TypeOK
  <2>9. /\ blame' \in [Webseeds -> SUBSET Pieces]
        /\ strikes' \in [Webseeds -> Nat]
        /\ banned' \subseteq Webseeds
    BY <1>20, StrikesType DEF GotPiece, TypeOK
  <2> QED
    BY <1>20, <2>1, <2>6, <2>7, <2>8, <2>9 DEF GotPiece, TypeOK
<1>21. ASSUME NEW b \in Blocks, WriteFails(p, b) PROVE TypeOK'
  <2>1. WishlistTypeOK' /\ candidates' = {}
    BY <1>21, DropType DEF WriteFails, StopEffect
  <2> QED
    BY <1>21, <2>1 DEF WriteFails, StopEffect, DropWishlist, TypeOK, Sources
<1> QED
  BY <1>6, <1>7, <1>8, <1>11, <1>13, <1>14, <1>15, <1>16, <1>17, <1>18, <1>19, <1>20, <1>21
     DEF PeerStep

(* The tasks of a webseed.                                                 *)
LEMMA WebseedStepType ==
    ASSUME TypeOK, NEW w \in Webseeds, WebseedStep(w)
    PROVE  TypeOK'
<1> USE DEF torrentVars, peerVars, seedVars, wishlistVars
<1>1. /\ Proper(candidates, block_span, unrequested)
      /\ replication \in [Pieces -> Int]
      /\ w \in Sources
  BY ProperType DEF TypeOK, Sources
<1>2. tasks[w] \subseteq SUBSET Blocks
  BY DEF TypeOK
<1>3. CASE WebseedIdle(w)
  <2>1. PICK S : /\ S \in WebseedAsks(w, Available(candidates, unrequested, replication,
                                                  Pieces), tasks[w])
                 /\ tasks' = [tasks EXCEPT ![w] = tasks[w] \cup Runs(S)]
                 /\ unrequested' = TakeBlocks(unrequested, S)
                 /\ active' = [active EXCEPT ![w] = active[w] \cup S]
    BY <1>3 DEF WebseedIdle
  <2>2. S \in SUBSET Blocks
    BY <1>1, <2>1, WebseedAsksAvailable, AvailableBlocks
  <2>3. WishlistTypeOK'
    BY <1>1, <1>3, <2>1, SameListType DEF WebseedIdle
  <2>4. active' \in [Sources -> SUBSET Blocks]
    BY <1>1, <2>1, <2>2 DEF TypeOK
  <2>5. tasks' \in [Webseeds -> SUBSET SUBSET Blocks]
    BY <2>1, <2>2, RunsBlocks DEF TypeOK
  <2> QED
    BY <1>3, <2>3, <2>4, <2>5 DEF WebseedIdle, TypeOK
<1>4. ASSUME NEW t \in tasks[w], WebseedFails(w, t) PROVE TypeOK'
  <2>1. Proper(candidates, block_span, ResetBlocks(unrequested, t \cap active[w]))
    BY <1>1, ResetProper
  <2>2. WishlistTypeOK'
    BY <1>1, <1>4, <2>1, SameListType DEF WebseedFails
  <2> QED
    BY <1>1, <1>4, <2>2 DEF WebseedFails, TypeOK
<1>5. ASSUME NEW t \in tasks[w], NEW b \in t, NEW Bad \in Verdicts(b),
             WebseedBlock(w, t, b, Bad)
      PROVE  TypeOK'
  <2> DEFINE known == b \in have
             left  == (tasks[w] \ {t}) \cup ({t \ {b}} \ {{}})
             unreq == IF known THEN unrequested ELSE UnreqAfter(b, Bad)
             act   == IF known THEN active ELSE ActiveAfter(b, w)
             newly == NewlyBanned(Bad, IF known THEN blame ELSE BlameAfter(b, w))
  <2>1. b \in Blocks /\ t \subseteq Blocks
    BY <1>2
  <2>2. /\ Proper(candidates', block_span', unreq)
        /\ replication' \in [Pieces -> Int]
        /\ have' \subseteq Blocks
        /\ needsCheck' \in BOOLEAN
        /\ ~hasWishlist => candidates' = {}
    <3>1. CASE known
      BY <1>1, <1>5, <3>1 DEF WebseedBlock, TypeOK
    <3>2. CASE ~known
      BY <1>5, <2>1, <3>2, ReceivedType DEF WebseedBlock
    <3> QED
      BY <3>1, <3>2
  <2>3. act \in [Sources -> SUBSET Blocks]
    BY DEF ActiveAfter, TypeOK
  <2>4. left \subseteq SUBSET Blocks
    BY <1>2, <2>1
  <2>5. PICK S : /\ \/ S = {}
                    \/ S \in WebseedAsks(w, Available(candidates', unreq, replication', Pieces),
                                         left)
                 /\ tasks' = [v \in Webseeds |->
                                IF v \notin newly
                                THEN IF v = w THEN left \cup Runs(S) ELSE tasks[v]
                                ELSE IF v = w THEN {t \ {b}} \ {{}} ELSE {}]
                 /\ unrequested' = TakeBlocks(unreq, S)
                 /\ active' = [act EXCEPT ![w] = act[w] \cup S]
    BY <1>5 DEF WebseedBlock
  <2>6. /\ blame' \in [Webseeds -> SUBSET Pieces]
        /\ strikes' \in [Webseeds -> Nat]
        /\ banned' \subseteq Webseeds
    <3> DEFINE blm == IF known THEN blame ELSE BlameAfter(b, w)
    <3>1. blm \in [Webseeds -> SUBSET Pieces]
      BY DEF BlameAfter, PiecesOf, TypeOK
    <3>2. StrikesFor(Bad, blm)
      BY <1>5 DEF WebseedBlock
    <3> HIDE DEF blm
    <3> QED
      BY <3>1, <3>2, StrikesType
  <2>7. UNCHANGED <<running, completeness, wanted, hasWishlist, peerVars>>
    BY <1>5 DEF WebseedBlock
  <2> HIDE DEF unreq, act, left, newly
  <2>8. S \in SUBSET Blocks
    BY <2>2, <2>5, WebseedAsksAvailable, AvailableBlocks
  <2>9. Proper(candidates', block_span', unrequested')
    BY <2>2, <2>5, TakeProper
  <2>10. WishlistTypeOK'
    BY <2>2, <2>9 DEF Proper, WishlistTypeOK
  <2>11. active' \in [Sources -> SUBSET Blocks]
    BY <1>1, <2>3, <2>5, <2>8
  <2>12. tasks' \in [Webseeds -> SUBSET SUBSET Blocks]
    BY <2>1, <2>4, <2>5, <2>8, RunsBlocks DEF TypeOK
  <2> QED
    BY <2>2, <2>6, <2>7, <2>10, <2>11, <2>12 DEF TypeOK
<1>6. ASSUME NEW t \in tasks[w], NEW b \in t, WebseedWriteFails(w, t, b) PROVE TypeOK'
  <2>1. WishlistTypeOK' /\ candidates' = {}
    BY <1>6, DropType DEF WebseedWriteFails, StopEffect
  <2>2. active' \in [Sources -> SUBSET Blocks]
    BY <1>6 DEF WebseedWriteFails, StopEffect, TypeOK, Sources
  <2>3. tasks' \in [Webseeds -> SUBSET SUBSET Blocks]
    BY <1>2, <1>6 DEF WebseedWriteFails, TypeOK
  <2> QED
    BY <1>6, <2>1, <2>2, <2>3 DEF WebseedWriteFails, StopEffect, DropWishlist, TypeOK
<1> QED
  BY <1>3, <1>4, <1>5, <1>6 DEF WebseedStep

(* The program keeps to the types of its state, and the wishlist always    *)
(* represents a list of candidates.                                        *)
THEOREM TypeCorrect == Spec => []TypeOK
<1>1. Init => TypeOK
  <2> SUFFICES ASSUME Init PROVE TypeOK
    OBVIOUS
  <2>1. WishlistTypeOK
    BY DEF Init, WishlistTypeOK, NoBlocks
  <2>2. completeness \in {"leech", "partial_seed", "seed"}
    BY DEF Init, Status
  <2> QED
    BY <2>1, <2>2 DEF Init, TypeOK
<1>2. TypeOK /\ [Next]_vars => TypeOK'
  <2> SUFFICES ASSUME TypeOK, [Next]_vars PROVE TypeOK'
    OBVIOUS
  <2>1. CASE UNCHANGED vars
    BY <2>1 DEF vars, torrentVars, peerVars, seedVars, wishlistVars, TypeOK, WishlistTypeOK
  <2>2. CASE Next
    BY <2>2, UserStepType, PeerStepType, WebseedStepType DEF Next
  <2> QED
    BY <2>1, <2>2
<1> QED
  BY <1>1, <1>2, PTL DEF Spec

-----------------------------------------------------------------------------
(* The safety of the list.  That every block a wanted piece lacks has an   *)
(* owner is not inductive: a piece may be wanted that is a candidate       *)
(* already (one that has failed its checksum need not be wanted), so the   *)
(* candidates' own blocks have to be covered as well.                      *)

AllActive == UNION {active[q] : q \in Sources}

Covered == hasWishlist => Owned(candidates, block_span, have, candidates \cup wanted)

ListInv ==
    /\ Disjoint(candidates, block_span)
    /\ Covered
    /\ Accounted(candidates, block_span, unrequested, have, AllActive)

(* What the three parts say, in the terms of Download.                     *)
LEMMA ListInvMeans ==
    ASSUME ListInv
    PROVE  SpansDisjoint /\ WantedBlocksOwned /\ NoLostBlock
<1>1. SpansDisjoint /\ WantedBlocksOwned
  BY DEF ListInv, Disjoint, Covered, Owned, SpansDisjoint, WantedBlocksOwned, Owners
<1>2. AllActive \subseteq Awaited \cup Stranded
  BY DEF AllActive, Awaited, Stranded
<1>3. NoLostBlock
  BY <1>2 DEF ListInv, Accounted, NoLostBlock
<1> QED
  BY <1>1, <1>3

(* A wishlist that is gone has no blocks to lose.                          *)
LEMMA DropList ==
    ASSUME DropWishlist
    PROVE  ListInv'
BY DEF DropWishlist, ListInv, Disjoint, Covered, Accounted

(* A wishlist brought up to date for the blocks we have and the pieces     *)
(* that are wanted now.                                                    *)
LEMMA UpkeepList ==
    ASSUME TypeOK, ListInv, hasWishlist \/ candidates = {},
           NEW W \in SUBSET Pieces,
           wanted' = W, UNCHANGED <<have, active>>,
           candidates' = Lacking(have, W),
           block_span' = UpkeepSpan(Lacking(have, W)),
           unrequested' = UpkeepUnrequested(Lacking(have, W), have)
    PROVE  ListInv'
<1> DEFINE Target == Lacking(have, W)
<1>1. /\ Proper(candidates, block_span, unrequested)
      /\ Disjoint(candidates, block_span)
      /\ Owned(candidates, block_span, have, candidates)
      /\ Accounted(candidates, block_span, unrequested, have, AllActive)
  BY ProperType DEF TypeOK, ListInv, Covered, Owned
<1>2. Target \in SUBSET Pieces
  BY DEF Lacking
<1>3. \A c \in W \ Target : BlockSpan[c] \subseteq have
  BY DEF Lacking, HasPiece
<1> HIDE DEF Target
<1>4. Disjoint(Target, UpkeepSpan(Target))
  BY <1>1, <1>2, UpkeepDisjoint
<1>5. Owned(Target, UpkeepSpan(Target), have, Target)
  BY <1>1, <1>2, UpkeepOwned
<1>6. Owned(Target, UpkeepSpan(Target), have, Target \cup W)
  BY <1>3, <1>5 DEF Owned
<1>7. Accounted(Target, UpkeepSpan(Target), UpkeepUnrequested(Target, have), have, AllActive)
  BY <1>1, <1>2, UpkeepAccounted
<1>8. AllActive' = AllActive
  BY DEF AllActive
<1>9. candidates' = Target /\ block_span' = UpkeepSpan(Target)
      /\ unrequested' = UpkeepUnrequested(Target, have)
  BY DEF Target
<1> QED
  BY <1>4, <1>6, <1>7, <1>8, <1>9 DEF ListInv, Covered

(* A list of which only the unrequested blocks change.                     *)
LEMMA SameList ==
    ASSUME ListInv, UNCHANGED <<candidates, block_span, have, hasWishlist, wanted>>,
           Accounted(candidates, block_span, unrequested', have, AllActive')
    PROVE  ListInv'
BY DEF ListInv, Covered

(* The blocks S are requested, after the blocks B were given back.         *)
LEMMA ResetTakeList ==
    ASSUME TypeOK, ListInv,
           UNCHANGED <<candidates, block_span, have, hasWishlist, wanted>>,
           NEW B, NEW S, AllActive \ B \subseteq AllActive', S \subseteq AllActive',
           \/ unrequested' = TakeBlocks(ResetBlocks(unrequested, B), S)
           \/ unrequested' = ResetBlocks(unrequested, B)
           \/ B = {} /\ unrequested' = TakeBlocks(unrequested, S)
           \/ B = {} /\ unrequested' = unrequested
    PROVE  ListInv'
<1> DEFINE un == ResetBlocks(unrequested, B)
<1>1. Proper(candidates, block_span, unrequested)
      /\ Accounted(candidates, block_span, unrequested, have, AllActive)
  BY ProperType DEF TypeOK, ListInv
<1>2. Proper(candidates, block_span, un)
      /\ Accounted(candidates, block_span, un, have, AllActive')
  BY <1>1, ResetProper, ResetAccounted
<1> HIDE DEF un
<1>3. CASE unrequested' = TakeBlocks(un, S)
  BY <1>2, <1>3, TakeAccounted, SameList
<1>4. CASE unrequested' = un
  BY <1>2, <1>4, SameList
<1>5. CASE B = {} /\ unrequested' = TakeBlocks(unrequested, S)
  <2>1. have \cup AllActive \cup S \subseteq have \cup AllActive'
    BY <1>5
  <2> QED
    BY <1>1, <1>5, <2>1, TakeAccounted, SameList
<1>6. CASE B = {} /\ unrequested' = unrequested
  BY <1>1, <1>6, SameList DEF Accounted
<1> QED
  BY <1>3, <1>4, <1>5, <1>6 DEF un

(* The requests of one peer or webseed q change from act[q] to X, less     *)
(* the blocks B: the others keep theirs.                                   *)
LEMMA ActiveChange ==
    ASSUME NEW act, act \in [Sources -> SUBSET Blocks], NEW q \in Sources, NEW X,
           active' = [act EXCEPT ![q] = X], NEW B, act[q] \ B \subseteq X
    PROVE  /\ (UNION {act[r] : r \in Sources}) \ B \subseteq AllActive'
           /\ X \subseteq AllActive'
<1>1. \A r \in Sources : active'[r] = IF r = q THEN X ELSE act[r]
  OBVIOUS
<1>2. \A r \in Sources : active'[r] \subseteq AllActive'
  BY DEF AllActive
<1>3. X \subseteq AllActive'
  BY <1>1, <1>2
<1>4. ASSUME NEW r \in Sources, NEW b \in act[r], b \notin B PROVE b \in AllActive'
  BY <1>1, <1>2, <1>4
<1> QED
  BY <1>3, <1>4

(* One peer or webseed asks for more, and the others go on as they were.   *)
LEMMA ActiveGrows ==
    ASSUME NEW act, act \in [Sources -> SUBSET Blocks], NEW q \in Sources, NEW Y,
           active' = [act EXCEPT ![q] = act[q] \cup Y]
    PROVE  /\ \A r \in Sources : act[r] \subseteq AllActive'
           /\ Y \subseteq AllActive'
<1>1. \A r \in Sources : active'[r] = IF r = q THEN act[q] \cup Y ELSE act[r]
  OBVIOUS
<1>2. \A r \in Sources : active'[r] \subseteq AllActive'
  BY DEF AllActive
<1> QED
  BY <1>1, <1>2

(* A block has arrived, and the blocks S are requested.                    *)
LEMMA ReceivedList ==
    ASSUME TypeOK, ListInv, NEW b \in Blocks, NEW Bad \in Verdicts(b),
           BlockReceived(b, Bad), UNCHANGED <<hasWishlist, wanted>>,
           NEW S, unrequested' = TakeBlocks(UnreqAfter(b, Bad), S),
           AllActive \ {b} \subseteq AllActive', S \subseteq AllActive'
    PROVE  ListInv'
<1> DEFINE Good == Passed(b, Bad)
           H    == have \cup {b}
           un   == TakeBlocks(unrequested, {b})
           un2  == CheckedUnrequested(un, Good, Bad)
           P    == candidates \cup wanted
<1>1. CASE ~hasWishlist
  <2>1. candidates' = {}
    BY <1>1 DEF BlockReceived, TypeOK
  <2> QED
    BY <1>1, <2>1 DEF ListInv, Disjoint, Covered, Accounted
<1>2. CASE hasWishlist
  <2>1. /\ candidates' = CheckedCandidates(Good, Bad)
        /\ block_span' = CheckedSpan(Good, Bad)
        /\ unrequested' = TakeBlocks(un2, S)
        /\ have' = Left(H, Bad)
    BY <1>2 DEF BlockReceived, UnreqAfter, HaveAfter, Left
  <2>2. /\ Proper(candidates, block_span, unrequested)
        /\ Disjoint(candidates, block_span)
        /\ Owned(candidates, block_span, have, P)
        /\ Accounted(candidates, block_span, unrequested, have, AllActive)
    BY <1>2, ProperType DEF TypeOK, ListInv, Covered
  <2>3. Proper(candidates, block_span, un)
    BY <2>2, TakeProper
  <2>4. have \cup AllActive \cup {b} \subseteq H \cup AllActive'
    OBVIOUS
  <2>5. Accounted(candidates, block_span, un, H, AllActive')
    BY <2>2, <2>4, TakeAccounted
  <2>6. Owned(candidates, block_span, H, P) /\ P \in SUBSET Pieces
    BY <2>2 DEF Owned, Proper, TypeOK
  <2>7. Verdict(H, Good, Bad)
    BY VerdictHolds
  <2>8. candidates' \cup wanted' \subseteq P \cup Bad
    BY <2>1 DEF CheckedCandidates
  <2> HIDE DEF Good, H, un, un2, P
  <2>9. Disjoint(candidates', block_span')
    BY <2>1, <2>2, <2>3, <2>7, CheckedDisjoint
  <2>10. Owned(candidates', block_span', have', P \cup Bad)
    BY <2>1, <2>3, <2>6, <2>7, CheckedOwned
  <2>11. Owned(candidates', block_span', have', candidates' \cup wanted')
    BY <2>8, <2>10 DEF Owned
  <2>12. /\ Proper(candidates', block_span', un2)
         /\ Accounted(candidates', block_span', un2, have', AllActive')
    BY <2>1, <2>3, <2>5, <2>7, CheckedProper, CheckedAccounted DEF un2
  <2>13. Accounted(candidates', block_span', unrequested', have', AllActive')
    BY <2>1, <2>12, TakeAccounted
  <2> QED
    BY <2>9, <2>11, <2>13 DEF ListInv, Covered
<1> QED
  BY <1>1, <1>2

-----------------------------------------------------------------------------
(* The safety of the list, action by action.                               *)

(* The user's commands, the timer of the torrent and updateInterest.       *)
LEMMA UserStepList ==
    ASSUME TypeOK, ListInv, UserStep
    PROVE  ListInv'
<1> USE DEF torrentVars, peerVars, seedVars, wishlistVars
<1>1. CASE Start
  <2>1. CASE hasWishlist \/ candidates = {}
    <3>1. wanted \in SUBSET Pieces
      BY DEF TypeOK
    <3> QED
      BY <1>1, <2>1, <3>1, UpkeepList DEF Start
  <2> QED
    BY <2>1 DEF TypeOK
<1>2. CASE Stop
  BY <1>2, DropList DEF Stop, StopEffect
<1>3. CASE DoIdleWork
  <2>1. CASE DropWishlist
    BY <2>1, DropList
  <2>2. CASE UNCHANGED <<hasWishlist, wishlistVars>>
    BY <1>3, <2>2 DEF DoIdleWork, ListInv, Covered, AllActive
  <2> QED
    BY <1>3, <2>1, <2>2 DEF DoIdleWork, Recheck
<1>4. ASSUME NEW W \in SUBSET Pieces, SetFilesWanted(W) PROVE ListInv'
  <2>1. UNCHANGED <<have, active>> /\ wanted' = W
    BY <1>4 DEF SetFilesWanted
  <2>2. CASE DropWishlist
    BY <2>2, DropList
  <2>3. CASE ~hasWishlist /\ UNCHANGED <<hasWishlist, wishlistVars>>
    BY <2>3 DEF TypeOK, ListInv, Covered, Disjoint, Accounted
  <2>4. CASE /\ hasWishlist
             /\ candidates' = Lacking(have, W)
             /\ block_span' = UpkeepSpan(Lacking(have, W))
             /\ unrequested' = UpkeepUnrequested(Lacking(have, W), have)
    BY <2>1, <2>4, UpkeepList
  <2> QED
    BY <1>4, <2>2, <2>3, <2>4 DEF SetFilesWanted, Recheck
<1>5. CASE UpdateInterest
  <2> DEFINE changed == {p \in connected : clientInterested[p] # Interesting(p)}
  <2>1. PICK S \in [changed -> SUBSET Blocks] :
            /\ unrequested' = TakeBlocks(unrequested, UNION {S[p] : p \in changed})
            /\ active' = [q \in Sources |-> IF q \in changed
                              THEN active[q] \cup S[q] ELSE active[q]]
    BY <1>5 DEF UpdateInterest
  <2>2. changed \subseteq Sources
    BY DEF TypeOK, Sources
  <2> HIDE DEF changed
  <2>3. AllActive \subseteq AllActive'
    <3>1. \A q \in Sources : active[q] \subseteq active'[q]
      BY <2>1
    <3> QED
      BY <3>1 DEF AllActive
  <2>4. UNION {S[p] : p \in changed} \subseteq AllActive'
    <3>1. \A q \in changed : S[q] \subseteq active'[q] /\ q \in Sources
      BY <2>1, <2>2
    <3> QED
      BY <3>1 DEF AllActive
  <2>5. UNCHANGED <<candidates, block_span, have, hasWishlist, wanted>>
    BY <1>5 DEF UpdateInterest
  <2>6. AllActive \ {} \subseteq AllActive'
    BY <2>3
  <2> QED
    BY <2>1, <2>4, <2>5, <2>6, ResetTakeList
<1> QED
  BY <1>1, <1>2, <1>3, <1>4, <1>5 DEF UserStep

(* The messages of a peer, its coming and its going.                       *)
LEMMA PeerStepList ==
    ASSUME TypeOK, ListInv, NEW p \in Peers, PeerStep(p)
    PROVE  ListInv'
<1> USE DEF torrentVars, peerVars, seedVars, wishlistVars
<1>1. p \in Sources /\ active \in [Sources -> SUBSET Blocks]
  BY DEF TypeOK, Sources
<1>2. ASSUME NEW X, NEW B, active' = [active EXCEPT ![p] = X], active[p] \ B \subseteq X
      PROVE  AllActive \ B \subseteq AllActive' /\ X \subseteq AllActive'
  BY <1>1, <1>2, ActiveChange DEF AllActive
<1>3. ASSUME UNCHANGED <<candidates, block_span, have, hasWishlist, wanted>>, NEW S,
             unrequested' = TakeBlocks(unrequested, S),
             active' = [active EXCEPT ![p] = active[p] \cup S]
      PROVE  ListInv'
  <2> DEFINE X == active[p] \cup S
  <2>0. active' = [active EXCEPT ![p] = X] /\ active[p] \ {} \subseteq X /\ S \subseteq X
    BY <1>3
  <2> HIDE DEF X
  <2>1. AllActive \ {} \subseteq AllActive' /\ S \subseteq AllActive'
    BY <1>2, <2>0
  <2> QED
    BY <1>3, <2>1, ResetTakeList
<1>4. CASE Connect(p) \/ GotHaveNone(p)
  BY <1>4, SameList DEF Connect, GotHaveNone, ListInv, AllActive
<1>5. CASE Disconnect(p)
  <2>1. AllActive \ active[p] \subseteq AllActive'
    BY <1>2, <1>5 DEF Disconnect
  <2> QED
    BY <1>5, <2>1, ResetTakeList DEF Disconnect
<1>6. CASE GotChoke(p)
  <2>1. CASE p \in FastPeers
    BY <1>6, <2>1, SameList DEF GotChoke, ListInv, AllActive
  <2>2. CASE p \notin FastPeers
    <3>1. AllActive \ active[p] \subseteq AllActive'
      BY <1>2, <1>6, <2>2 DEF GotChoke
    <3> QED
      BY <1>6, <2>2, <3>1, ResetTakeList DEF GotChoke
  <2> QED
    BY <2>1, <2>2
<1>7. CASE GotUnchoke(p)
  BY <1>3, <1>7 DEF GotUnchoke
<1>8. ASSUME NEW P, NEW Added, LearnPieces(p, P, Added) PROVE ListInv'
  BY <1>3, <1>8 DEF LearnPieces
<1>9. ASSUME NEW b \in active[p], GotReject(p, b) PROVE ListInv'
  <2>1. PICK S : /\ unrequested' = ResetBlocks(TakeBlocks(unrequested, S), {b})
                 /\ active' = [active EXCEPT ![p] = (active[p] \ {b}) \cup S]
    BY <1>9 DEF GotReject
  <2>2. AllActive \ {b} \subseteq AllActive' /\ S \subseteq AllActive'
    <3> DEFINE X == (active[p] \ {b}) \cup S
    <3>1. active' = [active EXCEPT ![p] = X] /\ active[p] \ {b} \subseteq X /\ S \subseteq X
      BY <2>1
    <3> HIDE DEF X
    <3> QED
      BY <1>2, <3>1
  <2>3. /\ Proper(candidates, block_span, unrequested)
        /\ Accounted(candidates, block_span, unrequested, have, AllActive)
    BY ProperType DEF TypeOK, ListInv
  <2>4. /\ Proper(candidates, block_span, TakeBlocks(unrequested, S))
        /\ Accounted(candidates, block_span, TakeBlocks(unrequested, S), have, AllActive \cup S)
    BY <2>3, TakeProper, TakeAccounted
  <2>5. (AllActive \cup S) \ {b} \subseteq AllActive'
    BY <2>2
  <2>6. Accounted(candidates, block_span, unrequested', have, AllActive')
    BY <2>1, <2>4, <2>5, ResetAccounted
  <2> QED
    BY <1>9, <2>6, SameList DEF GotReject
<1>10. ASSUME NEW Late \in SUBSET active[p], Pulse(p, Late) PROVE ListInv'
  <2>1. PICK S : /\ unrequested' = TakeBlocks(ResetBlocks(unrequested, Late), S)
                 /\ active' = [active EXCEPT ![p] = (active[p] \ Late) \cup S]
    BY <1>10 DEF Pulse
  <2>2. AllActive \ Late \subseteq AllActive' /\ S \subseteq AllActive'
    <3> DEFINE X == (active[p] \ Late) \cup S
    <3>1. active' = [active EXCEPT ![p] = X] /\ active[p] \ Late \subseteq X /\ S \subseteq X
      BY <2>1
    <3> HIDE DEF X
    <3> QED
      BY <1>2, <3>1
  <2>3. UNCHANGED <<candidates, block_span, have, hasWishlist, wanted>>
    BY <1>10 DEF Pulse
  <2> QED
    BY <2>1, <2>2, <2>3, ResetTakeList
<1>11. ASSUME NEW b \in Blocks, GotUnwelcomePiece(p, b) PROVE ListInv'
  BY <1>3, <1>11 DEF GotUnwelcomePiece
<1>12. ASSUME NEW b \in Blocks, NEW Bad \in Verdicts(b), GotPiece(p, b, Bad) PROVE ListInv'
  <2> DEFINE act == ActiveAfter(b, p)
  <2>1. PICK S : /\ unrequested' = TakeBlocks(UnreqAfter(b, Bad), S)
                 /\ active' = [act EXCEPT ![p] = act[p] \cup S]
    BY <1>12 DEF GotPiece
  <2>2. act \in [Sources -> SUBSET Blocks] /\ \A q \in Sources : active[q] \ {b} \subseteq act[q]
    BY <1>1 DEF ActiveAfter
  <2>3. AllActive \ {b} \subseteq UNION {act[q] : q \in Sources}
    BY <2>2 DEF AllActive
  <2> HIDE DEF act
  <2>4. (\A r \in Sources : act[r] \subseteq AllActive') /\ S \subseteq AllActive'
    BY <1>1, <2>1, <2>2, ActiveGrows
  <2>5. AllActive \ {b} \subseteq AllActive' /\ S \subseteq AllActive'
    BY <2>3, <2>4
  <2>6. BlockReceived(b, Bad) /\ UNCHANGED <<hasWishlist, wanted>>
    BY <1>12 DEF GotPiece
  <2> QED
    BY <2>1, <2>5, <2>6, ReceivedList
<1>13. ASSUME NEW b \in Blocks, WriteFails(p, b) PROVE ListInv'
  BY <1>13, DropList DEF WriteFails, StopEffect
<1> QED
  BY <1>4, <1>5, <1>6, <1>7, <1>8, <1>9, <1>10, <1>11, <1>12, <1>13
     DEF PeerStep, GotHave, GotBitfield, GotHaveAll

(* The tasks of a webseed.                                                 *)
LEMMA WebseedStepList ==
    ASSUME TypeOK, ListInv, NEW w \in Webseeds, WebseedStep(w)
    PROVE  ListInv'
<1> USE DEF torrentVars, peerVars, seedVars, wishlistVars
<1>1. w \in Sources /\ active \in [Sources -> SUBSET Blocks]
  BY DEF TypeOK, Sources
<1>2. ASSUME NEW act \in [Sources -> SUBSET Blocks], NEW S,
             active' = [act EXCEPT ![w] = act[w] \cup S]
      PROVE  UNION {act[q] : q \in Sources} \subseteq AllActive' /\ S \subseteq AllActive'
  <2>1. (\A r \in Sources : act[r] \subseteq AllActive') /\ S \subseteq AllActive'
    BY <1>1, <1>2, ActiveGrows
  <2> QED
    BY <2>1
<1>3. CASE WebseedIdle(w)
  <2>1. PICK S : /\ unrequested' = TakeBlocks(unrequested, S)
                 /\ active' = [active EXCEPT ![w] = active[w] \cup S]
    BY <1>3 DEF WebseedIdle
  <2>2. AllActive \ {} \subseteq AllActive' /\ S \subseteq AllActive'
    BY <1>1, <1>2, <2>1 DEF AllActive
  <2>3. UNCHANGED <<candidates, block_span, have, hasWishlist, wanted>>
    BY <1>3 DEF WebseedIdle
  <2> QED
    BY <2>1, <2>2, <2>3, ResetTakeList
<1>4. ASSUME NEW t \in tasks[w], WebseedFails(w, t) PROVE ListInv'
  <2> DEFINE B == t \cap active[w]
             X == active[w] \ t
  <2>1. /\ active' = [active EXCEPT ![w] = X] /\ active[w] \ B \subseteq X
        /\ unrequested' = ResetBlocks(unrequested, B)
        /\ UNCHANGED <<candidates, block_span, have, hasWishlist, wanted>>
    BY <1>4 DEF WebseedFails
  <2> HIDE DEF B, X
  <2>2. AllActive \ B \subseteq AllActive'
    BY <1>1, <2>1, ActiveChange DEF AllActive
  <2> QED
    BY <2>1, <2>2, ResetTakeList
<1>5. ASSUME NEW t \in tasks[w], NEW b \in t, NEW Bad \in Verdicts(b),
             WebseedBlock(w, t, b, Bad)
      PROVE  ListInv'
  <2> DEFINE known == b \in have
             unreq == IF known THEN unrequested ELSE UnreqAfter(b, Bad)
             act   == IF known THEN active ELSE ActiveAfter(b, w)
  <2>1. PICK S : /\ unrequested' = TakeBlocks(unreq, S)
                 /\ active' = [act EXCEPT ![w] = act[w] \cup S]
    BY <1>5 DEF WebseedBlock
  <2>2. UNCHANGED <<hasWishlist, wanted>>
    BY <1>5 DEF WebseedBlock
  <2>3. CASE known
    <3>1. /\ unrequested' = TakeBlocks(unrequested, S)
          /\ active' = [active EXCEPT ![w] = active[w] \cup S]
      BY <2>1, <2>3
    <3>2. UNCHANGED <<candidates, block_span, have, hasWishlist, wanted>>
      BY <1>5, <2>3 DEF WebseedBlock
    <3>3. AllActive \ {} \subseteq AllActive' /\ S \subseteq AllActive'
      BY <1>1, <1>2, <3>1 DEF AllActive
    <3> QED
      BY <3>1, <3>2, <3>3, ResetTakeList
  <2>4. CASE ~known
    <3> DEFINE after == ActiveAfter(b, w)
    <3>1. /\ unrequested' = TakeBlocks(UnreqAfter(b, Bad), S)
          /\ active' = [after EXCEPT ![w] = after[w] \cup S]
      BY <2>1, <2>4
    <3>2. /\ after \in [Sources -> SUBSET Blocks]
          /\ \A q \in Sources : active[q] \ {b} \subseteq after[q]
      BY <1>1 DEF ActiveAfter
    <3>3. AllActive \ {b} \subseteq UNION {after[q] : q \in Sources}
      BY <3>2 DEF AllActive
    <3> HIDE DEF after
    <3>4. AllActive \ {b} \subseteq AllActive' /\ S \subseteq AllActive'
      BY <1>2, <3>1, <3>2, <3>3
    <3>5. b \in Blocks /\ BlockReceived(b, Bad)
      BY <1>5, <2>4 DEF WebseedBlock, TypeOK
    <3> QED
      BY <2>2, <3>1, <3>4, <3>5, ReceivedList
  <2> QED
    BY <2>3, <2>4
<1>6. ASSUME NEW t \in tasks[w], NEW b \in t, WebseedWriteFails(w, t, b) PROVE ListInv'
  BY <1>6, DropList DEF WebseedWriteFails, StopEffect
<1> QED
  BY <1>3, <1>4, <1>5, <1>6 DEF WebseedStep

(* The wishlist's safety is kept by every step of the program.             *)
THEOREM ListInvariant == Spec => []ListInv
<1>1. Init => ListInv
  BY DEF Init, ListInv, Disjoint, Covered, Accounted
<1>2. TypeOK /\ ListInv /\ [Next]_vars => ListInv'
  <2> SUFFICES ASSUME TypeOK, ListInv, [Next]_vars PROVE ListInv'
    OBVIOUS
  <2>1. CASE UNCHANGED vars
    BY <2>1 DEF vars, torrentVars, wishlistVars, ListInv, Covered, AllActive
  <2>2. CASE Next
    BY <2>2, UserStepList, PeerStepList, WebseedStepList DEF Next
  <2> QED
    BY <2>1, <2>2
<1> QED
  BY <1>1, <1>2, TypeCorrect, PTL DEF Spec

(* No block is owned by two candidates.                                    *)
THEOREM SpansStayDisjoint == Spec => []SpansDisjoint
<1>1. ListInv => SpansDisjoint
  BY ListInvMeans
<1> QED
  BY <1>1, ListInvariant, PTL

(* Every block that a wanted piece lacks is owned by a candidate.          *)
THEOREM WantedBlocksAreOwned == Spec => []WantedBlocksOwned
<1>1. ListInv => WantedBlocksOwned
  BY ListInvMeans
<1> QED
  BY <1>1, ListInvariant, PTL

(* No missing block of a candidate is forgotten: it is requestable or      *)
(* requested.                                                              *)
THEOREM NoBlockIsLost == Spec => []NoLostBlock
<1>1. ListInv => NoLostBlock
  BY ListInvMeans
<1> QED
  BY <1>1, ListInvariant, PTL

-----------------------------------------------------------------------------
(* Without webseeds, no block that we have is requested or requestable.    *)

(* Nothing in un, the unrequested blocks, is among the blocks H.           *)
Clean(un, H) == \A c \in Pieces : un[c] \cap H = {}

(* And no peer is waited for with one of them.                             *)
RequestsClean(act, H) == \A p \in Peers : act[p] \cap H = {}

NoHad == Clean(unrequested, have) /\ RequestsClean(active, have)

(* What is available is clean.                                             *)
LEMMA AvailableClean ==
    ASSUME NEW un, NEW H, Clean(un, H), NEW cs \in SUBSET Pieces, NEW repl, NEW P
    PROVE  Available(cs, un, repl, P) \cap H = {}
BY DEF Available, Clean

(* The upkeep leaves the list clean.                                       *)
LEMMA UpkeepClean ==
    ASSUME WishlistTypeOK, Clean(unrequested, have), NEW Target \in SUBSET Pieces
    PROVE  Clean(UpkeepUnrequested(Target, have), have)
<1> DEFINE un == UpkeepUnrequested(Target, have)
<1> SUFFICES ASSUME NEW c \in Pieces, NEW b \in un[c], b \in have PROVE FALSE
  BY DEF Clean
<1>1. CASE c \in Retained(Target)
  <2>1. b \in unrequested[c] \/ \E d \in DroppedBeside(Target, c) : b \in unrequested[d]
    BY <1>1 DEF UpkeepUnrequested
  <2> QED
    BY <2>1 DEF Clean, DroppedBeside, Dropped, WishlistTypeOK
<1>2. CASE c \notin Retained(Target)
  BY <1>2 DEF UpkeepUnrequested
<1> QED
  BY <1>1, <1>2

(* So does the arrival of a block.                                         *)
LEMMA ReceivedClean ==
    ASSUME TypeOK, Clean(unrequested, have), NEW b \in Blocks, NEW Bad \in Verdicts(b),
           BlockReceived(b, Bad)
    PROVE  Clean(UnreqAfter(b, Bad), have')
<1>1. have' = (have \cup {b}) \ UNION {BlockSpan[c] : c \in Bad}
  BY DEF BlockReceived, HaveAfter
<1>2. CASE ~hasWishlist
  <2>1. \A c \in Pieces : unrequested[c] = {}
    BY <1>2 DEF TypeOK, WishlistTypeOK
  <2> QED
    BY <1>2, <2>1 DEF UnreqAfter, Clean
<1>3. CASE hasWishlist
  <2> DEFINE un == TakeBlocks(unrequested, {b})
             un2 == CheckedUnrequested(un, Passed(b, Bad), Bad)
  <2>1. \A c \in Pieces : un[c] \cap (have \cup {b}) = {}
    BY DEF TakeBlocks, Clean
  <2>2. \A c \in Pieces : un2[c] \subseteq un[c] \cup UNION {BlockSpan[d] : d \in Bad}
    <3>1. ASSUME NEW c \in Pieces, NEW x \in un2[c], x \notin un[c]
          PROVE  x \in UNION {BlockSpan[d] : d \in Bad}
      <4>1. CASE c \in Bad
        <5>1. x \in BlockSpan[c]
          BY <3>1, <4>1 DEF CheckedUnrequested, CheckedSpan
        <5> QED
          BY <4>1, <5>1
      <4>2. CASE c \notin Bad
        BY <3>1, <4>2 DEF CheckedUnrequested
      <4> QED
        BY <4>1, <4>2
    <3> QED
      BY <3>1
  <2> HIDE DEF un, un2
  <2>3. Clean(un2, have')
    BY <1>1, <2>1, <2>2 DEF Clean
  <2> QED
    BY <1>3, <2>3 DEF UnreqAfter, un, un2
<1> QED
  BY <1>2, <1>3

(* Blocks S that are not had are requested of p.                           *)
LEMMA RequestClean ==
    ASSUME NEW p \in Peers, NEW act \in [Sources -> SUBSET Blocks], NEW H,
           RequestsClean(act, H), NEW old, old \subseteq act[p], NEW S, S \cap H = {},
           active' = [act EXCEPT ![p] = old \cup S]
    PROVE  RequestsClean(active', H)
<1>1. \A q \in Peers : active'[q] \subseteq act[q] \cup S
  BY DEF Sources
<1> QED
  BY <1>1 DEF RequestsClean

(* The user's commands, the timer of the torrent and updateInterest.       *)
LEMMA UserStepNoHad ==
    ASSUME TypeOK, NoHad, UserStep
    PROVE  NoHad'
<1> USE DEF torrentVars, peerVars, seedVars, wishlistVars
<1>1. have' = have
  BY DEF UserStep, Start, Stop, DoIdleWork, SetFilesWanted, UpdateInterest
<1>2. Clean(NoBlocks, have)
  BY DEF Clean, NoBlocks
<1>3. CASE Start
  <2>1. Lacking(have, wanted) \in SUBSET Pieces
    BY DEF Lacking, TypeOK
  <2> QED
    BY <1>1, <1>3, <2>1, UpkeepClean DEF Start, NoHad, TypeOK
<1>4. CASE Stop
  BY <1>1, <1>2, <1>4 DEF Stop, StopEffect, DropWishlist, NoHad, RequestsClean, Sources
<1>5. CASE DoIdleWork
  BY <1>1, <1>2, <1>5 DEF DoIdleWork, Recheck, DropWishlist, NoHad
<1>6. ASSUME NEW W \in SUBSET Pieces, SetFilesWanted(W) PROVE NoHad'
  <2>1. Lacking(have, W) \in SUBSET Pieces
    BY DEF Lacking
  <2>2. Clean(UpkeepUnrequested(Lacking(have, W), have), have)
    BY <2>1, UpkeepClean DEF NoHad, TypeOK
  <2>3. \/ unrequested' = NoBlocks \/ unrequested' = unrequested
        \/ unrequested' = UpkeepUnrequested(Lacking(have, W), have)
    BY <1>6 DEF SetFilesWanted, Recheck, DropWishlist
  <2>4. active' = active
    BY <1>6 DEF SetFilesWanted
  <2> QED
    BY <1>1, <1>2, <2>2, <2>3, <2>4 DEF NoHad
<1>7. CASE UpdateInterest
  <2> DEFINE changed == {p \in connected : clientInterested[p] # Interesting(p)}
             may(p) == /\ p \in changed /\ Interesting(p)
                       /\ ~clientChoked[p] /\ hasWishlist
             rest(S, p) == AvailableTo(unrequested, p) \ UNION {S[q] : q \in changed \ {p}}
  <2>1. PICK S \in [changed -> SUBSET Blocks] :
            /\ \A p \in changed : S[p] \in Asks(may(p), rest(S, p), active[p])
            /\ unrequested' = TakeBlocks(unrequested, UNION {S[p] : p \in changed})
            /\ active' = [q \in Sources |-> IF q \in changed
                              THEN active[q] \cup S[q] ELSE active[q]]
    BY <1>7 DEF UpdateInterest
  <2>2. \A p \in changed : S[p] \subseteq AvailableTo(unrequested, p)
    <3> SUFFICES ASSUME NEW p \in changed PROVE S[p] \subseteq AvailableTo(unrequested, p)
      OBVIOUS
    <3>1. S[p] \in Asks(may(p), rest(S, p), active[p])
      BY <2>1
    <3>2. rest(S, p) \subseteq AvailableTo(unrequested, p)
      OBVIOUS
    <3> HIDE DEF may, rest
    <3> QED
      BY <3>1, <3>2, AsksAvailable
  <2> HIDE DEF changed
  <2>3. \A p \in changed : S[p] \cap have = {}
    BY <2>2, AvailableClean DEF AvailableTo, NoHad, TypeOK, WishlistTypeOK
  <2>4. RequestsClean(active', have)
    BY <2>1, <2>3 DEF RequestsClean, NoHad, Sources
  <2>5. Clean(unrequested', have)
    BY <2>1 DEF TakeBlocks, Clean, NoHad
  <2> QED
    BY <1>1, <2>4, <2>5 DEF NoHad
<1> QED
  BY <1>3, <1>4, <1>5, <1>6, <1>7 DEF UserStep

(* The messages of a peer, its coming and its going, without webseeds.     *)
LEMMA PeerStepNoHad ==
    ASSUME Webseeds = {}, TypeOK, NoHad, NEW p \in Peers, PeerStep(p)
    PROVE  NoHad'
<1> USE DEF torrentVars, peerVars, seedVars, wishlistVars
<1>1. /\ candidates \in SUBSET Pieces
      /\ active \in [Sources -> SUBSET Blocks]
      /\ Sources = Peers
      /\ Clean(unrequested, have)
      /\ RequestsClean(active, have)
  BY DEF TypeOK, WishlistTypeOK, Sources, NoHad
<1>2. \A B : B \cap have = {} => Clean(ResetBlocks(unrequested, B), have)
  BY <1>1 DEF Clean, ResetBlocks
<1>3. \A un, S, H : Clean(un, H) => Clean(TakeBlocks(un, S), H)
  BY DEF Clean, TakeBlocks
<1>4. ASSUME have' = have, NEW un, Clean(un, have), NEW may, NEW repl, NEW P, NEW q,
             NEW S \in Asks(may, Available(candidates, un, repl, P), q),
             unrequested' = TakeBlocks(un, S),
             NEW old, old \subseteq active[p],
             active' = [active EXCEPT ![p] = old \cup S]
      PROVE  NoHad'
  <2>1. S \cap have = {}
    BY <1>1, <1>4, AsksAvailable, AvailableClean
  <2>2. RequestsClean(active', have)
    BY <1>1, <1>4, <2>1, RequestClean
  <2> QED
    BY <1>3, <1>4, <2>2 DEF NoHad
<1>5. ASSUME have' = have, NEW may, NEW repl, NEW P, NEW S \in AsksThen(p, may, repl, P),
              unrequested' = TakeBlocks(unrequested, S),
              active' = [active EXCEPT ![p] = active[p] \cup S]
       PROVE  NoHad'
  <2>1. S \in Asks(may, Available(candidates, unrequested, repl, P), active[p])
    BY <1>5 DEF AsksThen
  <2> QED
    BY <1>1, <1>4, <1>5, <2>1
<1>6. active[p] \cap have = {}
  BY <1>1 DEF RequestsClean
<1>7. CASE Connect(p) \/ GotHaveNone(p)
  BY <1>7 DEF Connect, GotHaveNone, NoHad
<1>8. CASE Disconnect(p)
  <2>1. Clean(unrequested', have) /\ have' = have
    BY <1>2, <1>6, <1>8 DEF Disconnect
  <2>2. RequestsClean(active', have)
    BY <1>1, <1>8 DEF Disconnect, RequestsClean
  <2> QED
    BY <2>1, <2>2 DEF NoHad
<1>9. CASE GotChoke(p)
  <2>1. Clean(unrequested', have) /\ have' = have
    BY <1>1, <1>2, <1>6, <1>9 DEF GotChoke
  <2>2. RequestsClean(active', have)
    BY <1>1, <1>9 DEF GotChoke, RequestsClean
  <2> QED
    BY <2>1, <2>2 DEF NoHad
<1>10. CASE GotUnchoke(p)
  BY <1>5, <1>10 DEF GotUnchoke
<1>11. ASSUME NEW P, NEW Added, LearnPieces(p, P, Added) PROVE NoHad'
  BY <1>5, <1>11 DEF LearnPieces
<1>12. ASSUME NEW b \in active[p], GotReject(p, b) PROVE NoHad'
  <2>1. PICK S \in Asks(MayAsk(p), AvailableTo(unrequested, p), active[p] \ {b}) :
           /\ unrequested' = ResetBlocks(TakeBlocks(unrequested, S), {b})
           /\ active' = [active EXCEPT ![p] = (active[p] \ {b}) \cup S]
    BY <1>12 DEF GotReject
  <2>2. S \cap have = {}
    BY <1>1, AsksAvailable, AvailableClean DEF AvailableTo
  <2>3. RequestsClean(active', have)
    <3>1. active[p] \ {b} \subseteq active[p]
      OBVIOUS
    <3> QED
      BY <1>1, <2>1, <2>2, <3>1, RequestClean
  <2>4. b \notin have
    BY <1>6
  <2>5. Clean(unrequested', have)
    BY <1>1, <2>1, <2>4 DEF Clean, ResetBlocks, TakeBlocks
  <2>6. have' = have
    BY <1>12 DEF GotReject
  <2> QED
    BY <2>3, <2>5, <2>6 DEF NoHad
<1>13. ASSUME NEW Late \in SUBSET active[p], Pulse(p, Late) PROVE NoHad'
  <2> DEFINE un == ResetBlocks(unrequested, Late)
             old == active[p] \ Late
  <2>1. PICK S \in Asks(MayAsk(p), AvailableTo(un, p), old) :
           /\ unrequested' = TakeBlocks(un, S)
           /\ active' = [active EXCEPT ![p] = old \cup S]
    BY <1>13 DEF Pulse
  <2>2. Clean(un, have) /\ old \subseteq active[p] /\ have' = have
    BY <1>2, <1>6, <1>13 DEF Pulse
  <2> HIDE DEF un, old
  <2> QED
    BY <1>4, <2>1, <2>2 DEF AvailableTo
<1>14. ASSUME NEW b \in Blocks, GotUnwelcomePiece(p, b) PROVE NoHad'
  BY <1>5, <1>14 DEF GotUnwelcomePiece
<1>15. ASSUME NEW b \in Blocks, NEW Bad \in Verdicts(b), GotPiece(p, b, Bad) PROVE NoHad'
  <2> DEFINE unreq == UnreqAfter(b, Bad)
             act   == ActiveAfter(b, p)
  <2>1. BlockReceived(b, Bad)
    BY <1>15 DEF GotPiece
  <2>2. Clean(unreq, have') /\ candidates' \in SUBSET Pieces
    BY <1>1, <2>1, ReceivedClean, ReceivedType DEF Proper
  <2>3. act \in [Sources -> SUBSET Blocks] /\ RequestsClean(act, have')
    BY <1>1, <2>1 DEF ActiveAfter, RequestsClean, BlockReceived, HaveAfter
  <2>4. PICK S \in Asks(MayAsk(p), Available(candidates', unreq, replication', peerHas[p]),
                        act[p]) :
           /\ unrequested' = TakeBlocks(unreq, S)
           /\ active' = [act EXCEPT ![p] = act[p] \cup S]
    BY <1>15 DEF GotPiece
  <2> HIDE DEF unreq, act
  <2>5. S \cap have' = {}
    BY <2>2, <2>4, AsksAvailable, AvailableClean
  <2>6. RequestsClean(active', have')
    BY <2>3, <2>4, <2>5, RequestClean
  <2>7. Clean(unrequested', have')
    BY <1>3, <2>2, <2>4
  <2> QED
    BY <2>6, <2>7 DEF NoHad
<1>16. ASSUME NEW b \in Blocks, WriteFails(p, b) PROVE NoHad'
  BY <1>1, <1>16 DEF WriteFails, StopEffect, DropWishlist, NoHad, Clean, NoBlocks, RequestsClean
<1> QED
  BY <1>7, <1>8, <1>9, <1>10, <1>11, <1>12, <1>13, <1>14, <1>15, <1>16
     DEF PeerStep, GotHave, GotBitfield, GotHaveAll

(* No peer is asked for a block we have, when all that is downloaded comes *)
(* from peers.                                                             *)
THEOREM PeersNeverAskedForHad ==
    ASSUME Webseeds = {}
    PROVE  Spec => []NeverRequestHad
<1>1. Init => NoHad
  BY DEF Init, NoHad, Clean, RequestsClean, NoBlocks, Sources
<1>2. TypeOK /\ NoHad /\ [Next]_vars => NoHad'
  <2> SUFFICES ASSUME TypeOK, NoHad, [Next]_vars PROVE NoHad'
    OBVIOUS
  <2>1. CASE UNCHANGED vars
    BY <2>1 DEF vars, torrentVars, wishlistVars, NoHad
  <2>2. CASE Next
    BY <2>2, UserStepNoHad, PeerStepNoHad DEF Next
  <2> QED
    BY <2>1, <2>2
<1>3. TypeOK /\ NoHad => NeverRequestHad
  BY DEF TypeOK, WishlistTypeOK, NoHad, Clean, RequestsClean, NeverRequestHad
<1> QED
  BY <1>1, <1>2, <1>3, TypeCorrect, PTL DEF Spec

-----------------------------------------------------------------------------
(* Interest.  That a done torrent is interested in nobody rests on a       *)
(* stopped one being interested in nobody, since it may be found done when *)
(* it starts.                                                              *)
Quiet == Done \/ ~running => \A p \in Peers : ~clientInterested[p]

(* We are interested in no peer once the torrent is done.                  *)
THEOREM DoneHasNoInterest == Spec => []NoInterestWhenDone
<1> USE DEF torrentVars, peerVars, seedVars, wishlistVars, Quiet, Done
<1>1. Init => Quiet
  BY DEF Init
<1>2. TypeOK /\ Quiet /\ [Next]_vars => Quiet'
  <2> SUFFICES ASSUME TypeOK, Quiet, [Next]_vars PROVE Quiet'
    OBVIOUS
  <2>1. CASE UNCHANGED vars
    BY <2>1 DEF vars
  <2>2. CASE UserStep
    <3>1. CASE Start
      BY <3>1 DEF Start
    <3>2. CASE Stop
      BY <3>2 DEF Stop, StopEffect
    <3>3. CASE DoIdleWork
      BY <3>3 DEF DoIdleWork, Recheck
    <3>4. CASE UpdateInterest
      BY <3>4 DEF UpdateInterest
    <3>5. ASSUME NEW W, SetFilesWanted(W) PROVE Quiet'
      BY <3>5 DEF SetFilesWanted, Recheck
    <3> QED
      BY <2>2, <3>1, <3>2, <3>3, <3>4, <3>5 DEF UserStep
  <2>3. ASSUME NEW p \in Peers, PeerStep(p) PROVE Quiet'
    <3>1. CASE UNCHANGED <<running, completeness, clientInterested>>
      BY <3>1
    <3>2. CASE Disconnect(p)
      <4>1. \A q \in Peers : clientInterested'[q] => clientInterested[q]
        BY <3>2 DEF Disconnect, TypeOK
      <4> QED
        BY <3>2, <4>1 DEF Disconnect
    <3>3. ASSUME NEW b, WriteFails(p, b) PROVE Quiet'
      BY <3>3 DEF WriteFails, StopEffect
    <3> QED
      BY <2>3, <3>1, <3>2, <3>3 DEF PeerStep, Connect, GotChoke, GotUnchoke, GotHave, GotBitfield,
         GotHaveAll, LearnPieces, GotHaveNone, GotReject, Pulse, GotUnwelcomePiece, GotPiece
  <2>4. ASSUME NEW w \in Webseeds, WebseedStep(w) PROVE Quiet'
    <3>1. CASE UNCHANGED <<running, completeness, clientInterested>>
      BY <3>1
    <3>2. ASSUME NEW t, NEW b, WebseedWriteFails(w, t, b) PROVE Quiet'
      BY <3>2 DEF WebseedWriteFails, StopEffect
    <3> QED
      BY <2>4, <3>1, <3>2 DEF WebseedStep, WebseedIdle, WebseedFails, WebseedBlock
  <2> QED
    BY <2>1, <2>2, <2>3, <2>4 DEF Next
<1>3. Quiet => NoInterestWhenDone
  BY DEF NoInterestWhenDone
<1> QED
  BY <1>1, <1>2, <1>3, TypeCorrect, PTL DEF Spec

-----------------------------------------------------------------------------
(* Replication.                                                            *)

Holders(c) == {p \in connected : c \in peerHas[p]}

(* The count of the sources goes with the set of the peers that hold the   *)
(* piece.                                                                  *)
LEMMA HoldersCount ==
    ASSUME connected \subseteq Peers, connected' \subseteq Peers, NEW c, NEW p
    PROVE  /\ CountReplication(c) \in Nat /\ CountReplication(c)' \in Nat
           /\ Holders(c)' \subseteq Holders(c) => CountReplication(c)' <= CountReplication(c)
           /\ Holders(c)' \subseteq Holders(c) \cup {p}
                 => CountReplication(c)' <= CountReplication(c) + 1
           /\ p \in Holders(c) /\ Holders(c)' = Holders(c) \ {p}
                 => CountReplication(c)' <= CountReplication(c) - 1
<1> DEFINE A == Holders(c)
           B == Holders(c)'
<1>1. IsFiniteSet(A) /\ IsFiniteSet(B) /\ IsFiniteSet(Webseeds)
  BY SourceAssumption, FS_Subset DEF Holders
<1>2. /\ Cardinality(A) \in Nat /\ Cardinality(B) \in Nat /\ Cardinality(Webseeds) \in Nat
  BY <1>1, FS_CardinalityType
<1>3. /\ CountReplication(c) = Cardinality(A) + Cardinality(Webseeds)
      /\ CountReplication(c)' = Cardinality(B) + Cardinality(Webseeds)
  BY DEF CountReplication, Holders
<1> HIDE DEF A, B
<1>4. ASSUME B \subseteq A PROVE Cardinality(B) <= Cardinality(A)
  BY <1>1, <1>4, FS_Subset
<1>5. ASSUME B \subseteq A \cup {p} PROVE Cardinality(B) <= Cardinality(A) + 1
  <2>1. IsFiniteSet(A \cup {p}) /\ Cardinality(A \cup {p}) <= Cardinality(A) + 1
        /\ Cardinality(A \cup {p}) \in Nat
    BY <1>1, <1>2, FS_AddElement
  <2>2. Cardinality(B) <= Cardinality(A \cup {p})
    BY <1>5, <2>1, FS_Subset
  <2> QED
    BY <1>2, <2>1, <2>2
<1>6. ASSUME p \in A, B = A \ {p} PROVE Cardinality(B) = Cardinality(A) - 1
  BY <1>1, <1>6, FS_RemoveElement
<1> QED
  BY <1>2, <1>3, <1>4, <1>5, <1>6 DEF A, B

CoverInv == /\ ReplicationCovers
            /\ \A p \in Peers \ connected : peerHas[p] = {}

(* A step that keeps what the peers have leaves the count alone.           *)
LEMMA SameCover ==
    ASSUME CoverInv, UNCHANGED <<candidates, replication, connected, peerHas>>
    PROVE  CoverInv'
BY DEF CoverInv, ReplicationCovers, CountReplication

(* Without candidates there is nothing to cover.                           *)
LEMMA NoCover ==
    ASSUME CoverInv, DropWishlist, UNCHANGED <<connected, peerHas>>
    PROVE  CoverInv'
BY DEF CoverInv, ReplicationCovers, DropWishlist

(* A stopped torrent has no peers and nothing to cover.                    *)
LEMMA StopCover ==
    ASSUME NEW act, StopEffect(act)
    PROVE  CoverInv'
BY DEF CoverInv, ReplicationCovers, StopEffect, DropWishlist

(* The upkeep counts the new candidates.                                   *)
LEMMA UpkeepCover ==
    ASSUME TypeOK, CoverInv, UNCHANGED <<connected, peerHas>>,
           NEW Target \in SUBSET Pieces, candidates' = Target,
           replication' = UpkeepReplication(Target, Counts)
    PROVE  CoverInv'
<1>1. \A c : CountReplication(c)' = CountReplication(c) /\ CountReplication(c) \in Nat
  BY CountType DEF CountReplication, TypeOK
<1>2. \A c \in Target : replication'[c] >= CountReplication(c)
  BY <1>1 DEF UpkeepReplication, Counts, Retained, Fresh, CoverInv, ReplicationCovers
<1> QED
  BY <1>1, <1>2 DEF CoverInv, ReplicationCovers

(* So does the arrival of a block.                                         *)
LEMMA ReceivedCover ==
    ASSUME TypeOK, CoverInv, NEW b \in Blocks, NEW Bad \in Verdicts(b),
           BlockReceived(b, Bad), UNCHANGED <<connected, peerHas>>
    PROVE  CoverInv'
<1>1. \A c : CountReplication(c)' = CountReplication(c) /\ CountReplication(c) \in Nat
  BY CountType DEF CountReplication, TypeOK
<1>2. \A c \in candidates' : replication'[c] >= CountReplication(c)
  <2>1. CASE hasWishlist
    BY <1>1, <2>1, VerdictHolds DEF BlockReceived, CheckedCandidates, CheckedReplication,
       Counts, CoverInv, ReplicationCovers, TypeOK, WishlistTypeOK, Verdict
  <2>2. CASE ~hasWishlist
    BY <2>2 DEF BlockReceived, CoverInv, ReplicationCovers
  <2> QED
    BY <2>1, <2>2
<1> QED
  BY <1>1, <1>2 DEF CoverInv, ReplicationCovers

(* The cached replication never falls below the number of sources, so that *)
(* it never wraps and no piece somebody has is skipped.                    *)
THEOREM ReplicationIsCovered == Spec => []ReplicationCovers
<1> USE DEF torrentVars, peerVars, seedVars, wishlistVars
<1>1. Init => CoverInv
  BY DEF Init, CoverInv, ReplicationCovers
<1>2. TypeOK /\ TypeOK' /\ CoverInv /\ [Next]_vars => CoverInv'
  <2> SUFFICES ASSUME TypeOK, TypeOK', CoverInv, [Next]_vars PROVE CoverInv'
    OBVIOUS
  <2>1. CASE UNCHANGED vars
    BY <2>1, SameCover DEF vars
  <2>2. CASE UserStep
    <3>1. CASE Start
      <4>1. Lacking(have, wanted) \in SUBSET Pieces
        BY DEF Lacking, TypeOK
      <4> QED
        BY <3>1, <4>1, UpkeepCover DEF Start
    <3>2. CASE Stop
      BY <3>2, StopCover DEF Stop
    <3>3. CASE DoIdleWork
      BY <3>3, SameCover, NoCover DEF DoIdleWork, Recheck
    <3>4. ASSUME NEW W \in SUBSET Pieces, SetFilesWanted(W) PROVE CoverInv'
      <4>1. Lacking(have, W) \in SUBSET Pieces
        BY DEF Lacking
      <4>2. UNCHANGED <<connected, peerHas>>
        BY <3>4 DEF SetFilesWanted
      <4>3. \/ DropWishlist
            \/ UNCHANGED wishlistVars
            \/ /\ candidates' = Lacking(have, W)
               /\ replication' = UpkeepReplication(Lacking(have, W), Counts)
        BY <3>4 DEF SetFilesWanted, Recheck
      <4> QED
        BY <4>1, <4>2, <4>3, SameCover, NoCover, UpkeepCover
    <3>5. CASE UpdateInterest
      BY <3>5, SameCover DEF UpdateInterest
    <3> QED
      BY <2>2, <3>1, <3>2, <3>3, <3>4, <3>5 DEF UserStep
  <2>3. ASSUME NEW p \in Peers, PeerStep(p) PROVE CoverInv'
    <3>1. CASE UNCHANGED <<candidates, replication, connected, peerHas>>
      BY <3>1, SameCover
    <3>2. connected \subseteq Peers /\ connected' \subseteq Peers
          /\ candidates \subseteq Pieces /\ replication \in [Pieces -> Int]
          /\ peerHas \in [Peers -> SUBSET Pieces]
      BY DEF TypeOK, WishlistTypeOK
    <3>3. \A c \in candidates : replication[c] >= CountReplication(c)
      BY DEF CoverInv, ReplicationCovers
    <3>4. CASE Connect(p)
      <4>1. \A c : Holders(c)' \subseteq Holders(c)
        BY <3>4 DEF Connect, Holders, CoverInv
      <4>2. \A c : CountReplication(c)' <= CountReplication(c)
                   /\ CountReplication(c) \in Nat /\ CountReplication(c)' \in Nat
        BY <3>2, <4>1, HoldersCount
      <4> QED
        BY <3>2, <3>3, <3>4, <4>2 DEF Connect, CoverInv, ReplicationCovers
    <3>5. CASE GotHaveNone(p)
      <4>1. \A c : Holders(c)' \subseteq Holders(c)
        BY <3>2, <3>5 DEF GotHaveNone, Holders
      <4>2. \A c : CountReplication(c)' <= CountReplication(c)
                   /\ CountReplication(c) \in Nat /\ CountReplication(c)' \in Nat
        BY <3>2, <4>1, HoldersCount
      <4> QED
        BY <3>2, <3>3, <3>5, <4>2 DEF GotHaveNone, CoverInv, ReplicationCovers
    <3>6. CASE Disconnect(p)
      <4>1. \A c : Holders(c)' = Holders(c) \ {p}
        BY <3>2, <3>6 DEF Disconnect, Holders
      <4>2. \A c \in candidates : replication'[c] =
               IF c \in peerHas[p] THEN replication[c] - 1 ELSE replication[c]
        BY <3>2, <3>6 DEF Disconnect, AddReplication
      <4>3. \A c \in candidates : c \in peerHas[p] => p \in Holders(c)
        BY <3>6 DEF Disconnect, Holders
      <4>4. ASSUME NEW c \in candidates PROVE replication'[c] >= CountReplication(c)'
        <5>1. CountReplication(c) \in Nat /\ CountReplication(c)' \in Nat
          BY <3>2, HoldersCount
        <5>2. CASE c \in peerHas[p]
          <6>1. CountReplication(c)' <= CountReplication(c) - 1
            BY <3>2, <4>1, <4>3, <5>2, HoldersCount
          <6> QED
            BY <3>2, <3>3, <4>2, <5>1, <5>2, <6>1
        <5>3. CASE c \notin peerHas[p]
          <6>1. CountReplication(c)' <= CountReplication(c)
            BY <3>2, <4>1, HoldersCount
          <6> QED
            BY <3>2, <3>3, <4>2, <5>1, <5>3, <6>1
        <5> QED
          BY <5>2, <5>3
      <4> QED
        BY <3>2, <3>6, <4>4 DEF Disconnect, CoverInv, ReplicationCovers
    <3>7. ASSUME NEW P \in SUBSET Pieces, NEW Added \in SUBSET Pieces, P \subseteq peerHas[p] \cup Added,
                 LearnPieces(p, P, Added)
          PROVE  CoverInv'
      <4>1. \A c \in Pieces : /\ Holders(c)' \subseteq Holders(c) \cup {p}
                              /\ c \notin Added => Holders(c)' \subseteq Holders(c)
        BY <3>2, <3>7 DEF LearnPieces, Holders
      <4>2. \A c \in candidates : replication'[c] =
               IF c \in Added THEN replication[c] + 1 ELSE replication[c]
        BY <3>2, <3>7 DEF LearnPieces, AddReplication
      <4>3. ASSUME NEW c \in candidates PROVE replication'[c] >= CountReplication(c)'
        <5>1. CountReplication(c) \in Nat /\ CountReplication(c)' \in Nat
          BY <3>2, HoldersCount
        <5>2. CountReplication(c)' <= CountReplication(c) + (IF c \in Added THEN 1 ELSE 0)
          <6>1. c \in Pieces
            BY <3>2
          <6>2. CASE c \in Added
            BY <3>2, <4>1, <6>1, <6>2, HoldersCount
          <6>3. CASE c \notin Added
            <7>1. CountReplication(c)' <= CountReplication(c)
              BY <3>2, <4>1, <6>1, <6>3, HoldersCount
            <7> QED
              BY <5>1, <6>3, <7>1
          <6> QED
            BY <6>2, <6>3
        <5> QED
          BY <3>2, <3>3, <4>2, <5>1, <5>2
      <4> QED
        BY <3>2, <3>7, <4>3 DEF LearnPieces, CoverInv, ReplicationCovers
    <3>8. ASSUME NEW c \in Pieces, GotHave(p, c) PROVE CoverInv'
      <4>1. peerHas[p] \cup {c} \in SUBSET Pieces /\ {c} \in SUBSET Pieces
        BY <3>2
      <4> QED
        BY <3>7, <3>8, <4>1 DEF GotHave
    <3>9. ASSUME NEW P \in PeerBitfields, GotBitfield(p, P) PROVE CoverInv'
      BY <3>7, <3>9, SourceAssumption DEF GotBitfield
    <3>10. CASE GotHaveAll(p)
      BY <3>7, <3>10 DEF GotHaveAll
    <3>11. ASSUME NEW b \in Blocks, NEW Bad \in Verdicts(b), GotPiece(p, b, Bad) PROVE CoverInv'
      BY <3>11, ReceivedCover DEF GotPiece
    <3>12. ASSUME NEW b, WriteFails(p, b) PROVE CoverInv'
      BY <3>12, StopCover DEF WriteFails
    <3> QED
      BY <2>3, <3>1, <3>4, <3>5, <3>6, <3>8, <3>9, <3>10, <3>11, <3>12
         DEF PeerStep, GotChoke, GotUnchoke, GotReject, Pulse, GotUnwelcomePiece
  <2>4. ASSUME NEW w \in Webseeds, WebseedStep(w) PROVE CoverInv'
    <3>1. CASE UNCHANGED <<candidates, replication, connected, peerHas>>
      BY <3>1, SameCover
    <3>2. ASSUME NEW t \in tasks[w], NEW b \in t, NEW Bad \in Verdicts(b),
                 WebseedBlock(w, t, b, Bad)
          PROVE  CoverInv'
      <4>1. CASE b \in have
        BY <3>1, <3>2, <4>1 DEF WebseedBlock
      <4>2. CASE b \notin have
        <5>1. b \in Blocks
          BY DEF TypeOK
        <5> QED
          BY <3>2, <4>2, <5>1, ReceivedCover DEF WebseedBlock
      <4> QED
        BY <4>1, <4>2
    <3>3. ASSUME NEW t, NEW b, WebseedWriteFails(w, t, b) PROVE CoverInv'
      BY <3>3, StopCover DEF WebseedWriteFails
    <3> QED
      BY <2>4, <3>1, <3>2, <3>3 DEF WebseedStep, WebseedIdle, WebseedFails
  <2> QED
    BY <2>1, <2>2, <2>3, <2>4 DEF Next
<1>3. CoverInv => ReplicationCovers
  BY DEF CoverInv
<1> QED
  BY <1>1, <1>2, <1>3, TypeCorrect, PTL DEF Spec

=============================================================================
