--------------------------- MODULE WishlistEvents ---------------------------
(***************************************************************************)
(* What the wishlist promises to the swarm: after each event the set-level *)
(* operators of Wishlist say which pieces are candidates, which blocks     *)
(* each of them owns, and which of these may be asked for.  Download uses  *)
(* the same operators; WishlistList shows that the sorted vector with its  *)
(* begin and end indices computes them.                                    *)
(*                                                                         *)
(* The environment is the part of the torrent and of its swarm that the    *)
(* wishlist's mediator reads: the blocks we have, the pieces we want, and  *)
(* the pieces of each peer.  Which blocks have been asked of whom is in    *)
(* Download; here any missing block may turn out not to come.              *)
(***************************************************************************)
EXTENDS Wishlist, FiniteSets

CONSTANTS Peers,      \* the peers and webseeds of the swarm
          Selections  \* the sets of pieces that some choice of files wants

VARIABLES have,    \* client_has_block
          wanted,  \* client_wants_piece
          has      \* of each peer the pieces it has

environment == <<have, wanted, has>>
vars == <<wishlistVars, environment>>

HasPiece(H, c)  == BlockSpan[c] \subseteq H
Lacking(H, W)   == {c \in W : ~HasPiece(H, c)}
Replication     == [c \in Pieces |-> Cardinality({p \in Peers : c \in has[p]})]

(* on_block_received: the pieces that b completes are checked in ascending *)
(* order, until one of them fails.                                         *)
CompletedBy(b) == {c \in Pieces : b \in BlockSpan[c] /\ HasPiece(have \cup {b}, c)}
GoodBefore(b, Bad) == {c \in CompletedBy(b) : \A d \in Bad : c < d}
HaveAfter(b, Bad) == (have \cup {b}) \ UNION {BlockSpan[c] : c \in Bad}

Init ==
    /\ candidates = {} /\ block_span = NoBlocks /\ unrequested = NoBlocks
    /\ replication = [c \in Pieces |-> 0]
    /\ have = {} /\ wanted = {} /\ has = [p \in Peers |-> {}]

(* The files to be downloaded change; the wishlist is made.                *)
FilesWanted(w) ==
    /\ wanted' = w
    /\ LET Target == Lacking(have, w) IN
       /\ candidates'  = Target
       /\ block_span'  = UpkeepSpan(Target)
       /\ unrequested' = UpkeepUnrequested(Target, have)
       /\ replication' = UpkeepReplication(Target, Replication)
    /\ UNCHANGED <<have, has>>

(* A block arrives and completes pieces, at most one of which is bad.      *)
Receive(b, Bad) ==
    /\ have' = HaveAfter(b, Bad)
    /\ LET Good == GoodBefore(b, Bad) IN
       /\ candidates'  = CheckedCandidates(Good, Bad)
       /\ block_span'  = CheckedSpan(Good, Bad)
       /\ unrequested' = CheckedUnrequested(TakeBlocks(unrequested, {b}), Good, Bad)
       /\ replication' = CheckedReplication(Good, Bad, Replication)
    /\ UNCHANGED <<wanted, has>>

(* Some available blocks are asked of a peer.                              *)
Ask(p) ==
    /\ UNCHANGED <<have, wanted, has, candidates, block_span, replication>>
    /\ \E B \in SUBSET Available(candidates, unrequested, replication, has[p]) :
          unrequested' = TakeBlocks(unrequested, B)

(* Blocks that were asked for are not going to come, or are cancelled; the *)
(* peer may be gone.                                                       *)
Refuse ==
    /\ UNCHANGED <<have, wanted, has, candidates, block_span, replication>>
    /\ \E B \in SUBSET (Blocks \ have) : unrequested' = ResetBlocks(unrequested, B)

Leave(p) ==
    /\ UNCHANGED <<have, wanted, candidates, block_span>>
    /\ has' = [has EXCEPT ![p] = {}]
    /\ replication' = AddReplication(has[p], -1)
    /\ \E B \in SUBSET (Blocks \ have) : unrequested' = ResetBlocks(unrequested, B)

(* The peer has P: the pieces Added of it are counted, if need be again.   *)
Learn(p, P, Added) ==
    /\ UNCHANGED <<have, wanted, candidates, block_span, unrequested>>
    /\ has' = [has EXCEPT ![p] = P]
    /\ replication' = AddReplication(Added, 1)

Next ==
    \/ Refuse
    \/ \E p \in Peers : Ask(p) \/ Leave(p)
    \/ \E p \in Peers : \E c \in Pieces \ has[p] : Learn(p, has[p] \cup {c}, {c})
    \/ \E p \in Peers, P \in SUBSET Pieces : Learn(p, P, P)
    \/ \E b \in Blocks \ have : \E Bad \in {{}} \cup {{c} : c \in CompletedBy(b)} : Receive(b, Bad)
    \/ \E w \in Selections : FilesWanted(w)

Spec == Init /\ [][Next]_vars

=============================================================================
