------------------------------ MODULE Download ------------------------------
(***************************************************************************)
(* Downloading one torrent: the blocks it has (completion), the blocks it  *)
(* wants (file selection), the wishlist, and what every connected peer and *)
(* webseed has been asked for (tr_peer::active_requests).                  *)
(*                                                                         *)
(* All of it runs in the session thread, so each handler is one step: one  *)
(* message of a peer, one answer of a web server, one timer, one command   *)
(* of the user.  Several handlers end by asking the peer for more blocks   *)
(* (maybe_send_block_requests); the choice of these blocks is the operator *)
(* Asks, part of the handler's action.  A peer may send any message at any *)
(* time: late pieces, repeated bitfields, rejects of nothing.              *)
(***************************************************************************)
EXTENDS Wishlist, FiniteSets

CONSTANTS Peers,          \* BitTorrent peers that may connect
          FastPeers,      \* those that speak the fast extension (BEP 6)
          Webseeds,       \* web servers that have the whole torrent
          MaxRequests,    \* desired_request_count_ while we may download
          MaxTasks,       \* webseed tasks in flight (ConnectionLimiter)
          MaxBadPiecesPerPeer, \* strikes that ban a webseed
          PeerBitfields,  \* the Bitfield payloads a peer may send
          MaxReplication  \* bound on a candidate's replication, for TLC

ASSUME SourceAssumption ==
    /\ FastPeers \subseteq Peers
    /\ Peers \cap Webseeds = {}
    /\ PeerBitfields \subseteq SUBSET Pieces
    /\ IsFiniteSet(Peers) /\ IsFiniteSet(Webseeds)
    /\ MaxBadPiecesPerPeer \in Nat \ {0}

VARIABLES running,          \* tr_torrent::is_running_, tr_swarm::is_running
          completeness,     \* tr_torrent::completeness_
          needsCheck,       \* needs_completeness_check_
          have,             \* tr_completion::blocks_
          wanted,           \* the pieces with piece_is_wanted()
          hasWishlist,      \* wishlist_controller != nullptr
          connected,        \* tr_swarm::peers
          peerHas,          \* tr_peerMsgsImpl::have_
          clientChoked,     \* client_is_choked()
          clientInterested, \* client_is_interested()
          active,           \* active_requests of each peer and webseed
          tasks,            \* of each webseed: what its live tasks still await
          blame,            \* of each webseed: the pieces it gave blocks for
          strikes,          \* of each webseed: how many of these went bad
          banned            \* the webseeds with is_banned_

torrentVars == <<running, completeness, needsCheck, have, wanted>>
peerVars    == <<connected, peerHas, clientChoked, clientInterested>>
seedVars    == <<tasks, blame, strikes, banned>>
vars == <<torrentVars, hasWishlist, wishlistVars, peerVars, active, seedVars>>

Sources == Peers \cup Webseeds

-----------------------------------------------------------------------------
(* tr_completion::has_piece, with the blocks H                             *)
HasPiece(H, c) == BlockSpan[c] \subseteq H

(* tr_completion::status: size_now_ equals size_when_done() just when no   *)
(* byte of a wanted piece is missing.                                      *)
Status(H, W) == IF H = Blocks THEN "seed"
                ELSE IF \A c \in W : HasPiece(H, c) THEN "partial_seed"
                ELSE "leech"

Done == completeness # "leech"

(* client_wants_piece && !client_has_piece, the test of the upkeep         *)
Lacking(H, W) == {c \in W : ~HasPiece(H, c)}

(* count_piece_replication                                                 *)
CountReplication(c) ==
    Cardinality({p \in connected : c \in peerHas[p]}) + Cardinality(Webseeds)

Counts == [c \in Pieces |-> CountReplication(c)]

(* The blocks asked of somebody who may still send them, and those asked   *)
(* of a webseed that has been banned since, which nobody gives back.       *)
Awaited  == UNION {active[q] : q \in Sources \ banned}
Stranded == UNION {active[w] : w \in banned}

(* maybe_send_block_requests, up to the choice of the blocks: a peer that  *)
(* may be asked is asked for as many available blocks as its request queue *)
(* takes.                                                                  *)
Asks(may, avail, act) ==
    IF ~may \/ Cardinality(act) >= MaxRequests THEN {{}}
    ELSE {S \in SUBSET avail :
            \/ S = avail /\ Cardinality(avail) + Cardinality(act) <= MaxRequests
            \/ Cardinality(S) + Cardinality(act) = MaxRequests}

MayAsk(p) == running /\ clientInterested[p] /\ ~clientChoked[p] /\ hasWishlist

(* next, for the peer p                                                    *)
AvailableTo(unreq, p) == Available(candidates, unreq, replication, peerHas[p])

Init ==
    /\ running = FALSE
    /\ have \in SUBSET Blocks
    /\ wanted \in SUBSET Pieces
    /\ completeness = Status(have, wanted)
    /\ needsCheck = TRUE
    /\ hasWishlist = FALSE
    /\ candidates = {}
    /\ block_span = NoBlocks
    /\ unrequested = NoBlocks
    /\ replication = [c \in Pieces |-> 0]
    /\ connected = {}
    /\ peerHas = [p \in Peers |-> {}]
    /\ clientChoked = [p \in Peers |-> TRUE]
    /\ clientInterested = [p \in Peers |-> FALSE]
    /\ active = [q \in Sources |-> {}]
    /\ tasks = [w \in Webseeds |-> {}]
    /\ blame = [w \in Webseeds |-> {}]
    /\ strikes = [w \in Webseeds |-> 0]
    /\ banned = {}

-----------------------------------------------------------------------------
(* The wishlist comes and goes.                                            *)

DropWishlist ==
    /\ hasWishlist' = FALSE
    /\ candidates' = {}
    /\ block_span' = NoBlocks
    /\ unrequested' = NoBlocks
    /\ replication' = [c \in Pieces |-> 0]

(* Mutant: the peers that had been interesting stay so.                    *)
RecheckKeepsInterest(W, Otherwise) ==
    /\ needsCheck' = FALSE
    /\ completeness' = Status(have, W)
    /\ UNCHANGED clientInterested
    /\ IF completeness' # completeness /\ completeness' # "leech"
       THEN DropWishlist ELSE Otherwise

(* recheck_completeness after the file selection became W: when the status *)
(* has changed to a finished one, on_torrent_done loses interest in every  *)
(* peer and drops the wishlist; otherwise Otherwise says what becomes of   *)
(* the wishlist.                                                           *)
Recheck(W, Otherwise) ==
    /\ needsCheck' = FALSE
    /\ completeness' = Status(have, W)
    /\ IF completeness' # completeness /\ completeness' # "leech"
       THEN /\ clientInterested' = [p \in Peers |-> FALSE]
            /\ DropWishlist
       ELSE /\ UNCHANGED clientInterested
            /\ Otherwise

(* start_in_session_thread, and the upkeep of the new list                 *)
Start ==
    LET lacking == Lacking(have, wanted)
    IN  /\ ~running
        /\ running' = TRUE
        /\ needsCheck' = FALSE
        /\ completeness' = Status(have, wanted)
        /\ hasWishlist' = TRUE
        /\ candidates' = lacking
        /\ block_span' = UpkeepSpan(lacking)
        /\ unrequested' = UpkeepUnrequested(lacking, have)
        /\ replication' = UpkeepReplication(lacking, Counts)
        /\ UNCHANGED <<have, wanted, peerVars, active, seedVars>>

(* stop_now: remove_all_peers, and the wishlist goes.  The webseeds keep   *)
(* their tasks.                                                            *)
StopEffect(act) ==
    /\ running' = FALSE
    /\ connected' = {}
    /\ peerHas' = [p \in Peers |-> {}]
    /\ clientChoked' = [p \in Peers |-> TRUE]
    /\ clientInterested' = [p \in Peers |-> FALSE]
    /\ active' = [q \in Sources |-> IF q \in Peers THEN {} ELSE act[q]]
    /\ DropWishlist

Stop ==
    /\ running
    /\ StopEffect(active)
    /\ UNCHANGED <<completeness, needsCheck, have, wanted, seedVars>>

(* set_files_wanted                                                        *)
SetFilesWanted(W) ==
    LET lacking == Lacking(have, W)
        upkeep == /\ candidates' = lacking
                  /\ block_span' = UpkeepSpan(lacking)
                  /\ unrequested' = UpkeepUnrequested(lacking, have)
                  /\ replication' = UpkeepReplication(lacking, Counts)
                  /\ UNCHANGED hasWishlist
    IN  /\ W # wanted
        /\ wanted' = W
        /\ Recheck(W, IF hasWishlist THEN upkeep
                      ELSE UNCHANGED <<hasWishlist, wishlistVars>>)
        /\ UNCHANGED <<running, have, connected, peerHas, clientChoked,
                       active, seedVars>>

(* do_idle_work                                                            *)
DoIdleWork ==
    /\ needsCheck
    /\ Recheck(wanted, UNCHANGED <<hasWishlist, wishlistVars>>)
    /\ UNCHANGED <<running, have, wanted, connected, peerHas, clientChoked,
                   active, seedVars>>

-----------------------------------------------------------------------------
(* Peers come and go, and updateInterest looks at all of them.             *)

(* create_bit_torrent_peer                                                 *)
Connect(p) ==
    /\ running
    /\ p \notin connected
    /\ connected' = connected \cup {p}
    /\ UNCHANGED <<torrentVars, hasWishlist, wishlistVars, peerHas,
                   clientChoked, clientInterested, active, seedVars>>

(* remove_peer: the peer's pieces and requests are given back.             *)
Disconnect(p) ==
    /\ p \in connected
    /\ replication' = AddReplication(peerHas[p], -1)
    /\ unrequested' = ResetBlocks(unrequested, active[p])
    /\ connected' = connected \ {p}
    /\ peerHas' = [peerHas EXCEPT ![p] = {}]
    /\ clientChoked' = [clientChoked EXCEPT ![p] = TRUE]
    /\ clientInterested' = [clientInterested EXCEPT ![p] = FALSE]
    /\ active' = [active EXCEPT ![p] = {}]
    /\ UNCHANGED <<torrentVars, hasWishlist, candidates, block_span, seedVars>>

(* isPeerInteresting                                                       *)
Interesting(p) == \/ peerHas[p] = Pieces
                  \/ peerHas[p] \cap Lacking(have, wanted) # {}

(* updateInterest, of which set_interested asks a peer for blocks when the *)
(* interest in it changed.  The peers are served one after the other, so   *)
(* that no block is asked of two.                                          *)
UpdateInterest ==
    LET changed == {p \in connected : clientInterested[p] # Interesting(p)}
        may(p) == /\ p \in changed /\ Interesting(p)
                  /\ ~clientChoked[p] /\ hasWishlist
    IN  /\ running /\ ~Done
        /\ changed # {}
        /\ clientInterested' = [p \in Peers |-> p \in connected /\ Interesting(p)]
        /\ \E S \in [changed -> SUBSET Blocks] :
              /\ \A p \in changed :
                    LET rest == AvailableTo(unrequested, p)
                                  \ UNION {S[q] : q \in changed \ {p}}
                    IN  S[p] \in Asks(may(p), rest, active[p])
              /\ unrequested' = TakeBlocks(unrequested, UNION {S[p] : p \in changed})
              /\ active' = [q \in Sources |-> IF q \in changed
                                THEN active[q] \cup S[q] ELSE active[q]]
        /\ UNCHANGED <<torrentVars, hasWishlist, candidates, block_span,
                       replication, connected, peerHas, clientChoked, seedVars>>

-----------------------------------------------------------------------------
(* process_peer_message, client side.                                      *)

(* The tail of the handlers that end with maybe_send_block_requests: what  *)
(* p may be asked for when it has the pieces P.                            *)
AsksThen(p, may, repl, P) ==
    Asks(may, Available(candidates, unrequested, repl, P), active[p])

(* Mutant: the discarded requests are not given back.                      *)
GotChokeDiscards(p) ==
    /\ p \in connected
    /\ clientChoked' = [clientChoked EXCEPT ![p] = TRUE]
    /\ active' = [active EXCEPT ![p] = IF p \in FastPeers THEN active[p] ELSE {}]
    /\ UNCHANGED <<torrentVars, hasWishlist, wishlistVars, connected, peerHas,
                   clientInterested, seedVars>>

(* Without the fast extension a choke discards the requests (BEP 3); with  *)
(* it every request is still answered, by a piece or a reject.             *)
GotChoke(p) ==
    /\ p \in connected
    /\ clientChoked' = [clientChoked EXCEPT ![p] = TRUE]
    /\ IF p \in FastPeers
       THEN UNCHANGED <<unrequested, active>>
       ELSE /\ unrequested' = ResetBlocks(unrequested, active[p])
            /\ active' = [active EXCEPT ![p] = {}]
    /\ UNCHANGED <<torrentVars, hasWishlist, candidates, block_span, replication,
                   connected, peerHas, clientInterested, seedVars>>

GotUnchoke(p) ==
    /\ p \in connected
    /\ clientChoked' = [clientChoked EXCEPT ![p] = FALSE]
    /\ \E S \in AsksThen(p, running /\ clientInterested[p] /\ hasWishlist,
                        replication, peerHas[p]) :
          /\ unrequested' = TakeBlocks(unrequested, S)
          /\ active' = [active EXCEPT ![p] = active[p] \cup S]
    /\ UNCHANGED <<torrentVars, hasWishlist, candidates, block_span, replication,
                   connected, peerHas, clientInterested, seedVars>>

(* Have, Bitfield and HaveAll: the peer turns out to have P, and the       *)
(* pieces Added are counted.                                               *)
LearnPieces(p, P, Added) ==
    /\ p \in connected
    /\ \A c \in candidates : replication[c] < MaxReplication
    /\ peerHas' = [peerHas EXCEPT ![p] = P]
    /\ replication' = AddReplication(Added, 1)
    /\ \E S \in AsksThen(p, MayAsk(p), replication', P) :
          /\ unrequested' = TakeBlocks(unrequested, S)
          /\ active' = [active EXCEPT ![p] = active[p] \cup S]
    /\ UNCHANGED <<torrentVars, hasWishlist, candidates, block_span,
                   connected, clientChoked, clientInterested, seedVars>>

GotHave(p, c)     == c \notin peerHas[p] /\ LearnPieces(p, peerHas[p] \cup {c}, {c})
GotBitfield(p, P) == LearnPieces(p, P, P)
GotHaveAll(p)     == p \in FastPeers /\ LearnPieces(p, Pieces, Pieces)

(* HaveNone takes nothing off the replication, and asks for nothing.       *)
GotHaveNone(p) ==
    /\ p \in connected \cap FastPeers
    /\ peerHas' = [peerHas EXCEPT ![p] = {}]
    /\ UNCHANGED <<torrentVars, hasWishlist, wishlistVars, connected,
                   clientChoked, clientInterested, active, seedVars>>

(* FextReject: the next requests are chosen before the rejected block goes *)
(* back on the list.                                                       *)
GotReject(p, b) ==
    /\ p \in connected \cap FastPeers
    /\ b \in active[p]
    /\ \E S \in Asks(MayAsk(p), AvailableTo(unrequested, p), active[p] \ {b}) :
          /\ unrequested' = ResetBlocks(TakeBlocks(unrequested, S), {b})
          /\ active' = [active EXCEPT ![p] = (active[p] \ {b}) \cup S]
    /\ UNCHANGED <<torrentVars, hasWishlist, candidates, block_span, replication,
                   peerVars, seedVars>>

(* pulse: the requests Late have timed out and are cancelled, then the     *)
(* peer is asked for more.                                                 *)
Pulse(p, Late) ==
    /\ p \in connected
    /\ Late \subseteq active[p]
    /\ LET unreq == ResetBlocks(unrequested, Late)
           left  == active[p] \ Late
       IN  \E S \in Asks(MayAsk(p), AvailableTo(unreq, p), left) :
              /\ unrequested' = TakeBlocks(unreq, S)
              /\ active' = [active EXCEPT ![p] = left \cup S]
    /\ UNCHANGED <<torrentVars, hasWishlist, candidates, block_span, replication,
                   peerVars, seedVars>>

-----------------------------------------------------------------------------
(* A block arrives (client_got_block, ClientGotBlock, on_block_received).  *)

PiecesOf(b) == {c \in Pieces : b \in BlockSpan[c]}

(* The pieces that are complete once b is here; their checksums are tested *)
(* in ascending order, and a piece that fails takes its blocks, b among    *)
(* them, away, so that the test of a later one does not happen.            *)
Completed(b) == {c \in PiecesOf(b) : HasPiece(have \cup {b}, c)}
Verdicts(b) == {{}} \cup {{c} : c \in Completed(b)}   \* the piece that fails, if any
Passed(b, Bad) == {c \in Completed(b) : \A d \in Bad : c < d}

HaveAfter(b, Bad) == (have \cup {b}) \ UNION {BlockSpan[c] : c \in Bad}

(* The effect on all but the requests sent afterwards.  No longer waiting  *)
(* for b are its source and every peer (cancel_all_requests_for_block      *)
(* leaves the webseeds alone).                                             *)
UnreqAfter(b, Bad) == IF hasWishlist
    THEN CheckedUnrequested(TakeBlocks(unrequested, {b}), Passed(b, Bad), Bad)
    ELSE unrequested

ActiveAfterOwn(b, src) == [active EXCEPT ![src] = active[src] \ {b}]   \* mutant
ActiveAfter(b, src) == [q \in Sources |-> IF q \in Peers \cup {src}
                                          THEN active[q] \ {b} ELSE active[q]]

BlockReceived(b, Bad) ==
    /\ have' = HaveAfter(b, Bad)
    /\ needsCheck' = (needsCheck \/ Passed(b, Bad) # {})
    /\ IF hasWishlist
       THEN /\ candidates' = CheckedCandidates(Passed(b, Bad), Bad)
            /\ block_span' = CheckedSpan(Passed(b, Bad), Bad)
            /\ replication' = CheckedReplication(Passed(b, Bad), Bad, Counts)
       ELSE UNCHANGED <<candidates, block_span, replication>>

(* Who gives a block is blamed for the piece in which it begins            *)
(* (peer->blame; the webseeds': a peer's is part of its leave at any time).*)
BlameAfter(b, w) ==
    [blame EXCEPT ![w] = @ \cup {c \in PiecesOf(b) : \A d \in PiecesOf(b) : c <= d}]

(* A piece failed: each webseed with blame for it, as blm says, gets a     *)
(* strike, and the last one bans it, which kills its tasks                 *)
(* (on_got_bad_piece, add_strike, tr_webseed_impl::ban).                   *)
Struck(Bad, blm) == {w \in Webseeds : blm[w] \cap Bad # {}}

NewlyBanned(Bad, blm) ==
    {w \in Struck(Bad, blm) \ banned : strikes[w] + 1 >= MaxBadPiecesPerPeer}

StrikesFor(Bad, blm) ==
    /\ blame' = blm
    /\ strikes' = [w \in Webseeds |-> IF w \in Struck(Bad, blm) \ banned
                                      THEN strikes[w] + 1 ELSE strikes[w]]
    /\ banned' = banned \cup NewlyBanned(Bad, blm)

(* read_piece_data drops a block we have, and one none of whose pieces is  *)
(* wanted.                                                                 *)
Unwelcome(b) == b \in have \/ PiecesOf(b) \cap wanted = {}

GotUnwelcomePiece(p, b) ==
    /\ p \in connected
    /\ Unwelcome(b)
    /\ \E S \in AsksThen(p, MayAsk(p), replication, peerHas[p]) :
          /\ unrequested' = TakeBlocks(unrequested, S)
          /\ active' = [active EXCEPT ![p] = active[p] \cup S]
    /\ UNCHANGED <<torrentVars, hasWishlist, candidates, block_span, replication,
                   peerVars, seedVars>>

(* The last byte of block b comes from p, is written, and the pieces Bad   *)
(* fail their checksum.                                                    *)
GotPiece(p, b, Bad) ==
    /\ p \in connected
    /\ ~Unwelcome(b)
    /\ Bad \in Verdicts(b)
    /\ BlockReceived(b, Bad)
    /\ LET unreq == UnreqAfter(b, Bad)
           act   == ActiveAfter(b, p)
       IN  \E S \in Asks(MayAsk(p), Available(candidates', unreq, replication',
                                             peerHas[p]), act[p]) :
              /\ unrequested' = TakeBlocks(unreq, S)
              /\ active' = [act EXCEPT ![p] = act[p] \cup S]
    /\ StrikesFor(Bad, blame)
    /\ tasks' = [w \in Webseeds |-> IF w \in NewlyBanned(Bad, blame) THEN {} ELSE tasks[w]]
    /\ UNCHANGED <<running, completeness, wanted, hasWishlist, peerVars>>

(* tr_ioWrite fails: the torrent is stopped with a local error.            *)
WriteFails(p, b) ==
    /\ p \in connected
    /\ ~Unwelcome(b)
    /\ StopEffect(active)
    /\ UNCHANGED <<completeness, needsCheck, have, wanted, seedVars>>

-----------------------------------------------------------------------------
(* Webseeds (webseed.cc).  A task is the contiguous run of blocks it still *)
(* awaits; they arrive in ascending order.                                 *)

ArrivesNext(b, t) == b \in t /\ \A d \in t : b <= d

(* make_spans: the maximal runs of consecutive blocks of S                 *)
Runs(S) == {{d \in S : \A e \in (IF d < b THEN d .. b ELSE b .. d) : e \in S} : b \in S}

(* on_idle: what the webseed asks for next, S, in at most as many spans as *)
(* there are slots; nothing while the limiter has it paused.               *)
WebseedAsks(w, avail, ts) ==
    {{}} \cup {S \in SUBSET avail :
        Cardinality(Runs(S)) + Cardinality(ts) <= MaxTasks}

WebseedMayAsk(w) == w \notin banned /\ running /\ ~Done /\ hasWishlist

WebseedIdle(w) ==
    /\ WebseedMayAsk(w)
    /\ \E S \in WebseedAsks(w, Available(candidates, unrequested, replication, Pieces),
                            tasks[w]) :
          /\ S # {}
          /\ tasks' = [tasks EXCEPT ![w] = tasks[w] \cup Runs(S)]
          /\ unrequested' = TakeBlocks(unrequested, S)
          /\ active' = [active EXCEPT ![w] = active[w] \cup S]
    /\ UNCHANGED <<torrentVars, hasWishlist, candidates, block_span, replication,
                   peerVars, blame, strikes, banned>>

(* use_fetched_blocks, one block b.  A block that we got meanwhile from a  *)
(* peer is drained, and stays in active_requests.  A task that has all its *)
(* blocks ends with another on_idle.  A webseed banned by its own block    *)
(* still hands over what it had fetched together with it.                  *)
WebseedBlock(w, t, b, Bad) ==
    LET known == b \in have
        left  == (tasks[w] \ {t}) \cup ({t \ {b}} \ {{}})
        unreq == IF known THEN unrequested ELSE UnreqAfter(b, Bad)
        act   == IF known THEN active ELSE ActiveAfter(b, w)
        blm   == IF known THEN blame ELSE BlameAfter(b, w)
        newly == NewlyBanned(Bad, blm)
        mayGo == t = {b} /\ w \notin newly /\ WebseedMayAsk(w)
    IN  /\ ArrivesNext(b, t)
        /\ IF known
           THEN Bad = {} /\ UNCHANGED <<have, needsCheck, candidates, block_span, replication>>
           ELSE /\ Bad \in Verdicts(b)
                /\ BlockReceived(b, Bad)
        /\ StrikesFor(Bad, blm)
        /\ \E S \in IF mayGo THEN WebseedAsks(w, Available(candidates', unreq, replication',
                                                          Pieces), left)
                    ELSE {{}} :
              /\ tasks' = [v \in Webseeds |->
                             IF v \notin newly
                             THEN IF v = w THEN left \cup Runs(S) ELSE tasks[v]
                             ELSE IF v = w THEN {t \ {b}} \ {{}} ELSE {}]
              /\ unrequested' = TakeBlocks(unreq, S)
              /\ active' = [act EXCEPT ![w] = act[w] \cup S]
        /\ UNCHANGED <<running, completeness, wanted, hasWishlist, peerVars>>

(* The block cannot be written: the torrent is stopped with a local error, *)
(* and the task goes on.                                                   *)
WebseedWriteFails(w, t, b) ==
    /\ ArrivesNext(b, t)
    /\ b \notin have
    /\ StopEffect([active EXCEPT ![w] = active[w] \ {b}])
    /\ tasks' = [tasks EXCEPT ![w] = (tasks[w] \ {t}) \cup ({t \ {b}} \ {{}})]
    /\ UNCHANGED <<completeness, needsCheck, have, wanted, blame, strikes, banned>>

(* Mutant: a failed task is forgotten.                                     *)
WebseedForgets(w, t) ==
    /\ w \notin banned
    /\ tasks' = [tasks EXCEPT ![w] = tasks[w] \ {t}]
    /\ active' = [active EXCEPT ![w] = active[w] \ t]
    /\ UNCHANGED <<torrentVars, hasWishlist, wishlistVars, peerVars,
                   blame, strikes, banned>>

(* on_partial_data_fetched without success, and on_rejection; a task that  *)
(* died with the ban of its webseed is only deleted.                       *)
WebseedFails(w, t) ==
    /\ w \notin banned
    /\ tasks' = [tasks EXCEPT ![w] = tasks[w] \ {t}]
    /\ unrequested' = ResetBlocks(unrequested, t \cap active[w])
    /\ active' = [active EXCEPT ![w] = active[w] \ t]
    /\ UNCHANGED <<torrentVars, hasWishlist, candidates, block_span, replication,
                   peerVars, blame, strikes, banned>>

-----------------------------------------------------------------------------
UserStep == Start \/ Stop \/ DoIdleWork \/ UpdateInterest
            \/ \E W \in SUBSET Pieces : SetFilesWanted(W)

PeerStep(p) ==
    \/ Connect(p) \/ Disconnect(p)
    \/ GotChoke(p) \/ GotUnchoke(p)
    \/ \E c \in Pieces : GotHave(p, c)
    \/ \E P \in PeerBitfields : GotBitfield(p, P)
    \/ GotHaveAll(p) \/ GotHaveNone(p)
    \/ \E b \in active[p] : GotReject(p, b)
    \/ \E Late \in SUBSET active[p] : Pulse(p, Late)
    \/ \E b \in Blocks : GotUnwelcomePiece(p, b)
    \/ \E b \in Blocks : \E Bad \in Verdicts(b) : GotPiece(p, b, Bad)
    \/ \E b \in Blocks : WriteFails(p, b)

WebseedStep(w) ==
    \/ WebseedIdle(w)
    \/ \E t \in tasks[w] : WebseedFails(w, t)
    \/ \E t \in tasks[w] : \E b \in t :
          \/ \E Bad \in Verdicts(b) : WebseedBlock(w, t, b, Bad)
          \/ WebseedWriteFails(w, t, b)

Next == \/ UserStep
        \/ \E p \in Peers : PeerStep(p)
        \/ \E w \in Webseeds : WebseedStep(w)

Spec == Init /\ [][Next]_vars

-----------------------------------------------------------------------------
(* Types, with those of the wishlist; no list has no candidates.           *)
TypeOK ==
    /\ running \in BOOLEAN /\ needsCheck \in BOOLEAN /\ hasWishlist \in BOOLEAN
    /\ completeness \in {"leech", "partial_seed", "seed"}
    /\ have \subseteq Blocks
    /\ wanted \subseteq Pieces
    /\ WishlistTypeOK
    /\ ~hasWishlist => candidates = {}
    /\ connected \subseteq Peers
    /\ peerHas \in [Peers -> SUBSET Pieces]
    /\ clientChoked \in [Peers -> BOOLEAN]
    /\ clientInterested \in [Peers -> BOOLEAN]
    /\ active \in [Sources -> SUBSET Blocks]
    /\ tasks \in [Webseeds -> SUBSET SUBSET Blocks]
    /\ blame \in [Webseeds -> SUBSET Pieces]
    /\ strikes \in [Webseeds -> Nat]
    /\ banned \subseteq Webseeds

(* While there is a wishlist, every block that a wanted piece still lacks  *)
(* is owned by some candidate, so that a reset of it has an effect.        *)
WantedBlocksOwned == hasWishlist =>
    \A c \in wanted : \A b \in BlockSpan[c] \ have : Owners(b) # {}

(* And none is forgotten but by a ban: a block owned and missing is        *)
(* requestable, or in the active requests of a peer or webseed that is not *)
(* banned, unless it was asked of a webseed that is banned now.  What a    *)
(* ban does to those is MissingIsOnTheWay, below.                          *)
NoLostBlock == \A c \in candidates :
    block_span[c] \subseteq have \cup unrequested[c] \cup Awaited \cup Stranded

(* Only blocks we do not have are requestable ("the blocks in this piece   *)
(* that we don't have or not requested", Wishlist::next), and no peer is   *)
(* being waited for with a block we have.                                  *)
NeverRequestHad ==
    /\ \A c \in candidates : unrequested[c] \cap have = {}
    /\ \A p \in Peers : active[p] \cap have = {}

(* The cached replication of a candidate never falls below the number of   *)
(* sources that have the piece: at zero next() would skip the piece, below *)
(* zero the counter would wrap.                                            *)
ReplicationCovers == \A c \in candidates : replication[c] >= CountReplication(c)

(* We are interested in no peer once the torrent is done: calculate_active *)
(* asserts it of every peer that does not choke us.                        *)
NoInterestWhenDone == Done => \A p \in Peers : ~clientInterested[p]

-----------------------------------------------------------------------------
(* What the comments and tests say and the program does not do.            *)

(* A running torrent that still lacks something has a wishlist: it is what *)
(* "decide[s] which blocks to return next" (peer-mgr.cc:1168-1171).  It is *)
(* dropped when the torrent is done and made when the torrent starts, and  *)
(* not made when more files are wanted in between.                         *)
LeechHasWishlist == running /\ ~Done => hasWishlist

(* A candidate's unrequested are "the blocks in this piece that we don't   *)
(* have or not requested" (peer-mgr-wishlist.cc:89): a missing block that  *)
(* is not among them has been requested, and is on its way from a peer or  *)
(* in a task of a webseed.  A ban kills the tasks and gives nothing back.  *)
OnTheWay == (UNION {active[p] : p \in Peers}) \cup (UNION {UNION tasks[w] : w \in Webseeds})

MissingIsOnTheWay == \A c \in candidates :
    block_span[c] \subseteq have \cup unrequested[c] \cup OnTheWay

=============================================================================
