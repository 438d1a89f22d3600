# A TLA+ model of libtransmission

This directory holds a formal model of the core of
[libtransmission](../src/libtransmission), the BitTorrent engine of
Transmission: TLA+ modules, the TLC configurations that check them on small
torrents, swarms and tracker lists, and TLAPS proofs of what holds for all of
them.

Everything is written from the code.  A definition keeps the name of the
function or field it models where TLA+ allows it, and `PROJECT.json` ("map")
names the lines behind each.  File and line references below are relative to
`src/libtransmission/`.

Contents

1. The system
2. The modules, and how they correspond to the code
3. What is checked
4. What the checks found
5. What is proved
6. What is only model-checked, and what is left out
7. The plan

## 1. The system

libtransmission runs one *session thread* (`session-thread.cc`), an event loop
in which all sockets, timers and commands of the user are handled.  A user's
thread posts work to it, or takes the session lock.  Next to it run the verify
worker (`verify.cc`), which hashes local data, and the web client's thread
(`web.cc`), which drives libcurl.  So most of the engine is sequential and its
difficulty is *order*: which message, timer, answer or command comes next.  Only
where two threads meet is it interleaving.

| component | state | operations | talks to |
|---|---|---|---|
| block geometry (`block-info`) | sizes | pure conversions | everybody |
| wishlist (`peer-mgr-wishlist`) | sorted vector of candidates: span, unrequested blocks, replication, priority, salt | 15 event handlers, `next` | swarm, through signals; torrent, through its mediator |
| download bookkeeping (`peer-mgr`, `peer-msgs`, `torrent`) | peers, what each has, choke and interest, active requests | peer messages, pulse, block received, interest, start, stop, file selection | wishlist, completion, webseeds |
| completion (`completion`) | blocks we have | add block, remove piece, status | torrent |
| webseeds (`webseed`) | tasks, active requests, banned flag | idle, data, rejection, ban | swarm |
| verify worker (`verify`) | `todo_`, `current_node_`, `stop_current_`, thread id | add, remove, destructor, the thread | torrent, through its mediator; session |
| torrent lifecycle and queue (`torrent`, `torrent-queue`, `session`) | running, stopping, queued, deleting, start-when-stable, queue position | add, start, stop, verify, move, remove, seed limits, queue timer | verify worker, swarm, announcer, resume files |
| session thread (`session-thread`) | FIFO of work | queue, run, stop | all |
| announcer (`announcer*`) | tiers, events, retry times, scrapes | add event, upkeep, responses | web client, swarm |
| peer pool, rechoke (`peer-mgr`) | connectable pool, handshakes, upload slots | connect, accept, rechoke, reconnect pulse | handshake, peers |
| peer wire, upload side (`peer-msgs`) | requests of the peer | request, cancel, choke, fill | cache-less disk reads |
| handshake and encryption (`handshake`, `peer-mse`) | 11 states, a timer | read, write, error, retry in the clear | peer I/O, peer pool |
| magnet metadata (`torrent-magnet`) | metadata pieces and who was asked | request, piece, checksum | peer wire |
| resume files (`resume`) | what is on disk | save, load | torrent |
| web client (`web`) | queue of tasks, curl handles | fetch, run, shut down | announcer, webseeds |
| open files and local data, holepunch, port forwarding, IP cache, DHT, LPD, uTP, blocklist, settings, RPC, metainfo, watch directories, front ends | | | |

What makes each of them correct, and where it is hard:

* **Wishlist.** Pieces and blocks are two grids that need not be aligned: a
  block may straddle two pieces.  Such an edge block must be owned by exactly
  one candidate.  Pieces join and leave the list in any order (wanted,
  unwanted, completed, failed), and four pieces of code hand edge blocks to
  neighbours.  A mistake asks for a block twice or never.  The vector must stay
  sorted although most handlers move one candidate only.
* **Download.** A missing block is on the wishlist or asked of somebody, at
  every moment, through chokes with and without the fast extension, rejects,
  timeouts, disconnects, late and duplicate pieces, failed checksums, write
  errors and stops.  The replication cached in a candidate must cover the real
  one, as `next()` skips a piece at zero.  A done torrent has no interest.
* **Webseeds.** A task may outlive the request it serves: it can be cancelled
  by nobody, fail after a peer delivered its block, or die with a ban.
* **Verify worker.** The session thread waits inside `remove()` for a thread
  that may be between pieces, at its end, or on another torrent; torrents are
  freed right after; the thread ends by itself while `add()` decides whether to
  start one; the destructor polls without the lock.
* **Lifecycle.** Commands come from any thread and are applied later; a start, a
  stop and a verification of one torrent overtake each other.  What the user
  wants (`start_when_stable_`) must survive the stops that the program itself
  makes, for a verification, for the queue, at the end of a session, and reach
  the resume file, since the program may die.  Slots of the queue are taken and
  given back by starts, completions, removals and a timer, and the queue itself
  is kept twice.
* **Announcer.** Queued events are coalesced and reordered, failed ones come back
  behind newer ones, answers arrive when the tier talks to another tracker, the
  torrent has been stopped or the list edited.  A completion or a stop must get
  through, and a running torrent must not fall silent.
* **Handshake.** A failed encrypted handshake is retried while its timer runs.

`PROJECT.json` lists every component with its status, and under "hazards" the
places where this bites, with the properties that would notice.

## 2. The modules, and how they correspond to the code

```
BlockInfo <- Wishlist <- Download <- MCDownload
                 ^  \        ^
                 |   \       +-- DownloadProofs (with WishlistProofs' lemmas)
                 |    +-- WishlistProofs
          WishlistEvents <--(implements)-- WishlistList <- MCWishlistList
                                                ^
                                                +-- WishlistListProofs <- WishlistListRefinement

          VerifyService  <--(implements)-- VerifyWorker <- MCVerifyWorker
                                                ^
                                                +-- VerifyWorkerProofs

     TorrentQueue <- TorrentLife <- MCTorrentLife
          ^               ^
          |               +-- TorrentLifeProofs
          +-- TorrentQueueProofs <----+

        Announcer <- MCAnnouncer
             ^
             +-- AnnouncerProofs
```

**BlockInfo** has the geometry: pieces, blocks, and `BlockSpan`, the blocks of a
piece.  A span is the set of its blocks.  `SizeAssumption` is what
`tr_block_info::init_sizes` asserts: a piece is no smaller than a block.

**Wishlist** gives the effect of each handler as an operator on sets: the
candidates, their spans, unrequested blocks and replication.  One handler of
the program runs several of them, so they are operators and not actions.

**Download** is the heart.  Its state is the torrent's (`running`,
`completeness`, `needsCheck`, `have`, `wanted`), the wishlist's, each peer's
(`peerHas`, `clientChoked`, `clientInterested`, `active`) and each webseed's
(`active`, `tasks`, `blame`, `strikes`, `banned`).  One action is one handler that the session
thread runs to its end:

| actions | code |
|---|---|
| `Start`, `Stop`, `SetFilesWanted`, `DoIdleWork` | `start_in_session_thread`, `stop_now`, `set_files_wanted`, `do_idle_work`, with `recheck_completeness` and what its signals do to the swarm |
| `Connect`, `Disconnect`, `UpdateInterest` | `create_bit_torrent_peer`, `remove_peer`, `updateInterest` |
| `GotChoke`, `GotUnchoke`, `GotHave`, `GotBitfield`, `GotHaveAll`, `GotHaveNone`, `GotReject` | the cases of `process_peer_message` |
| `GotPiece`, `GotUnwelcomePiece`, `WriteFails` | `read_piece_data`, `client_got_block`, `peer_callback_common`, `on_block_received` with checksum and strikes |
| `Pulse` | `pulse`: `check_request_timeout`, then `maybe_send_block_requests` |
| `WebseedIdle`, `WebseedBlock`, `WebseedFails`, `WebseedWriteFails` | `on_idle`, `use_fetched_blocks`, `on_rejection` |

Handlers that end in `maybe_send_block_requests` have that in the action: the
peer is asked for as many available blocks as its queue takes (`Asks`).  Which
of the available ones is left open here; `WishlistList` decides.  Time is not
modelled: any request may time out at any pulse.  A peer may send any message
at any time, late, repeated and contradictory ones included.  A webseed that gives a
block is blamed for the block's piece, each bad piece it is blamed for is a strike,
and `MaxBadPiecesPerPeer` strikes ban it, as in `on_got_bad_piece` and `add_strike`.
Peers are struck in the same way, but what a ban of a peer does is a `Disconnect`,
which may come at any time; so may the refusal of a connection (a banned peer, too
many of them), as nothing makes `Connect` happen.

**WishlistEvents** is the abstract specification of the wishlist: one action per
kind of event, with the operators of `Wishlist`, against an environment of
blocks, wanted pieces and peers.  A peer may turn out to have any set of pieces at any
time: as in the code, a bitfield replaces what the peer was thought to have, each of
its pieces is counted, again if need be, and none that it takes back is discounted;
only a repeated `Have` is dropped (`peer-msgs.cc:1540`).  So the replication is at
least the number of peers that have the piece and has no upper bound.  **WishlistList** is the wishlist as written:
a sequence of records with `begin` and `end`, the walk of
`candidate_list_upkeep` with its two indices and its `prev` pointer, the loops
over edge blocks, `resort_piece` with its binary search, `get_salt`, `next` and
`make_spans`, and the handlers that sort, resort or do neither.  The
substitution in `Events == INSTANCE WishlistEvents WITH ...` is its refinement
mapping.  `std::ranges::sort` is an insertion sort, which is what the standard
library runs on vectors of this length.  Loops are folds over a sequence or over the
indices, so that the module can be reasoned about.

**VerifyWorker** has the worker thread (`select`, `start`, `check`, `report`,
`post`, `leave`) and the session thread, which calls `remove` at the head of
`tr_torrentVerify`, `stop_now` and the freeing of a torrent, waits in it, and
goes on.  What happens under `verify_mutex_` is one step; each access to the
torrent or to the atomic flag outside of it is its own.  The thread's end is two
steps, because it resets its id before it unlocks, and the destructor polls the
id.  **VerifyService** says what the rest of the program relies on: torrents are
verified one at a time, each verification ends with a completion or is
cancelled, and none is freed while active.

**TorrentQueue** has the session's queue as a record: `order` is `queue_`, `posOf`
is `pos_of_`, `file` is what `queue.json` holds, and adding, removing and moving change both as the code does, by a
rotation and a reindexing of the part that moved.  The four moves of a selection
take `QueueSetPos` for one torrent after the other (`Visit`), in the order of the
queue or against it.  `queue.json` names files, not torrents: `<<t, TRUE>>` is t's
.torrent and `<<t, FALSE>>` its .magnet, and `LoadOrder` is the order in which the
next session reads what is stored: the names it finds in `queue.json`, then the
other .torrent files, then the other .magnet files.

**TorrentLife** is the life of the session's torrents.  The state of a torrent
is a record: `running`, `stopping`, `queued`, `intent` (`start_when_stable_`),
`deleting`, `verify`, `meta` (does it have metainfo), `has` (none, some or all of
what is wanted), `done` (`completeness_` as of the last recheck), `check`, `error`,
`dirty`, `idle` (has it run for `queue_stalled_minutes` without sharing data), `stored` (has it a .torrent or .magnet file) and `resume` (what its resume
file says).  The functions that the session thread runs on a torrent are operators
of the same name that return the torrent as they leave it, because every command
is a chain of them: `tr_torrentVerify` calls `stop_now`, a completion calls
`recheck_completeness` and then `start`, and so on.

| actions | code |
|---|---|
| `UserAdd`, `UserStart`, `UserStop`, `UserVerify`, `UserRelocate`, `UserSetFilesWanted`, `UserMove`, `UserRemove` | `tr_torrentNew` with `init` and `on_metainfo_completed`, `tr_torrentStart` and `StartNow`, the RPC's `torrentStop` or `tr_torrentStop`, `tr_torrentVerify`, `set_location`, `set_files_wanted`, `tr_torrentsQueueMove...`, `tr_torrentRemove` |
| `RunWork` | the session thread's `on_work_available`, one item at a time |
| `QueueTimer`, `IdleWork`, `SaveTimer` | `on_queue_timer`, `do_idle_work` of every torrent, `on_save_timer` |
| `SeedLimit`, `Receive`, `WriteError`, `GetMetainfo` | `stop_if_seed_limit_reached`, `on_block_received`, `tr_ioWrite`, `set_metainfo` |
| `GoesIdle`, `Transfer` | time passes without data, as `idle_seconds` measures it; data comes after all |
| `VerifyBegin`, `VerifyPiece`, `VerifyDone` | the verify worker's calls of its mediator |
| `Close`, `Crash`, `LoadTorrent` | `closeImplPart1` with `tr_torrentFreeInSessionThread`; the program dies; `session_load_torrents` with `init`, one torrent at a time |

A call has two halves: what `start()` and its like do on the caller's thread, and
what `run_in_session_thread` runs at once on the session thread, or appends to its
list for any other.  `AppThread` = FALSE is a program whose calls all come over
RPC, whose server is on the session thread, as in the daemon; TRUE is an
application that calls from its own threads, as the macOS client.  Files can go missing at
any time (`Unplugged`), and the code sees it when it looks (`gone`).

**Announcer** is one torrent's tiers.  A tier has its shuffled trying order and
the place in it, the queue of events, whether `announceAt` is set, `isAnnouncing`,
`isScraping`, `isRunning`, `lastAnnounceSucceeded`, and what was sent and not yet
answered.

| actions | code |
|---|---|
| `StartTorrent`, `StopTorrent`, `TorrentCompleted`, `ChangeMyPort`, `ManualAnnounce` | the functions of these names; each pushes an event to every tier with `tier_announce_event_push` |
| `AddTorrent`, `RemoveTorrent`, `ResetTorrent` | `addTorrent`, `removeTorrent` with its `stops_`, `resetTorrent` after an edit of the tracker list |
| `Upkeep` | `upkeep`: `flushCloseMessages`, then some of the due scrapes and announces |
| `AnnounceDone`, `ScrapeDone` | `onAnnounceDone` and `onScrapeDone`, with `on_announce_error` and `on_scrape_error` |

One field of a tier is not the program's: `steady` turns FALSE, for good, at the
events after which the code makes no promise (a failed announce comes back behind
newer ones, one is refused as unregistered, two are under way at once, a
completion is found after the stop, the list is edited).  Section 4 says what
happens then.

Definitions marked `mutant` are wrong on purpose; no specification uses them.
They are there to see that each property notices a plausible bug in the code it
is about.

## 3. What is checked

Deadlock is checked in every run that must pass.  The numbers are distinct
states.

| run | instance | states | properties |
|---|---|---|---|
| `peers` | 2 peers, one with the fast extension; 2 pieces, 3 blocks, one shared | 253 688 | `NoLostBlock` `NeverRequestHad` `ReplicationCovers` `NoInterestWhenDone` |
| `webseed` | a peer and a webseed, the same torrent; one bad piece bans | 350 496 | `TypeOK` `SpansDisjoint` `WantedBlocksOwned` `NoLostBlock` |
| `list` | the vector; 9 bytes in pieces of 4 and blocks of 3: 3 pieces, 3 blocks, 2 of them shared, the last piece inside a block; a peer that has all, one or none of them and may change its mind; priorities and sequential mode | 78 688 | `TypeOK` `ListSorted` `NeighboursMeet` `NextIsBest` `ImplementsEvents` |
| `threads` | 2 torrents of 2 pieces, 2 priorities, 3 verifications | 119 496 | `TypeOK` `WorkerUsesLiveTorrents` `RemovedIsIdle` `StopReachesItsTorrent` `CompleteMeansChecked` `SessionThreadReturns` `QueuedEnds` `ImplementsService` |
| `session` | one torrent, added with or without metainfo or data, calls over RPC, files that go missing, two restarts | 70 585 | `LifeTypeOK` `RunningNotVerified` `CleanResumeIsCurrent` `OnlyMovesForgetIntent` `CloseSavesAll` `StopHappens` |
| `slots` | two torrents (up to symmetry), one slot to seed, one to download, torrents that stall, complete torrents verified again | 272 798 | `QueueHoldsTorrents` `TimerFillsSlots` `SlotsRespected` |
| `tier` | one tier of two trackers, one of which is removed and added again | 186 001 | `TypeOK` `QueuesShaped` `RunningIsAnnounced` `StoppedIsSilent` `CompletionIsKept` `StopIsSent` |

What they show:

* No block has two owners (`SpansDisjoint`), none that is wanted and missing
  is without one (`WantedBlocksOwned`), and none that is owned and missing is
  forgotten (`NoLostBlock`), whatever comes in whatever order.  `NoLostBlock` counts
  the blocks asked of a webseed that was banned since as accounted for, which they are
  not: the run `ban` of section 4 is about these and no others.
* Without webseeds, no block we have is requestable or awaited from a peer
  (`NeverRequestHad`); the cached replication never drops below the number of
  sources (`ReplicationCovers`); and a torrent that is done is interested in
  nobody (`NoInterestWhenDone`), which `calculate_active` asserts.
* The vector with its indices computes the sets (`ImplementsEvents`), so that
  the first group is about the code and not about an idealisation.  It stays
  sorted (`ListSorted`); the assertions of `on_got_bad_piece` hold
  (`NeighboursMeet`); `next()` returns as many blocks as it should, all
  unrequested, none before a better one, so that `requested_block_span` never
  reads an empty set (`NextIsBest`).  The three properties of the order, sortedness,
  the best blocks and, proved only, `SequentialOrder`, hold as long as sequential mode
  is only switched while there are no candidates; the code allows it at any time, and
  section 4 has what follows.  `get_salt` rotates the pieces as documented
  (`SaltsRotateSmall`, up to ten pieces from any of them).
* The worker touches no freed torrent; `remove()` returns with its torrent idle,
  and aborts no other; an aborted verification is never reported complete; the
  session thread always comes back from `remove()` and from the destructor; a
  queued torrent is verified or removed; and all of it implements
  `VerifyService`.
* When all calls come from the session thread, no torrent runs while it is
  verified (`RunningNotVerified`).  A torrent that is to run, and has no error,
  runs, waits, is verified first or has posted work to come; only moving its data
  breaks that (`OnlyMovesForgetIntent`).  A resume file that says the opposite of
  what the user wants is marked for saving, or will be when the verification that
  is under way ends, or is that of a start that failed (`CleanResumeIsCurrent`);
  a session that is closed leaves every resume file as the torrent was in memory, and
  the next one loads every torrent (`CloseSavesAll`).  Which part of the queue's order
  it keeps is `CloseKeepsOrder`, proved in section 5; `MCTorrentLife` evaluates it for
  every queue of three torrents and every choice of magnets among them
  (`OnlyTheRenamedLoadLast`).  A torrent told to stop soon stops (`StopHappens`).
* The queue is the set of torrents and its two representations agree
  (`QueueHoldsTorrents`).  A start that does not skip the queue, of a torrent whose
  completeness is as the queue thought, never makes more torrents active that are not
  stalled than there are slots (`SlotsRespected`), and after the queue timer nothing waits for a slot
  that is free, when what is queued may start (`TimerFillsSlots`; section 4 says
  what else is queued).  `MCTorrentLife` also checks, for every order of
  five torrents and every selection, that the four moves do what their names say
  (`MovesMoveTheSelection`).
* A tier's queue has no two equal events in a row, a periodic update only at its
  end, and before a stop nothing but a completion (`QueuesShaped`).  A steady tier
  of a running torrent has something to announce and a time for it, or is
  announcing (`RunningIsAnnounced`); of a stopped one, it has nothing queued that
  says it runs (`StoppedIsSilent`).  A completion leaves a tier only acknowledged,
  refused, or with the tier (`CompletionIsKept`).  A stop at the head of a queue is
  sent or overtaken (`StopIsSent`).

**Bounds.**  The interesting cases of the grids are: a block shared by two
pieces, a piece between two shared blocks, a last piece inside one block, and a
chain of three neighbours.  `list` has them all at once, and implements
`WishlistEvents` with them; `Download` is run with one shared block, and the theorems
of section 5 are about any grid.  `WishlistProofs` shows that a block is never shared by more than two pieces, so
there are no others.  Two peers are what it takes for a duplicate, a peer that
has a piece and one that has not, and two chokes of different kinds.
`MaxRequests`, `MaxTasks` are the program's own limits made small.
`MaxReplication` stops a peer from repeating its bitfield for ever: the real
counter would grow without bound, too.  `PeerBitfields` and `PeerPieces` are what a
peer may claim to have: everything in `Download`, where `Have` messages make up the
rest, and everything, one piece or nothing in `list`.  `MaxBadPiecesPerPeer` is five in
the program; one strike in `webseed`, where a ban is not the question, two in `ban`,
so that a ban needs blame for two pieces.  `MaxAdds` bounds the verifications asked
for; three of two torrents allow one to be re-added while it, or the other, is
being verified.  In `list`, `Selections` are two of the eight choices of files,
`HighPriorities` two, `FromPieces` two; the salts of non-sequential mode are all
equal, so that its order rests on sizes, priorities and replication and ties are
allowed.  `TogglesMidway` = FALSE lets the user switch sequential mode only while
nothing is listed, for the reason the next section gives; in `toggle` it is TRUE.

In `session` and `slots`, the progress of a torrent has three values because the
code asks whether it has any data and whether it has all that is wanted; one
torrent is enough for what a torrent's commands do to each other, and two for one
slot.  `MaxWork` bounds the posted work: over RPC only the verifying thread posts,
one completion at a time and one more for a torrent that was verified again
before the first was taken.  `MaxSessions` = 2 lets a session that was restarted
restart again; with 0 (`slots`, `app`) nothing is saved, as nothing is ever read.
`QueueStalled` lets torrents stall in `slots`, where there are slots to win by it.
The symmetry of `slots` is sound: with one session, nothing but the queue's order,
which is part of the state, tells its torrents apart, and it checks no liveness.
A torrent's id is never used twice by the program; here a torrent is only added
again when no posted work names it.

In `tier`, two trackers are what it takes to fail over and to come back.
`MaxEvents` = 3 has room for a completion, the stop behind it and the start after
that; `MaxFlight` = 2 allows the overlap of two announces, the first of which may
be answered last; `MaxScrapes` = 1 and at most one scrape of a tracker at a time
suffice for a scrape to fail while an announce is under way.

**Fairness.**  `VerifyWorker`: weak fairness of the worker's steps and of what the
session thread does once it is inside a call.  Both are threads that the operating
system schedules; each waits for the mutex, held for a bounded time only, or for
the other, which is what is checked.  `TorrentLife`: weak fairness of the posted
work, the queue timer, the idle work and the loading of torrents, which the event
loop runs for ever, and of the beginning and the end of a verification, which the
worker comes to.  `Announcer`: weak fairness of answers, since every request has a
timeout, and strong fairness of announcing a tier that is ready: scrapes make it
unready now and then, but they are seconds apart and an upkeep comes twice a
second.  Nobody is obliged to make a call.  Liveness of the download itself depends on what peers
send, and is not claimed.

## 4. What the checks found

Five configurations end, as they should, in a counterexample to what a comment or a
test of the repository says.

| run | property | what happens |
|---|---|---|
| `rewant` | `LeechHasWishlist` | A torrent is done; its wishlist is dropped (`peer-mgr.cc:795`).  The user wants more files while it runs.  The wishlist is only made when the torrent starts, so nothing is requested until it is restarted. |
| `ban` | `MissingIsOnTheWay` | A webseed gives a block of each of two pieces, and both fail their checksum: two strikes, and it is banned, with a task in flight (`webseed.cc:238`).  The blocks of that task stay in `active_requests`.  They are missing, on their way from nobody, and not among the unrequested, which are to be those "that we don't have or not requested" (`peer-mgr-wishlist.cc:89`). |
| `toggle` | `SequentialOrder` | Sequential download is switched on while a download is under way.  The salts are renewed; `is_sequential` of the candidates is not (`peer-mgr-wishlist.cc:53`), so that they are still sorted by how many blocks they lack, and a later piece that is further on comes before an earlier one. |
| `app` | `RunningNotVerified` | An application's thread asks for a verification and then for a start.  The verification is posted (`torrent.cc:1524`); `start()` still sees the torrent stopped and posts the start (`torrent.cc:612`); the session thread applies both, and the torrent runs while it is verified. |
| `edit` | `EditsKeepAnnouncing` | The tracker list of a running torrent is edited.  The tiers are made anew: their queues are copied, the time of the next announce is not (`announcer.cc:1628`), and the loop that should greet the tracker of a new tier looks for tiers without a current tracker, of which there are none, as the constructor chose one (`announcer.cc:351`).  Nothing is announced until the torrent starts again, the user asks for an announce, or another event comes. |

Behaviours met while modelling, which no property of a run is about, or which the
properties exclude by name:

* A webseed's task that fails after a peer delivered one of its blocks makes that
  block requestable although we have it (`webseed.cc:253`); without webseeds it
  cannot happen (`NeverRequestHad`).
* An unwanted piece, completed by the edge blocks of its wanted neighbours, is put
  on the wishlist when its checksum fails (`peer-mgr-wishlist.cc:130`).
* A magnet that gets its metainfo is stored under another name (`torrent.h:572`,
  `torrent-magnet.cc:222-230`), which does not mark the queue for saving.  If nothing
  else has marked it before the session ends, `queue.json` still names the .magnet, and
  the next session loads that torrent behind all others (`CloseKeepsOrder`).
* With `queue_stalled_enabled` a stalled torrent takes no slot, and takes one again when
  it transfers: there are then more active torrents than slots, as documented.
* With `torrent_complete_verify_enabled`, a start that finds the torrent complete
  verifies it, on the session thread at once, and goes on to start it
  (`torrent.cc:626`, `1760`): it runs while it is verified.
* Moving the data of a torrent cancels its verification (`torrent.cc:1070`), and
  with it the start that was to follow (`OnlyMovesForgetIntent`).
* A verification that finds the files gone pauses the torrent but leaves it queued
  (`torrent.cc:1542`), so that the queue timer starts it.
* The queue timer chooses among all that are queued (`session.cc:545`), whatever
  their state.  A torrent that is queued and then verified, or found to be more or
  less complete than the queue thinks, can be chosen: it takes none of the slots it
  was given, and a torrent behind it waits until the timer fires again.
* From an application's thread, a start right after a stop finds the torrent still
  running and does nothing (`torrent.cc:573`); the stop is then applied.
* A "started" that fails while a stop is queued goes behind it: the stopped torrent
  announces that it runs, and then periodically.  A "stopped" that fails after a
  restart drops the "started" that is queued, and the running torrent falls silent.
* A torrent found complete after it was stopped (fewer files are wanted) announces
  that, and periodically from then on.
* A failed scrape moves the tier on and clears `isAnnouncing` also while an announce
  is under way (`announcer.cc:1167`): a second one can overlap with it, and its
  answer is held for or against the wrong tracker.

## 5. What is proved

All theorems hold for every value of the constants that satisfies the named
assumptions: any torrent size, piece size, block size, any finite sets of peers
and webseeds, any limits (`SizeAssumption`, `SourceAssumption`), any
torrents, ranks, priorities and piece counts (`VerifyAssumption`), any settings
and bounds of the session (`LifeAssumption`), and any trackers, lists and bounds
of the announcer (`AnnouncerAssumption`).

**Wishlist and Download.**  `WishlistProofs` starts from the geometry: numbers
a block apart are in different blocks (`DivStep`), so two pieces that share a
block are neighbours (`SharedBlock`) and no block is in three (`AtMostTwoPieces`).
From that, that the operators of `Wishlist` keep spans within their pieces
(`...Proper`), disjoint (`...Disjoint`), covering (`...Owned`) and accounted for
(`...Accounted`).  `DownloadProofs` lifts each to the actions.

* `TypeCorrect`: `TypeOK`, with the representation invariant of the wishlist.
* `ListInvariant`, and from it `SpansStayDisjoint`, `WantedBlocksAreOwned` and
  `NoBlockIsLost`, which has the exception of `NoLostBlock`: blocks asked of a webseed
  that was banned since.  `WantedBlocksOwned` is not inductive: a piece that failed its
  checksum is a candidate and need not be wanted; if it is wanted later, the
  upkeep retains it as it is.  So `Covered` says that the missing blocks of the
  *candidates*, wanted or not, are owned too.
* `PeersNeverAskedForHad`: `NeverRequestHad`, when there are no webseeds; section 4
  says why the assumption is needed.
* `DoneHasNoInterest`: with `Quiet`, that a *stopped* torrent is interested in
  nobody either, since it may be found done when it starts.
* `ReplicationIsCovered`: `ReplicationCovers`, by counting the holders of a piece
  before and after each step.

**The wishlist's vector.**  `WishlistListProofs` and `WishlistListRefinement` are about the
code as written, for every number of pieces, any geometry and any finite set of peers.  It goes four steps.

1. *Folds are walks.*  The community modules define a fold by a `CHOOSE` of a
   recursive function.  `FoldExists` gives the witness, and each loop gets a lemma that says what it holds after k
   rounds (`SpanIsWalked`, `SentIsWalked`, `NextIsWalked`, `CompleteIsWalked`,
   `UpkeepIsWalked`).  A property of every round is then shown with `UpTo`, which
   is an induction over the numbers up to n, from a least counterexample.
2. *What a handler does to the set of candidates.*  Those that keep the candidates
   turn each of them by a function, and leave a sorted list sorted, although they move
   one candidate or none (`GotBlockTurns`, `ResetBlockTurns`, `CountPieceTurns`,
   `RequestedSpanTurns`, `SentTurns`, ...); the search finds the place
   (`SpotRange`, `MovedOrdered`), because `operator<=>` is a weak order among candidates of one mode
   (`ModeIsOrder`).  The two that make candidates get a closed form.  `BadPieceIs`:
   the piece's candidate is made anew, cut at the edges of its neighbours, which get
   the shared blocks back.  `UpkeepIs`: the walk of `candidate_list_upkeep` with its indices, its
   pointer to the previous candidate and its three kinds of step (`KeepGoesOn`,
   `MakeGoesOn`, `EraseGoesOn`) ends with one candidate per wanted missing piece,
   each of which begins and ends where `NewOf` says.  `WalkInv` is the invariant
   of that loop: which candidates are in front of the index and which behind it,
   what each of them is by now, and that `prev` points at the last one that stays.
3. *The invariants.*  `ListInv` says that there is one candidate per piece, that each
   lies within its piece up to its edge blocks, that neighbours meet, that its
   priority is that of the files wanted first and that its replication is at least the number of
   peers that have the piece, also when they say so twice or take it back.  It is inductive for every setting (`ListHolds`) and gives
   `ListTypes` and `NeighboursAlwaysMeet`.  `OrderInv`, that the list is sorted,
   all candidates have the mode of the torrent and each salt is the one of that mode,
   is inductive together with it when the mode is only switched while there are no candidates
   (`~TogglesMidway`; otherwise `operator<=>` is no order on the list, section 4).  From it come
   `StaysSorted`, `TakesInSequence` (equal salts would be equal ranks, `SaltRank`)
   and `TakesTheBest` (`NextBest`).  `TakesInSequence` compares candidates of equal
   priority and replication, which come first in `operator<=>`.  `SaltsAlwaysRotate` says
   of `get_salt` alone that it rotates any number of pieces, from any of them.
4. *The refinement* (`WishlistListRefinement`).  `PiecesIn`, `SpansIn`, `OpenIn` and `CountIn` are what
   `WishlistEvents` has of a set of candidates; the substitution is this view of the
   list's set (`ViewNow`, `ViewNext`).  With what step 2 says of the set, each
   handler is its event or leaves the view alone: `SendRefines`, `RejectRefines`,
   `HaveRefines`, `PriorityRefines` and so on.  Again two are work.  For a piece that
   fails (`ReceiveBadRefines`), the bounds that `on_got_bad_piece` reads off the
   vector's neighbours are those between the nearest candidates below and above
   (`BetweenIs`), and what is cut there is what `CheckedSpan` and `CheckedUnrequested`
   give (`RemadeSeen`).  For the upkeep (`WantedRefines`), what a candidate that stays
   keeps, and what a new one takes, after the walk has met its neighbours one by one,
   is what `UpkeepSpan` says of all pieces at once (`StayingSpan`, `StayingOpen`,
   `MadeSpan`).  `StepRefines` puts the events together, and
   `ListImplementsEvents` is `Spec => ImplementsEvents`.  It needs `ListInv` only, and so holds for
   every setting, `TogglesMidway` included.

**Verify worker.**  `Inv` says where the two threads can be relative to each
other: a live thread has an id; a thread that ends leaves nothing on the list;
while the session thread waits, the flag is up and its torrent is the current
one; when it has been woken, the flag is down, its torrent is in nobody's hands
and its state is `none`.  It is inductive, and gives the five invariants of the
run (`TypeCorrect`, `OnlyLiveTorrentsAreUsed`, `RemoveLeavesIdle`,
`StopIsAimed`, `CompletionIsEarned`).  `Implements` proves `Spec =>
Service!Spec`: the torrent is active for the service until the worker has used
it for the last time, one step later than `verify_state_` says.

**Announcer.**  `RunningIsAnnounced` and `StoppedIsSilent` are not inductive: an
announce that is under way can come back to the queue.  `IInv` therefore takes the
queue and the flight of a steady tier together.  While the torrent runs, the last
queued event is no stop, and a stop under way has something behind it; while it is
stopped, the last queued event is a stop, and anything else under way has one
behind it; and at most one announce is under way.  With the shape of the queue,
which the three special cases of `tier_announce_event_push` keep (`Trailing`,
`Pushed`), this is inductive, and gives `QueuesKeepShape`,
`RunningTorrentsAnnounce` and `StoppedTorrentsAreSilent`.  `CompletionsAreKept`
proves the action property step by step from the same invariant.

The same invariant with the shape of the trying orders gives `Types`, with which no
tracker is ever twice in a tier's order: it rests on a tracker being in one tier of
a list only (`AnnouncerAssumption`), which `tr_announce_list::can_add` sees to.

**Torrent lifecycle** (`TorrentLifeProofs`).  `NoTorrentRunsVerified` proves `RunningNotVerified` under
the two conditions without which it is false, `~AppThread` (run `app`) and
`~VerifyComplete` (section 4).  Each operator on a torrent keeps a torrent calm (not
both running and verified); what makes it inductive is that then only completions
are ever posted.

**Torrent queue.**  `TorrentQueueProofs` shows for queues of any length that adding,
removing and moving keep `queue_` and `pos_of_` in agreement (`AddKeepsIndex`,
`RemoveKeepsIndex`, `SetPosKeepsIndex`), that they add and remove nothing else, and
that each of the four moves of a selection only reorders the queue
(`MoveTopReorders` and so on).  `Visit` is a recursive function; `Iterated` shows
that such a function exists and `Iterates` what holds of its values, from the least
counterexample and not by an induction theorem.

**Session.**  The rest of `TorrentLifeProofs` puts the two together.

* `SessionHolds`, for calls from any thread, is the invariant `SessionInv`: the
  session's torrents are those of its queue, no torrent is twice in the queue, in
  `queue.json` or on the list of what is to be loaded, and the torrents with a
  stored file are those the session has or has yet to load.  A queue that is not
  marked for saving and is not empty is what the file says, up to the names of magnets
  that have got their metainfo since; no file is named twice.  From it follow
  `QueueIsSound`, `LifeTypes`, `ClosingSavesAll` and `ClosingKeepsOrder`: of two torrents
  of a closed queue, the first is loaded before the second if its file still has the name
  it was saved with (`LoadOrderHolds` says what `LoadOrder` does with any list of names); each operator on a torrent
  returns a torrent and stores or drops nothing (`...Kept`).
* `IntentHolds` adds `IntentInv`, under `~AppThread`: what is posted are
  completions; a torrent of the session is not deleted, and if its resume file is
  behind and not marked for saving it is being verified, has its completion posted
  or has an error; and a torrent that is not in the session is asleep and marked.
  Each step is `Improved`: it keeps that, and a torrent that will start still will
  unless its data is moved.  This is `ResumeIsCurrent` and `IntentIsKept`.  An
  application's thread posts a stop after it has cleared the intent, so that a
  torrent and its posted work say different things for a while, and the invariant
  is another one; with `~AppThread` it is the session of the daemon.
* `SlotsHold` and `TimerFillsAll`, under `~AppThread` as well.  The torrents that the timer
  chooses are all that wait or as many as it asks for (`FirstChosen`), because
  positions in the queue differ, which is `SessionInv`.  What is chosen and may start
  runs in the direction it waited in (`ChosenRuns`), so that the free slots are used
  up (`PulseFills`); what starts by the queue found a slot (`StartAdmits`), and a
  pulse adds no more than there are (`PulseAdmits`).  A torrent that the first pulse
  finds complete does not wait for the second, since it starts (`ChosenStarts`).
  `ApartInv`, that no torrent waits while it runs, is the part that has to be
  inductive.

## 6. What is only model-checked, and what is left out

* `SessionThreadReturns`, `QueuedEnds`, `StopHappens` and `StopIsSent` are liveness
  under fairness, which the prover does not handle; TLC checks them.
* `OnlyMovesForgetIntent`, `CleanResumeIsCurrent`, `SlotsRespected` and
  `TimerFillsSlots` are proved, and checked, for calls from the session thread only.
* That each of the four moves of a selection does what its name says is checked for
  every order of five torrents (`MovesMoveTheSelection`); proved is that it only
  reorders.
* `ListSorted`, `SequentialOrder` and `NextIsBest` are proved, and checked, for a
  mode that is switched only while there are no candidates (`toggle` shows that
  `SequentialOrder` does not otherwise).
* The counterexamples of section 4 are TLC's.

Left out of the modelled parts, on purpose: uploading and choking others,
metadata exchange, peer exchange, partial blocks (a block arrives with its last
byte), the clock, bandwidth, the webseeds' URLs and pauses (a webseed may always
decline to ask), file I/O except its failure, byte counts and statistics.  In `VerifyWorker`,
reading and hashing a piece is one step.  The last act of a worker thread whose
id is gone is to unlock a mutex that the destructor may be destroying
(`verify.cc:131-135`, `181-184`): the model has that step and the property
`WorkerUsesLiveTorrents` says that it is the only one left.

In `TorrentLife`, the worker that verifies
is reduced to what its mediator does, and what peers and trackers do on a start or
stop is left to `Download` and `Announcer`; renaming files, labels, groups, scripts
and the other fields of a resume file are left out; a write error comes with a
block only.  `PARTIAL_SEED` and `SEED` are one `done`, so that the step from the first to
the second, at which the program saves the torrent and may verify it, is not there.  Nor is
the move out of the incomplete directory of a torrent that has become complete
(`torrent.cc:1785`); it cancels a verification as `UserRelocate` does, and
`OnlyMovesForgetIntent` would have to except it in the same way.  A magnet's .torrent is written
and its .magnet removed in one step; a crash between the two leaves both, of which
the next session reads the .torrent first.  When a session is closed nothing is posted any more.  In `Announcer`,
times are set or not set, retry intervals, byte counts, priorities, batches, the
HTTP and UDP requests and the shutdown are left out; one torrent never has more
tiers due than one upkeep sends.

Not modelled at all: what `PROJECT.json` lists as `not_modelled`, with the
reason for each.

## 7. The plan

The order is by what would hurt most when wrong.

1. Done: the download core (`Wishlist`, `Download`), the wishlist's
   representation (`WishlistList`), the verify worker, the lifecycle with its queue
   (`TorrentQueue`, `TorrentLife`), the announcer, each with proofs.
2. **Proofs**: that `Download`'s steps are those of `WishlistEvents`, so that what is
   proved of the sets holds of the vector under the download, too.
3. **Composition**: `TorrentLife` with `VerifyWorker` in place of the reduced worker.
4. **Peer pool and rechoke** (`PeerPool`): handshakes in flight, limits, duplicate
   connections, the optimistic unchoke.  Three addresses, two slots.
5. **Handshake** (`Handshake`): the state machine with its timer and its retry in
   the clear; both ends as two instances.
6. **Upload side** of the peer wire (`UploadQueue`), then **magnet metadata**
   (`Magnet`), each with one peer that sends anything.
7. Liveness of the download under cooperative peers; the request that is sent
   twice when a piece is unwanted and wanted again (`peer-mgr.cc:1165`).
