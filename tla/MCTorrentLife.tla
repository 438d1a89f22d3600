--------------------------- MODULE MCTorrentLife ---------------------------
(* TorrentLife with one and with two torrents, for TLC.                    *)
EXTENDS TorrentLife

CONSTANTS t1, t2

OneTorrent  == {t1}
TwoTorrents == {t1, t2}
OneSlot     == [up |-> 1, down |-> 1]

(* Nothing but the order of loading tells the torrents apart, and that is  *)
(* only used when there is a second session.                               *)
TorrentSymmetry == Permutations(TwoTorrents)

-----------------------------------------------------------------------------
(* What the moves of a selection are to do, checked for every order of     *)
(* five torrents and every selection: the selected ones come first or last,*)
(* or each gets one step further unless only selected ones are before it;  *)
(* either way neither they nor the others change places among themselves.  *)
Ids == 1 .. 5

QueueOf(order) ==
    [order |-> order,
     posOf |-> [t \in ToSet(order) |-> CHOOSE p \in 0 .. Len(order) - 1 : order[p + 1] = t],
     dirty |-> FALSE, file |-> <<>>]

Orders == {order \in [Ids -> Ids] : \A i, j \in Ids : order[i] = order[j] => i = j}

Picked(order, sel) == SelectSeq(order, LAMBDA t : t \in sel)
Others(order, sel) == SelectSeq(order, LAMBDA t : t \notin sel)

SameButSteps(q, r, sel, Step(_)) ==
    /\ Picked(r.order, sel) = Picked(q.order, sel)
    /\ Others(r.order, sel) = Others(q.order, sel)
    /\ \A t \in sel : r.posOf[t] = Step(t)

Before(q, t, sel) == Cardinality({u \in sel : q.posOf[u] < q.posOf[t]})
After(q, t, sel)  == Cardinality({u \in sel : q.posOf[u] > q.posOf[t]})

MovesAsAsked(q, sel) ==
    LET up   == MoveUp(q, sel)
        down == MoveDown(q, sel)
    IN  /\ MoveTop(q, sel).order = Picked(q.order, sel) \o Others(q.order, sel)
        /\ MoveBottom(q, sel).order = Others(q.order, sel) \o Picked(q.order, sel)
        /\ SameButSteps(q, up, sel, LAMBDA t :
              IF q.posOf[t] = Before(q, t, sel) THEN q.posOf[t] ELSE q.posOf[t] - 1)
        /\ SameButSteps(q, down, sel, LAMBDA t :
              IF q.posOf[t] = 4 - After(q, t, sel) THEN q.posOf[t] ELSE q.posOf[t] + 1)
        /\ \A r \in {MoveTop(q, sel), MoveBottom(q, sel), up, down} : Indexed(r)

ASSUME MovesMoveTheSelection ==
    \A order \in Orders, sel \in SUBSET Ids : MovesAsAsked(QueueOf(order), sel)

-----------------------------------------------------------------------------
(* What the next session loads first, for every queue of three torrents:   *)
(* those that are stored under the name they had when the queue was saved, *)
(* in its order, and only then a magnet that has got its metainfo since.   *)
Short == {Picked(order, 1 .. 3) : order \in Orders}

ASSUME OnlyTheRenamedLoadLast ==
    \A order \in Short, then, now \in SUBSET (1 .. 3) :
        then \subseteq now =>
            LET name(M) == [t \in 1 .. 3 |-> <<t, t \in M>>]
                saved   == ToFile([QueueOf(order) EXCEPT !.dirty = TRUE], name(then))
                loaded  == LoadOrder(saved.file, {name(now)[t] : t \in 1 .. 3})
                same    == Picked(order, (1 .. 3) \ (now \ then))
            IN  /\ SubSeq(loaded, 1, Len(same)) = same
                /\ ToSet(loaded) = 1 .. 3 /\ Len(loaded) = 3

=============================================================================
