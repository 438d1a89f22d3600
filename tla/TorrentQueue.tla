---------------------------- MODULE TorrentQueue ----------------------------
(***************************************************************************)
(* torrent-queue.cc: the order of the session's torrents, kept twice, as a *)
(* vector of ids (queue_) and as a table from an id to its position        *)
(* (pos_of_) that every operation mends in place, and the moves of a       *)
(* selection of torrents that torrent.cc builds from set_pos.              *)
(*                                                                         *)
(* A queue is a record: order is queue_, posOf is pos_of_, dirty is        *)
(* is_dirty_ and file is what queue.json holds: not ids but the names of   *)
(* the files the torrents are stored in, X.torrent or X.magnet, which are  *)
(* <<X, TRUE>> and <<X, FALSE>> here.  Positions count from 0 as in the    *)
(* code.                                                                   *)
(***************************************************************************)
EXTENDS Integers, Sequences, SequencesExt

NotQueued == -1

EmptyQueue(ids, file) ==
    [order |-> <<>>, posOf |-> [t \in ids |-> NotQueued], dirty |-> FALSE, file |-> file]

InQueue(q, t) == q.posOf[t] \in 0 .. Len(q.order) - 1

(* Rewrites the positions of the ids at [first, last).                     *)
Reindex(posOf, order, first, last) ==
    [t \in DOMAIN posOf |->
        IF \E p \in first .. last - 1 : order[p + 1] = t
        THEN CHOOSE p \in first .. last - 1 : order[p + 1] = t
        ELSE posOf[t]]

(* mutant: the position is taken after the id was appended.                *)
QueueAddThenCount(q, t) ==
    [q EXCEPT !.order = Append(@, t), !.posOf[t] = Len(q.order) + 1, !.dirty = TRUE]

QueueAdd(q, t) ==
    [q EXCEPT !.order = Append(@, t), !.posOf[t] = Len(q.order), !.dirty = TRUE]

(* mutant: the id that moved into the gap keeps its position.              *)
RemoveShort(q, t) ==
    LET pos   == q.posOf[t]
        order == RemoveAt(q.order, pos + 1)
    IN  IF ~InQueue(q, t) THEN q
        ELSE [q EXCEPT !.order = order,
                       !.posOf = Reindex([@ EXCEPT ![t] = NotQueued], order, pos + 1, Len(order)),
                       !.dirty = TRUE]

QueueRemove(q, t) ==
    LET pos   == q.posOf[t]
        order == RemoveAt(q.order, pos + 1)
    IN  IF ~InQueue(q, t) THEN q
        ELSE [q EXCEPT !.order = order,
                       !.posOf = Reindex([@ EXCEPT ![t] = NotQueued], order, pos, Len(order)),
                       !.dirty = TRUE]

(* The rotation that takes the id at position from to position to.         *)
Rotate(order, from, to) ==
    [i \in 1 .. Len(order) |->
        CASE i = to + 1 -> order[from + 1]
          [] to < from /\ i \in to + 2 .. from + 1 -> order[i - 1]
          [] from < to /\ i \in from + 1 .. to -> order[i + 1]
          [] OTHER -> order[i]]

QueueSetPos(q, t, newPos) ==
    LET old   == q.posOf[t]
        to    == IF newPos < Len(q.order) THEN newPos ELSE Len(q.order) - 1
        order == Rotate(q.order, old, to)
        first == IF old < to THEN old ELSE to
        last  == IF old < to THEN to ELSE old
    IN  IF ~InQueue(q, t) \/ old = to THEN q
        ELSE [q EXCEPT !.order = order,
                       !.posOf = Reindex(@, order, first, last + 1),
                       !.dirty = TRUE]

(* to_file: name[t] is store_filename() of t at this time.                 *)
ToFile(q, name) ==
    IF ~q.dirty THEN q
    ELSE [q EXCEPT !.dirty = FALSE, !.file = [i \in DOMAIN q.order |-> name[q.order[i]]]]

-----------------------------------------------------------------------------
(* What becomes of first when Step is taken for those in sel, in the order *)
(* they have in seq.                                                       *)
Visit(seq, sel, Step(_, _), first) ==
    LET after[i \in 0 .. Len(seq)] ==
          IF i = 0 THEN first
          ELSE IF seq[i] \in sel THEN Step(after[i - 1], seq[i]) ELSE after[i - 1]
    IN  after[Len(seq)]

(* The order in which the files `stored' are loaded: first those that the  *)
(* queue's file names, then the .torrent files and then the .magnet files  *)
(* that it does not.                                                       *)
LoadOrder(file, stored) ==
    LET listed == Visit(file, stored, LAMBDA s, name : Append(s, name), <<>>)
        rest   == stored \ ToSet(listed)
        names  == listed \o SetToSeq({name \in rest : name[2]})
                         \o SetToSeq({name \in rest : ~name[2]})
    IN  [i \in DOMAIN names |-> names[i][1]]

(* The moves of a selection, which tr_torrent goes through in the order of *)
(* the queue or against it.                                                *)
MoveTop(q, sel) ==
    Visit(Reverse(q.order), sel, LAMBDA r, t : QueueSetPos(r, t, 0), q)

MoveBottom(q, sel) ==
    Visit(q.order, sel, LAMBDA r, t : QueueSetPos(r, t, Len(r.order)), q)

(* A run of selected torrents that already touches the end stays: edge is  *)
(* last_consecutive_pos.                                                   *)
MoveUp(q, sel) ==
    Visit(q.order, sel,
          LAMBDA r, t : IF r.q.posOf[t] # r.edge
                        THEN [r EXCEPT !.q = QueueSetPos(@, t, @.posOf[t] - 1)]
                        ELSE [r EXCEPT !.edge = @ + 1],
          [q |-> q, edge |-> 0]).q

MoveDown(q, sel) ==
    Visit(Reverse(q.order), sel,
          LAMBDA r, t : IF r.q.posOf[t] # r.edge
                        THEN [r EXCEPT !.q = QueueSetPos(@, t, @.posOf[t] + 1)]
                        ELSE [r EXCEPT !.edge = @ - 1],
          [q |-> q, edge |-> Len(q.order) - 1]).q

-----------------------------------------------------------------------------
(* The table and the vector say the same, and no id is queued twice.       *)
Indexed(q) ==
    /\ \A p \in 0 .. Len(q.order) - 1 : q.posOf[q.order[p + 1]] = p
    /\ \A t \in DOMAIN q.posOf :
          \/ q.posOf[t] = NotQueued
          \/ q.posOf[t] \in 0 .. Len(q.order) - 1 /\ q.order[q.posOf[t] + 1] = t

=============================================================================
