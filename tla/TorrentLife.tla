---------------------------- MODULE TorrentLife ----------------------------
(***************************************************************************)
(* The life of the torrents of a session: torrent.cc's add, start, stop,   *)
(* verify, move and remove, the flags they leave for later                 *)
(* (start_when_stable_, is_stopping_, is_queued_), the queue's free slots  *)
(* (session.cc), the resume files, and the session thread's list of posted *)
(* work (session-thread.cc).                                               *)
(*                                                                         *)
(* A call comes from the session thread (the RPC server and the timers),   *)
(* where run_in_session_thread runs its second half at once, or from an    *)
(* application's thread, where that half is appended to the list; every    *)
(* half holds the session's lock.  The thread that verifies is seen as in  *)
(* VerifyService: it takes one queued torrent at a time, changes what we   *)
(* have of it piece by piece and posts a completion.                       *)
(*                                                                         *)
(* Files can be missing whenever the code looks for them: gone is what it  *)
(* sees.                                                                   *)
(***************************************************************************)
EXTENDS Naturals, FiniteSets, TorrentQueue, FiniteSetsExt

CONSTANTS
    Torrents,        \* the torrents that can be added
    Magnets,         \* TRUE when torrents are also added by magnet link
    AppThread,       \* TRUE when an application's thread makes the calls, else RPC
    VerifyComplete,  \* setting torrent_complete_verify_enabled
    Relocations,     \* TRUE when the user also moves a torrent's data
    Unplugged,       \* TRUE when a torrent's files can go missing
    QueueSize,       \* settings {seed,download}_queue_size, by direction
    QueueStalled,    \* setting queue_stalled_enabled
    MaxWork,         \* bound: items posted to the session thread
    MaxSessions      \* bound: times the session is started again; nothing is saved when 0

Directions == {"up", "down"}
NoLimit == 1000      \* a queue size of this stands for a queue that is off

ASSUME LifeAssumption ==
    /\ IsFiniteSet(Torrents)
    /\ Magnets \in BOOLEAN
    /\ AppThread \in BOOLEAN /\ VerifyComplete \in BOOLEAN
    /\ Relocations \in BOOLEAN /\ Unplugged \in BOOLEAN
    /\ QueueSize \in [Directions -> Nat \ {0}] /\ QueueStalled \in BOOLEAN
    /\ MaxWork \in Nat /\ MaxSessions \in Nat

VARIABLES
    torrents,   \* the session's torrents
    tor,        \* of each torrent: its flags, progress and resume file
    queue,      \* the session's tr_torrent_queue
    work,       \* work_queue_: [op, t]
    toLoad,     \* at a start, the torrents still to be loaded, in order
    sessions    \* how often the session was started again

vars == <<torrents, tor, queue, work, toLoad, sessions>>

-----------------------------------------------------------------------------
(* The state of a torrent.  has is what completion_ holds of the wanted    *)
(* files, done is completeness_ # TR_LEECH as of the last recheck, verify  *)
(* is verify_state_, resume is the last .resume file: is the torrent       *)
(* paused in it, and its progress.  idle says that its idle_seconds() are  *)
(* at least queue_stalled_minutes: it runs, and was started and last       *)
(* shared data that long ago.                                              *)
Progress == {"none", "some", "all"}
NoResume == [exists |-> FALSE, paused |-> FALSE, has |-> "none"]

Fresh(stored, meta, resume) ==
    [running |-> FALSE, stopping |-> FALSE, queued |-> FALSE, intent |-> FALSE,
     deleting |-> FALSE, verify |-> "none", meta |-> meta, has |-> resume.has,
     done |-> resume.has = "all", check |-> TRUE, error |-> FALSE, dirty |-> TRUE,
     idle |-> FALSE, stored |-> stored, resume |-> resume]

QueueEnabled(dir) == QueueSize[dir] # NoLimit
Direction(r) == IF r.done THEN "up" ELSE "down"
IsQueued(r, dir) == r.queued /\ Direction(r) = dir

Activity(r) ==
    CASE r.verify = "active" -> "check"
      [] r.verify = "queued" -> "check_wait"
      [] r.verify = "none" /\ r.running -> IF r.done THEN "seed" ELSE "download"
      [] r.verify = "none" /\ ~r.running /\ r.queued /\ QueueEnabled(Direction(r)) -> "wait"
      [] OTHER -> "stopped"

Stalled(r) == QueueStalled /\ r.idle

(* The torrents that take one of the slots.                                *)
Active(ts, dir) ==
    {t \in Torrents : /\ Activity(ts[t]) = IF dir = "up" THEN "seed" ELSE "download"
                      /\ ~Stalled(ts[t])}

FreeSlots(ts, dir) ==
    IF ~QueueEnabled(dir) THEN NoLimit
    ELSE IF Cardinality(Active(ts, dir)) >= QueueSize[dir] THEN 0
    ELSE QueueSize[dir] - Cardinality(Active(ts, dir))

Disappeared(r, gone) == gone /\ r.has # "none"

-----------------------------------------------------------------------------
(* What the session thread does to a torrent.  Each operator returns the   *)
(* torrent as the function of the same name leaves it.                     *)
Save(r) ==
    IF ~r.dirty \/ MaxSessions = 0 THEN r
    ELSE [r EXCEPT !.dirty = FALSE,
                   !.resume = [exists |-> TRUE, paused |-> ~r.intent, has |-> r.has]]

SetQueued(r, on) == [r EXCEPT !.queued = on, !.dirty = @ \/ r.queued # on]

StopNow(r) ==
    LET s == [r EXCEPT !.running = FALSE, !.stopping = FALSE, !.verify = "none", !.idle = FALSE]
    IN  SetQueued(IF r.deleting THEN s ELSE Save(s), FALSE)

(* mutant: the torrent goes on while it is verified.                       *)
VerifyRunning(r, gone) ==
    IF r.deleting THEN r
    ELSE IF ~r.meta THEN [r EXCEPT !.verify = "none"]
    ELSE [r EXCEPT !.error = @ \/ Disappeared(r, gone), !.verify = "queued",
                   !.intent = @ /\ ~Disappeared(r, gone)]

VerifyNow(r, gone) ==
    LET idle == [r EXCEPT !.verify = "none"]
        s    == IF r.running THEN StopNow(idle) ELSE idle
        lost == Disappeared(s, gone)
    IN  IF r.deleting THEN r
        ELSE IF ~r.meta THEN idle
        ELSE [s EXCEPT !.error = @ \/ lost, !.intent = @ /\ ~lost, !.verify = "queued"]

(* recheck_completeness() on the session thread.                           *)
NeedsRecheck(r) == r.done # (r.has = "all")
VerifiesFirst(r) == NeedsRecheck(r) /\ ~r.done /\ r.running /\ VerifyComplete

Recheck(r, gone) ==
    LET s == [r EXCEPT !.check = FALSE]
        c == [s EXCEPT !.done = ~r.done, !.dirty = TRUE]
    IN  IF ~NeedsRecheck(r) THEN s
        ELSE IF VerifiesFirst(r) THEN VerifyNow(s, gone)
        ELSE IF c.done THEN Save(c) ELSE c

StartInSessionThread(r, gone) ==
    [SetQueued(Recheck(r, gone), FALSE) EXCEPT
        !.running = TRUE, !.error = FALSE, !.dirty = TRUE, !.idle = FALSE]

(* start()'s early returns: Refused when nothing is to be done, Queues     *)
(* when the torrent has to wait for a slot.                                *)
Refused(r, bypass) ==
    \/ Activity(r) \in {"seed", "download", "check", "check_wait"}
    \/ Activity(r) = "wait" /\ ~bypass

Queues(ts, t, bypass) ==
    Activity(ts[t]) = "stopped" /\ ~bypass /\ FreeSlots(ts, Direction(ts[t])) = 0

Starts(ts, t, bypass, gone) ==
    ~Refused(ts[t], bypass) /\ ~Queues(ts, t, bypass) /\ ~Disappeared(ts[t], gone)

(* The half of start() that its caller's thread runs.                      *)
StartHere(ts, t, bypass, gone) ==
    IF Refused(ts[t], bypass) THEN ts[t]
    ELSE IF Queues(ts, t, bypass) THEN SetQueued(ts[t], TRUE)
    ELSE IF Disappeared(ts[t], gone) THEN [ts[t] EXCEPT !.error = TRUE]
    ELSE [ts[t] EXCEPT !.running = TRUE, !.dirty = TRUE]

(* start() on the session thread, both halves.                             *)
StartNow(ts, t, bypass, gone) ==
    IF Starts(ts, t, bypass, gone)
    THEN StartInSessionThread(StartHere(ts, t, bypass, gone), gone)
    ELSE StartHere(ts, t, bypass, gone)

Intend(ts, t) == [ts EXCEPT ![t].intent = TRUE]

(* mutant: the pause is not marked for saving.                             *)
StopUnmarked(r) == StopNow([r EXCEPT !.intent = FALSE])

Stop(r) == StopNow([r EXCEPT !.intent = FALSE, !.dirty = TRUE])

NoTorrent == Fresh(FALSE, FALSE, NoResume)

(* mutant: a completion starts nothing.                                    *)
VerifiedOnly(ts, t) == Recheck(ts[t], FALSE)

(* A completion: the pieces are all checked, so that their files exist.    *)
Verified(ts, t) ==
    LET r  == Recheck(ts[t], FALSE)
    IN  IF r.intent THEN StartNow([ts EXCEPT ![t] = r], t, FALSE, FALSE) ELSE r

-----------------------------------------------------------------------------
(* Calls.  Up says the session is up; Gone is what a look for files finds. *)
Up == toLoad = <<>>
Gone == IF Unplugged THEN BOOLEAN ELSE {FALSE}
Room == Len(work) < MaxWork
Post(op, t) == work' = Append(work, [op |-> op, t |-> t])

(* A call whose second half the session thread runs now or later.          *)
Call(t, here, op, now) ==
    /\ Up /\ t \in torrents /\ ~tor[t].deleting
    /\ IF AppThread
       THEN Room /\ tor' = [tor EXCEPT ![t] = here] /\ Post(op, t)
       ELSE tor' = [tor EXCEPT ![t] = now] /\ UNCHANGED work
    /\ UNCHANGED <<torrents, queue, toLoad, sessions>>

(* tr_torrentStart and tr_torrentStartNow.  The RPC methods call them only *)
(* for a torrent that does not run.                                        *)
UserStart(t, bypass) ==
    \E gone \in Gone :
      LET ts == Intend(tor, t)
      IN  IF AppThread /\ ~Starts(ts, t, bypass, gone)
          THEN /\ Up /\ t \in torrents /\ ~tor[t].deleting
               /\ tor' = [tor EXCEPT ![t] = StartHere(ts, t, bypass, gone)]
               /\ UNCHANGED <<torrents, queue, work, toLoad, sessions>>
          ELSE /\ AppThread \/ ~tor[t].running
               /\ Call(t, StartHere(ts, t, bypass, gone), "start", StartNow(ts, t, bypass, gone))

(* The RPC method only asks the torrent to stop soon.                      *)
UserStop(t) ==
    /\ AppThread \/ Activity(tor[t]) # "stopped"
    /\ Call(t, [tor[t] EXCEPT !.intent = FALSE, !.dirty = TRUE], "stop",
               [tor[t] EXCEPT !.stopping = TRUE])

UserVerify(t) ==
    \E gone \in Gone : Call(t, tor[t], "verify", VerifyNow(tor[t], gone))

(* set_location with move_from_old_path: the verification of the torrent   *)
(* is cancelled and nothing asks for another.                              *)
Relocate(r, ok) ==
    LET s == [r EXCEPT !.verify = "none"]
    IN  IF ok THEN [s EXCEPT !.dirty = TRUE] ELSE Stop([s EXCEPT !.error = TRUE])

UserRelocate(t) ==
    /\ Relocations
    /\ \E ok \in BOOLEAN : Call(t, tor[t], IF ok THEN "move" ELSE "movefail", Relocate(tor[t], ok))

(* Wanting or not wanting some of a torrent's files changes what complete  *)
(* means; recheck_completeness runs on the caller's thread.                *)
UserSetFilesWanted(t, has) ==
    /\ Up /\ t \in torrents /\ ~tor[t].deleting /\ tor[t].meta
    /\ {tor[t].has, has} = {"some", "all"}
    /\ \E gone \in Gone :
         LET r == [tor[t] EXCEPT !.has = has, !.dirty = TRUE]
         IN  IF AppThread /\ VerifiesFirst(r)
             THEN Room /\ tor' = [tor EXCEPT ![t] = [r EXCEPT !.check = FALSE]] /\ Post("verify", t)
             ELSE tor' = [tor EXCEPT ![t] = Recheck(r, gone)] /\ UNCHANGED work
    /\ UNCHANGED <<torrents, queue, toLoad, sessions>>

(* The torrents a user selects move to the top, up, down or to the bottom, *)
(* or one of them to a position.                                           *)
UserMove(q) ==
    /\ Up /\ queue' = q
    /\ UNCHANGED <<torrents, tor, work, toLoad, sessions>>

UserRemove(t) ==
    /\ Up /\ t \in torrents /\ ~tor[t].deleting
    /\ IF AppThread
       THEN /\ Room /\ Post("remove", t)
            /\ tor' = [tor EXCEPT ![t].deleting = TRUE]
            /\ UNCHANGED <<torrents, queue>>
       ELSE /\ tor' = [tor EXCEPT ![t] = NoTorrent]
            /\ torrents' = torrents \ {t}
            /\ queue' = QueueRemove(queue, t)
            /\ UNCHANGED work
    /\ UNCHANGED <<toLoad, sessions>>

(* tr_torrentNew for a torrent without a .torrent file: added by magnet    *)
(* link, with all its files there (is_new_torrent_a_seed) or with files to *)
(* look for.  A torrent's id is never used again: t comes back only when   *)
(* no work is left that names it.                                          *)
Kinds == {"seed", "files"} \cup IF Magnets THEN {"magnet"} ELSE {}

Added(kind, intent) ==
    LET r == [Fresh(TRUE, kind # "magnet", NoResume) EXCEPT !.intent = intent]
    IN  IF kind = "seed" THEN Recheck([r EXCEPT !.has = "all"], FALSE) ELSE r

UserAdd(t, intent, kind) ==
    LET ts     == [tor EXCEPT ![t] = Added(kind, intent)]
        magnet == kind = "magnet"
    IN  /\ Up /\ t \notin torrents /\ ~tor[t].stored
        /\ \A i \in DOMAIN work : work[i].t # t
        /\ torrents' = torrents \cup {t}
        /\ queue' = QueueAdd(queue, t)
        /\ \/ /\ kind = "files"
              /\ IF AppThread THEN tor' = ts /\ Room /\ Post("verify", t)
                 ELSE tor' = [ts EXCEPT ![t] = VerifyNow(@, FALSE)] /\ UNCHANGED work
           \/ /\ kind # "files" /\ ~intent
              /\ tor' = ts /\ UNCHANGED work
           \/ /\ kind # "files" /\ intent
              /\ IF AppThread /\ Starts(ts, t, magnet, FALSE)
                 THEN /\ Room /\ Post("start", t)
                      /\ tor' = [ts EXCEPT ![t] = StartHere(ts, t, magnet, FALSE)]
                 ELSE tor' = [ts EXCEPT ![t] = StartNow(ts, t, magnet, FALSE)] /\ UNCHANGED work
        /\ UNCHANGED <<toLoad, sessions>>

-----------------------------------------------------------------------------
(* The session thread takes the first item of its list.                    *)
RunWork ==
    /\ Up /\ work # <<>>
    /\ work' = Tail(work)
    /\ LET op   == Head(work).op
           t    == Head(work).t
           live == t \in torrents /\ ~tor[t].deleting
       IN  \E gone \in Gone :
           /\ tor' = [tor EXCEPT ![t] =
                CASE op = "start"  -> StartInSessionThread(@, gone)
                  [] op = "stop"   -> StopNow(@)
                  [] op = "remove" -> NoTorrent
                  [] op = "verify" /\ live -> VerifyNow(@, gone)
                  [] op = "move"   -> Relocate(@, TRUE)
                  [] op = "movefail" -> Relocate(@, FALSE)
                  [] op = "verified" /\ live -> Verified(tor, t)
                  [] OTHER -> @]
           /\ torrents' = IF op = "remove" THEN torrents \ {t} ELSE torrents
           /\ queue' = IF op = "remove" THEN QueueRemove(queue, t) ELSE queue
    /\ UNCHANGED <<toLoad, sessions>>

(* mutant: one too many.                                                   *)
FirstAndOne(ts, dir, n) ==
    LET waiting == {t \in torrents : IsQueued(ts[t], dir)}
    IN  {t \in waiting : Cardinality({u \in waiting : queue.posOf[u] < queue.posOf[t]}) <= n}

(* on_queue_timer: for seeds, then for downloads, the first of the queued  *)
(* torrents start, as many as there are free slots.                        *)
First(ts, dir, n) ==
    LET waiting == {t \in torrents : IsQueued(ts[t], dir)}
    IN  {t \in waiting : Cardinality({u \in waiting : queue.posOf[u] < queue.posOf[t]}) < n}

(* mutant: what waits is started as if by a user, and goes on waiting.     *)
PulseQueues(ts, dir, gone) ==
    LET chosen == First(ts, dir, FreeSlots(ts, dir))
    IN  [t \in Torrents |-> IF t \in chosen THEN StartNow(Intend(ts, t), t, FALSE, t \in gone)
                            ELSE ts[t]]

Pulse(ts, dir, gone) ==
    LET chosen == First(ts, dir, FreeSlots(ts, dir))
    IN  IF ~QueueEnabled(dir) THEN ts
        ELSE [t \in Torrents |-> IF t \in chosen THEN StartNow(Intend(ts, t), t, TRUE, t \in gone)
                                 ELSE ts[t]]

GoneSets == IF Unplugged THEN SUBSET torrents ELSE {{}}

QueueTimer ==
    /\ Up
    /\ \E gone \in GoneSets : tor' = Pulse(Pulse(tor, "up", gone), "down", gone)
    /\ UNCHANGED <<torrents, queue, work, toLoad, sessions>>

(* mutant: only a seed stops.                                              *)
IdleSeeds(r, gone) ==
    LET s == IF r.check THEN Recheck(r, gone) ELSE r
    IN  IF s.stopping /\ s.done THEN Stop(s) ELSE s

(* do_idle_work(): a recheck that a completed piece asked for, a stop that *)
(* was to happen soon.                                                     *)
Idle(r, gone) ==
    LET s == IF r.check THEN Recheck(r, gone) ELSE r
    IN  IF s.stopping THEN Stop(s) ELSE s

IdleWork ==
    /\ Up
    /\ \E gone \in GoneSets :
         tor' = [t \in Torrents |-> IF t \in torrents THEN Idle(tor[t], t \in gone) ELSE tor[t]]
    /\ UNCHANGED <<torrents, queue, work, toLoad, sessions>>

(* store_filename: <<t, TRUE>> is t's .torrent, <<t, FALSE>> its .magnet.   *)
StoreFilename(ts) == [t \in Torrents |-> <<t, ts[t].meta>>]

SaveTimer ==
    /\ Up /\ MaxSessions > 0
    /\ tor' = [t \in Torrents |-> IF t \in torrents THEN Save(tor[t]) ELSE tor[t]]
    /\ queue' = ToFile(queue, StoreFilename(tor))
    /\ UNCHANGED <<torrents, work, toLoad, sessions>>

Change(t, r) ==
    /\ Up /\ t \in torrents
    /\ tor' = [tor EXCEPT ![t] = r]
    /\ UNCHANGED <<torrents, queue, work, toLoad, sessions>>

(* stop_if_seed_limit_reached(), when a limit is reached.                  *)
SeedLimit(t) ==
    /\ tor[t].running /\ ~tor[t].stopping /\ tor[t].done
    /\ Change(t, [tor[t] EXCEPT !.stopping = TRUE])

(* A running download gets blocks, the last of which ask for a recheck, or *)
(* cannot write them.                                                      *)
Receive(t, has) ==
    /\ tor[t].running /\ tor[t].meta /\ ~tor[t].done /\ tor[t].has # "all"
    /\ has \in {"some", "all"}
    /\ Change(t, [tor[t] EXCEPT !.has = has, !.dirty = TRUE, !.check = TRUE, !.idle = FALSE])

(* Time passes without any data, for queue_stalled_minutes; or some is     *)
(* received or sent after all.                                             *)
GoesIdle(t) ==
    /\ QueueStalled /\ tor[t].running /\ ~tor[t].idle
    /\ Change(t, [tor[t] EXCEPT !.idle = TRUE])

Transfer(t) ==
    /\ tor[t].running /\ tor[t].meta /\ tor[t].idle
    /\ Change(t, [tor[t] EXCEPT !.idle = FALSE])

WriteError(t) ==
    /\ tor[t].running /\ tor[t].meta /\ ~tor[t].done /\ ~tor[t].error
    /\ Change(t, Stop([tor[t] EXCEPT !.error = TRUE]))

(* set_metainfo(): a running magnet has got its metainfo from a peer.      *)
GetMetainfo(t, seed) ==
    /\ tor[t].running /\ ~tor[t].meta
    /\ LET r == [tor[t] EXCEPT !.meta = TRUE, !.dirty = TRUE]
           s == Recheck([r EXCEPT !.has = "all"], FALSE)
       IN  Change(t, IF ~seed THEN VerifyNow(r, FALSE)
                     ELSE IF s.intent THEN StartNow([tor EXCEPT ![t] = s], t, FALSE, FALSE)
                     ELSE [s EXCEPT !.stopping = @ \/ s.running])

-----------------------------------------------------------------------------
(* The thread that verifies.                                               *)
VerifyBegin(t) ==
    /\ tor[t].verify = "queued"
    /\ \A u \in torrents : tor[u].verify # "active"
    /\ Change(t, [tor[t] EXCEPT !.verify = "active"])

VerifyPiece(t, has) ==
    /\ tor[t].verify = "active" /\ has # tor[t].has
    /\ Change(t, [tor[t] EXCEPT !.has = has, !.dirty = TRUE])

VerifyDone(t) ==
    /\ Up /\ Room
    /\ t \in torrents /\ tor[t].verify = "active"
    /\ tor' = [tor EXCEPT ![t].verify = "none"]
    /\ IF tor[t].deleting THEN UNCHANGED work ELSE Post("verified", t)
    /\ UNCHANGED <<torrents, queue, toLoad, sessions>>

-----------------------------------------------------------------------------
(* mutant: only what was marked is saved.                                  *)
ShutdownMarked(r) == Save(StopNow(r))

(* The session ends: every torrent is stopped and saved, the order of the  *)
(* queue is written; or the program dies.  Either way the next session     *)
(* loads the stored torrents, first those whose file queue.json names.     *)
Shutdown(r) == Save(StopNow([r EXCEPT !.dirty = TRUE]))

Reopen(ts, file) ==
    /\ tor' = [t \in Torrents |-> IF ts[t].stored
                                  THEN Fresh(TRUE, ts[t].meta, ts[t].resume)
                                  ELSE NoTorrent]
    /\ toLoad' = LoadOrder(file, {StoreFilename(ts)[t] : t \in {u \in Torrents : ts[u].stored}})
    /\ queue' = EmptyQueue(Torrents, file)
    /\ torrents' = {}
    /\ work' = <<>>
    /\ sessions' = sessions + 1

Closed(ts) == [t \in Torrents |-> IF t \in torrents THEN Shutdown(ts[t]) ELSE ts[t]]

Close ==
    /\ Up /\ sessions < MaxSessions
    /\ work = <<>>
    /\ Reopen(Closed(tor), ToFile(queue, StoreFilename(tor)).file)

Crash ==
    /\ sessions < MaxSessions
    /\ Reopen(tor, queue.file)

(* init() of a torrent that has a .torrent file: its resume file says      *)
(* whether it is to start.                                                 *)
LoadTorrent ==
    /\ ~Up
    /\ toLoad' = Tail(toLoad)
    /\ LET t  == Head(toLoad)
           in == IF tor[t].resume.exists THEN ~tor[t].resume.paused ELSE TRUE
           ts == [tor EXCEPT ![t].intent = in]
       IN  /\ torrents' = torrents \cup {t}
           /\ queue' = QueueAdd(queue, t)
           /\ \E gone \in Gone :
                tor' = [ts EXCEPT ![t] =
                          IF in THEN StartNow(ts, t, ~ts[t].meta, gone)
                          ELSE [ts[t] EXCEPT !.error = Disappeared(ts[t], gone)]]
    /\ UNCHANGED <<work, sessions>>

-----------------------------------------------------------------------------
Init ==
    /\ torrents = {}
    /\ tor = [t \in Torrents |-> NoTorrent]
    /\ queue = EmptyQueue(Torrents, <<>>)
    /\ work = <<>>
    /\ toLoad = <<>>
    /\ sessions = 0

UserNext ==
    \/ \E t \in Torrents : \/ \E bypass \in BOOLEAN : UserStart(t, bypass)
                          \/ UserStop(t) \/ UserVerify(t) \/ UserRelocate(t) \/ UserRemove(t)
                          \/ \E has \in Progress : UserSetFilesWanted(t, has)
                          \/ \E intent \in BOOLEAN, kind \in Kinds : UserAdd(t, intent, kind)
    \/ \E sel \in SUBSET torrents \ {{}} :
          \E q \in {MoveTop(queue, sel), MoveUp(queue, sel),
                    MoveDown(queue, sel), MoveBottom(queue, sel)} : UserMove(q)
    \/ \E t \in torrents : \E pos \in 0 .. Len(queue.order) : UserMove(QueueSetPos(queue, t, pos))

TorrentNext(t) ==
    \/ SeedLimit(t) \/ WriteError(t)
    \/ \E has \in Progress : Receive(t, has)
    \/ GoesIdle(t) \/ Transfer(t)
    \/ \E seed \in BOOLEAN : GetMetainfo(t, seed)
    \/ VerifyBegin(t) \/ VerifyDone(t)
    \/ \E has \in Progress : VerifyPiece(t, has)

SessionNext ==
    RunWork \/ QueueTimer \/ IdleWork \/ SaveTimer \/ LoadTorrent \/ Close \/ Crash

Next == UserNext \/ SessionNext \/ \E t \in Torrents : TorrentNext(t)

(* The timers are repeating timers of the session thread, which also takes *)
(* what is on its list and loads what it has to load; the thread that      *)
(* verifies comes to the end of a torrent.  Nobody has to call anything.   *)
Fairness ==
    /\ WF_vars(RunWork) /\ WF_vars(QueueTimer) /\ WF_vars(IdleWork) /\ WF_vars(LoadTorrent)
    /\ \A t \in Torrents : WF_vars(VerifyBegin(t)) /\ WF_vars(VerifyDone(t))

Spec == Init /\ [][Next]_vars /\ Fairness

-----------------------------------------------------------------------------
(* Type invariant.                                                         *)
TorrentState ==
    [running : BOOLEAN, stopping : BOOLEAN, queued : BOOLEAN, intent : BOOLEAN,
     deleting : BOOLEAN, verify : {"none", "queued", "active"}, meta : BOOLEAN,
     has : Progress, done : BOOLEAN, check : BOOLEAN, error : BOOLEAN, dirty : BOOLEAN,
     idle : BOOLEAN, stored : BOOLEAN, resume : [exists : BOOLEAN, paused : BOOLEAN, has : Progress]]

WorkItem ==
    [op : {"start", "stop", "verify", "remove", "move", "movefail", "verified"}, t : Torrents]

LifeTypeOK ==
    /\ torrents \subseteq Torrents
    /\ tor \in [Torrents -> TorrentState]
    /\ queue.order \in Seq(Torrents) /\ queue.file \in Seq(Torrents \X BOOLEAN)
    /\ queue.posOf \in [Torrents -> NotQueued .. Cardinality(Torrents) - 1]
    /\ queue.dirty \in BOOLEAN
    /\ work \in Seq(WorkItem) /\ Len(work) <= MaxWork
    /\ toLoad \in Seq(Torrents)
    /\ sessions \in 0 .. MaxSessions

(* No torrent runs while its local data is verified: start() waits "until  *)
(* that's done so we'll know what completeness to use/announce", and       *)
(* verifying stops a torrent first.                                        *)
RunningNotVerified ==
    \A t \in Torrents : tor[t].verify # "none" => ~tor[t].running

(* The session's torrents are what its queue holds, and pos_of_ follows    *)
(* queue_ through every removal and rotation.                              *)
QueueHoldsTorrents == Indexed(queue) /\ torrents = ToSet(queue.order)

(* A torrent that is to run, and has no error, runs, waits for a slot, is  *)
(* verified first or has something to come on the session thread's list.   *)
Honoured(t) ==
    t \in torrents /\ tor[t].intent /\ ~tor[t].error =>
        \/ tor[t].running \/ tor[t].queued \/ tor[t].verify # "none"
        \/ \E i \in DOMAIN work : work[i].t = t

(* Nothing but moving the data of a torrent makes the session forget that  *)
(* it has to start it: no stop for a verification, no cancelled            *)
(* verification, no refused start, no restart of the session.              *)
OnlyMovesForgetIntent ==
    [][\A t \in Torrents : Honoured(t) /\ ~Honoured(t)' => UserRelocate(t)]_vars

(* A resume file that is behind without being marked for saving, so that a *)
(* crash would bring back a torrent paused that is to run or the reverse,  *)
(* is that of a torrent that will be saved when its verification is done,  *)
(* or whose start failed.                                                  *)
CleanResumeIsCurrent ==
    \A t \in torrents :
        ~tor[t].dirty /\ tor[t].resume.paused = tor[t].intent =>
            \/ tor[t].error \/ tor[t].verify # "none"
            \/ \E i \in DOMAIN work : work[i].t = t

(* A torrent that starts without being told to skip the queue, and whose   *)
(* completeness is what the queue thought, leaves no more torrents active  *)
(* in its direction, without the stalled ones, than there are slots, if    *)
(* the queue is on (queue_stalled_enabled: such torrents "are not counted  *)
(* against the download_queue_size and seed_queue_size limits").           *)
SlotsRespected ==
    [][\A t \in Torrents :
          /\ ~tor[t].running /\ tor'[t].running /\ tor'[t].meta
          /\ \A u \in Torrents : tor'[u].done = tor[u].done
          /\ QueueTimer \/ ~UserStart(t, TRUE)
          /\ QueueEnabled(Direction(tor'[t]))
          => Cardinality(Active(tor', Direction(tor'[t]))) <= QueueSize[Direction(tor'[t])]]_vars

(* A session that is closed leaves every torrent's resume file as it is in *)
(* memory, and the next one loads every torrent, whatever the file of the  *)
(* queue names.                                                            *)
CloseSavesAll ==
    [][Close => /\ ToSet(toLoad') = torrents
                /\ \A t \in torrents : tor'[t].resume = [exists |-> TRUE, paused |-> ~tor[t].intent,
                                                          has |-> tor[t].has]]_vars

(* What a torrent was stored as when the queue was saved last is not what  *)
(* it is stored as once a magnet has got its metainfo, which does not mark *)
(* the queue for saving.  The next session loads those that are still      *)
(* named in the order of the queue, and the others after them.             *)
CloseKeepsOrder ==
    [][Close => \A i, j \in DOMAIN queue.order :
          i < j /\ StoreFilename(tor)[queue.order[i]] \in ToSet(queue'.file) =>
              \E k, l \in DOMAIN toLoad' :
                  k < l /\ toLoad'[k] = queue.order[i] /\ toLoad'[l] = queue.order[j]]_vars

(* A torrent that was asked to stop soon does stop.                        *)
StopHappens == \A t \in Torrents : tor[t].stopping ~> ~tor[t].running

(* Whenever the queue timer fires, no torrent is left waiting that could   *)
(* have one of the free slots, unless one that waits is also verified, or  *)
(* is no longer as complete as the queue thinks: the timer may choose it,  *)
(* and it takes no slot.                                                   *)
Waiting(ts, t) ==
    Activity(ts[t]) = "wait" /\ FreeSlots(ts, Direction(ts[t])) > 0

TimerFillsSlots ==
    LET after == Pulse(Pulse(tor, "up", {}), "down", {})
    IN  Up /\ (\A t \in torrents : tor[t].queued => tor[t].verify = "none" /\ ~NeedsRecheck(tor[t])) =>
            \A t \in torrents : ~Waiting(after, t)

=============================================================================
