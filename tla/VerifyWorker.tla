---------------------------- MODULE VerifyWorker ----------------------------
(***************************************************************************)
(* Verification of local data (verify.cc): a worker thread, made when      *)
(* there is something to do and ending when there is not, takes torrents   *)
(* off the ordered set todo_, hashes their pieces and reports.  The session *)
(* thread adds and removes torrents (tr_torrentVerify, stop_now, the       *)
(* removal of torrents, the end of the session); to remove the one being   *)
(* verified it raises stop_current_ and waits for the worker to lower it.  *)
(*                                                                         *)
(* What runs under verify_mutex_ is one step, and so is each access of the *)
(* worker to the torrent or to the flag outside of it.  The end of the     *)
(* thread is two: it forgets its id, and then unlocks.                     *)
(***************************************************************************)
EXTENDS Integers, FiniteSets

CONSTANTS Torrents,
          Rank,        \* place of a torrent by total size, then info hash
          Priorities,  \* tr_priority_t
          PieceTotal,  \* pieces in each torrent
          NoTorrent,
          MaxAdds      \* bound on the verifications asked for, for TLC

ASSUME VerifyAssumption ==
    /\ Rank \in [Torrents -> Int]
    /\ \A t, u \in Torrents : Rank[t] = Rank[u] => t = u
    /\ Priorities \subseteq Int
    /\ PieceTotal \in Nat
    /\ NoTorrent \notin Torrents
    /\ MaxAdds \in Nat

VARIABLES todo,         \* the torrents of the nodes in todo_
          priority,     \* Node::priority_
          current,      \* current_node_
          stopCurrent,  \* stop_current_
          threadId,     \* verify_thread_id_.has_value()
          worker,       \* where the worker thread is
          piece,        \* verify_torrent: piece
          aborted,      \* the argument of on_verify_done
          verifyState,  \* tr_torrent::verify_state_
          torrents,     \* the torrents that have not been freed
          deleting,     \* those with is_deleting_
          sess,         \* where the session thread is, in what, for whom
          verifier,     \* tr_session::verifier_ is not null
          completions,  \* completions posted to the session thread, not run
          adds          \* calls of add so far

queueVars   == <<todo, priority, threadId, adds>>
torrentVars == <<torrents, deleting>>
vars == <<queueVars, current, stopCurrent, worker, piece, aborted, verifyState,
          torrentVars, sess, verifier, completions>>

Idle == [pc |-> "idle", op |-> "none", t |-> NoTorrent]

(* verify_mutex_ is held between two steps just when the thread ends.      *)
MutexHeld == worker = "leave"

Init ==
    /\ todo = {}
    /\ priority \in [Torrents -> Priorities]
    /\ current = NoTorrent
    /\ stopCurrent = FALSE
    /\ threadId = FALSE
    /\ worker = "gone"
    /\ piece = 0
    /\ aborted = FALSE
    /\ verifyState = [t \in Torrents |-> "none"]
    /\ torrents = Torrents
    /\ deleting = {}
    /\ sess = Idle
    /\ verifier = TRUE
    /\ completions = [t \in Torrents |-> 0]
    /\ adds = 0

-----------------------------------------------------------------------------
(* The worker thread                                                       *)

(* Node::compare                                                           *)
Before(t, u) == \/ priority[t] > priority[u]
                \/ priority[t] = priority[u] /\ Rank[t] < Rank[u]

(* begin(todo_)                                                            *)
IsFirst(t) == \A u \in todo \ {t} : Before(t, u)

LowerFlagSilently == stopCurrent' = FALSE /\ UNCHANGED sess   \* mutant

(* Answer a remove that waits for the torrent just left.                   *)
LowerFlag ==
    /\ stopCurrent' = FALSE
    /\ sess' = IF stopCurrent /\ sess.pc = "wait" THEN [sess EXCEPT !.pc = "woken"] ELSE sess

EndThreadKeepsId ==   \* mutant
    /\ current' = NoTorrent
    /\ worker' = "leave"
    /\ UNCHANGED <<todo, threadId>>

EndThread ==
    /\ current' = NoTorrent
    /\ threadId' = FALSE
    /\ worker' = "leave"
    /\ UNCHANGED todo

TakeNext(t) ==
    /\ IsFirst(t)
    /\ current' = t
    /\ todo' = todo \ {t}
    /\ worker' = "start"
    /\ UNCHANGED threadId

(* verify_thread_func, under the lock                                      *)
Select ==
    /\ worker = "select"
    /\ LowerFlag
    /\ IF todo = {} THEN EndThread ELSE \E t \in todo : TakeNext(t)
    /\ UNCHANGED <<priority, adds, piece, aborted, verifyState, torrentVars,
                   verifier, completions>>

Leave ==
    /\ worker = "leave"
    /\ worker' = "gone"
    /\ UNCHANGED <<queueVars, current, stopCurrent, piece, aborted, verifyState,
                   torrentVars, sess, verifier, completions>>

(* on_verify_started                                                       *)
Started ==
    /\ worker = "start"
    /\ worker' = "check"
    /\ piece' = 0
    /\ verifyState' = [verifyState EXCEPT ![current] = "active"]
    /\ UNCHANGED <<queueVars, current, stopCurrent, aborted, torrentVars, sess,
                   verifier, completions>>

(* Mutant: one piece too many.                                             *)
CheckPieceTooMany ==
    /\ worker = "check"
    /\ ~stopCurrent /\ piece <= PieceTotal
    /\ piece' = piece + 1
    /\ UNCHANGED <<queueVars, current, stopCurrent, worker, aborted, verifyState,
                   torrentVars, sess, verifier, completions>>

(* One round of the loop of verify_torrent, up to on_piece_checked         *)
CheckPiece ==
    /\ worker = "check"
    /\ ~stopCurrent /\ piece < PieceTotal
    /\ piece' = piece + 1
    /\ UNCHANGED <<queueVars, current, stopCurrent, worker, aborted, verifyState,
                   torrentVars, sess, verifier, completions>>

LeaveLoop ==
    /\ worker = "check"
    /\ stopCurrent \/ piece = PieceTotal
    /\ worker' = "report"
    /\ UNCHANGED <<queueVars, current, stopCurrent, piece, aborted, verifyState,
                   torrentVars, sess, verifier, completions>>

(* Mutant: nobody looks at the flag again.                                 *)
ReportComplete ==
    /\ worker = "report"
    /\ worker' = "post"
    /\ aborted' = FALSE
    /\ verifyState' = [verifyState EXCEPT ![current] = "none"]
    /\ UNCHANGED <<queueVars, current, stopCurrent, piece, torrentVars, sess,
                   verifier, completions>>

(* Mutant: an aborted verification leaves the torrent's state alone.       *)
ReportSkipsAborted ==
    /\ worker = "report"
    /\ worker' = "post"
    /\ aborted' = stopCurrent
    /\ verifyState' = IF stopCurrent THEN verifyState
                      ELSE [verifyState EXCEPT ![current] = "none"]
    /\ UNCHANGED <<queueVars, current, stopCurrent, piece, torrentVars, sess,
                   verifier, completions>>

(* on_verify_done, to which the flag is passed by value                    *)
Report ==
    /\ worker = "report"
    /\ worker' = "post"
    /\ aborted' = stopCurrent
    /\ verifyState' = [verifyState EXCEPT ![current] = "none"]
    /\ UNCHANGED <<queueVars, current, stopCurrent, piece, torrentVars, sess,
                   verifier, completions>>

(* on_verify_done, once the state is set                                   *)
Post ==
    /\ worker = "post"
    /\ worker' = "select"
    /\ completions' = IF aborted \/ current \in deleting THEN completions
                      ELSE [completions EXCEPT ![current] = @ + 1]
    /\ UNCHANGED <<queueVars, current, stopCurrent, piece, aborted, verifyState,
                   torrentVars, sess, verifier>>

-----------------------------------------------------------------------------
(* The session thread                                                      *)

(* Mutant: whatever is verified is stopped.                                *)
RemoveAnyCurrent(op, t) ==
    /\ sess = Idle
    /\ verifier => ~MutexHeld
    /\ IF verifier /\ current # NoTorrent
       THEN /\ stopCurrent' = TRUE
            /\ sess' = [pc |-> "wait", op |-> op, t |-> t]
            /\ UNCHANGED <<todo, verifyState>>
       ELSE /\ sess' = [pc |-> "then", op |-> op, t |-> t]
            /\ todo' = todo \ {t}
            /\ verifyState' = IF verifier /\ t \in todo
                              THEN [verifyState EXCEPT ![t] = "none"] ELSE verifyState
            /\ UNCHANGED stopCurrent
    /\ UNCHANGED <<priority, threadId, adds, current, worker, piece, aborted,
                   torrentVars, verifier, completions>>

(* Mutant: the worker is told to stop, and not waited for.                 *)
RemoveWithoutWait(op, t) ==
    /\ sess = Idle
    /\ verifier => ~MutexHeld
    /\ sess' = [pc |-> "then", op |-> op, t |-> t]
    /\ IF verifier /\ current = t
       THEN stopCurrent' = TRUE /\ UNCHANGED <<todo, verifyState>>
       ELSE /\ todo' = todo \ {t}
            /\ verifyState' = IF verifier /\ t \in todo
                              THEN [verifyState EXCEPT ![t] = "none"] ELSE verifyState
            /\ UNCHANGED stopCurrent
    /\ UNCHANGED <<priority, threadId, adds, current, worker, piece, aborted,
                   torrentVars, verifier, completions>>

(* verify_remove at the head of a handler that goes on with Then.          *)
Remove(op, t) ==
    /\ sess = Idle
    /\ verifier => ~MutexHeld
    /\ IF verifier /\ current = t
       THEN /\ stopCurrent' = TRUE
            /\ sess' = [pc |-> "wait", op |-> op, t |-> t]
            /\ UNCHANGED <<todo, verifyState>>
       ELSE /\ sess' = [pc |-> "then", op |-> op, t |-> t]
            /\ todo' = todo \ {t}
            /\ verifyState' = IF verifier /\ t \in todo
                              THEN [verifyState EXCEPT ![t] = "none"] ELSE verifyState
            /\ UNCHANGED stopCurrent
    /\ UNCHANGED <<priority, threadId, adds, current, worker, piece, aborted,
                   torrentVars, verifier, completions>>

(* tr_torrentVerify, stop_now, and the removal of a torrent: by the user,  *)
(* who has marked it before, or by the session that ends.                  *)
Call(op, t) ==
    /\ t \in torrents
    /\ op = "verify" => verifier /\ t \notin deleting /\ adds < MaxAdds
    /\ op = "stop" => verifier
    /\ op = "free" => t \in deleting \/ ~verifier
    /\ Remove(op, t)

(* The wait in remove ends.                                                *)
RemoveReturns ==
    /\ sess.pc = "woken"
    /\ ~stopCurrent /\ ~MutexHeld
    /\ sess' = [sess EXCEPT !.pc = "then"]
    /\ UNCHANGED <<queueVars, current, stopCurrent, worker, piece, aborted,
                   verifyState, torrentVars, verifier, completions>>

(* add                                                                     *)
ThenAdd(pri) ==
    /\ sess.pc = "then" /\ sess.op = "verify"
    /\ ~MutexHeld
    /\ sess' = Idle
    /\ adds' = adds + 1
    /\ todo' = todo \cup {sess.t}
    /\ priority' = [priority EXCEPT ![sess.t] = pri]
    /\ verifyState' = [verifyState EXCEPT ![sess.t] = "queued"]
    /\ threadId' = TRUE
    /\ worker' = IF threadId THEN worker ELSE "select"
    /\ UNCHANGED <<current, stopCurrent, piece, aborted, torrentVars, verifier,
                   completions>>

ThenStopped ==
    /\ sess.pc = "then" /\ sess.op = "stop"
    /\ sess' = Idle
    /\ UNCHANGED <<queueVars, current, stopCurrent, worker, piece, aborted,
                   verifyState, torrentVars, verifier, completions>>

(* freeTorrent                                                             *)
ThenFree ==
    /\ sess.pc = "then" /\ sess.op = "free"
    /\ sess' = Idle
    /\ torrents' = torrents \ {sess.t}
    /\ UNCHANGED <<queueVars, current, stopCurrent, worker, piece, aborted,
                   verifyState, deleting, verifier, completions>>

(* The completion posted by on_verify_done, which looks the torrent up and *)
(* does nothing when it is gone.                                           *)
RunCompletion(t) ==
    /\ sess = Idle
    /\ completions[t] > 0
    /\ completions' = [completions EXCEPT ![t] = @ - 1]
    /\ UNCHANGED <<queueVars, current, stopCurrent, worker, piece, aborted,
                   verifyState, torrentVars, sess, verifier>>

(* ~tr_verify_worker: the torrents that wait are told nothing.             *)
Destroy ==
    /\ sess = Idle /\ verifier
    /\ ~MutexHeld
    /\ stopCurrent' = TRUE
    /\ todo' = {}
    /\ sess' = [Idle EXCEPT !.pc = "poll"]
    /\ UNCHANGED <<priority, threadId, adds, current, worker, piece, aborted,
                   verifyState, torrentVars, verifier, completions>>

DestroyedAtOnce ==   \* mutant: the thread is not waited for
    /\ sess.pc = "poll"
    /\ sess' = Idle
    /\ verifier' = FALSE
    /\ UNCHANGED <<queueVars, current, stopCurrent, worker, piece, aborted,
                   verifyState, torrentVars, completions>>

(* It polls verify_thread_id_, without the lock.                           *)
Destroyed ==
    /\ sess.pc = "poll"
    /\ ~threadId
    /\ sess' = Idle
    /\ verifier' = FALSE
    /\ UNCHANGED <<queueVars, current, stopCurrent, worker, piece, aborted,
                   verifyState, torrentVars, completions>>

-----------------------------------------------------------------------------
(* A user's thread in tr_torrentRemove                                     *)
MarkDeleting(t) ==
    /\ t \in torrents \ deleting
    /\ deleting' = deleting \cup {t}
    /\ UNCHANGED <<queueVars, current, stopCurrent, worker, piece, aborted,
                   verifyState, torrents, sess, verifier, completions>>

(* The session is closed, and everything is over.                          *)
Ended ==
    /\ ~verifier /\ torrents = {} /\ sess = Idle /\ worker = "gone"
    /\ UNCHANGED vars

WorkerStep == \/ Select \/ Leave \/ Started \/ CheckPiece \/ LeaveLoop
              \/ Report \/ Post

(* What the session thread goes on with once it has begun.                 *)
SessionGoesOn ==
    \/ RemoveReturns
    \/ \E pri \in Priorities : ThenAdd(pri)
    \/ ThenStopped \/ ThenFree \/ Destroyed

Next ==
    \/ WorkerStep
    \/ SessionGoesOn
    \/ \E op \in {"verify", "stop", "free"}, t \in Torrents : Call(op, t)
    \/ \E t \in Torrents : RunCompletion(t) \/ MarkDeleting(t)
    \/ Destroy
    \/ Ended

(* Both threads are scheduled by the operating system; the lock is held    *)
(* for a bounded time only, so that nobody starves for it.  Nobody has to  *)
(* call anything.                                                          *)
Spec == Init /\ [][Next]_vars /\ WF_vars(WorkerStep) /\ WF_vars(SessionGoesOn)

-----------------------------------------------------------------------------
TypeOK ==
    /\ todo \subseteq Torrents
    /\ priority \in [Torrents -> Priorities]
    /\ current \in Torrents \cup {NoTorrent}
    /\ stopCurrent \in BOOLEAN /\ threadId \in BOOLEAN /\ aborted \in BOOLEAN
    /\ worker \in {"gone", "select", "start", "check", "report", "post", "leave"}
    /\ piece \in 0 .. PieceTotal
    /\ verifyState \in [Torrents -> {"none", "queued", "active"}]
    /\ torrents \subseteq Torrents /\ deleting \subseteq Torrents
    /\ sess \in [pc : {"idle", "wait", "woken", "then", "poll"},
                 op : {"none", "verify", "stop", "free"},
                 t : Torrents \cup {NoTorrent}]
    /\ verifier \in BOOLEAN
    /\ completions \in [Torrents -> Nat]
    /\ adds \in 0 .. MaxAdds

(* The worker never has in hand, and will never take, a torrent that was   *)
(* freed; what it does last, when nobody waits for it any more, is to      *)
(* release the lock.                                                       *)
WorkerUsesLiveTorrents ==
    /\ todo \subseteq torrents
    /\ current \in torrents \cup {NoTorrent}
    /\ ~verifier => worker \in {"leave", "gone"}

(* When remove has returned, the torrent is neither queued nor verified,   *)
(* and stays so while its caller goes on: tr_torrentVerify can add it      *)
(* again, and stop_now can save its progress.                              *)
RemovedIsIdle == verifier /\ sess.pc = "then" =>
    sess.t \notin todo /\ sess.t # current /\ verifyState[sess.t] = "none"

(* A raised flag is meant for the torrent that is being verified: no other *)
(* is aborted in its place.                                                *)
StopReachesItsTorrent == stopCurrent /\ verifier =>
    sess.pc = "poll" \/ (sess.pc = "wait" /\ sess.t = current)

(* A verification that was aborted before its last piece is never reported *)
(* as complete: the completion would make a half-checked torrent start.    *)
CompleteMeansChecked == worker = "post" /\ ~aborted => piece = PieceTotal

(* remove does not block the session thread for good, nor does the end of  *)
(* the session.                                                            *)
SessionThreadReturns == (sess.pc # "idle") ~> (sess.pc = "idle")

(* Whoever is queued is verified or removed, unless the session ends.  The *)
(* number of calls is bounded, so that no torrent overtakes it for ever.   *)
QueuedEnds == \A t \in Torrents :
    (t \in todo) ~> (t \notin todo /\ (verifyState[t] = "none" \/ ~verifier \/ sess.pc = "poll"))

(* It implements VerifyService, where a torrent is active until the worker *)
(* has used it for the last time.                                          *)
Service == INSTANCE VerifyService WITH
    state <- [t \in Torrents |-> IF worker = "post" /\ t = current THEN "active"
                                 ELSE verifyState[t]],
    open <- verifier
ImplementsService == Service!Spec

=============================================================================
