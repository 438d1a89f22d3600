------------------------ MODULE VerifyWorkerProofs ------------------------
(***************************************************************************)
(* Proofs about VerifyWorker, for any number of torrents, pieces and calls. *)
(*                                                                         *)
(* The five invariants of the run are not inductive one by one: that the   *)
(* flag is only ever raised for the current torrent needs that the session *)
(* thread stays in remove until the worker is back at the lock, and that   *)
(* freed torrents are not used needs that a removed one cannot be taken    *)
(* from the list again.  Inv says where the two threads can be relative to *)
(* each other.                                                             *)
(***************************************************************************)
EXTENDS VerifyWorker, TLAPS

Busy == worker \in {"start", "check", "report", "post"}

(* The worker: a thread that lives has an id, has one torrent in hand that *)
(* is not on the list, and one that ends leaves nothing on it.             *)
WorkerInv ==
    /\ threadId <=> worker \notin {"gone", "leave"}
    /\ ~threadId => todo = {} /\ current = NoTorrent
    /\ Busy => current # NoTorrent
    /\ current \notin todo
    /\ todo \cup ({current} \ {NoTorrent}) \subseteq torrents
    /\ worker = "post" /\ ~aborted => piece = PieceTotal
    /\ worker = "report" /\ ~stopCurrent => piece = PieceTotal

(* The torrents' states: active is what the worker has in hand, queued     *)
(* what is on the list or about to be started.                             *)
StateInv ==
    /\ \A t \in Torrents : verifyState[t] = "active" <=>
                              t = current /\ worker \in {"check", "report"}
    /\ \A t \in todo : verifyState[t] = "queued"
    /\ worker = "start" => verifyState[current] = "queued"
    /\ worker = "post" => verifyState[current] = "none"
    /\ verifier /\ sess.pc # "poll" =>
          \A t \in Torrents : verifyState[t] = "queued" =>
                                t \in todo \/ (t = current /\ worker = "start")

(* The session thread.                                                     *)
SessionInv ==
    /\ sess.pc \in {"wait", "woken", "then"} =>
          /\ sess.t \in torrents
          /\ sess.op \in {"verify", "stop", "free"}
          /\ sess.t \notin todo
    /\ sess.pc = "wait" => verifier /\ stopCurrent /\ sess.t = current
    /\ sess.pc \in {"woken", "then"} /\ verifier =>
          ~stopCurrent /\ sess.t # current /\ verifyState[sess.t] = "none"
    /\ sess.pc = "woken" => verifier
    /\ sess.pc = "poll" => verifier /\ todo = {}
    /\ sess.pc = "idle" => sess = Idle
    /\ sess.pc = "idle" /\ verifier => ~stopCurrent
    /\ ~verifier => worker \in {"leave", "gone"}
    /\ ~verifier /\ sess.pc = "then" => sess.op = "free"
    /\ sess.op = "verify" => adds < MaxAdds

Inv == TypeOK /\ WorkerInv /\ StateInv /\ SessionInv

-----------------------------------------------------------------------------
(* The constants' assumptions that the proofs use.                         *)
USE VerifyAssumption DEF Idle, MutexHeld, queueVars, torrentVars

(* The invariant holds at the start: nothing is queued, no thread exists.  *)
LEMMA InitInv == Init => Inv
<1> SUFFICES ASSUME Init PROVE Inv
  OBVIOUS
<1>1. TypeOK
  <2>1. sess \in [pc : {"idle", "wait", "woken", "then", "poll"},
                 op : {"none", "verify", "stop", "free"},
                 t : Torrents \cup {NoTorrent}]
    BY DEF Init
  <2>2. piece \in 0 .. PieceTotal /\ adds \in 0 .. MaxAdds
    BY DEF Init
  <2> QED
    BY <2>1, <2>2 DEF Init, TypeOK
<1>2. WorkerInv
  BY DEF Init, WorkerInv, Busy
<1>3. StateInv
  BY DEF Init, StateInv
<1>4. SessionInv
  BY DEF Init, SessionInv
<1> QED
  BY <1>1, <1>2, <1>3, <1>4 DEF Inv

(* Every step of either thread, and of a user who marks a torrent, keeps   *)
(* it.                                                                     *)
LEMMA NextInv == Inv /\ [Next]_vars => Inv'
<1> SUFFICES ASSUME TypeOK, WorkerInv, StateInv, SessionInv, [Next]_vars
             PROVE  TypeOK' /\ WorkerInv' /\ StateInv' /\ SessionInv'
  BY DEF Inv
<1>1. CASE Select
  <2>1. TypeOK'
    BY <1>1 DEF TypeOK, Select, LowerFlag, EndThread, TakeNext
  <2>2. WorkerInv'
    <3>1. CASE todo = {}
      BY <1>1, <3>1 DEF TypeOK, WorkerInv, Busy, Select, EndThread
    <3>2. CASE todo # {}
      <4>1. PICK t \in todo : TakeNext(t)
        BY <1>1, <3>2 DEF Select
      <4> QED
        BY <1>1, <4>1 DEF TypeOK, WorkerInv, Busy, Select, TakeNext
    <3> QED
      BY <3>1, <3>2
  <2>3. StateInv'
    BY <1>1 DEF StateInv, Select, LowerFlag, EndThread, TakeNext
  <2>4. SessionInv'
    BY <1>1 DEF TypeOK, StateInv, SessionInv, Select, LowerFlag, EndThread, TakeNext
  <2> QED
    BY <2>1, <2>2, <2>3, <2>4
<1>2. CASE Leave
  <2>1. TypeOK'
    BY <1>2 DEF TypeOK, Leave
  <2>2. WorkerInv'
    BY <1>2 DEF WorkerInv, Busy, Leave
  <2>3. StateInv'
    BY <1>2 DEF StateInv, Leave
  <2>4. SessionInv'
    BY <1>2 DEF SessionInv, Leave
  <2> QED
    BY <2>1, <2>2, <2>3, <2>4
<1>3. CASE Started
  <2>1. TypeOK'
    BY <1>3 DEF TypeOK, WorkerInv, Busy, Started
  <2>2. WorkerInv'
    BY <1>3 DEF WorkerInv, Busy, Started
  <2>3. StateInv'
    BY <1>3 DEF TypeOK, WorkerInv, Busy, StateInv, Started
  <2>4. SessionInv'
    BY <1>3 DEF SessionInv, Started
  <2> QED
    BY <2>1, <2>2, <2>3, <2>4
<1>4. CASE CheckPiece
  <2>1. TypeOK'
    BY <1>4 DEF TypeOK, CheckPiece
  <2>2. WorkerInv'
    BY <1>4 DEF WorkerInv, Busy, CheckPiece
  <2>3. StateInv'
    BY <1>4 DEF StateInv, CheckPiece
  <2>4. SessionInv'
    BY <1>4 DEF SessionInv, CheckPiece
  <2> QED
    BY <2>1, <2>2, <2>3, <2>4
<1>5. CASE LeaveLoop
  <2>1. TypeOK'
    BY <1>5 DEF TypeOK, LeaveLoop
  <2>2. WorkerInv'
    BY <1>5 DEF WorkerInv, Busy, LeaveLoop
  <2>3. StateInv'
    BY <1>5 DEF StateInv, LeaveLoop
  <2>4. SessionInv'
    BY <1>5 DEF SessionInv, LeaveLoop
  <2> QED
    BY <2>1, <2>2, <2>3, <2>4
<1>6. CASE Report
  <2>1. TypeOK'
    BY <1>6 DEF TypeOK, Report
  <2>2. WorkerInv'
    BY <1>6 DEF WorkerInv, Busy, Report
  <2>3. StateInv'
    BY <1>6 DEF TypeOK, WorkerInv, Busy, StateInv, Report
  <2>4. SessionInv'
    BY <1>6 DEF SessionInv, Report
  <2> QED
    BY <2>1, <2>2, <2>3, <2>4
<1>7. CASE Post
  <2>1. TypeOK'
    BY <1>7 DEF TypeOK, WorkerInv, Busy, Post
  <2>2. WorkerInv'
    BY <1>7 DEF WorkerInv, Busy, Post
  <2>3. StateInv'
    BY <1>7 DEF StateInv, Post
  <2>4. SessionInv'
    BY <1>7 DEF SessionInv, Post
  <2> QED
    BY <2>1, <2>2, <2>3, <2>4
<1>8. CASE RemoveReturns
  <2>1. TypeOK'
    BY <1>8 DEF TypeOK, RemoveReturns
  <2>2. WorkerInv'
    BY <1>8 DEF WorkerInv, Busy, RemoveReturns
  <2>3. StateInv'
    BY <1>8 DEF StateInv, RemoveReturns
  <2>4. SessionInv'
    BY <1>8 DEF SessionInv, RemoveReturns
  <2> QED
    BY <2>1, <2>2, <2>3, <2>4
<1>9. ASSUME NEW pri \in Priorities, ThenAdd(pri)
      PROVE  TypeOK' /\ WorkerInv' /\ StateInv' /\ SessionInv'
  <2>1. TypeOK'
    BY <1>9 DEF TypeOK, SessionInv, ThenAdd
  <2>2. WorkerInv'
    BY <1>9 DEF WorkerInv, Busy, SessionInv, ThenAdd
  <2>3. StateInv'
    BY <1>9 DEF TypeOK, WorkerInv, Busy, StateInv, SessionInv, ThenAdd
  <2>4. SessionInv'
    BY <1>9 DEF SessionInv, ThenAdd
  <2> QED
    BY <2>1, <2>2, <2>3, <2>4
<1>10. CASE ThenStopped
  <2>1. TypeOK'
    BY <1>10 DEF TypeOK, ThenStopped
  <2>2. WorkerInv'
    BY <1>10 DEF WorkerInv, Busy, ThenStopped
  <2>3. StateInv'
    BY <1>10 DEF StateInv, ThenStopped
  <2>4. SessionInv'
    BY <1>10 DEF SessionInv, ThenStopped
  <2> QED
    BY <2>1, <2>2, <2>3, <2>4
<1>11. CASE ThenFree
  <2>1. TypeOK'
    BY <1>11 DEF TypeOK, ThenFree
  <2>2. WorkerInv'
    BY <1>11 DEF WorkerInv, Busy, SessionInv, ThenFree
  <2>3. StateInv'
    BY <1>11 DEF StateInv, ThenFree
  <2>4. SessionInv'
    BY <1>11 DEF SessionInv, ThenFree
  <2> QED
    BY <2>1, <2>2, <2>3, <2>4
<1>12. CASE Destroyed
  <2>1. TypeOK'
    BY <1>12 DEF TypeOK, Destroyed
  <2>2. WorkerInv'
    BY <1>12 DEF WorkerInv, Busy, Destroyed
  <2>3. StateInv'
    BY <1>12 DEF StateInv, Destroyed
  <2>4. SessionInv'
    BY <1>12 DEF WorkerInv, Busy, SessionInv, Destroyed
  <2> QED
    BY <2>1, <2>2, <2>3, <2>4
<1>13. ASSUME NEW op \in {"verify", "stop", "free"}, NEW t \in Torrents, Call(op, t)
      PROVE  TypeOK' /\ WorkerInv' /\ StateInv' /\ SessionInv'
  <2>1. TypeOK'
    <3>1. CASE verifier /\ current = t
      BY <1>13, <3>1 DEF TypeOK, Call, Remove
    <3>2. CASE ~(verifier /\ current = t)
      BY <1>13, <3>2 DEF TypeOK, Call, Remove
    <3> QED
      BY <3>1, <3>2
  <2>2. WorkerInv'
    BY <1>13 DEF WorkerInv, Busy, Call, Remove
  <2>3. StateInv'
    BY <1>13 DEF TypeOK, WorkerInv, Busy, StateInv, Call, Remove
  <2>4. SessionInv'
    <3>1. CASE verifier /\ current = t
      BY <1>13, <3>1 DEF TypeOK, WorkerInv, SessionInv, Call, Remove
    <3>2. CASE ~(verifier /\ current = t)
      BY <1>13, <3>2 DEF TypeOK, WorkerInv, Busy, StateInv, SessionInv, Call, Remove
    <3> QED
      BY <3>1, <3>2
  <2> QED
    BY <2>1, <2>2, <2>3, <2>4
<1>14. ASSUME NEW t \in Torrents, RunCompletion(t)
      PROVE  TypeOK' /\ WorkerInv' /\ StateInv' /\ SessionInv'
  <2>1. TypeOK'
    BY <1>14 DEF TypeOK, RunCompletion
  <2>2. WorkerInv'
    BY <1>14 DEF WorkerInv, Busy, RunCompletion
  <2>3. StateInv'
    BY <1>14 DEF StateInv, RunCompletion
  <2>4. SessionInv'
    BY <1>14 DEF SessionInv, RunCompletion
  <2> QED
    BY <2>1, <2>2, <2>3, <2>4
<1>15. ASSUME NEW t \in Torrents, MarkDeleting(t)
      PROVE  TypeOK' /\ WorkerInv' /\ StateInv' /\ SessionInv'
  <2>1. TypeOK'
    BY <1>15 DEF TypeOK, MarkDeleting
  <2>2. WorkerInv'
    BY <1>15 DEF WorkerInv, Busy, MarkDeleting
  <2>3. StateInv'
    BY <1>15 DEF StateInv, MarkDeleting
  <2>4. SessionInv'
    BY <1>15 DEF SessionInv, MarkDeleting
  <2> QED
    BY <2>1, <2>2, <2>3, <2>4
<1>16. CASE Destroy
  <2>1. TypeOK'
    BY <1>16 DEF TypeOK, Destroy
  <2>2. WorkerInv'
    BY <1>16 DEF WorkerInv, Busy, Destroy
  <2>3. StateInv'
    BY <1>16 DEF StateInv, Destroy
  <2>4. SessionInv'
    BY <1>16 DEF SessionInv, Destroy
  <2> QED
    BY <2>1, <2>2, <2>3, <2>4
<1>17. CASE UNCHANGED vars
  BY <1>17 DEF vars, TypeOK, WorkerInv, Busy, StateInv, SessionInv
<1> QED
  BY <1>1, <1>2, <1>3, <1>4, <1>5, <1>6, <1>7, <1>8, <1>9,
     <1>10, <1>11, <1>12, <1>13, <1>14, <1>15, <1>16, <1>17
  DEF Next, WorkerStep, SessionGoesOn, Ended

(* Inv holds in every reachable state.                                     *)
THEOREM Invariance == Spec => []Inv
  BY InitInv, NextInv, PTL DEF Spec

(* Every reachable state is well typed.                                    *)
THEOREM TypeCorrect == Spec => []TypeOK
  BY Invariance, PTL DEF Inv

(* The worker thread never uses a torrent that has been freed, and once    *)
(* the verifier is destroyed it can only release the lock.                 *)
THEOREM OnlyLiveTorrentsAreUsed == Spec => []WorkerUsesLiveTorrents
<1>1. Inv => WorkerUsesLiveTorrents
  BY DEF Inv, TypeOK, WorkerInv, SessionInv, WorkerUsesLiveTorrents
<1> QED
  BY <1>1, Invariance, PTL

(* When remove() has returned, its torrent is out of the worker's hands.   *)
THEOREM RemoveLeavesIdle == Spec => []RemovedIsIdle
<1>1. Inv => RemovedIsIdle
  BY DEF Inv, SessionInv, RemovedIsIdle
<1> QED
  BY <1>1, Invariance, PTL

(* No verification is aborted in place of another.                         *)
THEOREM StopIsAimed == Spec => []StopReachesItsTorrent
<1>1. Inv => StopReachesItsTorrent
  BY DEF Inv, TypeOK, SessionInv, StopReachesItsTorrent
<1> QED
  BY <1>1, Invariance, PTL

(* A completion is posted only when every piece has been checked.          *)
THEOREM CompletionIsEarned == Spec => []CompleteMeansChecked
<1>1. Inv => CompleteMeansChecked
  BY DEF Inv, WorkerInv, CompleteMeansChecked
<1> QED
  BY <1>1, Invariance, PTL

-----------------------------------------------------------------------------
(* The threads implement VerifyService.                                    *)

ServiceState == [t \in Torrents |-> IF worker = "post" /\ t = current THEN "active"
                                    ELSE verifyState[t]]

(* The initial states are those of the service.                            *)
LEMMA InitImplements == Init => Service!Init
  BY DEF Init, Service!Init

(* Each step is one of the service's, or changes nothing that it shows: a  *)
(* verification begins with on_verify_started and ends when the worker has *)
(* posted its completion, or has found that there is none to post.         *)
LEMMA StepImplements ==
    Inv /\ [Next]_vars => [Service!Next]_(Service!vars)
<1>0. SUFFICES ASSUME Inv, [Next]_vars PROVE [Service!Next]_(Service!vars)
  OBVIOUS
<1>1. ASSUME Select \/ Leave \/ CheckPiece \/ LeaveLoop
      PROVE  UNCHANGED Service!vars
  BY <1>1 DEF Select, LowerFlag, EndThread, TakeNext, Leave, CheckPiece, LeaveLoop,
              Service!vars
<1>2. CASE Started
  <2>1. PICK t \in Torrents : t = current
    BY <1>0, <1>2 DEF Started, Inv, TypeOK, WorkerInv, Busy
  <2>2. Service!Begin(t)
    BY <1>0, <1>2, <2>1 DEF Started, Service!Begin, Inv, TypeOK, StateInv
  <2> QED
    BY <2>1, <2>2 DEF Service!Next
<1>3. CASE Report
  BY <1>0, <1>3 DEF Report, Inv, TypeOK, WorkerInv, Busy, StateInv, Service!vars
<1>4. CASE Post
  <2>1. PICK t \in Torrents : t = current
    BY <1>0, <1>4 DEF Post, Inv, TypeOK, WorkerInv, Busy
  <2>2. ServiceState[t] = "active"
    BY <1>4, <2>1 DEF Post, ServiceState
  <2>3. ServiceState' = [ServiceState EXCEPT ![t] = "none"]
    BY <1>0, <1>4, <2>1 DEF Post, ServiceState, Inv, TypeOK, StateInv
  <2>4. CASE aborted \/ t \in deleting
    <3>1. Service!Cancel(t)
      BY <1>4, <2>1, <2>2, <2>3, <2>4 DEF Post, ServiceState, Service!Cancel
    <3> QED
      BY <2>1, <3>1 DEF Service!Next
  <2>5. CASE ~(aborted \/ t \in deleting)
    <3>1. Service!Complete(t)
      BY <1>4, <2>1, <2>2, <2>3, <2>5 DEF Post, ServiceState, Service!Complete
    <3> QED
      BY <2>1, <3>1 DEF Service!Next
  <2> QED
    BY <2>4, <2>5
<1>5. CASE RemoveReturns \/ ThenStopped \/ Destroy
  BY <1>5 DEF RemoveReturns, ThenStopped, Destroy, Service!vars
<1>6. ASSUME NEW pri \in Priorities, ThenAdd(pri)
      PROVE  Service!Next
  <2>1. PICK t \in Torrents : t = sess.t
    BY <1>0, <1>6 DEF ThenAdd, Inv, TypeOK, SessionInv
  <2>2. verifier /\ t \in torrents /\ t # current
    BY <1>0, <1>6, <2>1 DEF ThenAdd, Inv, TypeOK, SessionInv
  <2>3. /\ ServiceState[t] = "none"
        /\ ServiceState' = [ServiceState EXCEPT ![t] = "queued"]
    BY <1>0, <1>6, <2>1, <2>2 DEF ThenAdd, ServiceState, Inv, TypeOK, WorkerInv,
                                  SessionInv
  <2>4. Service!Queue(t)
    BY <1>6, <2>2, <2>3 DEF ThenAdd, ServiceState, Service!Queue
  <2> QED
    BY <2>1, <2>4 DEF Service!Next
<1>7. CASE ThenFree
  <2>1. PICK t \in Torrents : t = sess.t
    BY <1>0, <1>7 DEF ThenFree, Inv, TypeOK, SessionInv
  <2>2. Service!Free(t)
    BY <1>0, <1>7, <2>1 DEF ThenFree, Service!Free, Inv, TypeOK, StateInv, SessionInv
  <2> QED
    BY <2>1, <2>2 DEF Service!Next
<1>8. CASE Destroyed
  <2>1. Service!Close
    BY <1>0, <1>8 DEF Destroyed, Service!Close, Inv, TypeOK, WorkerInv, StateInv, SessionInv
  <2> QED
    BY <2>1 DEF Service!Next
<1>9. ASSUME NEW op \in {"verify", "stop", "free"}, NEW t \in Torrents, Call(op, t)
      PROVE  [Service!Next]_(Service!vars)
  <2>1. CASE verifier /\ t \in todo /\ current # t
    <3>1. /\ ServiceState[t] = "queued"
          /\ ServiceState' = [ServiceState EXCEPT ![t] = "none"]
      BY <1>0, <1>9, <2>1 DEF Call, Remove, ServiceState, Inv, TypeOK, StateInv
    <3>2. Service!Cancel(t)
      BY <1>9, <3>1 DEF Call, Remove, ServiceState, Service!Cancel
    <3> QED
      BY <3>2 DEF Service!Next
  <2>2. CASE ~(verifier /\ t \in todo /\ current # t)
    BY <1>9, <2>2 DEF Call, Remove, Service!vars
  <2> QED
    BY <2>1, <2>2
<1>10. ASSUME NEW t \in Torrents, RunCompletion(t)
       PROVE  Service!Next
  <2>1. Service!RunCompletion(t)
    BY <1>10 DEF RunCompletion, Service!RunCompletion
  <2> QED
    BY <2>1 DEF Service!Next
<1>11. ASSUME NEW t \in Torrents, MarkDeleting(t)
       PROVE  UNCHANGED Service!vars
  BY <1>11 DEF MarkDeleting, Service!vars
<1>12. CASE UNCHANGED vars
  BY <1>12 DEF vars, Service!vars
<1> QED
  BY <1>0, <1>1, <1>2, <1>3, <1>4, <1>5, <1>6, <1>7, <1>8, <1>9,
     <1>10, <1>11, <1>12
  DEF Next, WorkerStep, SessionGoesOn, Ended

(* The worker, its lock, flag and condition variable implement the service *)
(* that the session relies on.                                             *)
THEOREM Implements == Spec => ImplementsService
  BY InitImplements, StepImplements, Invariance, PTL
  DEF Spec, ImplementsService, Service!Spec

=============================================================================
