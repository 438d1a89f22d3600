-------------------------- MODULE TorrentLifeProofs -------------------------
(***************************************************************************)
(* Proofs about TorrentLife, for any torrents, any sizes of the queue and  *)
(* any bounds.                                                             *)
(*                                                                         *)
(* When all calls come from the session thread and a torrent that got      *)
(* complete is not verified again, no torrent is both running and          *)
(* verified.  Each operation on a torrent is shown to keep it so; what the *)
(* posted work adds is that nothing but completions is ever posted.        *)
(***************************************************************************)
EXTENDS TorrentLife, TorrentQueueProofs

Calm(r) == r \in TorrentState /\ (r.verify # "none" => ~r.running)

Completion == [op : {"verified"}, t : Torrents]

AllCalm(ts) == ts \in [Torrents -> TorrentState] /\ \A t \in Torrents : Calm(ts[t])

CalmInv == AllCalm(tor) /\ work \in Seq(Completion)

-----------------------------------------------------------------------------
(* What is done to one torrent.                                            *)
LEMMA SaveCalm ==
    ASSUME NEW r \in TorrentState
    PROVE  LET s == Save(r)
           IN  s \in TorrentState /\ s.running = r.running /\ s.verify = r.verify
<1> DEFINE f == [exists |-> TRUE, paused |-> ~r.intent, has |-> r.has]
           u == [r EXCEPT !.dirty = FALSE, !.resume = f]
<1>1. f \in [exists : BOOLEAN, paused : BOOLEAN, has : Progress]
  BY DEF TorrentState
<1>2. Save(r) \in {r, u}
  BY DEF Save
<1> HIDE DEF f
<1>3. u \in TorrentState /\ u.running = r.running /\ u.verify = r.verify
  BY <1>1 DEF TorrentState
<1> HIDE DEF u
<1> QED BY <1>2, <1>3

(* Marking a torrent as queued touches neither its running nor its         *)
(* verification.                                                           *)
LEMMA SetQueuedCalm ==
    ASSUME NEW r \in TorrentState, NEW on \in BOOLEAN
    PROVE  LET s == SetQueued(r, on)
           IN  s \in TorrentState /\ s.running = r.running /\ s.verify = r.verify
<1> DEFINE d == r.dirty \/ r.queued # on
           u == [r EXCEPT !.queued = on, !.dirty = d]
<1>1. d \in BOOLEAN
  OBVIOUS
<1>2. SetQueued(r, on) = u
  BY DEF SetQueued, TorrentState
<1> HIDE DEF d
<1>3. u \in TorrentState /\ u.running = r.running /\ u.verify = r.verify
  BY <1>1 DEF TorrentState
<1> HIDE DEF u
<1> QED BY <1>2, <1>3

(* A torrent that is stopped neither runs nor is verified.                 *)
LEMMA StopNowCalm ==
    ASSUME NEW r \in TorrentState
    PROVE  LET s == StopNow(r)
           IN  s \in TorrentState /\ s.running = FALSE /\ s.verify = "none"
<1> DEFINE s == [r EXCEPT !.running = FALSE, !.stopping = FALSE, !.verify = "none",
                     !.idle = FALSE]
           u == IF r.deleting THEN s ELSE Save(s)
<1>1. s \in TorrentState /\ s.running = FALSE /\ s.verify = "none"
  BY DEF TorrentState
<1>2. StopNow(r) = SetQueued(u, FALSE)
  BY DEF StopNow
<1> HIDE DEF s
<1>3. u \in TorrentState /\ u.running = FALSE /\ u.verify = "none"
  BY <1>1, SaveCalm
<1> HIDE DEF u
<1> QED BY <1>2, <1>3, SetQueuedCalm

(* A verification stops the torrent first.                                 *)
LEMMA VerifyNowCalm ==
    ASSUME NEW r, Calm(r), NEW gone \in BOOLEAN
    PROVE  Calm(VerifyNow(r, gone))
<1> DEFINE idle == [r EXCEPT !.verify = "none"]
           s    == IF r.running THEN StopNow(idle) ELSE idle
           lost == Disappeared(s, gone)
           u    == [s EXCEPT !.error = @ \/ lost, !.intent = @ /\ ~lost, !.verify = "queued"]
<1>1. idle \in TorrentState /\ idle.running = r.running /\ idle.verify = "none"
  BY DEF Calm, TorrentState
<1>2. VerifyNow(r, gone) \in {r, idle, u}
  BY DEF VerifyNow
<1> HIDE DEF idle
<1>3. s \in TorrentState /\ s.running = FALSE
  <2>1. CASE r.running
    BY <1>1, <2>1, StopNowCalm
  <2>2. CASE ~r.running
    BY <1>1, <2>2 DEF Calm, TorrentState
  <2> QED BY <2>1, <2>2
<1> HIDE DEF s
<1>4. lost \in BOOLEAN
  BY DEF Disappeared
<1> HIDE DEF lost
<1>5. u \in TorrentState /\ u.running = FALSE
  <2> DEFINE e == s.error \/ lost
             i == s.intent /\ ~lost
  <2>1. e \in BOOLEAN /\ i \in BOOLEAN /\ u = [s EXCEPT !.error = e, !.intent = i, !.verify = "queued"]
    BY <1>3, <1>4 DEF TorrentState
  <2> HIDE DEF e, i, u
  <2> DEFINE failed  == [s EXCEPT !.error = e]
             paused  == [failed EXCEPT !.intent = i]
             waiting == [paused EXCEPT !.verify = "queued"]
  <2>2. failed \in TorrentState /\ failed.running = FALSE
    BY ONLY <1>3, <2>1 DEF TorrentState
  <2>3. u = waiting
    BY ONLY <1>3, <2>1 DEF TorrentState
  <2> HIDE DEF failed
  <2>4. paused \in TorrentState /\ paused.running = FALSE
    BY ONLY <2>1, <2>2 DEF TorrentState
  <2> HIDE DEF paused
  <2> QED BY ONLY <2>3, <2>4 DEF TorrentState
<1> HIDE DEF u
<1> QED BY <1>1, <1>2, <1>5 DEF Calm

(* A recheck that may not verify first leaves running and verification     *)
(* alone.                                                                  *)
LEMMA RecheckCalm ==
    ASSUME ~VerifyComplete, NEW r \in TorrentState, NEW gone \in BOOLEAN
    PROVE  LET s == Recheck(r, gone)
           IN  s \in TorrentState /\ s.running = r.running /\ s.verify = r.verify
<1> DEFINE s == [r EXCEPT !.check = FALSE]
           c == [s EXCEPT !.done = ~r.done, !.dirty = TRUE]
<1>1. s \in TorrentState /\ s.running = r.running /\ s.verify = r.verify
  BY DEF TorrentState
<1>2. c \in TorrentState /\ c.running = r.running /\ c.verify = r.verify
  BY DEF TorrentState
<1>3. Recheck(r, gone) \in {s, c, Save(c)}
  BY DEF Recheck, VerifiesFirst
<1> HIDE DEF s, c
<1> QED BY <1>1, <1>2, <1>3, SaveCalm

(* A torrent that is not verified may start.                               *)
LEMMA StartInSessionThreadCalm ==
    ASSUME ~VerifyComplete, NEW r \in TorrentState, r.verify = "none", NEW gone \in BOOLEAN
    PROVE  Calm(StartInSessionThread(r, gone))
<1> DEFINE c == Recheck(r, gone)
           q == SetQueued(c, FALSE)
           u == [q EXCEPT !.running = TRUE, !.error = FALSE, !.dirty = TRUE, !.idle = FALSE]
<1>1. c \in TorrentState /\ c.verify = "none"
  BY RecheckCalm
<1> HIDE DEF c
<1>2. q \in TorrentState /\ q.verify = "none"
  BY <1>1, SetQueuedCalm
<1>3. StartInSessionThread(r, gone) = u
  BY DEF StartInSessionThread, c
<1> HIDE DEF q
<1>4. u \in TorrentState /\ u.verify = "none"
  BY <1>2 DEF TorrentState
<1> QED BY <1>3, <1>4 DEF Calm

(* start() goes on only when nothing is verified.                          *)
LEMMA RefusesVerified ==
    ASSUME NEW r \in TorrentState, NEW bypass, ~Refused(r, bypass)
    PROVE  r.verify = "none"
BY DEF Refused, Activity, TorrentState

(* A start that goes ahead finds the torrent not verified: start() returns *)
(* early if it is.                                                         *)
LEMMA StartHereCalm ==
    ASSUME NEW ts, NEW t, Calm(ts[t]), NEW bypass, NEW gone \in BOOLEAN
    PROVE  /\ Calm(StartHere(ts, t, bypass, gone))
           /\ Starts(ts, t, bypass, gone) => StartHere(ts, t, bypass, gone).verify = "none"
<1> DEFINE r == ts[t]
           e == [r EXCEPT !.error = TRUE]
           u == [r EXCEPT !.running = TRUE, !.dirty = TRUE]
           q == SetQueued(r, TRUE)
<1>1. e \in TorrentState /\ e.running = r.running /\ e.verify = r.verify
  BY DEF Calm, TorrentState
<1>2. u \in TorrentState /\ u.verify = r.verify
  BY DEF Calm, TorrentState
<1>3. q \in TorrentState /\ q.running = r.running /\ q.verify = r.verify
  BY SetQueuedCalm DEF Calm
<1> DEFINE h == StartHere(ts, t, bypass, gone)
<1>4. h = IF Refused(r, bypass) THEN r ELSE IF Queues(ts, t, bypass) THEN q
          ELSE IF Disappeared(r, gone) THEN e ELSE u
  BY DEF StartHere
<1>5. Starts(ts, t, bypass, gone) <=>
        ~Refused(r, bypass) /\ ~Queues(ts, t, bypass) /\ ~Disappeared(r, gone)
  BY DEF Starts
<1>6. ~Refused(r, bypass) => r.verify = "none"
  BY RefusesVerified DEF Calm
<1> HIDE DEF h, r, e, u, q
<1>7. Calm(r) /\ (Starts(ts, t, bypass, gone) => h.verify = "none")
  BY <1>2, <1>4, <1>5, <1>6 DEF r
<1>8. Calm(q) /\ Calm(e) /\ (~Refused(r, bypass) => Calm(u))
  BY <1>1, <1>2, <1>3, <1>6, <1>7 DEF Calm
<1> QED BY <1>4, <1>7, <1>8 DEF h

(* The whole of a start keeps a torrent calm.                              *)
LEMMA StartNowCalm ==
    ASSUME ~VerifyComplete, NEW ts, NEW t, Calm(ts[t]), NEW bypass, NEW gone \in BOOLEAN
    PROVE  Calm(StartNow(ts, t, bypass, gone))
<1> DEFINE h == StartHere(ts, t, bypass, gone)
<1>1. Calm(h) /\ (Starts(ts, t, bypass, gone) => h.verify = "none")
  BY StartHereCalm
<1> HIDE DEF h
<1>2. Starts(ts, t, bypass, gone) => Calm(StartInSessionThread(h, gone))
  BY <1>1, StartInSessionThreadCalm DEF Calm
<1> QED BY <1>1, <1>2 DEF StartNow, h

(* A stop leaves a calm torrent.                                           *)
LEMMA StopCalm ==
    ASSUME NEW r \in TorrentState
    PROVE  Calm(Stop(r))
<1> DEFINE s == [r EXCEPT !.intent = FALSE, !.dirty = TRUE]
<1>1. s \in TorrentState
  BY DEF TorrentState
<1> HIDE DEF s
<1>2. Calm(StopNow(s))
  BY <1>1, StopNowCalm DEF Calm
<1> QED BY <1>2 DEF Stop, s

(* The end of a verification finds the torrent stopped and not verified,   *)
(* and may start it.                                                       *)
LEMMA VerifiedCalm ==
    ASSUME ~VerifyComplete, CalmInv, NEW t \in Torrents
    PROVE  Calm(Verified(tor, t))
<1> DEFINE r  == Recheck(tor[t], FALSE)
           ts == [tor EXCEPT ![t] = r]
<1>1. Calm(r)
  BY RecheckCalm DEF CalmInv, AllCalm, Calm
<1> HIDE DEF r
<1>2. ts[t] = r
  BY DEF CalmInv, AllCalm
<1>3. Calm(StartNow(ts, t, FALSE, FALSE))
  BY <1>1, <1>2, StartNowCalm
<1> QED BY <1>1, <1>3 DEF Verified, r

(* Moving the data ends its verification.                                  *)
LEMMA RelocateCalm ==
    ASSUME NEW r, Calm(r), NEW ok \in BOOLEAN
    PROVE  Calm(Relocate(r, ok))
<1> DEFINE s == [r EXCEPT !.verify = "none"]
           d == [s EXCEPT !.dirty = TRUE]
           e == [s EXCEPT !.error = TRUE]
<1>1. d \in TorrentState /\ d.verify = "none" /\ e \in TorrentState
  BY DEF Calm, TorrentState
<1>2. Relocate(r, ok) \in {d, Stop(e)}
  BY DEF Relocate
<1> HIDE DEF d, e
<1> QED BY <1>1, <1>2, StopCalm DEF Calm

(* A torrent that is loaded is idle.                                       *)
LEMMA FreshCalm ==
    ASSUME NEW stored \in BOOLEAN, NEW meta \in BOOLEAN,
           NEW resume \in [exists : BOOLEAN, paused : BOOLEAN, has : Progress]
    PROVE  Calm(Fresh(stored, meta, resume))
BY DEF Fresh, Calm, TorrentState

(* The checks and stops that a torrent has put off keep it calm.           *)
LEMMA IdleCalm ==
    ASSUME ~VerifyComplete, NEW r, Calm(r), NEW gone \in BOOLEAN
    PROVE  Calm(Idle(r, gone))
<1> DEFINE s == IF r.check THEN Recheck(r, gone) ELSE r
<1>1. Calm(s)
  BY RecheckCalm DEF Calm
<1> HIDE DEF s
<1>2. Idle(r, gone) \in {s, Stop(s)}
  BY DEF Idle, s
<1> QED BY <1>1, <1>2, StopCalm DEF Calm

(* A torrent that is added is calm, started or not.                        *)
LEMMA AddedCalm ==
    ASSUME ~VerifyComplete, NEW kind, NEW intent \in BOOLEAN
    PROVE  Calm(Added(kind, intent))
<1> DEFINE f == Fresh(TRUE, kind # "magnet", NoResume)
           r == [f EXCEPT !.intent = intent]
           u == [r EXCEPT !.has = "all"]
<1>1. f \in TorrentState /\ f.running = FALSE
  BY DEF Fresh, NoResume, Progress, TorrentState
<1> HIDE DEF f
<1>2. Calm(r) /\ Calm(u)
  BY <1>1 DEF Calm, TorrentState, Progress
<1> HIDE DEF r, u
<1>3. Added(kind, intent) \in {r, Recheck(u, FALSE)}
  BY DEF Added, r, u, f
<1> QED BY <1>2, <1>3, RecheckCalm DEF Calm

(* What is done to all torrents.                                           *)
LEMMA OneCalm ==
    ASSUME NEW ts, AllCalm(ts), NEW t, NEW r, t \in Torrents => Calm(r)
    PROVE  AllCalm([ts EXCEPT ![t] = r])
BY DEF AllCalm, Calm

(* Wanting a torrent to run does not run it.                               *)
LEMMA IntendCalm ==
    ASSUME NEW ts, AllCalm(ts), NEW t \in Torrents
    PROVE  AllCalm(Intend(ts, t))
<1> DEFINE r == [ts[t] EXCEPT !.intent = TRUE]
<1>1. Calm(r)
  BY DEF AllCalm, Calm, TorrentState
<1>2. Intend(ts, t) = [ts EXCEPT ![t] = r]
  BY DEF Intend
<1> HIDE DEF r
<1>3. AllCalm([ts EXCEPT ![t] = r])
  BY <1>1, OneCalm
<1> QED BY <1>2, <1>3

(* The queue timer starts torrents that are calm afterwards.               *)
LEMMA PulseCalm ==
    ASSUME ~VerifyComplete, NEW ts, AllCalm(ts), NEW dir, NEW gone
    PROVE  AllCalm(Pulse(ts, dir, gone))
<1>1. ASSUME NEW t \in Torrents
      PROVE  Calm(StartNow(Intend(ts, t), t, TRUE, t \in gone)) /\ Calm(ts[t])
  <2>1. Calm(Intend(ts, t)[t]) /\ (t \in gone) \in BOOLEAN
    BY IntendCalm DEF AllCalm
  <2> QED BY <2>1, StartNowCalm DEF AllCalm
<1>2. Pulse(ts, dir, gone) = ts \/
         \E chosen : Pulse(ts, dir, gone) =
            [t \in Torrents |-> IF t \in chosen THEN StartNow(Intend(ts, t), t, TRUE, t \in gone)
                               ELSE ts[t]]
  BY Zenon DEF Pulse
<1>3. ASSUME NEW chosen, NEW us,
             us = [t \in Torrents |-> IF t \in chosen THEN StartNow(Intend(ts, t), t, TRUE, t \in gone)
                                     ELSE ts[t]]
      PROVE  AllCalm(us)
  <2>1. \A t \in Torrents : Calm(us[t])
    BY <1>1, <1>3
  <2>2. us = [t \in Torrents |-> us[t]]
    BY <1>3
  <2> QED BY <2>1, <2>2 DEF AllCalm, Calm
<1> QED BY <1>2, <1>3

(* A session that opens again has idle torrents and nothing posted.        *)
LEMMA ReopenCalm ==
    ASSUME NEW ts \in [Torrents -> TorrentState], NEW file, Reopen(ts, file)
    PROVE  AllCalm(tor') /\ work' = <<>>
<1>1. /\ work' = <<>>
      /\ tor' = [t \in Torrents |-> IF ts[t].stored THEN Fresh(TRUE, ts[t].meta, ts[t].resume)
                                    ELSE NoTorrent]
  BY DEF Reopen
<1>2. ASSUME NEW t \in Torrents PROVE Calm(tor'[t])
  <2>1. ts[t].meta \in BOOLEAN /\ ts[t].resume \in [exists : BOOLEAN, paused : BOOLEAN, has : Progress]
    BY DEF TorrentState
  <2>2. NoResume \in [exists : BOOLEAN, paused : BOOLEAN, has : Progress]
    BY DEF NoResume, Progress
  <2>3. Calm(Fresh(TRUE, ts[t].meta, ts[t].resume)) /\ Calm(NoTorrent)
    BY <2>1, <2>2, FreshCalm DEF NoTorrent
  <2> QED BY <1>1, <2>3
<1>3. tor' = [t \in Torrents |-> tor'[t]]
  BY <1>1
<1> QED BY <1>1, <1>2, <1>3 DEF AllCalm, Calm

-----------------------------------------------------------------------------
(* The calls, when they come from the session thread.                      *)
LEMMA CallCalm ==
    ASSUME ~AppThread, CalmInv, NEW t, NEW here, NEW op, NEW now, Call(t, here, op, now),
           t \in Torrents => Calm(now)
    PROVE  CalmInv'
<1>1. tor' = [tor EXCEPT ![t] = now] /\ work' = work
  BY DEF Call
<1>2. AllCalm([tor EXCEPT ![t] = now])
  BY OneCalm DEF CalmInv
<1> QED BY <1>1, <1>2 DEF CalmInv, AllCalm

(* Whether the files are gone is yes or no.                                *)
LEMMA GoneIsBoolean == Gone \subseteq BOOLEAN
BY DEF Gone

(* Every call of the user keeps all torrents calm.                         *)
LEMMA UserKeepsCalm ==
    ASSUME ~AppThread, ~VerifyComplete, CalmInv, UserNext
    PROVE  CalmInv'
<1>0. /\ AllCalm(tor) /\ work \in Seq(Completion)
      /\ \A t \in Torrents : Calm(tor[t]) /\ tor[t] \in TorrentState
  BY DEF CalmInv, AllCalm, Calm
<1>1. ASSUME NEW t \in Torrents, NEW bypass \in BOOLEAN, UserStart(t, bypass) PROVE CalmInv'
  <2>1. PICK gone \in Gone :
          Call(t, StartHere(Intend(tor, t), t, bypass, gone), "start",
                  StartNow(Intend(tor, t), t, bypass, gone))
    BY <1>1 DEF UserStart
  <2>2. Calm(Intend(tor, t)[t]) /\ gone \in BOOLEAN
    BY <1>0, IntendCalm, GoneIsBoolean DEF AllCalm
  <2>3. Calm(StartNow(Intend(tor, t), t, bypass, gone))
    BY <2>2, StartNowCalm
  <2> QED BY <2>1, <2>3, CallCalm
<1>2. ASSUME NEW t \in Torrents, UserStop(t) PROVE CalmInv'
  <2> DEFINE r == [tor[t] EXCEPT !.stopping = TRUE]
  <2>1. Calm(r)
    BY <1>0 DEF Calm, TorrentState
  <2>2. Call(t, [tor[t] EXCEPT !.intent = FALSE, !.dirty = TRUE], "stop", r)
    BY <1>2 DEF UserStop
  <2> QED BY <2>1, <2>2, CallCalm
<1>3. ASSUME NEW t \in Torrents, UserVerify(t) PROVE CalmInv'
  <2>1. PICK gone \in Gone : Call(t, tor[t], "verify", VerifyNow(tor[t], gone))
    BY <1>3 DEF UserVerify
  <2>2. Calm(VerifyNow(tor[t], gone))
    BY <1>0, VerifyNowCalm, GoneIsBoolean
  <2> QED BY <2>1, <2>2, CallCalm
<1>4. ASSUME NEW t \in Torrents, UserRelocate(t) PROVE CalmInv'
  <2>1. PICK ok \in BOOLEAN :
          Call(t, tor[t], IF ok THEN "move" ELSE "movefail", Relocate(tor[t], ok))
    BY <1>4 DEF UserRelocate
  <2>2. Calm(Relocate(tor[t], ok))
    BY <1>0, RelocateCalm
  <2> QED BY <2>1, <2>2, CallCalm
<1>5. ASSUME NEW t \in Torrents, UserRemove(t) PROVE CalmInv'
  <2>1. tor' = [tor EXCEPT ![t] = NoTorrent] /\ work' = work
    BY <1>5 DEF UserRemove
  <2>2. Calm(NoTorrent)
    BY FreshCalm DEF NoTorrent, NoResume, Progress
  <2>3. AllCalm([tor EXCEPT ![t] = NoTorrent])
    BY <1>0, <2>2, OneCalm
  <2> QED BY <1>0, <2>1, <2>3 DEF CalmInv, AllCalm
<1>6. ASSUME NEW t \in Torrents, NEW has \in Progress, UserSetFilesWanted(t, has) PROVE CalmInv'
  <2> DEFINE r == [tor[t] EXCEPT !.has = has, !.dirty = TRUE]
  <2>1. PICK gone \in Gone : tor' = [tor EXCEPT ![t] = Recheck(r, gone)] /\ work' = work
    BY <1>6 DEF UserSetFilesWanted
  <2>2. Calm(r)
    BY <1>0 DEF Calm, TorrentState
  <2> HIDE DEF r
  <2>3. Calm(Recheck(r, gone))
    BY <2>2, RecheckCalm, GoneIsBoolean DEF Calm
  <2>4. AllCalm([tor EXCEPT ![t] = Recheck(r, gone)])
    BY <1>0, <2>3, OneCalm
  <2> QED BY <1>0, <2>1, <2>4 DEF CalmInv, AllCalm
<1>7. ASSUME NEW t \in Torrents, NEW intent \in BOOLEAN, NEW kind \in Kinds,
             UserAdd(t, intent, kind)
      PROVE  CalmInv'
  <2> DEFINE r  == Added(kind, intent)
             ts == [tor EXCEPT ![t] = r]
  <2>1. Calm(r)
    BY AddedCalm
  <2> HIDE DEF r
  <2>2. AllCalm(ts) /\ ts[t] = r
    BY <1>0, <2>1, OneCalm DEF AllCalm
  <2>3. /\ work' = work
        /\ \/ tor' = ts
           \/ tor' = [ts EXCEPT ![t] = VerifyNow(@, FALSE)]
           \/ tor' = [ts EXCEPT ![t] = StartNow(ts, t, kind = "magnet", FALSE)]
    BY <1>7 DEF UserAdd, r
  <2>4. Calm(VerifyNow(r, FALSE)) /\ Calm(StartNow(ts, t, kind = "magnet", FALSE))
    BY <2>1, <2>2, VerifyNowCalm, StartNowCalm
  <2> HIDE DEF ts
  <2>5. AllCalm(tor')
    <3>1. /\ AllCalm([ts EXCEPT ![t] = VerifyNow(r, FALSE)])
          /\ AllCalm([ts EXCEPT ![t] = StartNow(ts, t, kind = "magnet", FALSE)])
      BY <2>2, <2>4, OneCalm
    <3>2. [ts EXCEPT ![t] = VerifyNow(@, FALSE)] = [ts EXCEPT ![t] = VerifyNow(r, FALSE)]
      BY <2>2
    <3> QED BY <2>2, <2>3, <3>1, <3>2
  <2> QED BY <1>0, <2>3, <2>5 DEF CalmInv, AllCalm
<1>8. ASSUME NEW q, UserMove(q) PROVE CalmInv'
  BY <1>0, <1>8 DEF UserMove, CalmInv, AllCalm
<1> QED BY <1>1, <1>2, <1>3, <1>4, <1>5, <1>6, <1>7, <1>8 DEF UserNext

(* The session thread and the thread that verifies.                        *)
LEMMA ChangeCalm ==
    ASSUME CalmInv, NEW t \in Torrents, NEW r, Change(t, r), Calm(r)
    PROVE  CalmInv'
<1>1. AllCalm([tor EXCEPT ![t] = r])
  BY OneCalm DEF CalmInv
<1> QED BY <1>1 DEF Change, CalmInv, AllCalm

(* So do the blocks, the errors and the verification of a torrent,         *)
LEMMA TorrentKeepsCalm ==
    ASSUME ~VerifyComplete, CalmInv, NEW t \in Torrents, TorrentNext(t)
    PROVE  CalmInv'
<1>0. /\ AllCalm(tor) /\ work \in Seq(Completion)
      /\ Calm(tor[t]) /\ tor[t] \in TorrentState
  BY DEF CalmInv, AllCalm, Calm
<1>1. CASE SeedLimit(t)
  <2>1. Calm([tor[t] EXCEPT !.stopping = TRUE])
    BY <1>0 DEF Calm, TorrentState
  <2> QED BY <1>1, <2>1, ChangeCalm DEF SeedLimit
<1>2. CASE WriteError(t)
  <2> DEFINE r == [tor[t] EXCEPT !.error = TRUE]
  <2>1. r \in TorrentState
    BY <1>0 DEF TorrentState
  <2>2. Change(t, Stop(r))
    BY <1>2 DEF WriteError
  <2> HIDE DEF r
  <2> QED BY <2>1, <2>2, StopCalm, ChangeCalm
<1>3. ASSUME NEW has \in Progress, Receive(t, has) PROVE CalmInv'
  <2>1. Calm([tor[t] EXCEPT !.has = has, !.dirty = TRUE, !.check = TRUE,
                               !.idle = FALSE])
    BY <1>0 DEF Calm, TorrentState
  <2> QED BY <1>3, <2>1, ChangeCalm DEF Receive
<1>4. ASSUME NEW seed \in BOOLEAN, GetMetainfo(t, seed) PROVE CalmInv'
  <2> DEFINE r  == [tor[t] EXCEPT !.meta = TRUE, !.dirty = TRUE]
             u  == [r EXCEPT !.has = "all"]
             s  == Recheck(u, FALSE)
             ts == [tor EXCEPT ![t] = s]
             v  == [s EXCEPT !.stopping = @ \/ s.running]
             n  == StartNow(ts, t, FALSE, FALSE)
  <2>1. Calm(r) /\ Calm(u)
    BY <1>0 DEF Calm, TorrentState, Progress
  <2>2. Change(t, IF ~seed THEN VerifyNow(r, FALSE) ELSE IF s.intent THEN n ELSE v)
    BY <1>4 DEF GetMetainfo
  <2> HIDE DEF r, u
  <2>3. Calm(s)
    BY <2>1, RecheckCalm DEF Calm
  <2> HIDE DEF s
  <2>4. Calm(v)
    BY <2>3 DEF Calm, TorrentState
  <2>5. ts[t] = s
    BY <1>0 DEF AllCalm
  <2>6. Calm(n)
    BY <2>3, <2>5, StartNowCalm
  <2> HIDE DEF n, v
  <2>7. Calm(VerifyNow(r, FALSE))
    BY <2>1, VerifyNowCalm
  <2> QED BY <2>2, <2>4, <2>6, <2>7, ChangeCalm
<1>5. CASE VerifyBegin(t)
  <2>1. Calm([tor[t] EXCEPT !.verify = "active"])
    BY <1>0, <1>5 DEF Calm, TorrentState, VerifyBegin
  <2> QED BY <1>5, <2>1, ChangeCalm DEF VerifyBegin
<1>6. CASE VerifyDone(t)
  <2> DEFINE r == [tor[t] EXCEPT !.verify = "none"]
  <2>1. Calm(r)
    BY <1>0 DEF Calm, TorrentState
  <2>2. tor' = [tor EXCEPT ![t] = r]
    BY <1>6 DEF VerifyDone
  <2>3. work' = work \/ work' = Append(work, [op |-> "verified", t |-> t])
    BY <1>6 DEF VerifyDone, Post
  <2> HIDE DEF r
  <2>4. AllCalm([tor EXCEPT ![t] = r])
    BY <1>0, <2>1, OneCalm
  <2>5. [op |-> "verified", t |-> t] \in Completion
    BY DEF Completion
  <2>6. work' \in Seq(Completion)
    BY <1>0, <2>3, <2>5
  <2> QED BY <2>2, <2>4, <2>6 DEF CalmInv, AllCalm
<1>7. ASSUME NEW has \in Progress, VerifyPiece(t, has) PROVE CalmInv'
  <2>1. Calm([tor[t] EXCEPT !.has = has, !.dirty = TRUE])
    BY <1>0 DEF Calm, TorrentState
  <2> QED BY <1>7, <2>1, ChangeCalm DEF VerifyPiece
<1>8. CASE GoesIdle(t)
  <2>1. Calm([tor[t] EXCEPT !.idle = TRUE])
    BY <1>0 DEF Calm, TorrentState
  <2> QED BY <1>8, <2>1, ChangeCalm DEF GoesIdle
<1>9. CASE Transfer(t)
  <2>1. Calm([tor[t] EXCEPT !.idle = FALSE])
    BY <1>0 DEF Calm, TorrentState
  <2> QED BY <1>9, <2>1, ChangeCalm DEF Transfer
<1> QED BY <1>1, <1>2, <1>3, <1>4, <1>5, <1>6, <1>7, <1>8, <1>9 DEF TorrentNext

(* and the session's timers, posted work, loading, closing and crashes.    *)
LEMMA SessionKeepsCalm ==
    ASSUME ~VerifyComplete, CalmInv, SessionNext
    PROVE  CalmInv'
<1>0. /\ AllCalm(tor) /\ work \in Seq(Completion)
      /\ \A t \in Torrents : Calm(tor[t]) /\ tor[t] \in TorrentState
  BY DEF CalmInv, AllCalm, Calm
<1>1. ASSUME NEW ts, tor' = ts, AllCalm(ts), work' \in Seq(Completion) PROVE CalmInv'
  BY <1>1 DEF CalmInv, AllCalm
<1>2. CASE RunWork
  <2> DEFINE t == Head(work).t
             live == t \in torrents /\ ~tor[t].deleting
  <2>1. work # <<>> /\ work' = Tail(work) /\ work' \in Seq(Completion)
    BY <1>0, <1>2 DEF RunWork
  <2>2. Head(work).op = "verified" /\ t \in Torrents
    <3>1. Head(work) \in Completion
      BY <1>0, <2>1
    <3> QED BY <3>1 DEF Completion
  <2>3. tor' = [tor EXCEPT ![t] = IF live THEN Verified(tor, t) ELSE @]
    BY <1>2, <2>2 DEF RunWork
  <2> HIDE DEF t, live
  <2>4. Calm(Verified(tor, t)) /\ Calm(tor[t])
    BY <1>0, <2>2, VerifiedCalm
  <2>5. AllCalm([tor EXCEPT ![t] = IF live THEN Verified(tor, t) ELSE tor[t]])
    BY <1>0, <2>4, OneCalm
  <2> QED BY <1>1, <2>1, <2>3, <2>5
<1>3. CASE QueueTimer
  <2>1. PICK gone \in GoneSets : tor' = Pulse(Pulse(tor, "up", gone), "down", gone)
    BY <1>3 DEF QueueTimer
  <2>2. AllCalm(Pulse(Pulse(tor, "up", gone), "down", gone))
    BY <1>0, PulseCalm
  <2>3. work' \in Seq(Completion)
    BY <1>0, <1>3 DEF QueueTimer
  <2> QED BY <1>1, <2>1, <2>2, <2>3
<1>4. CASE IdleWork
  <2>1. PICK gone \in GoneSets :
          tor' = [t \in Torrents |-> IF t \in torrents THEN Idle(tor[t], t \in gone) ELSE tor[t]]
    BY <1>4 DEF IdleWork
  <2>2. \A t \in Torrents : Calm(tor'[t])
    <3>1. ASSUME NEW t \in Torrents PROVE Calm(Idle(tor[t], t \in gone)) /\ Calm(tor[t])
      <4>1. (t \in gone) \in BOOLEAN
        OBVIOUS
      <4> QED BY <1>0, <4>1, IdleCalm
    <3> QED BY <2>1, <3>1
  <2>3. AllCalm(tor')
    BY <2>1, <2>2 DEF AllCalm, Calm
  <2> QED BY <1>0, <1>4, <2>3 DEF IdleWork, CalmInv, AllCalm
<1>5. CASE SaveTimer
  <2>1. tor' = [t \in Torrents |-> IF t \in torrents THEN Save(tor[t]) ELSE tor[t]]
    BY <1>5 DEF SaveTimer
  <2>2. \A t \in Torrents : Calm(tor'[t])
    BY <1>0, <2>1, SaveCalm DEF Calm
  <2>3. AllCalm(tor')
    BY <2>1, <2>2 DEF AllCalm, Calm
  <2> QED BY <1>0, <1>5, <2>3 DEF SaveTimer, CalmInv, AllCalm
<1>6. CASE LoadTorrent
  <2> DEFINE t  == Head(toLoad)
             in == IF tor[t].resume.exists THEN ~tor[t].resume.paused ELSE TRUE
             ts == [tor EXCEPT ![t].intent = in]
             L(gone) == IF in THEN StartNow(ts, t, ~ts[t].meta, gone)
                        ELSE [ts[t] EXCEPT !.error = Disappeared(ts[t], gone)]
  <2>1. PICK gone \in Gone : tor' = [ts EXCEPT ![t] = L(gone)]
    BY <1>6 DEF LoadTorrent
  <2>2. work' \in Seq(Completion)
    BY <1>0, <1>6 DEF LoadTorrent
  <2>3. CASE t \in Torrents
    <3> DEFINE r == [tor[t] EXCEPT !.intent = in]
    <3>1. in \in BOOLEAN
      BY <1>0, <2>3 DEF TorrentState
    <3>2. ts = [tor EXCEPT ![t] = r]
      OBVIOUS
    <3> HIDE DEF in
    <3>3. Calm(r)
      BY <1>0, <2>3, <3>1 DEF Calm, TorrentState
    <3> HIDE DEF r
    <3>4. AllCalm(ts) /\ ts[t] = r
      BY <1>0, <2>3, <3>2, <3>3, OneCalm DEF AllCalm
    <3> HIDE DEF ts
    <3> DEFINE e == [r EXCEPT !.error = Disappeared(r, gone)]
    <3>5. Calm(e)
      <4>1. Disappeared(r, gone) \in BOOLEAN
        BY GoneIsBoolean DEF Disappeared
      <4> HIDE DEF Disappeared
      <4> QED BY <3>3, <4>1 DEF Calm, TorrentState
    <3>6. Calm(StartNow(ts, t, ~ts[t].meta, gone))
      BY <3>3, <3>4, StartNowCalm, GoneIsBoolean
    <3>7. L(gone) \in {StartNow(ts, t, ~ts[t].meta, gone), e}
      BY <3>4
    <3> HIDE DEF e, L
    <3>8. AllCalm([ts EXCEPT ![t] = L(gone)])
      BY <3>4, <3>5, <3>6, <3>7, OneCalm
    <3> QED BY <1>1, <2>1, <2>2, <3>8
  <2>4. CASE t \notin Torrents
    <3>1. tor' = tor
      BY <1>0, <2>1, <2>4 DEF AllCalm
    <3> QED BY <1>0, <1>1, <2>2, <3>1
  <2> QED BY <2>3, <2>4
<1>7. CASE Close
  <2>1. Reopen(Closed(tor), ToFile(queue, StoreFilename(tor)).file)
    BY <1>7 DEF Close
  <2>2. ASSUME NEW r \in TorrentState PROVE Shutdown(r) \in TorrentState
    <3>1. [r EXCEPT !.dirty = TRUE] \in TorrentState
      BY DEF TorrentState
    <3> QED BY <3>1, StopNowCalm, SaveCalm DEF Shutdown
  <2>3. Closed(tor) \in [Torrents -> TorrentState]
    BY <1>0, <2>2 DEF Closed
  <2>4. AllCalm(tor') /\ work' = <<>>
    BY <2>1, <2>3, ReopenCalm
  <2> QED BY <2>4 DEF CalmInv, AllCalm
<1>8. CASE Crash
  <2>1. Reopen(tor, queue.file)
    BY <1>8 DEF Crash
  <2>2. AllCalm(tor') /\ work' = <<>>
    BY <1>0, <2>1, ReopenCalm DEF AllCalm
  <2> QED BY <2>2 DEF CalmInv, AllCalm
<1> QED BY <1>2, <1>3, <1>4, <1>5, <1>6, <1>7, <1>8 DEF SessionNext

-----------------------------------------------------------------------------
(* A session that starts is calm.                                          *)
LEMMA CalmInit == Init => CalmInv
<1>1. Calm(NoTorrent)
  BY FreshCalm DEF NoTorrent, NoResume, Progress
<1> QED BY <1>1 DEF Init, CalmInv, AllCalm, Calm

(* Calm is inductive when the session thread makes all calls.              *)
LEMMA CalmNext ==
    ASSUME ~AppThread, ~VerifyComplete
    PROVE  CalmInv /\ [Next]_vars => CalmInv'
<1>1. ASSUME CalmInv, UNCHANGED vars PROVE CalmInv'
  BY <1>1 DEF vars, CalmInv, AllCalm
<1> QED BY <1>1, UserKeepsCalm, SessionKeepsCalm, TorrentKeepsCalm DEF Next

(* When the session thread makes all calls and a torrent that got complete *)
(* is not verified again, no torrent runs while its data is verified.      *)
THEOREM NoTorrentRunsVerified ==
    ASSUME ~AppThread, ~VerifyComplete
    PROVE  Spec => []RunningNotVerified
<1>1. CalmInv => RunningNotVerified
  BY DEF CalmInv, AllCalm, Calm, RunningNotVerified
<1> QED BY <1>1, CalmInit, CalmNext, PTL DEF Spec

-----------------------------------------------------------------------------
(* What a session has, what its queue holds and what is stored are the     *)
(* same torrents through every call, removal, crash and reload; and, when  *)
(* all calls come from the session thread, what is to run is not           *)
(* forgotten, the resume files say so, and the slots of the queue are      *)
(* filled and kept to.                                                     *)

Resume == [exists : BOOLEAN, paused : BOOLEAN, has : Progress]

(* An operation makes a torrent of a torrent, and stores or drops nothing. *)
Kept(r, s) == s \in TorrentState /\ s.stored = r.stored

(* Two operations are one.                                                 *)
LEMMA KeptTwice ==
    ASSUME NEW r, NEW s, NEW u, Kept(r, s), Kept(s, u)
    PROVE  Kept(r, u)
BY DEF Kept

(* Saving the resume file returns a torrent,                               *)
LEMMA SaveKept ==
    ASSUME NEW r \in TorrentState
    PROVE  Kept(r, Save(r))
<1> DEFINE f == [exists |-> TRUE, paused |-> ~r.intent, has |-> r.has]
           u == [r EXCEPT !.dirty = FALSE, !.resume = f]
<1>1. f \in [exists : BOOLEAN, paused : BOOLEAN, has : Progress]
  BY DEF TorrentState
<1>2. Save(r) \in {r, u}
  BY DEF Save
<1> HIDE DEF f
<1>3. Kept(r, u)
  BY <1>1 DEF Kept, TorrentState
<1> HIDE DEF u
<1> QED BY <1>2, <1>3 DEF Kept

(* so does marking it as queued,                                           *)
LEMMA SetQueuedKept ==
    ASSUME NEW r \in TorrentState, NEW on \in BOOLEAN
    PROVE  Kept(r, SetQueued(r, on))
<1> DEFINE d == r.dirty \/ r.queued # on
           u == [r EXCEPT !.queued = on, !.dirty = d]
<1>1. d \in BOOLEAN
  OBVIOUS
<1>2. SetQueued(r, on) = u
  BY DEF SetQueued, TorrentState
<1> HIDE DEF d
<1>3. Kept(r, u)
  BY <1>1 DEF Kept, TorrentState
<1> QED BY <1>2, <1>3

(* stopping it,                                                            *)
LEMMA StopNowKept ==
    ASSUME NEW r \in TorrentState
    PROVE  Kept(r, StopNow(r))
<1> DEFINE s == [r EXCEPT !.running = FALSE, !.stopping = FALSE, !.verify = "none",
                     !.idle = FALSE]
           u == IF r.deleting THEN s ELSE Save(s)
<1>1. Kept(r, s)
  BY DEF Kept, TorrentState
<1>2. StopNow(r) = SetQueued(u, FALSE)
  BY DEF StopNow
<1> HIDE DEF s
<1>3. Kept(r, u)
  BY <1>1, SaveKept DEF Kept
<1> HIDE DEF u
<1>4. Kept(u, SetQueued(u, FALSE))
  BY <1>3, SetQueuedKept DEF Kept
<1> QED BY <1>2, <1>3, <1>4, KeptTwice

(* verifying it,                                                           *)
LEMMA VerifyNowKept ==
    ASSUME NEW r \in TorrentState, NEW gone \in BOOLEAN
    PROVE  Kept(r, VerifyNow(r, gone))
<1> DEFINE idle == [r EXCEPT !.verify = "none"]
           s    == IF r.running THEN StopNow(idle) ELSE idle
           lost == Disappeared(s, gone)
           u    == [s EXCEPT !.error = @ \/ lost, !.intent = @ /\ ~lost, !.verify = "queued"]
<1>1. Kept(r, idle)
  BY DEF Kept, TorrentState
<1>2. VerifyNow(r, gone) \in {r, idle, u}
  BY DEF VerifyNow
<1> HIDE DEF idle
<1>3. Kept(r, s)
  BY <1>1, StopNowKept, KeptTwice DEF Kept
<1> HIDE DEF s
<1>4. lost \in BOOLEAN
  BY DEF Disappeared
<1> HIDE DEF lost
<1>5. Kept(s, u)
  <2>0. s \in TorrentState
    BY <1>3 DEF Kept
  <2> DEFINE e == s.error \/ lost
             i == s.intent /\ ~lost
  <2>3. e \in BOOLEAN /\ i \in BOOLEAN /\ u = [s EXCEPT !.error = e, !.intent = i, !.verify = "queued"]
    BY <1>4, <2>0 DEF TorrentState
  <2> HIDE DEF e, i, u
  <2> DEFINE failed  == [s EXCEPT !.error = e]
             paused  == [failed EXCEPT !.intent = i]
             waiting == [paused EXCEPT !.verify = "queued"]
  <2>4. failed \in TorrentState
    BY ONLY <2>0, <2>3 DEF TorrentState
  <2>5. u = waiting
    BY ONLY <2>0, <2>3 DEF TorrentState
  <2> HIDE DEF failed
  <2>6. paused \in TorrentState
    BY ONLY <2>4, <2>3 DEF TorrentState
  <2> HIDE DEF paused
  <2>7. waiting \in TorrentState
    BY ONLY <2>6 DEF TorrentState
  <2>1. u \in TorrentState
    BY <2>5, <2>7
  <2> USE DEF u
  <2>2. u.stored = s.stored
    BY <2>0 DEF TorrentState
  <2> QED BY <2>1, <2>2 DEF Kept
<1> HIDE DEF u
<1> QED BY <1>1, <1>2, <1>3, <1>5, KeptTwice DEF Kept

(* checking its completeness again,                                        *)
LEMMA RecheckKept ==
    ASSUME NEW r \in TorrentState, NEW gone \in BOOLEAN
    PROVE  Kept(r, Recheck(r, gone))
<1> DEFINE s == [r EXCEPT !.check = FALSE]
           c == [s EXCEPT !.done = ~r.done, !.dirty = TRUE]
<1>1. Kept(r, s) /\ Kept(r, c)
  BY ZenonT(30) DEF Kept, TorrentState
<1>2. Recheck(r, gone) \in {s, c, Save(c), VerifyNow(s, gone)}
  BY DEF Recheck
<1> HIDE DEF s, c
<1>3. Kept(c, Save(c)) /\ Kept(s, VerifyNow(s, gone))
  BY <1>1, SaveKept, VerifyNowKept DEF Kept
<1> QED BY <1>1, <1>2, <1>3, KeptTwice

(* starting it once it is verified,                                        *)
LEMMA StartInSessionThreadKept ==
    ASSUME NEW r \in TorrentState, NEW gone \in BOOLEAN
    PROVE  Kept(r, StartInSessionThread(r, gone))
<1> DEFINE c == Recheck(r, gone)
           q == SetQueued(c, FALSE)
           u == [q EXCEPT !.running = TRUE, !.error = FALSE, !.dirty = TRUE, !.idle = FALSE]
<1>1. Kept(r, c)
  BY RecheckKept
<1> HIDE DEF c
<1>2. Kept(r, q)
  BY <1>1, SetQueuedKept, KeptTwice DEF Kept
<1>3. StartInSessionThread(r, gone) = u
  BY DEF StartInSessionThread, c
<1> HIDE DEF q
<1>4. Kept(q, u)
  BY <1>2 DEF Kept, TorrentState
<1> HIDE DEF u
<1> QED BY <1>2, <1>3, <1>4, KeptTwice

(* the part of a start that the caller's thread does,                      *)
LEMMA StartHereKept ==
    ASSUME NEW ts, NEW t, ts[t] \in TorrentState, NEW bypass, NEW gone
    PROVE  Kept(ts[t], StartHere(ts, t, bypass, gone))
<1> DEFINE r == ts[t]
           e == [r EXCEPT !.error = TRUE]
           u == [r EXCEPT !.running = TRUE, !.dirty = TRUE]
<1>1. Kept(r, e) /\ Kept(r, u) /\ Kept(r, r)
  BY DEF Kept, TorrentState
<1>2. StartHere(ts, t, bypass, gone) \in {r, SetQueued(r, TRUE), e, u}
  BY DEF StartHere
<1>3. Kept(r, SetQueued(r, TRUE))
  BY SetQueuedKept
<1> HIDE DEF r, e, u
<1> QED BY <1>1, <1>2, <1>3 DEF r

(* the whole of a start,                                                   *)
LEMMA StartNowKept ==
    ASSUME NEW ts, NEW t, ts[t] \in TorrentState, NEW bypass, NEW gone \in BOOLEAN
    PROVE  Kept(ts[t], StartNow(ts, t, bypass, gone))
<1> DEFINE h == StartHere(ts, t, bypass, gone)
<1>1. Kept(ts[t], h)
  BY StartHereKept
<1>2. StartNow(ts, t, bypass, gone) \in {h, StartInSessionThread(h, gone)}
  BY DEF StartNow
<1> HIDE DEF h
<1>3. Kept(h, StartInSessionThread(h, gone))
  BY <1>1, StartInSessionThreadKept DEF Kept
<1> QED BY <1>1, <1>2, <1>3, KeptTwice

(* a stop,                                                                 *)
LEMMA StopKept ==
    ASSUME NEW r \in TorrentState
    PROVE  Kept(r, Stop(r))
<1> DEFINE s == [r EXCEPT !.intent = FALSE, !.dirty = TRUE]
<1>1. Kept(r, s)
  BY DEF Kept, TorrentState
<1> HIDE DEF s
<1>2. Kept(s, StopNow(s))
  BY <1>1, StopNowKept DEF Kept
<1> QED BY <1>1, <1>2, KeptTwice DEF Stop, s

(* the end of its verification,                                            *)
LEMMA VerifiedKept ==
    ASSUME NEW ts \in [Torrents -> TorrentState], NEW t \in Torrents
    PROVE  Kept(ts[t], Verified(ts, t))
<1> DEFINE r  == Recheck(ts[t], FALSE)
           us == [ts EXCEPT ![t] = r]
<1>1. Kept(ts[t], r)
  BY RecheckKept
<1>2. Verified(ts, t) \in {r, StartNow(us, t, FALSE, FALSE)}
  BY DEF Verified
<1> HIDE DEF r
<1>3. us[t] = r
  OBVIOUS
<1> HIDE DEF us
<1>4. Kept(r, StartNow(us, t, FALSE, FALSE))
  BY <1>1, <1>3, StartNowKept DEF Kept
<1>5. Kept(ts[t], StartNow(us, t, FALSE, FALSE))
  BY <1>1, <1>4, KeptTwice
<1> QED BY <1>1, <1>2, <1>5

(* moving its data,                                                        *)
LEMMA RelocateKept ==
    ASSUME NEW r \in TorrentState, NEW ok
    PROVE  Kept(r, Relocate(r, ok))
<1> DEFINE s == [r EXCEPT !.verify = "none"]
           d == [s EXCEPT !.dirty = TRUE]
           e == [s EXCEPT !.error = TRUE]
<1>1. Kept(r, d) /\ Kept(r, e)
  BY DEF Kept, TorrentState
<1>2. Relocate(r, ok) \in {d, Stop(e)}
  BY DEF Relocate
<1> HIDE DEF d, e
<1>3. Kept(e, Stop(e))
  BY <1>1, StopKept DEF Kept
<1> QED BY <1>1, <1>2, <1>3, KeptTwice

(* the checks and stops that it has put off,                               *)
LEMMA IdleKept ==
    ASSUME NEW r \in TorrentState, NEW gone \in BOOLEAN
    PROVE  Kept(r, Idle(r, gone))
<1> DEFINE s == IF r.check THEN Recheck(r, gone) ELSE r
<1>1. Kept(r, s)
  BY RecheckKept DEF Kept
<1> HIDE DEF s
<1>2. Idle(r, gone) \in {s, Stop(s)}
  BY DEF Idle, s
<1>3. Kept(s, Stop(s))
  BY <1>1, StopKept DEF Kept
<1> QED BY <1>1, <1>2, <1>3, KeptTwice

(* and closing it.                                                         *)
LEMMA ShutdownKept ==
    ASSUME NEW r \in TorrentState
    PROVE  Kept(r, Shutdown(r))
<1> DEFINE s == [r EXCEPT !.dirty = TRUE]
<1>1. Kept(r, s)
  BY DEF Kept, TorrentState
<1> HIDE DEF s
<1>2. Kept(r, StopNow(s))
  BY <1>1, StopNowKept, KeptTwice DEF Kept
<1>3. Kept(StopNow(s), Save(StopNow(s)))
  BY <1>2, SaveKept DEF Kept
<1> QED BY <1>2, <1>3, KeptTwice DEF Shutdown, s

(* What a torrent is asked to be at a shutdown is what its file says.      *)
LEMMA ShutdownSaves ==
    ASSUME NEW r \in TorrentState, MaxSessions # 0
    PROVE  Shutdown(r).resume = [exists |-> TRUE, paused |-> ~r.intent, has |-> r.has]
<1> DEFINE d == [r EXCEPT !.dirty = TRUE]
           s == [d EXCEPT !.running = FALSE, !.stopping = FALSE, !.verify = "none",
                     !.idle = FALSE]
           f == [exists |-> TRUE, paused |-> ~r.intent, has |-> r.has]
           u == IF d.deleting THEN s ELSE Save(s)
<1>1. /\ s \in TorrentState /\ s.dirty = TRUE /\ s.intent = r.intent /\ s.has = r.has
  BY DEF TorrentState
<1>2. StopNow(d) = SetQueued(u, FALSE)
  BY DEF StopNow
<1>3. u \in {s, Save(s)}
  OBVIOUS
<1> HIDE DEF s, u, d
<1> DEFINE v == [s EXCEPT !.dirty = FALSE, !.resume = [exists |-> TRUE, paused |-> ~s.intent, has |-> s.has]]
<1>4. Save(s) = v
  BY <1>1 DEF Save
<1>5. /\ v.resume = f /\ v.intent = r.intent /\ v.has = r.has
  BY <1>1 DEF TorrentState
<1>6. u \in TorrentState /\ u.intent = r.intent /\ u.has = r.has /\ (u.dirty \/ u.resume = f)
  <2>1. Save(s) \in TorrentState
    BY <1>1, SaveKept DEF Kept
  <2> HIDE DEF v
  <2> QED BY <1>1, <1>3, <1>4, <1>5, <2>1
<1> HIDE DEF v, f
<1> DEFINE q == [u EXCEPT !.queued = FALSE, !.dirty = @ \/ u.queued # FALSE]
<1>7. SetQueued(u, FALSE) = q
  BY DEF SetQueued
<1>8. /\ q.intent = r.intent /\ q.has = r.has /\ q.resume = u.resume /\ (u.dirty => q.dirty)
  BY <1>6 DEF TorrentState
<1> HIDE DEF q
<1>9. q.dirty \/ q.resume = f
  BY <1>6, <1>8
<1>10. ASSUME q.dirty PROVE Save(q).resume = f
  BY <1>6, <1>7, <1>8, <1>10, SetQueuedKept DEF Save, f, Kept, TorrentState
<1>11. ASSUME ~q.dirty PROVE Save(q) = q
  BY <1>11 DEF Save
<1>12. Save(q).resume = f
  BY <1>9, <1>10, <1>11
<1> QED BY <1>2, <1>7, <1>12 DEF Shutdown, f, d

(* A torrent that is loaded is a torrent, stored or not as its file says.  *)
LEMMA FreshType ==
    ASSUME NEW stored \in BOOLEAN, NEW meta \in BOOLEAN, NEW resume \in Resume
    PROVE  Fresh(stored, meta, resume) \in TorrentState
           /\ Fresh(stored, meta, resume).stored = stored
BY DEF Fresh, TorrentState, Resume

(* The place of an id that is not in use.                                  *)
LEMMA NoTorrentType == NoTorrent \in TorrentState /\ NoTorrent.stored = FALSE
<1>1. NoResume \in Resume
  BY DEF NoResume, Progress, Resume
<1> QED BY <1>1, FreshType DEF NoTorrent

(* A torrent that is added is stored.                                      *)
LEMMA AddedType ==
    ASSUME NEW kind, NEW intent \in BOOLEAN
    PROVE  Added(kind, intent) \in TorrentState /\ Added(kind, intent).stored = TRUE
<1> DEFINE f == Fresh(TRUE, kind # "magnet", NoResume)
           r == [f EXCEPT !.intent = intent]
           u == [r EXCEPT !.has = "all"]
<1>1. f \in TorrentState /\ f.stored = TRUE
  <2>1. NoResume \in Resume /\ (kind # "magnet") \in BOOLEAN
    BY DEF NoResume, Progress, Resume
  <2> QED BY <2>1, FreshType
<1>2. Added(kind, intent) \in {r, Recheck(u, FALSE)}
  BY DEF Added
<1> HIDE DEF f
<1>3. Kept(f, r) /\ Kept(f, u)
  BY <1>1 DEF Kept, TorrentState, Progress
<1> HIDE DEF r, u
<1>4. Kept(u, Recheck(u, FALSE))
  BY <1>3, RecheckKept DEF Kept
<1> QED BY <1>1, <1>2, <1>3, <1>4 DEF Kept

(* Wanting a torrent to run stores or drops nothing,                       *)
LEMMA IntendKept ==
    ASSUME NEW ts \in [Torrents -> TorrentState], NEW t \in Torrents
    PROVE  /\ Intend(ts, t) \in [Torrents -> TorrentState]
           /\ Kept(ts[t], Intend(ts, t)[t])
<1> DEFINE r == [ts[t] EXCEPT !.intent = TRUE]
<1>1. Kept(ts[t], r)
  BY ZenonT(30) DEF Kept, TorrentState
<1>2. Intend(ts, t) = [ts EXCEPT ![t] = r]
  BY DEF Intend
<1> HIDE DEF r
<1> QED BY <1>1, <1>2 DEF Kept

(* nor does the queue timer, for any torrent.                              *)
LEMMA PulseKept ==
    ASSUME NEW ts \in [Torrents -> TorrentState], NEW dir, NEW gone
    PROVE  /\ Pulse(ts, dir, gone) \in [Torrents -> TorrentState]
           /\ \A t \in Torrents : Kept(ts[t], Pulse(ts, dir, gone)[t])
<1>1. ASSUME NEW t \in Torrents
      PROVE  Kept(ts[t], StartNow(Intend(ts, t), t, TRUE, t \in gone)) /\ Kept(ts[t], ts[t])
  <2> DEFINE us == Intend(ts, t)
             g  == t \in gone
  <2>1. Kept(ts[t], us[t]) /\ g \in BOOLEAN
    BY IntendKept
  <2> HIDE DEF us, g
  <2>2. Kept(us[t], StartNow(us, t, TRUE, g))
    BY <2>1, StartNowKept DEF Kept
  <2>3. Kept(ts[t], StartNow(us, t, TRUE, g))
    BY <2>1, <2>2, KeptTwice
  <2> QED BY <2>3 DEF Kept, us, g
<1>2. Pulse(ts, dir, gone) = ts \/
         \E chosen : Pulse(ts, dir, gone) =
            [t \in Torrents |-> IF t \in chosen THEN StartNow(Intend(ts, t), t, TRUE, t \in gone)
                               ELSE ts[t]]
  BY Zenon DEF Pulse
<1>3. ASSUME NEW chosen, NEW us,
             us = [t \in Torrents |-> IF t \in chosen THEN StartNow(Intend(ts, t), t, TRUE, t \in gone)
                                     ELSE ts[t]]
      PROVE  us \in [Torrents -> TorrentState] /\ \A t \in Torrents : Kept(ts[t], us[t])
  <2>1. \A t \in Torrents : Kept(ts[t], us[t])
    BY <1>1, <1>3
  <2>2. us = [t \in Torrents |-> us[t]]
    BY <1>3
  <2> QED BY <2>1, <2>2 DEF Kept
<1>4. ts \in [Torrents -> TorrentState] /\ \A t \in Torrents : Kept(ts[t], ts[t])
  BY <1>1
<1> QED BY <1>2, <1>3, <1>4

-----------------------------------------------------------------------------
(* The session as a whole.                                                 *)
Remembered == torrents \cup ToSet(toLoad)

TorInv == tor \in [Torrents -> TorrentState]

QueueInv ==
    /\ Sound(queue, Torrents) /\ OneName(queue.file) /\ Written(queue)
    /\ torrents = ToSet(queue.order)

LoadInv ==
    /\ toLoad \in Seq(Torrents) /\ Distinct(toLoad) /\ ToSet(toLoad) \cap torrents = {}
    /\ \A t \in Torrents : tor[t].stored <=> t \in Remembered

WorkInv == work \in Seq(WorkItem) /\ Len(work) <= MaxWork

SessionInv ==
    TorInv /\ QueueInv /\ LoadInv /\ WorkInv /\ sessions \in 0 .. MaxSessions

(* The session's torrents are known ids.                                   *)
LEMMA TorrentsType == ASSUME QueueInv PROVE torrents \subseteq Torrents
BY DEF QueueInv, Sound, Queue, ToSet

(* A step that adds, removes and loads nothing.                            *)
LEMMA SameTorrents ==
    ASSUME SessionInv, UNCHANGED <<torrents, queue, toLoad, sessions>>, WorkInv',
           tor' \in [Torrents -> TorrentState], \A t \in Torrents : Kept(tor[t], tor'[t])
    PROVE  SessionInv'
<1>1. TorInv'
  BY DEF TorInv
<1>2. QueueInv'
  BY DEF SessionInv, QueueInv
<1>3. LoadInv'
  BY DEF SessionInv, LoadInv, Remembered, Kept
<1> QED BY <1>1, <1>2, <1>3 DEF SessionInv

(* An operation on one torrent keeps them all.                             *)
LEMMA OneKept ==
    ASSUME NEW ts \in [Torrents -> TorrentState], NEW t, NEW r, t \in Torrents => Kept(ts[t], r)
    PROVE  /\ [ts EXCEPT ![t] = r] \in [Torrents -> TorrentState]
           /\ \A u \in Torrents : Kept(ts[u], [ts EXCEPT ![t] = r][u])
<1>1. \A u \in Torrents : Kept(ts[u], ts[u])
  BY DEF Kept
<1> QED BY <1>1 DEF Kept

(* Work that is not touched is as it was.                                  *)
LEMMA SameWork == ASSUME WorkInv, work' = work PROVE WorkInv'
BY DEF WorkInv

(* What is posted is work the session thread knows, and there is room for  *)
(* it.                                                                     *)
LEMMA Posted ==
    ASSUME WorkInv, MaxWork \in Nat, Room, NEW op, NEW t \in Torrents, Post(op, t),
           op \in {"start", "stop", "verify", "remove", "move", "movefail", "verified"}
    PROVE  WorkInv'
<1> DEFINE item == [op |-> op, t |-> t]
<1>1. item \in WorkItem
  BY DEF WorkItem
<1>2. work' = Append(work, item)
  BY DEF Post
<1> HIDE DEF item
<1>3. work' \in Seq(WorkItem) /\ Len(work') = Len(work) + 1 /\ Len(work) \in Nat
  BY <1>1, <1>2 DEF WorkInv
<1>4. Len(work) < MaxWork
  BY DEF Room
<1> QED BY <1>3, <1>4 DEF WorkInv

(* A step that changes one torrent and drops its work keeps the session.   *)
LEMMA ChangeKeeps ==
    ASSUME SessionInv, NEW t \in Torrents, NEW r, Change(t, r), Kept(tor[t], r)
    PROVE  SessionInv'
<1>1. tor' = [tor EXCEPT ![t] = r] /\ UNCHANGED <<torrents, queue, work, toLoad, sessions>>
  BY DEF Change
<1>2. WorkInv'
  BY <1>1, SameWork DEF SessionInv
<1>3. tor \in [Torrents -> TorrentState]
  BY DEF SessionInv, TorInv
<1>4. tor' \in [Torrents -> TorrentState] /\ \A u \in Torrents : Kept(tor[u], tor'[u])
  BY <1>1, <1>3, OneKept
<1> QED BY <1>1, <1>2, <1>4, SameTorrents

(* A call, from the session thread or posted to it, keeps the session.     *)
LEMMA CallKeeps ==
    ASSUME SessionInv, MaxWork \in Nat, NEW t \in Torrents, NEW here, NEW op, NEW now,
           Call(t, here, op, now), Kept(tor[t], here), Kept(tor[t], now),
           op \in {"start", "stop", "verify", "move", "movefail"}
    PROVE  SessionInv'
<1>1. UNCHANGED <<torrents, queue, toLoad, sessions>>
      /\ \/ Room /\ tor' = [tor EXCEPT ![t] = here] /\ Post(op, t)
         \/ tor' = [tor EXCEPT ![t] = now] /\ work' = work
  BY DEF Call
<1>2. WorkInv'
  BY <1>1, SameWork, Posted DEF SessionInv
<1>3. tor \in [Torrents -> TorrentState]
  BY DEF SessionInv, TorInv
<1>4. tor' \in [Torrents -> TorrentState] /\ \A u \in Torrents : Kept(tor[u], tor'[u])
  BY <1>1, <1>3, OneKept
<1> QED BY <1>1, <1>2, <1>4, SameTorrents

(* The torrents that are removed, added and loaded.                        *)
LEMMA RemoveKeeps ==
    ASSUME SessionInv, Up, NEW t \in Torrents, tor' = [tor EXCEPT ![t] = NoTorrent],
           torrents' = torrents \ {t}, queue' = QueueRemove(queue, t), WorkInv',
           UNCHANGED <<toLoad, sessions>>
    PROVE  SessionInv'
<1>1. TorInv'
  BY NoTorrentType DEF SessionInv, TorInv
<1>2. QueueInv'
  <2>1. Sound(queue', Torrents)
    BY RemoveKeepsIndex DEF SessionInv, QueueInv, Sound
  <2>2. /\ ToSet(queue'.order) = ToSet(queue.order) \ {t} /\ queue'.file = queue.file
        /\ queue'.dirty \/ queue' = queue
    BY RemoveHolds DEF SessionInv, QueueInv
  <2>3. Written(queue')
    BY <2>2 DEF SessionInv, QueueInv, Written
  <2> QED BY <2>1, <2>2, <2>3 DEF SessionInv, QueueInv
<1>3. LoadInv'
  <2>1. ToSet(toLoad) = {}
    BY DEF Up, ToSet
  <2>2. \A u \in Torrents : tor'[u].stored = IF u = t THEN FALSE ELSE tor[u].stored
    BY NoTorrentType DEF SessionInv, TorInv
  <2> QED BY <2>1, <2>2 DEF SessionInv, LoadInv, Remembered
<1> QED BY <1>1, <1>2, <1>3 DEF SessionInv

(* A torrent that joins the session joins its queue and what is stored.    *)
LEMMA AddKeeps ==
    ASSUME SessionInv, NEW t \in Torrents, t \notin torrents, NEW r \in TorrentState, r.stored = TRUE,
           tor' = [tor EXCEPT ![t] = r], torrents' = torrents \cup {t}, queue' = QueueAdd(queue, t),
           WorkInv', toLoad' \in Seq(Torrents), Distinct(toLoad'), sessions' = sessions,
           ToSet(toLoad') = ToSet(toLoad) \ {t}
    PROVE  SessionInv'
<1>1. TorInv'
  BY DEF SessionInv, TorInv
<1>2. QueueInv'
  <2>1. queue.posOf[t] = NotQueued
    BY Held DEF SessionInv, QueueInv
  <2>2. Sound(queue', Torrents)
    BY <2>1, AddKeepsIndex DEF SessionInv, QueueInv, Sound
  <2>3. ToSet(queue'.order) = ToSet(queue.order) \cup {t} /\ queue'.file = queue.file /\ queue'.dirty = TRUE
    <3>1. Sound(queue, Torrents)
      BY DEF SessionInv, QueueInv
    <3>2. /\ ToSet(QueueAdd(queue, t).order) = ToSet(queue.order) \cup {t}
          /\ QueueAdd(queue, t).file = queue.file /\ QueueAdd(queue, t).dirty = TRUE
      BY ONLY <3>1, t \in Torrents, AddHolds, Zenon
    <3> QED BY <3>2
  <2> QED BY <2>2, <2>3 DEF SessionInv, QueueInv, Written
<1>3. LoadInv'
  <2>1. \A u \in Torrents : tor'[u].stored = IF u = t THEN TRUE ELSE tor[u].stored
    BY DEF SessionInv, TorInv
  <2>2. Remembered' = Remembered \cup {t}
    BY DEF Remembered
  <2> QED BY <2>1, <2>2 DEF SessionInv, LoadInv, Remembered
<1> QED BY <1>1, <1>2, <1>3 DEF SessionInv

(* A move in the queue only reorders what the session has.                 *)
LEMMA MoveKeeps ==
    ASSUME SessionInv, NEW q, UserMove(q), Sound(q, Torrents), Reordered(queue, q)
    PROVE  SessionInv'
<1>1. queue' = q /\ UNCHANGED <<torrents, tor, work, toLoad, sessions>>
  BY DEF UserMove
<1>2. QueueInv'
  <2>1. ToSet(q.order) = ToSet(queue.order) /\ q.file = queue.file /\ (q.dirty \/ q = queue)
    BY DEF Reordered
  <2> QED BY <1>1, <2>1 DEF SessionInv, QueueInv, Written
<1>3. TorInv' /\ LoadInv' /\ WorkInv'
  BY <1>1 DEF SessionInv, TorInv, LoadInv, Remembered, WorkInv
<1> QED BY <1>1, <1>2, <1>3 DEF SessionInv

(* A saved queue is the queue, and its file has its order, under the names *)
(* that the torrents are stored as.                                        *)
LEMMA ToFileSound ==
    ASSUME QueueInv, NEW ts \in [Torrents -> TorrentState]
    PROVE  LET q == ToFile(queue, StoreFilename(ts))
           IN  /\ Sound(q, Torrents) /\ OneName(q.file) /\ Written(q) /\ ~q.dirty
               /\ q.order = queue.order /\ q.file \in Seq(Torrents \X BOOLEAN)
<1>1. queue \in Queue(Torrents) /\ Indexed(queue) /\ queue.order \in Seq(Torrents)
  BY DEF QueueInv, Sound, Queue
<1>2. CASE ~queue.dirty
  <2>1. ToFile(queue, StoreFilename(ts)) = queue
    BY <1>2 DEF ToFile
  <2> QED BY <1>1, <1>2, <2>1 DEF QueueInv, Queue
<1>3. CASE queue.dirty
  <2> DEFINE f == [i \in DOMAIN queue.order |-> StoreFilename(ts)[queue.order[i]]]
             q == [queue EXCEPT !.dirty = FALSE, !.file = f]
  <2>1. ToFile(queue, StoreFilename(ts)) = q
    BY <1>3 DEF ToFile
  <2>2. /\ f \in Seq(Torrents \X BOOLEAN) /\ Len(f) = Len(queue.order)
        /\ \A i \in 1 .. Len(queue.order) : f[i][1] = queue.order[i]
    <3>1. DOMAIN queue.order = 1 .. Len(queue.order) /\ Len(queue.order) \in Nat
      BY <1>1
    <3>2. ASSUME NEW i \in 1 .. Len(queue.order)
          PROVE  f[i] \in Torrents \X BOOLEAN /\ f[i][1] = queue.order[i]
      <4>1. queue.order[i] \in Torrents /\ ts[queue.order[i]].meta \in BOOLEAN
        BY <1>1 DEF TorrentState
      <4> DEFINE t == queue.order[i]
                 b == ts[t].meta
      <4>2. f[i] = <<t, b>>
        BY <3>1, <4>1 DEF StoreFilename
      <4> HIDE DEF t, b, f
      <4>3. t \in Torrents /\ b \in BOOLEAN
        BY <4>1 DEF t, b
      <4>4. <<t, b>> \in Torrents \X BOOLEAN /\ <<t, b>>[1] = t
        BY ONLY <4>3
      <4> QED BY <4>2, <4>4 DEF t
    <3>3. f = [i \in 1 .. Len(queue.order) |-> f[i]]
      BY <3>1
    <3> HIDE DEF f
    <3>4. f \in Seq(Torrents \X BOOLEAN)
      BY <3>1, <3>2, <3>3
    <3>5. Len(f) = Len(queue.order)
      BY <3>1, <3>3, <3>4
    <3> QED BY <3>2, <3>4, <3>5
  <2> HIDE DEF f
  <2>3. /\ q \in Queue(Torrents) /\ q.order = queue.order /\ q.posOf = queue.posOf
        /\ q.file = f /\ q.dirty = FALSE
    BY <1>1, <2>2 DEF Queue
  <2>4. Distinct(queue.order)
    BY <1>1, NoDuplicates DEF Distinct
  <2> HIDE DEF q
  <2>5. OneName(f)
    BY <2>2, <2>4 DEF OneName, Distinct
  <2>6. Sound(q, Torrents) /\ Written(q)
    BY <1>1, <2>2, <2>3 DEF Sound, Indexed, Written
  <2> QED BY <2>1, <2>2, <2>3, <2>5, <2>6
<1> QED BY <1>1, <1>2, <1>3 DEF Queue

(* The files of the torrents that are stored: one of each.                 *)
Stored(ts) == {StoreFilename(ts)[t] : t \in {u \in Torrents : ts[u].stored}}

LEMMA StoredFiles ==
    ASSUME NEW ts \in [Torrents -> TorrentState]
    PROVE  /\ Stored(ts) \in SUBSET (Torrents \X BOOLEAN) /\ IsFiniteSet(Stored(ts))
           /\ \A m, n \in Stored(ts) : m[1] = n[1] => m = n
           /\ NamesOf(Stored(ts)) = {t \in Torrents : ts[t].stored}
<1> DEFINE S == {t \in Torrents : ts[t].stored}
           F == StoreFilename(ts)
<1>1. /\ \A t \in Torrents : F[t] = <<t, ts[t].meta>> /\ ts[t].meta \in BOOLEAN
      /\ Stored(ts) = {F[t] : t \in S}
  BY DEF StoreFilename, Stored, TorrentState
<1>2. IsFiniteSet(S)
  <2>1. IsFiniteSet(Torrents)
    BY LifeAssumption
  <2> QED BY <2>1, FS_Subset
<1> DEFINE g == [t \in S |-> F[t]]
<1>3. g \in Surjection(S, Stored(ts))
  BY <1>1 DEF Surjection
<1>4. S \subseteq Torrents
  OBVIOUS
<1> HIDE DEF S, F, g
<1>5. IsFiniteSet(Stored(ts))
  BY <1>2, <1>3, FS_Surjection
<1>6. ASSUME NEW m \in Stored(ts) PROVE \E t \in S : m = <<t, ts[t].meta>>
  BY <1>1, <1>4
<1>7. \A m, n \in Stored(ts) : m[1] = n[1] => m = n
  BY <1>6
<1>8. Stored(ts) \in SUBSET (Torrents \X BOOLEAN)
  <2>1. ASSUME NEW m \in Stored(ts) PROVE m \in Torrents \X BOOLEAN
    <3>1. PICK t \in S : m = <<t, ts[t].meta>>
      BY <1>6
    <3>2. PICK b : b = ts[t].meta
      OBVIOUS
    <3>3. t \in Torrents /\ b \in BOOLEAN /\ m = <<t, b>>
      BY <1>1, <1>4, <3>1, <3>2
    <3> QED BY ONLY <3>3
  <2> QED BY <2>1
<1>9. NamesOf(Stored(ts)) = S
  <2>1. ASSUME NEW t \in S PROVE \E m \in Stored(ts) : m[1] = t
    BY <1>1, <1>4
  <2> QED BY <1>6, <2>1 DEF NamesOf
<1> QED BY <1>5, <1>7, <1>8, <1>9 DEF S

(* Every torrent that is stored is loaded, once.                           *)
LEMMA LoadOrderTakes ==
    ASSUME NEW ts \in [Torrents -> TorrentState],
           NEW file \in Seq(Torrents \X BOOLEAN), OneName(file)
    PROVE  LET loaded == LoadOrder(file, Stored(ts))
           IN  /\ loaded \in Seq(Torrents) /\ Distinct(loaded)
               /\ ToSet(loaded) = {t \in Torrents : ts[t].stored}
<1>1. Loadable(Torrents, file, Stored(ts))
  BY StoredFiles DEF Loadable
<1> QED BY <1>1, StoredFiles, LoadOrderHolds

(* The next session finds what was stored, first what the file lists.      *)
LEMMA ReopenKeeps ==
    ASSUME SessionInv, NEW ts \in [Torrents -> TorrentState],
           NEW file \in Seq(Torrents \X BOOLEAN), OneName(file), Reopen(ts, file), sessions < MaxSessions, MaxSessions \in Nat,
           MaxWork \in Nat, IsFiniteSet(Torrents)
    PROVE  SessionInv'
<1> DEFINE stored == {t \in Torrents : ts[t].stored}
           loaded == LoadOrder(file, Stored(ts))
<1>1. /\ tor' = [t \in Torrents |-> IF ts[t].stored THEN Fresh(TRUE, ts[t].meta, ts[t].resume)
                                    ELSE NoTorrent]
      /\ toLoad' = loaded /\ queue' = EmptyQueue(Torrents, file)
      /\ torrents' = {} /\ work' = <<>> /\ sessions' = sessions + 1
  BY DEF Reopen, Stored
<1>2. \A t \in Torrents : tor'[t] \in TorrentState /\ tor'[t].stored = ts[t].stored
  <2>1. ASSUME NEW t \in Torrents
        PROVE  tor'[t] \in TorrentState /\ tor'[t].stored = ts[t].stored
    <3>1. ts[t].meta \in BOOLEAN /\ ts[t].resume \in Resume /\ ts[t].stored \in BOOLEAN
      BY DEF TorrentState, Resume
    <3>2. tor'[t] = IF ts[t].stored THEN Fresh(TRUE, ts[t].meta, ts[t].resume) ELSE NoTorrent
      BY <1>1
    <3> QED BY <3>1, <3>2, FreshType, NoTorrentType
  <2> QED BY <2>1
<1>3. TorInv'
  BY <1>1, <1>2 DEF TorInv
<1>4. QueueInv'
  <2>1. Sound(queue', Torrents) /\ queue'.order = <<>> /\ queue'.file = file
    <3> DEFINE e == EmptyQueue(Torrents, file)
    <3>1. /\ e \in Queue(Torrents) /\ e.order = <<>> /\ e.file = file
          /\ DOMAIN e.posOf = Torrents /\ \A t \in Torrents : e.posOf[t] = NotQueued
      BY DEF EmptyQueue, Queue, NotQueued
    <3>2. \A p \in 0 .. Len(<<>>) - 1 : FALSE
      OBVIOUS
    <3> HIDE DEF e
    <3>3. Indexed(e)
      BY <3>1, <3>2 DEF Indexed
    <3>4. queue' = e
      BY <1>1 DEF e
    <3> QED BY <3>1, <3>3, <3>4 DEF Sound
  <2>2. ToSet(<<>>) = {}
    BY DEF ToSet
  <2> QED BY <1>1, <2>1, <2>2 DEF QueueInv, Written
<1>5. LoadInv'
  <2>1. /\ loaded \in Seq(Torrents) /\ Distinct(loaded)
        /\ ToSet(loaded) = stored
    BY LoadOrderTakes
  <2> HIDE DEF loaded
  <2> QED BY <1>1, <1>2, <2>1 DEF LoadInv, Remembered
<1>6. WorkInv'
  <2>1. work' = <<>>
    BY <1>1
  <2> QED BY ONLY <2>1, MaxWork \in Nat DEF WorkInv
<1>7. sessions' \in 0 .. MaxSessions
  <2>1. sessions' = sessions + 1 /\ sessions \in 0 .. MaxSessions
    BY <1>1 DEF SessionInv
  <2> QED BY ONLY <2>1, sessions < MaxSessions, MaxSessions \in Nat
<1> QED BY <1>3, <1>4, <1>5, <1>6, <1>7 DEF SessionInv

-----------------------------------------------------------------------------
(* Every step keeps it.                                                    *)
LEMMA UserKeepsSession ==
    ASSUME SessionInv, UserNext
    PROVE  SessionInv'
<1>0. /\ tor \in [Torrents -> TorrentState] /\ WorkInv /\ MaxWork \in Nat
      /\ \A t \in Torrents : tor[t] \in TorrentState
  BY LifeAssumption DEF SessionInv, TorInv
<1>1. ASSUME NEW t \in Torrents, NEW bypass \in BOOLEAN, UserStart(t, bypass) PROVE SessionInv'
  <2> DEFINE ts == Intend(tor, t)
  <2>1. ts[t] \in TorrentState /\ Kept(tor[t], ts[t])
    BY <1>0, IntendKept DEF Kept
  <2>2. PICK gone \in Gone :
          \/ /\ tor' = [tor EXCEPT ![t] = StartHere(ts, t, bypass, gone)]
             /\ UNCHANGED <<torrents, queue, work, toLoad, sessions>>
          \/ Call(t, StartHere(ts, t, bypass, gone), "start", StartNow(ts, t, bypass, gone))
    BY <1>1 DEF UserStart
  <2> HIDE DEF ts
  <2> DEFINE here == StartHere(ts, t, bypass, gone)
             now  == StartNow(ts, t, bypass, gone)
  <2>3. Kept(ts[t], here) /\ Kept(ts[t], now)
    BY <2>1, StartHereKept, StartNowKept, GoneIsBoolean
  <2>4. Kept(tor[t], here) /\ Kept(tor[t], now)
    BY <2>1, <2>3, KeptTwice
  <2> HIDE DEF here, now
  <2>5. CASE /\ tor' = [tor EXCEPT ![t] = here]
             /\ UNCHANGED <<torrents, queue, work, toLoad, sessions>>
    <3>1. tor' \in [Torrents -> TorrentState] /\ \A u \in Torrents : Kept(tor[u], tor'[u])
      BY <1>0, <2>4, <2>5, OneKept
    <3> QED BY <1>0, <2>5, <3>1, SameWork, SameTorrents
  <2>6. CASE Call(t, here, "start", now)
    BY <1>0, <2>4, <2>6, CallKeeps
  <2> QED BY <2>2, <2>5, <2>6 DEF here, now
<1>2. ASSUME NEW t \in Torrents, UserStop(t) PROVE SessionInv'
  <2> DEFINE here == [tor[t] EXCEPT !.intent = FALSE, !.dirty = TRUE]
             now  == [tor[t] EXCEPT !.stopping = TRUE]
  <2>1. Kept(tor[t], here) /\ Kept(tor[t], now)
    BY <1>0 DEF Kept, TorrentState
  <2>2. Call(t, here, "stop", now)
    BY <1>2 DEF UserStop
  <2> HIDE DEF here, now
  <2> QED BY <1>0, <2>1, <2>2, CallKeeps
<1>3. ASSUME NEW t \in Torrents, UserVerify(t) PROVE SessionInv'
  <2>1. PICK gone \in Gone : Call(t, tor[t], "verify", VerifyNow(tor[t], gone))
    BY <1>3 DEF UserVerify
  <2>2. Kept(tor[t], tor[t]) /\ Kept(tor[t], VerifyNow(tor[t], gone))
    BY <1>0, VerifyNowKept, GoneIsBoolean DEF Kept
  <2> QED BY <1>0, <2>1, <2>2, CallKeeps
<1>4. ASSUME NEW t \in Torrents, UserRelocate(t) PROVE SessionInv'
  <2>1. PICK ok \in BOOLEAN :
          Call(t, tor[t], IF ok THEN "move" ELSE "movefail", Relocate(tor[t], ok))
    BY <1>4 DEF UserRelocate
  <2>2. Kept(tor[t], tor[t]) /\ Kept(tor[t], Relocate(tor[t], ok))
    BY <1>0, RelocateKept DEF Kept
  <2> QED BY <1>0, <2>1, <2>2, CallKeeps
<1>5. ASSUME NEW t \in Torrents, UserRemove(t) PROVE SessionInv'
  <2>1. CASE /\ Room /\ Post("remove", t) /\ tor' = [tor EXCEPT ![t].deleting = TRUE]
             /\ UNCHANGED <<torrents, queue, toLoad, sessions>>
    <3> DEFINE r == [tor[t] EXCEPT !.deleting = TRUE]
    <3>1. Kept(tor[t], r)
      BY <1>0 DEF Kept, TorrentState
    <3>2. tor' = [tor EXCEPT ![t] = r]
      BY <2>1
    <3> HIDE DEF r
    <3>3. tor' \in [Torrents -> TorrentState] /\ \A u \in Torrents : Kept(tor[u], tor'[u])
      BY <1>0, <3>1, <3>2, OneKept
    <3> QED BY <1>0, <2>1, <3>3, Posted, SameTorrents
  <2>2. CASE /\ tor' = [tor EXCEPT ![t] = NoTorrent] /\ torrents' = torrents \ {t}
             /\ queue' = QueueRemove(queue, t) /\ UNCHANGED <<work, toLoad, sessions>>
    BY <1>0, <1>5, <2>2, SameWork, RemoveKeeps DEF UserRemove
  <2> QED BY <1>5, <2>1, <2>2 DEF UserRemove
<1>6. ASSUME NEW t \in Torrents, NEW has \in Progress, UserSetFilesWanted(t, has) PROVE SessionInv'
  <2> DEFINE r == [tor[t] EXCEPT !.has = has, !.dirty = TRUE]
             c == [r EXCEPT !.check = FALSE]
  <2>1. Kept(tor[t], r) /\ Kept(tor[t], c)
    BY <1>0, ZenonT(30) DEF Kept, TorrentState
  <2>2. PICK gone \in Gone :
          \/ Room /\ tor' = [tor EXCEPT ![t] = c] /\ Post("verify", t)
          \/ tor' = [tor EXCEPT ![t] = Recheck(r, gone)] /\ work' = work
    BY <1>6 DEF UserSetFilesWanted
  <2>3. UNCHANGED <<torrents, queue, toLoad, sessions>>
    BY <1>6 DEF UserSetFilesWanted
  <2> HIDE DEF r, c
  <2>4. Kept(tor[t], Recheck(r, gone))
    BY <2>1, RecheckKept, KeptTwice, GoneIsBoolean DEF Kept
  <2>5. tor' \in [Torrents -> TorrentState] /\ \A u \in Torrents : Kept(tor[u], tor'[u])
    BY <1>0, <2>1, <2>2, <2>4, OneKept
  <2>6. WorkInv'
    BY <1>0, <2>2, SameWork, Posted
  <2> QED BY <2>3, <2>5, <2>6, SameTorrents
<1>7. ASSUME NEW t \in Torrents, NEW intent \in BOOLEAN, NEW kind \in Kinds,
             UserAdd(t, intent, kind)
      PROVE  SessionInv'
  <2> DEFINE r    == Added(kind, intent)
             ts   == [tor EXCEPT ![t] = r]
             here == StartHere(ts, t, kind = "magnet", FALSE)
             now  == StartNow(ts, t, kind = "magnet", FALSE)
  <2>1. r \in TorrentState /\ r.stored = TRUE
    BY AddedType
  <2>2. /\ Up /\ t \notin torrents /\ torrents' = torrents \cup {t} /\ queue' = QueueAdd(queue, t)
        /\ UNCHANGED <<toLoad, sessions>>
    BY <1>7 DEF UserAdd
  <2>3. /\ \/ tor' = ts \/ tor' = [ts EXCEPT ![t] = VerifyNow(@, FALSE)]
           \/ tor' = [ts EXCEPT ![t] = here] \/ tor' = [ts EXCEPT ![t] = now]
        /\ work' = work \/ (Room /\ Post("verify", t)) \/ (Room /\ Post("start", t))
    BY <1>7 DEF UserAdd
  <2> HIDE DEF r
  <2>4. ts[t] = r
    BY <1>0
  <2> HIDE DEF ts
  <2>5. Kept(r, r) /\ Kept(r, VerifyNow(r, FALSE)) /\ Kept(r, here) /\ Kept(r, now)
    <3>1. Kept(r, r) /\ Kept(r, VerifyNow(r, FALSE))
      BY <2>1, VerifyNowKept DEF Kept
    <3>2. Kept(ts[t], here) /\ Kept(ts[t], now)
      BY <2>1, <2>4, StartHereKept, StartNowKept
    <3> QED BY <2>4, <3>1, <3>2
  <2> HIDE DEF here, now
  <2>6. \E s : tor' = [tor EXCEPT ![t] = s] /\ s \in TorrentState /\ s.stored = TRUE
    <3>1. PICK s \in {r, VerifyNow(r, FALSE), here, now} : tor' = [ts EXCEPT ![t] = s]
      BY <2>3, <2>4 DEF ts
    <3>2. tor' = [tor EXCEPT ![t] = s]
      BY <1>0, <3>1 DEF ts
    <3> QED BY <2>1, <2>5, <3>1, <3>2 DEF Kept
  <2>7. PICK s : tor' = [tor EXCEPT ![t] = s] /\ s \in TorrentState /\ s.stored = TRUE
    BY <2>6
  <2>8. WorkInv'
    BY <1>0, <2>3, SameWork, Posted
  <2>9. /\ toLoad' \in Seq(Torrents) /\ Distinct(toLoad') /\ ToSet(toLoad') = ToSet(toLoad) \ {t}
    <3>1. ToSet(toLoad) = {} /\ toLoad' = toLoad
      BY <2>2 DEF Up, ToSet
    <3> QED BY <3>1 DEF SessionInv, LoadInv
  <2> QED BY <2>2, <2>7, <2>8, <2>9, AddKeeps
<1>8. ASSUME NEW sel,
             NEW q \in {MoveTop(queue, sel), MoveUp(queue, sel),
                        MoveDown(queue, sel), MoveBottom(queue, sel)}, UserMove(q)
      PROVE  SessionInv'
  <2>1. Sound(queue, Torrents)
    BY DEF SessionInv, QueueInv
  <2>2. Sound(q, Torrents) /\ Reordered(queue, q)
    BY <2>1, MoveTopReorders, MoveBottomReorders, MoveUpReorders, MoveDownReorders
  <2> QED BY <1>8, <2>2, MoveKeeps
<1>9. ASSUME NEW t \in torrents, NEW pos \in 0 .. Len(queue.order),
             UserMove(QueueSetPos(queue, t, pos))
      PROVE  SessionInv'
  <2>1. Sound(queue, Torrents) /\ t \in Torrents /\ pos \in Nat
    BY TorrentsType DEF SessionInv, QueueInv
  <2> DEFINE q == QueueSetPos(queue, t, pos)
  <2>2. Sound(q, Torrents) /\ Reordered(queue, q)
    BY <2>1, SetPosReorders
  <2> HIDE DEF q
  <2>3. UserMove(q)
    BY <1>9 DEF q
  <2> QED BY <2>2, <2>3, MoveKeeps
<1> QED BY <1>1, <1>2, <1>3, <1>4, <1>5, <1>6, <1>7, <1>8, <1>9 DEF UserNext

(* The blocks, the errors and the verification of a torrent keep the       *)
(* session.                                                                *)
LEMMA TorrentKeepsSession ==
    ASSUME SessionInv, NEW t \in Torrents, TorrentNext(t)
    PROVE  SessionInv'
<1>0. tor \in [Torrents -> TorrentState] /\ tor[t] \in TorrentState /\ WorkInv /\ MaxWork \in Nat
  BY LifeAssumption DEF SessionInv, TorInv
<1>1. CASE SeedLimit(t)
  <2>1. Kept(tor[t], [tor[t] EXCEPT !.stopping = TRUE])
    BY <1>0 DEF Kept, TorrentState
  <2> QED BY <1>1, <2>1, ChangeKeeps DEF SeedLimit
<1>2. CASE WriteError(t)
  <2> DEFINE r == [tor[t] EXCEPT !.error = TRUE]
  <2>1. Kept(tor[t], r)
    BY <1>0 DEF Kept, TorrentState
  <2>2. Change(t, Stop(r))
    BY <1>2 DEF WriteError
  <2> HIDE DEF r
  <2>3. Kept(tor[t], Stop(r))
    BY <2>1, StopKept, KeptTwice DEF Kept
  <2> QED BY <2>2, <2>3, ChangeKeeps
<1>3. ASSUME NEW has \in Progress, Receive(t, has) PROVE SessionInv'
  <2>1. Kept(tor[t], [tor[t] EXCEPT !.has = has, !.dirty = TRUE, !.check = TRUE,
                               !.idle = FALSE])
    BY <1>0 DEF Kept, TorrentState
  <2> QED BY <1>3, <2>1, ChangeKeeps DEF Receive
<1>4. ASSUME NEW seed \in BOOLEAN, GetMetainfo(t, seed) PROVE SessionInv'
  <2> DEFINE r  == [tor[t] EXCEPT !.meta = TRUE, !.dirty = TRUE]
             u  == [r EXCEPT !.has = "all"]
             s  == Recheck(u, FALSE)
             ts == [tor EXCEPT ![t] = s]
             v  == [s EXCEPT !.stopping = @ \/ s.running]
             n  == StartNow(ts, t, FALSE, FALSE)
  <2>1. Kept(tor[t], r) /\ Kept(tor[t], u)
    BY <1>0 DEF Kept, TorrentState, Progress
  <2>2. Change(t, IF ~seed THEN VerifyNow(r, FALSE) ELSE IF s.intent THEN n ELSE v)
    BY <1>4 DEF GetMetainfo
  <2> HIDE DEF r, u
  <2>3. Kept(tor[t], s) /\ Kept(tor[t], VerifyNow(r, FALSE))
    BY <2>1, RecheckKept, VerifyNowKept, KeptTwice DEF Kept
  <2> HIDE DEF s
  <2>4. Kept(tor[t], v)
    <3>1. Kept(s, v)
      BY <2>3 DEF Kept, TorrentState
    <3> QED BY <2>3, <3>1, KeptTwice
  <2>5. ts[t] = s
    BY <1>0
  <2> HIDE DEF ts, v
  <2>6. Kept(s, n)
    BY <2>3, <2>5, StartNowKept DEF Kept
  <2> HIDE DEF n
  <2>7. Kept(tor[t], n)
    BY <2>3, <2>6, KeptTwice
  <2>8. PICK x \in {VerifyNow(r, FALSE), n, v} : Change(t, x)
    BY <2>2
  <2> QED BY <2>3, <2>4, <2>7, <2>8, ChangeKeeps
<1>5. CASE VerifyBegin(t)
  <2>1. Kept(tor[t], [tor[t] EXCEPT !.verify = "active"])
    BY <1>0 DEF Kept, TorrentState
  <2> QED BY <1>5, <2>1, ChangeKeeps DEF VerifyBegin
<1>6. CASE VerifyDone(t)
  <2> DEFINE r == [tor[t] EXCEPT !.verify = "none"]
  <2>1. Kept(tor[t], r)
    BY <1>0 DEF Kept, TorrentState
  <2>2. tor' = [tor EXCEPT ![t] = r]
    BY <1>6 DEF VerifyDone
  <2> HIDE DEF r
  <2>3. tor' \in [Torrents -> TorrentState] /\ \A u \in Torrents : Kept(tor[u], tor'[u])
    BY <1>0, <2>1, <2>2, OneKept
  <2>4. WorkInv'
    BY <1>0, <1>6, SameWork, Posted DEF VerifyDone
  <2> QED BY <1>6, <2>3, <2>4, SameTorrents DEF VerifyDone
<1>7. ASSUME NEW has \in Progress, VerifyPiece(t, has) PROVE SessionInv'
  <2>1. Kept(tor[t], [tor[t] EXCEPT !.has = has, !.dirty = TRUE])
    BY <1>0 DEF Kept, TorrentState
  <2> QED BY <1>7, <2>1, ChangeKeeps DEF VerifyPiece
<1>8. CASE GoesIdle(t)
  <2>1. Kept(tor[t], [tor[t] EXCEPT !.idle = TRUE])
    BY <1>0 DEF Kept, TorrentState
  <2> QED BY <1>8, <2>1, ChangeKeeps DEF GoesIdle
<1>9. CASE Transfer(t)
  <2>1. Kept(tor[t], [tor[t] EXCEPT !.idle = FALSE])
    BY <1>0 DEF Kept, TorrentState
  <2> QED BY <1>9, <2>1, ChangeKeeps DEF Transfer
<1> QED BY <1>1, <1>2, <1>3, <1>4, <1>5, <1>6, <1>7, <1>8, <1>9 DEF TorrentNext

(* A step that changes torrents only, each as an operation would, keeps    *)
(* the session.                                                            *)
LEMMA AllKept ==
    ASSUME SessionInv, WorkInv', UNCHANGED <<torrents, queue, toLoad, sessions>>,
           NEW f, tor' = [t \in Torrents |-> f[t]], \A t \in Torrents : Kept(tor[t], f[t])
    PROVE  SessionInv'
<1>1. \A t \in Torrents : Kept(tor[t], tor'[t])
  OBVIOUS
<1>2. tor' = [t \in Torrents |-> tor'[t]]
  OBVIOUS
<1>3. tor' \in [Torrents -> TorrentState]
  BY <1>1, <1>2 DEF Kept
<1> QED BY <1>1, <1>3, SameTorrents

(* Timers, posted work, loading, closing, crashing and reopening keep the  *)
(* session.                                                                *)
LEMMA SessionKeepsSession ==
    ASSUME SessionInv, SessionNext
    PROVE  SessionInv'
<1>0. /\ tor \in [Torrents -> TorrentState] /\ WorkInv /\ QueueInv
      /\ MaxWork \in Nat /\ MaxSessions \in Nat /\ IsFiniteSet(Torrents)
      /\ \A t \in Torrents : tor[t] \in TorrentState
  BY LifeAssumption DEF SessionInv, TorInv
<1>1. CASE RunWork
  <2> DEFINE op == Head(work).op
             t  == Head(work).t
  <2>1. Up /\ work # <<>> /\ work' = Tail(work) /\ UNCHANGED <<toLoad, sessions>>
    BY <1>1 DEF RunWork
  <2>2. WorkInv' /\ t \in Torrents
    <3>1. /\ Tail(work) \in Seq(WorkItem) /\ Head(work) \in WorkItem
          /\ Len(Tail(work)) = Len(work) - 1 /\ Len(work) \in Nat
      BY <1>0, <2>1 DEF WorkInv
    <3> QED BY <1>0, <2>1, <3>1 DEF WorkInv, WorkItem
  <2>3. PICK gone \in Gone :
          /\ tor' = [tor EXCEPT ![t] =
               CASE op = "start"  -> StartInSessionThread(@, gone)
                 [] op = "stop"   -> StopNow(@)
                 [] op = "remove" -> NoTorrent
                 [] op = "verify" /\ t \in torrents /\ ~tor[t].deleting -> VerifyNow(@, gone)
                 [] op = "move"   -> Relocate(@, TRUE)
                 [] op = "movefail" -> Relocate(@, FALSE)
                 [] op = "verified" /\ t \in torrents /\ ~tor[t].deleting -> Verified(tor, t)
                 [] OTHER -> @]
          /\ torrents' = IF op = "remove" THEN torrents \ {t} ELSE torrents
          /\ queue' = IF op = "remove" THEN QueueRemove(queue, t) ELSE queue
    BY <1>1 DEF RunWork
  <2> HIDE DEF op, t
  <2>4. CASE op = "remove"
    <3>1. tor' = [tor EXCEPT ![t] = NoTorrent]
      BY <2>3, <2>4
    <3>2. torrents' = torrents \ {t} /\ queue' = QueueRemove(queue, t)
      BY <2>3, <2>4
    <3> QED BY <2>1, <2>2, <3>1, <3>2, RemoveKeeps
  <2>5. CASE op # "remove"
    <3> DEFINE r == tor[t]
               S == {StartInSessionThread(r, gone), StopNow(r), VerifyNow(r, gone),
                     Relocate(r, TRUE), Relocate(r, FALSE), Verified(tor, t), r}
    <3>1. \E s \in S : tor' = [tor EXCEPT ![t] = s]
      BY <2>3, <2>5
    <3>2. \A s \in S : Kept(r, s)
      <4>1. Kept(r, StartInSessionThread(r, gone)) /\ Kept(r, StopNow(r)) /\ Kept(r, VerifyNow(r, gone))
        BY <1>0, <2>2, StartInSessionThreadKept, StopNowKept, VerifyNowKept, GoneIsBoolean
      <4>2. Kept(r, Relocate(r, TRUE)) /\ Kept(r, Relocate(r, FALSE)) /\ Kept(r, r)
        BY <1>0, <2>2, RelocateKept DEF Kept
      <4>3. Kept(r, Verified(tor, t))
        BY <1>0, <2>2, VerifiedKept
      <4> HIDE DEF r
      <4> QED BY <4>1, <4>2, <4>3
    <3> HIDE DEF S
    <3>3. tor' \in [Torrents -> TorrentState] /\ \A u \in Torrents : Kept(tor[u], tor'[u])
      BY <1>0, <3>1, <3>2, OneKept
    <3> QED BY <2>1, <2>2, <2>3, <2>5, <3>3, SameTorrents
  <2> QED BY <2>4, <2>5
<1>2. CASE QueueTimer
  <2>1. PICK gone \in GoneSets : tor' = Pulse(Pulse(tor, "up", gone), "down", gone)
    BY <1>2 DEF QueueTimer
  <2> DEFINE mid == Pulse(tor, "up", gone)
  <2>2. mid \in [Torrents -> TorrentState] /\ \A t \in Torrents : Kept(tor[t], mid[t])
    BY <1>0, PulseKept
  <2> HIDE DEF mid
  <2>3. tor' \in [Torrents -> TorrentState] /\ \A t \in Torrents : Kept(mid[t], tor'[t])
    BY <2>1, <2>2, PulseKept DEF mid
  <2>4. \A t \in Torrents : Kept(tor[t], tor'[t])
    BY <2>2, <2>3, KeptTwice
  <2> QED BY <1>0, <1>2, <2>3, <2>4, SameWork, SameTorrents DEF QueueTimer
<1>3. CASE IdleWork
  <2>1. PICK gone \in GoneSets :
          tor' = [t \in Torrents |-> IF t \in torrents THEN Idle(tor[t], t \in gone) ELSE tor[t]]
    BY <1>3 DEF IdleWork
  <2> DEFINE f == [t \in Torrents |-> IF t \in torrents THEN Idle(tor[t], t \in gone) ELSE tor[t]]
  <2>2. ASSUME NEW t \in Torrents PROVE Kept(tor[t], f[t])
    <3>1. (t \in gone) \in BOOLEAN
      OBVIOUS
    <3>2. Kept(tor[t], Idle(tor[t], t \in gone)) /\ Kept(tor[t], tor[t])
      BY <1>0, <3>1, IdleKept DEF Kept
    <3> QED BY <3>2
  <2>3. tor' = [t \in Torrents |-> f[t]]
    BY <2>1
  <2> HIDE DEF f
  <2> QED BY <1>0, <1>3, <2>2, <2>3, SameWork, AllKept DEF IdleWork
<1>4. CASE SaveTimer
  <2> DEFINE f == [t \in Torrents |-> IF t \in torrents THEN Save(tor[t]) ELSE tor[t]]
  <2>1. \A t \in Torrents : Kept(tor[t], f[t])
    BY <1>0, SaveKept DEF Kept
  <2>2. tor' = f /\ queue' = ToFile(queue, StoreFilename(tor)) /\ UNCHANGED <<torrents, work, toLoad, sessions>>
    BY <1>4 DEF SaveTimer
  <2>3. f = [t \in Torrents |-> f[t]]
    OBVIOUS
  <2> HIDE DEF f
  <2>4. TorInv'
    BY <2>1, <2>2, <2>3 DEF TorInv, Kept
  <2>5. QueueInv'
    BY <1>0, <2>2, ToFileSound DEF QueueInv
  <2>6. LoadInv'
    BY <2>1, <2>2 DEF SessionInv, LoadInv, Remembered, Kept
  <2> QED BY <1>0, <2>2, <2>4, <2>5, <2>6, SameWork DEF SessionInv
<1>5. CASE LoadTorrent
  <2> DEFINE t  == Head(toLoad)
             in == IF tor[t].resume.exists THEN ~tor[t].resume.paused ELSE TRUE
             r  == [tor[t] EXCEPT !.intent = in]
             ts == [tor EXCEPT ![t].intent = in]
  <2>1. /\ toLoad \in Seq(Torrents) /\ toLoad # <<>> /\ Distinct(toLoad)
        /\ ToSet(toLoad) \cap torrents = {}
    BY <1>5 DEF LoadTorrent, Up, SessionInv, LoadInv
  <2>2. /\ Tail(toLoad) \in Seq(Torrents) /\ Distinct(Tail(toLoad)) /\ t \in Torrents
        /\ t \in ToSet(toLoad) /\ ToSet(Tail(toLoad)) = ToSet(toLoad) \ {t}
    BY <2>1, TailDistinct
  <2>3. /\ toLoad' = Tail(toLoad) /\ torrents' = torrents \cup {t} /\ queue' = QueueAdd(queue, t)
        /\ work' = work /\ sessions' = sessions
    BY <1>5 DEF LoadTorrent
  <2>4. PICK gone \in Gone :
          tor' = [ts EXCEPT ![t] = IF in THEN StartNow(ts, t, ~ts[t].meta, gone)
                                   ELSE [ts[t] EXCEPT !.error = Disappeared(ts[t], gone)]]
    BY <1>5 DEF LoadTorrent
  <2>5. in \in BOOLEAN
    BY <1>0, <2>2 DEF TorrentState
  <2>6. tor[t].stored = TRUE
    BY <2>2, <1>0 DEF SessionInv, LoadInv, Remembered, TorrentState
  <2>7. ts = [tor EXCEPT ![t] = r]
    OBVIOUS
  <2> HIDE DEF t, in
  <2>8. Kept(tor[t], r)
    BY <1>0, <2>2, <2>5, ZenonT(30) DEF Kept, TorrentState
  <2> HIDE DEF r
  <2>9. ts[t] = r
    BY <1>0, <2>2, <2>7
  <2> HIDE DEF ts
  <2> DEFINE n == StartNow(ts, t, ~ts[t].meta, gone)
             e == [r EXCEPT !.error = Disappeared(r, gone)]
  <2>10. Kept(r, n) /\ Kept(r, e)
    <3>1. Kept(ts[t], n)
      BY <2>8, <2>9, StartNowKept, GoneIsBoolean DEF Kept
    <3>2. Disappeared(r, gone) \in BOOLEAN
      BY GoneIsBoolean DEF Disappeared
    <3>3. Kept(r, e)
      <4> HIDE DEF Disappeared
      <4> QED BY <2>8, <3>2 DEF Kept, TorrentState
    <3> QED BY <2>9, <3>1, <3>3
  <2>11. \E s \in {n, e} : tor' = [ts EXCEPT ![t] = s]
    BY <2>4, <2>9
  <2> HIDE DEF n, e
  <2>12. PICK s \in {n, e} : tor' = [tor EXCEPT ![t] = s]
    <3>1. PICK s \in {n, e} : tor' = [ts EXCEPT ![t] = s]
      BY <2>11
    <3>2. [ts EXCEPT ![t] = s] = [tor EXCEPT ![t] = s]
      BY <1>0, <2>2, <2>7
    <3> QED BY <3>1, <3>2
  <2>13. s \in TorrentState /\ s.stored = TRUE
    BY <2>6, <2>8, <2>10, <2>12 DEF Kept
  <2>14. t \notin torrents
    BY <2>1, <2>2
  <2>15. WorkInv'
    BY <1>0, <2>3, SameWork
  <2> QED BY <2>2, <2>3, <2>12, <2>13, <2>14, <2>15, AddKeeps
<1>6. CASE Close
  <2>1. Reopen(Closed(tor), ToFile(queue, StoreFilename(tor)).file) /\ sessions < MaxSessions
    BY <1>6 DEF Close
  <2>2. Closed(tor) \in [Torrents -> TorrentState]
    BY <1>0, ShutdownKept DEF Closed, Kept
  <2> QED BY <1>0, <2>1, <2>2, ToFileSound, ReopenKeeps
<1>7. CASE Crash
  <2>1. Reopen(tor, queue.file) /\ sessions < MaxSessions
    BY <1>7 DEF Crash
  <2>2. queue.file \in Seq(Torrents \X BOOLEAN) /\ OneName(queue.file)
    BY <1>0 DEF QueueInv, Sound, Queue
  <2> QED BY <1>0, <2>1, <2>2, ReopenKeeps
<1> QED BY <1>1, <1>2, <1>3, <1>4, <1>5, <1>6, <1>7 DEF SessionNext

(* A session that starts satisfies the invariant.                          *)
LEMMA SessionInit == Init => SessionInv
<1> SUFFICES ASSUME Init PROVE SessionInv
  OBVIOUS
<1>1. TorInv /\ \A t \in Torrents : tor[t].stored = FALSE
  BY NoTorrentType DEF Init, TorInv
<1>2. QueueInv
  <2> DEFINE e == EmptyQueue(Torrents, <<>>)
  <2>1. /\ e \in Queue(Torrents) /\ e.order = <<>> /\ e.file = <<>>
        /\ DOMAIN e.posOf = Torrents /\ \A t \in Torrents : e.posOf[t] = NotQueued
    BY DEF EmptyQueue, Queue, NotQueued
  <2>2. (\A p \in 0 .. Len(<<>>) - 1 : FALSE) /\ (\A i \in 1 .. Len(<<>>) : FALSE)
    OBVIOUS
  <2> HIDE DEF e
  <2>3. Indexed(e)
    BY <2>1, <2>2 DEF Indexed
  <2>4. ToSet(<<>>) = {}
    BY DEF ToSet
  <2>5. OneName(<<>>)
    BY <2>2 DEF OneName
  <2>6. queue = e /\ torrents = {}
    BY DEF Init, e
  <2> QED BY <2>1, <2>3, <2>4, <2>5, <2>6 DEF QueueInv, Sound, Written
<1>3. LoadInv
  <2>1. toLoad = <<>> /\ torrents = {}
    BY DEF Init
  <2>2. ToSet(<<>>) = {} /\ \A i \in 1 .. Len(<<>>) : FALSE
    BY DEF ToSet
  <2>3. Distinct(<<>>)
    BY <2>2 DEF Distinct
  <2> QED BY <1>1, <2>1, <2>2, <2>3 DEF LoadInv, Remembered
<1>4. WorkInv /\ sessions \in 0 .. MaxSessions
  <2>1. work = <<>> /\ sessions = 0 /\ MaxWork \in Nat /\ MaxSessions \in Nat
    BY LifeAssumption DEF Init
  <2> QED BY ONLY <2>1 DEF WorkInv
<1> QED BY <1>1, <1>2, <1>3, <1>4 DEF SessionInv

(* Every step, from any thread, keeps the invariant.                       *)
LEMMA SessionStep == SessionInv /\ [Next]_vars => SessionInv'
<1>1. ASSUME SessionInv, UNCHANGED vars PROVE SessionInv'
  BY <1>1 DEF vars, SessionInv, TorInv, QueueInv, LoadInv, WorkInv, Remembered
<1> QED BY <1>1, UserKeepsSession, SessionKeepsSession, TorrentKeepsSession DEF Next

(* Whatever is called, from whichever thread, and wherever the session     *)
(* ends or dies, the session's torrents, its queue and what is stored are  *)
(* the same torrents.                                                      *)
THEOREM SessionHolds == Spec => []SessionInv
BY SessionInit, SessionStep, PTL DEF Spec

(* The session's torrents are what its queue holds, each once, at the      *)
(* position its table says.                                                *)
THEOREM QueueIsSound == Spec => []QueueHoldsTorrents
<1>1. SessionInv => QueueHoldsTorrents
  BY DEF SessionInv, QueueInv, Sound, QueueHoldsTorrents
<1> QED BY <1>1, SessionHolds, PTL

(* Types and bounds: no position is beyond the number of torrents.         *)
THEOREM LifeTypes == Spec => []LifeTypeOK
<1>1. ASSUME SessionInv PROVE LifeTypeOK
  <2> DEFINE n == Len(queue.order)
             D == 1 .. n
  <2>0. IsFiniteSet(Torrents)
    BY LifeAssumption
  <2>1. /\ queue.order \in Seq(Torrents) /\ queue.dirty \in BOOLEAN
        /\ queue.file \in Seq(Torrents \X BOOLEAN)
        /\ queue.posOf \in [Torrents -> Int] /\ n \in Nat /\ Indexed(queue)
    BY <1>1 DEF SessionInv, QueueInv, Sound, Queue
  <2>2. Distinct(queue.order)
    BY <1>1, NoDuplicates DEF SessionInv, QueueInv, Sound, Distinct
  <2>3. queue.order \in Injection(D, Torrents)
    <3>1. queue.order \in [D -> Torrents] /\ DOMAIN queue.order = D
      BY <2>1
    <3>2. IsInjective(queue.order)
      BY <2>2, <3>1 DEF IsInjective, Distinct
    <3> QED BY <3>1, <3>2 DEF Injection
  <2>4. Cardinality(D) <= Cardinality(Torrents)
    BY <2>0, <2>3, FS_Injection
  <2>5. Cardinality(D) = n
    <3> HIDE DEF n
    <3>1. Cardinality(1 .. n) = IF 1 > n THEN 0 ELSE n - 1 + 1
      BY <2>1, FS_Interval
    <3> QED BY <2>1, <3>1
  <2>6. Cardinality(Torrents) \in Nat
    BY <2>0, FS_CardinalityType
  <2>7. ASSUME NEW t \in Torrents PROVE queue.posOf[t] \in NotQueued .. Cardinality(Torrents) - 1
    <3>1. queue.posOf[t] = NotQueued \/ queue.posOf[t] \in 0 .. n - 1
      BY <2>1 DEF Indexed
    <3> HIDE DEF n
    <3> QED BY <2>1, <2>4, <2>5, <2>6, <3>1 DEF NotQueued
  <2>8. queue.posOf \in [Torrents -> NotQueued .. Cardinality(Torrents) - 1]
    BY <2>1, <2>7
  <2>9. torrents \subseteq Torrents
    BY <1>1, TorrentsType DEF SessionInv
  <2> QED BY <1>1, <2>1, <2>8, <2>9 DEF SessionInv, TorInv, LoadInv, WorkInv, LifeTypeOK
<1> QED BY <1>1, SessionHolds, PTL


(* A shutdown does not change what a torrent is stored as.                 *)
LEMMA ShutdownMeta ==
    ASSUME NEW r \in TorrentState
    PROVE  Shutdown(r).meta = r.meta
<1>1. ASSUME NEW x \in TorrentState PROVE Save(x) \in TorrentState /\ Save(x).meta = x.meta
  <2> DEFINE f == [exists |-> TRUE, paused |-> ~x.intent, has |-> x.has]
             v == [x EXCEPT !.dirty = FALSE, !.resume = f]
  <2>1. Save(x) \in {x, v}
    BY DEF Save
  <2> HIDE DEF f
  <2>2. v.meta = x.meta
    BY DEF TorrentState
  <2> HIDE DEF v
  <2> QED BY <2>1, <2>2, SaveKept DEF Kept
<1>2. ASSUME NEW x \in TorrentState PROVE SetQueued(x, FALSE).meta = x.meta
  BY DEF SetQueued, TorrentState
<1> DEFINE d == [r EXCEPT !.dirty = TRUE]
           x == [d EXCEPT !.running = FALSE, !.stopping = FALSE, !.verify = "none", !.idle = FALSE]
           u == IF d.deleting THEN x ELSE Save(x)
<1>3. d \in TorrentState /\ x \in TorrentState /\ x.meta = r.meta
  BY DEF TorrentState
<1>4. StopNow(d) = SetQueued(u, FALSE)
  BY DEF StopNow
<1> HIDE DEF x
<1>5. u \in TorrentState /\ u.meta = r.meta
  BY <1>1, <1>3
<1> HIDE DEF u, d
<1>6. StopNow(d) \in TorrentState /\ StopNow(d).meta = r.meta
  BY <1>2, <1>3, <1>4, <1>5, StopNowKept DEF Kept
<1> QED BY <1>1, <1>6 DEF Shutdown, d

(* A session that is closed loads again what it has.                       *)
LEMMA Closing ==
    ASSUME SessionInv, Close
    PROVE  LET ts   == Closed(tor)
               file == ToFile(queue, StoreFilename(tor)).file
           IN  /\ tor \in [Torrents -> TorrentState] /\ ts \in [Torrents -> TorrentState]
               /\ Reopen(ts, file) /\ sessions < MaxSessions
               /\ QueueInv /\ torrents \subseteq Torrents
               /\ \A t \in Torrents : ts[t].stored <=> t \in torrents
               /\ toLoad' = LoadOrder(file, Stored(ts)) /\ queue'.file = file
               /\ \A t \in torrents : ts[t] = Shutdown(tor[t])
<1> DEFINE ts   == Closed(tor)
           file == ToFile(queue, StoreFilename(tor)).file
<1>1. /\ Up /\ sessions < MaxSessions /\ Reopen(ts, file)
      /\ tor \in [Torrents -> TorrentState] /\ torrents \subseteq Torrents /\ QueueInv
  BY TorrentsType DEF Close, SessionInv, TorInv
<1>2. toLoad' = LoadOrder(file, Stored(ts)) /\ queue' = EmptyQueue(Torrents, file)
  BY <1>1 DEF Reopen, Stored
<1>3. \A t \in Torrents : tor[t].stored <=> t \in torrents
  <2>1. ToSet(toLoad) = {}
    BY <1>1 DEF Up, ToSet
  <2> QED BY <2>1 DEF SessionInv, LoadInv, Remembered
<1>4. ts \in [Torrents -> TorrentState] /\ \A t \in Torrents : ts[t].stored = tor[t].stored
  BY <1>1, ShutdownKept DEF Closed, Kept
<1>5. \A t \in torrents : ts[t] = Shutdown(tor[t])
  BY <1>1 DEF Closed
<1> HIDE DEF file, ts
<1>6. queue'.file = file
  BY <1>2 DEF EmptyQueue
<1> QED BY <1>1, <1>2, <1>3, <1>4, <1>5, <1>6 DEF file, ts

(* A session that is closed leaves every torrent's resume file as it is in *)
(* memory, and the next session loads every torrent.                       *)
THEOREM ClosingSavesAll == Spec => CloseSavesAll
<1> DEFINE Saved == Close => /\ ToSet(toLoad') = torrents
                            /\ \A t \in torrents :
                                  tor'[t].resume = [exists |-> TRUE, paused |-> ~tor[t].intent,
                                                    has |-> tor[t].has]
<1>1. ASSUME SessionInv, Close PROVE Saved
  <2> DEFINE file == ToFile(queue, StoreFilename(tor)).file
             ts   == Closed(tor)
  <2>1. /\ tor \in [Torrents -> TorrentState] /\ ts \in [Torrents -> TorrentState]
        /\ Reopen(ts, file) /\ sessions < MaxSessions
        /\ QueueInv /\ torrents \subseteq Torrents
        /\ \A t \in Torrents : ts[t].stored <=> t \in torrents
        /\ toLoad' = LoadOrder(file, Stored(ts))
        /\ \A t \in torrents : ts[t] = Shutdown(tor[t])
    BY <1>1, Closing
  <2>2. file \in Seq(Torrents \X BOOLEAN) /\ OneName(file)
    BY <2>1, ToFileSound
  <2> HIDE DEF file, ts
  <2>3. ToSet(toLoad') = {t \in Torrents : ts[t].stored}
    BY <2>1, <2>2, LoadOrderTakes
  <2>4. ToSet(toLoad') = torrents
    BY <2>1, <2>3
  <2>5. ASSUME NEW t \in torrents
        PROVE  tor'[t].resume = [exists |-> TRUE, paused |-> ~tor[t].intent, has |-> tor[t].has]
    <3>1. t \in Torrents /\ tor[t] \in TorrentState /\ ts[t].stored /\ ts[t] = Shutdown(tor[t])
      BY <2>1, <2>5
    <3>2. tor'[t] = Fresh(TRUE, ts[t].meta, ts[t].resume)
      BY <2>1, <3>1 DEF Reopen
    <3>3. tor'[t].resume = Shutdown(tor[t]).resume
      BY <3>1, <3>2 DEF Fresh
    <3>4. MaxSessions # 0
      BY <1>1, <2>1, LifeAssumption DEF SessionInv
    <3> QED BY <3>1, <3>3, <3>4, ShutdownSaves
  <2> QED BY <2>4, <2>5
<1>2. SessionInv /\ [Next]_vars => [Saved]_vars
  BY <1>1
<1> QED BY <1>2, SessionHolds, PTL DEF CloseSavesAll, Spec

(* The next session loads the torrents in the order of the queue, but for  *)
(* those that are no longer stored under the name the queue was saved      *)
(* with: magnets that got their metainfo since; these come after them.     *)
THEOREM ClosingKeepsOrder == Spec => CloseKeepsOrder
<1> DEFINE Ordered ==
             Close => \A i, j \in DOMAIN queue.order :
                i < j /\ StoreFilename(tor)[queue.order[i]] \in ToSet(queue'.file) =>
                    \E k, l \in DOMAIN toLoad' :
                        k < l /\ toLoad'[k] = queue.order[i] /\ toLoad'[l] = queue.order[j]
<1>1. ASSUME SessionInv, Close PROVE Ordered
  <2> DEFINE file   == ToFile(queue, StoreFilename(tor)).file
             ts     == Closed(tor)
             F      == StoreFilename(tor)
             o      == queue.order
             loaded == LoadOrder(file, Stored(ts))
  <2>1. /\ tor \in [Torrents -> TorrentState] /\ ts \in [Torrents -> TorrentState]
        /\ QueueInv /\ torrents \subseteq Torrents
        /\ \A t \in Torrents : ts[t].stored <=> t \in torrents
        /\ toLoad' = loaded /\ queue'.file = file
        /\ \A t \in torrents : ts[t] = Shutdown(tor[t])
    BY <1>1, Closing
  <2>2. /\ file \in Seq(Torrents \X BOOLEAN) /\ OneName(file)
        /\ o # <<>> => Len(file) = Len(o) /\ \A i \in 1 .. Len(o) : file[i][1] = o[i]
    BY <2>1, ToFileSound DEF Written
  <2>3. o \in Seq(Torrents) /\ DOMAIN o = 1 .. Len(o) /\ Len(o) \in Nat /\ ToSet(o) = torrents
    BY <2>1 DEF QueueInv, Sound, Queue
  <2>4. ASSUME NEW t \in torrents PROVE F[t] \in Stored(ts) /\ F[t][1] = t
    <3>1. t \in Torrents /\ ts[t].stored /\ ts[t].meta = tor[t].meta
      BY <2>1, <2>4, ShutdownMeta
    <3>2. F[t] = <<t, tor[t].meta>> /\ StoreFilename(ts)[t] = <<t, ts[t].meta>>
      BY <3>1 DEF StoreFilename
    <3> QED BY <3>1, <3>2 DEF Stored
  <2> HIDE DEF file, ts, F, o
  <2>5. /\ loaded \in Seq(Torrents)
        /\ \A j, k \in 1 .. Len(file) :
              j < k /\ file[j] \in Stored(ts) /\ file[k] \in Stored(ts)
                 => Before(loaded, file[j][1], file[k][1])
        /\ \A j \in 1 .. Len(file), m \in Stored(ts) \ ToSet(file) :
              file[j] \in Stored(ts) => Before(loaded, file[j][1], m[1])
    <3>1. Loadable(Torrents, file, Stored(ts))
      BY <2>1, <2>2, StoredFiles DEF Loadable
    <3> QED BY <3>1, LoadOrderHolds
  <2> HIDE DEF loaded
  <2>6. ASSUME NEW i \in 1 .. Len(o), F[o[i]] \in ToSet(file)
        PROVE  i \in 1 .. Len(file) /\ file[i] = F[o[i]] /\ file[i] \in Stored(ts) /\ file[i][1] = o[i]
    <3>1. o # <<>> /\ o[i] \in torrents
      BY <2>3, InSet
    <3>2. PICK m \in 1 .. Len(file) : file[m] = F[o[i]]
      BY <2>2, <2>6, InSet
    <3>3. i \in 1 .. Len(file) /\ file[m][1] = file[i][1]
      BY <2>2, <2>4, <3>1, <3>2
    <3>4. m = i
      BY <2>2, <3>3 DEF OneName
    <3> QED BY <2>2, <2>4, <3>1, <3>2, <3>4
  <2>7. ASSUME NEW i \in 1 .. Len(o), NEW j \in 1 .. Len(o), i < j, F[o[i]] \in ToSet(file)
        PROVE  Before(loaded, o[i], o[j])
    <3>1. o[j] \in torrents
      BY <2>3, InSet
    <3>2. F[o[j]] \in Stored(ts) /\ F[o[j]][1] = o[j]
      BY <2>4, <3>1
    <3>3. CASE F[o[j]] \in ToSet(file)
      BY <2>5, <2>6, <2>7, <3>3
    <3>4. CASE F[o[j]] \notin ToSet(file)
      <4>1. F[o[j]] \in Stored(ts) \ ToSet(file)
        BY <3>2, <3>4
      <4>2. i \in 1 .. Len(file) /\ file[i] \in Stored(ts) /\ file[i][1] = o[i]
        BY <2>6, <2>7
      <4>3. Before(loaded, file[i][1], F[o[j]][1])
        BY <2>5, <4>1, <4>2
      <4> QED BY <3>2, <4>2, <4>3
    <3> QED BY <3>3, <3>4
  <2>8. DOMAIN loaded = 1 .. Len(loaded)
    BY <2>5
  <2>9. \A i, j \in DOMAIN o :
           i < j /\ F[o[i]] \in ToSet(file) =>
              \E k, l \in DOMAIN loaded : k < l /\ loaded[k] = o[i] /\ loaded[l] = o[j]
    <3> SUFFICES ASSUME NEW i \in DOMAIN o, NEW j \in DOMAIN o, i < j, F[o[i]] \in ToSet(file)
                 PROVE  \E k, l \in DOMAIN loaded : k < l /\ loaded[k] = o[i] /\ loaded[l] = o[j]
      OBVIOUS
    <3>1. Before(loaded, o[i], o[j])
      BY <2>3, <2>7
    <3> QED BY <2>8, <3>1 DEF Before
  <2> QED BY <2>1, <2>9 DEF o, F
<1>2. SessionInv /\ [Next]_vars => [Ordered]_vars
  BY <1>1
<1> QED BY <1>2, SessionHolds, PTL DEF CloseKeepsOrder, Spec

-----------------------------------------------------------------------------
(* The intent of the user, in memory and in the resume file, when all calls*)
(* come from the session thread.  A resume file that is behind without     *)
(* being marked, and a torrent that is to run and does not, are both       *)
(* waiting for a verification or for the completion that it posted: w says *)
(* that posted work names the torrent.                                     *)
Stale(r) == ~r.dirty /\ r.resume.paused = r.intent /\ ~r.error

Mild(r, w) ==
    /\ ~r.deleting /\ (r.verify # "none" => r.meta) /\ (r.queued /\ ~r.error => r.intent)
    /\ Stale(r) => r.intent /\ ~r.queued /\ ~r.running /\ (r.verify # "none" \/ w)

Will(r, w) ==
    r.intent /\ ~r.error => r.running \/ r.queued \/ r.verify # "none" \/ w

(* What an operation makes of a torrent is as good as it was.              *)
Tame(r, s, w) == Mild(s, w) /\ (Will(r, w) => Will(s, w))

SameFlags(r, s) ==
    /\ s.deleting = r.deleting /\ s.meta = r.meta /\ s.intent = r.intent /\ s.error = r.error

(* Two tame operations are one.                                            *)
LEMMA TameTwice ==
    ASSUME NEW r, NEW s, NEW u, NEW w, Tame(r, s, w), Tame(s, u, w)
    PROVE  Tame(r, u, w)
BY DEF Tame

(* Saving changes no flag.                                                 *)
LEMMA SaveFlags ==
    ASSUME NEW r \in TorrentState
    PROVE  LET s == Save(r)
           IN  /\ SameFlags(r, s) /\ (Stale(s) => Stale(r))
               /\ s.running = r.running /\ s.queued = r.queued /\ s.verify = r.verify
<1> DEFINE f == [exists |-> TRUE, paused |-> ~r.intent, has |-> r.has]
           u == [r EXCEPT !.dirty = FALSE, !.resume = f]
<1>1. Save(r) \in {r, u}
  BY DEF Save
<1>2. f.paused = ~r.intent /\ r.intent \in BOOLEAN
  BY DEF TorrentState
<1> HIDE DEF f
<1>3. /\ SameFlags(r, u) /\ u.resume = f
      /\ u.running = r.running /\ u.queued = r.queued /\ u.verify = r.verify
  BY DEF SameFlags, TorrentState
<1> HIDE DEF u
<1>4. ~Stale(u)
  BY <1>2, <1>3 DEF Stale, SameFlags
<1> QED BY <1>1, <1>3, <1>4 DEF SameFlags

(* Nor does marking it as queued; a resume file that is behind was so      *)
(* before.                                                                 *)
LEMMA SetQueuedFlags ==
    ASSUME NEW r \in TorrentState, NEW on \in BOOLEAN
    PROVE  LET s == SetQueued(r, on)
           IN  /\ SameFlags(r, s) /\ (Stale(s) => Stale(r) /\ on = r.queued)
               /\ s.running = r.running /\ s.queued = on /\ s.verify = r.verify
<1> DEFINE d == r.dirty \/ r.queued # on
           u == [r EXCEPT !.queued = on, !.dirty = d]
<1>1. SetQueued(r, on) = u
  BY DEF SetQueued, TorrentState
<1> HIDE DEF d
<1>2. /\ SameFlags(r, u) /\ u.resume = r.resume /\ u.dirty = d
      /\ u.running = r.running /\ u.queued = on /\ u.verify = r.verify
  BY DEF SameFlags, TorrentState
<1> HIDE DEF u
<1>3. Stale(u) => Stale(r) /\ on = r.queued
  BY <1>2 DEF Stale, SameFlags, d
<1> QED BY <1>1, <1>2, <1>3

(* Nor does stopping it, which leaves it idle and out of the queue.        *)
LEMMA StopNowFlags ==
    ASSUME NEW r \in TorrentState
    PROVE  LET s == StopNow(r)
           IN  /\ SameFlags(r, s) /\ (Stale(s) => Stale(r) /\ ~r.queued)
               /\ s.running = FALSE /\ s.queued = FALSE /\ s.verify = "none"
<1> DEFINE s == [r EXCEPT !.running = FALSE, !.stopping = FALSE, !.verify = "none",
                     !.idle = FALSE]
           u == IF r.deleting THEN s ELSE Save(s)
<1>1. /\ s \in TorrentState /\ SameFlags(r, s) /\ s.queued = r.queued /\ s.dirty = r.dirty
      /\ s.resume = r.resume /\ s.running = FALSE /\ s.verify = "none"
  BY DEF SameFlags, TorrentState
<1>2. StopNow(r) = SetQueued(u, FALSE)
  BY DEF StopNow
<1> HIDE DEF s
<1>3. /\ u \in TorrentState /\ SameFlags(s, u) /\ (Stale(u) => Stale(s))
      /\ u.running = FALSE /\ u.queued = r.queued /\ u.verify = "none"
  BY <1>1, SaveFlags, SaveKept DEF Kept, SameFlags
<1> HIDE DEF u
<1>4. Stale(s) => Stale(r)
  BY <1>1 DEF Stale, SameFlags
<1>5. LET q == SetQueued(u, FALSE)
      IN  /\ SameFlags(u, q) /\ (Stale(q) => Stale(u) /\ FALSE = u.queued)
          /\ q.running = u.running /\ q.queued = FALSE /\ q.verify = u.verify
  BY <1>3, SetQueuedFlags
<1>6. SameFlags(r, SetQueued(u, FALSE))
  BY <1>1, <1>3, <1>5 DEF SameFlags
<1> QED BY <1>2, <1>3, <1>4, <1>5, <1>6

(* A verification that begins honours the intent when it ends,             *)
LEMMA VerifyNowTame ==
    ASSUME NEW r \in TorrentState, NEW gone \in BOOLEAN, NEW w \in BOOLEAN, Mild(r, w)
    PROVE  Tame(r, VerifyNow(r, gone), w)
<1> DEFINE idle == [r EXCEPT !.verify = "none"]
           s    == IF r.running THEN StopNow(idle) ELSE idle
           lost == Disappeared(s, gone)
           e    == s.error \/ lost
           i    == s.intent /\ ~lost
           u    == [s EXCEPT !.error = e, !.intent = i, !.verify = "queued"]
<1>1. /\ idle \in TorrentState /\ SameFlags(r, idle) /\ idle.running = r.running
      /\ idle.queued = r.queued /\ idle.verify = "none"
      /\ idle.dirty = r.dirty /\ idle.resume = r.resume
  BY DEF SameFlags, TorrentState
<1>2. ~r.deleting /\ (~r.meta => r.verify = "none")
  BY DEF Mild
<1>3. VerifyNow(r, gone) = IF ~r.meta THEN idle ELSE u
  BY <1>2 DEF VerifyNow
<1> HIDE DEF idle
<1>4. Stale(idle) <=> Stale(r)
  BY <1>1 DEF Stale, SameFlags
<1>5. ~r.meta => Tame(r, idle, w)
  BY <1>1, <1>2, <1>4 DEF Tame, Mild, Will, SameFlags
<1>6. /\ s \in TorrentState /\ SameFlags(r, s) /\ s.running = FALSE
      /\ (s.queued => r.queued) /\ (Stale(s) => Stale(r))
  <2>1. CASE r.running
    <3>1. /\ StopNow(idle) \in TorrentState
      BY <1>1, StopNowKept DEF Kept
    <3>2. LET x == StopNow(idle)
          IN  /\ SameFlags(idle, x) /\ (Stale(x) => Stale(idle) /\ ~idle.queued)
              /\ x.running = FALSE /\ x.queued = FALSE
      BY <1>1, StopNowFlags
    <3> QED BY <1>1, <1>4, <2>1, <3>1, <3>2 DEF SameFlags
  <2>2. CASE ~r.running
    BY <1>1, <1>4, <2>2 DEF TorrentState
  <2> QED BY <2>1, <2>2
<1> HIDE DEF s
<1>7. /\ u.deleting = s.deleting /\ u.meta = s.meta /\ u.error = e /\ u.intent = i
      /\ u.verify = "queued" /\ u.queued = s.queued /\ u.running = s.running
      /\ u.dirty = s.dirty /\ u.resume = s.resume
  BY <1>6 DEF TorrentState
<1>8. s.error \in BOOLEAN /\ s.intent \in BOOLEAN /\ lost \in BOOLEAN
  BY <1>6 DEF TorrentState, Disappeared
<1> HIDE DEF u, lost
<1>9. Stale(u) => Stale(s) /\ i = s.intent
  BY <1>7, <1>8 DEF Stale
<1>10. r.meta => Tame(r, u, w)
  BY <1>2, <1>6, <1>7, <1>8, <1>9 DEF Tame, Mild, Will, SameFlags
<1> QED BY <1>3, <1>5, <1>10

(* nor does a recheck, which may find the torrent done,                    *)
LEMMA RecheckTame ==
    ASSUME NEW r \in TorrentState, NEW gone \in BOOLEAN, NEW w \in BOOLEAN, Mild(r, w)
    PROVE  Tame(r, Recheck(r, gone), w)
<1> DEFINE s == [r EXCEPT !.check = FALSE]
           c == [s EXCEPT !.done = ~r.done, !.dirty = TRUE]
<1>1. /\ s \in TorrentState /\ SameFlags(r, s) /\ s.running = r.running /\ s.queued = r.queued
      /\ s.verify = r.verify /\ s.dirty = r.dirty /\ s.resume = r.resume
  BY DEF SameFlags, TorrentState
<1>2. /\ c \in TorrentState /\ SameFlags(r, c) /\ c.running = r.running /\ c.queued = r.queued
      /\ c.verify = r.verify /\ c.dirty = TRUE
  <2> DEFINE b == ~r.done
             m == [s EXCEPT !.done = b]
             d == [m EXCEPT !.dirty = TRUE]
  <2>1. b \in BOOLEAN
    OBVIOUS
  <2> HIDE DEF b, s
  <2>2. m \in TorrentState /\ SameFlags(s, m) /\ m.running = s.running /\ m.queued = s.queued
        /\ m.verify = s.verify
    BY ONLY <1>1, <2>1 DEF SameFlags, TorrentState
  <2>3. c = d
    BY <1>1 DEF TorrentState, b
  <2> HIDE DEF m
  <2>4. d \in TorrentState /\ SameFlags(m, d) /\ d.running = m.running /\ d.queued = m.queued
        /\ d.verify = m.verify /\ d.dirty = TRUE
    BY ONLY <2>2 DEF SameFlags, TorrentState
  <2> HIDE DEF c, d
  <2> QED BY <1>1, <2>2, <2>3, <2>4 DEF SameFlags
<1>3. Recheck(r, gone) \in {s, c, Save(c), VerifyNow(s, gone)}
  BY DEF Recheck
<1> HIDE DEF s, c
<1>4. Tame(r, s, w)
  BY <1>1 DEF Tame, Mild, Will, Stale, SameFlags
<1>5. Tame(r, c, w)
  BY <1>2 DEF Tame, Mild, Will, Stale, SameFlags
<1>6. Tame(r, VerifyNow(s, gone), w)
  BY <1>1, <1>4, VerifyNowTame, TameTwice DEF Tame
<1>7. Tame(r, Save(c), w)
  <2>1. LET x == Save(c)
        IN  /\ SameFlags(c, x) /\ (Stale(x) => Stale(c))
            /\ x.running = c.running /\ x.queued = c.queued /\ x.verify = c.verify
    BY <1>2, SaveFlags
  <2>2. ~Stale(c)
    BY <1>2 DEF Stale
  <2> HIDE DEF Stale
  <2> QED BY <1>2, <2>1, <2>2 DEF Tame, Mild, Will, SameFlags
<1> QED BY <1>3, <1>4, <1>5, <1>6, <1>7

(* A start, of what may be started, leaves nothing to be posted for.       *)
Startable(r) ==
    /\ ~r.deleting /\ (r.verify # "none" => r.meta) /\ r.intent
    /\ Stale(r) => ~r.queued /\ ~r.running

(* and a start in the session thread honours it at once.                   *)
LEMMA StartInSessionThreadTame ==
    ASSUME NEW r \in TorrentState, NEW gone \in BOOLEAN, Mild(r, FALSE)
    PROVE  LET s == StartInSessionThread(r, gone)
           IN  Mild(s, FALSE) /\ Will(s, FALSE)
<1> DEFINE c == Recheck(r, gone)
           q == SetQueued(c, FALSE)
           u == [q EXCEPT !.running = TRUE, !.error = FALSE, !.dirty = TRUE, !.idle = FALSE]
<1>1. c \in TorrentState /\ Mild(c, FALSE)
  BY RecheckTame, RecheckKept DEF Kept, Tame
<1>2. StartInSessionThread(r, gone) = u
  BY DEF StartInSessionThread
<1> HIDE DEF c
<1>3. q \in TorrentState /\ SameFlags(c, q) /\ q.queued = FALSE /\ q.verify = c.verify
  BY <1>1, SetQueuedKept, SetQueuedFlags DEF Kept
<1> HIDE DEF q
<1>4. /\ u.deleting = q.deleting /\ u.meta = q.meta /\ u.verify = q.verify /\ u.queued = FALSE
      /\ u.running = TRUE /\ u.dirty = TRUE
  BY <1>3 DEF TorrentState
<1> HIDE DEF u
<1> QED BY <1>1, <1>2, <1>3, <1>4 DEF Mild, Will, Stale, SameFlags

(* So does a start as a whole, by the queue or not.                        *)
LEMMA StartNowTame ==
    ASSUME NEW ts, NEW t, ts[t] \in TorrentState, NEW bypass \in BOOLEAN, NEW gone \in BOOLEAN,
           Startable(ts[t])
    PROVE  LET s == StartNow(ts, t, bypass, gone)
           IN  Mild(s, FALSE) /\ Will(s, FALSE)
<1> DEFINE r == ts[t]
           e == [r EXCEPT !.error = TRUE]
           u == [r EXCEPT !.running = TRUE, !.dirty = TRUE]
           q == SetQueued(r, TRUE)
           h == StartHere(ts, t, bypass, gone)
           A == Activity(r)
<1>1. r \in TorrentState /\ Startable(r)
  OBVIOUS
<1>2. /\ r.verify \in {"none", "queued", "active"} /\ r.running \in BOOLEAN /\ r.queued \in BOOLEAN
      /\ r.error \in BOOLEAN /\ r.intent \in BOOLEAN /\ r.dirty \in BOOLEAN
  BY DEF TorrentState
<1>3. /\ SameFlags(r, u) /\ u.queued = r.queued /\ u.verify = r.verify /\ u.running = TRUE
      /\ u.dirty = TRUE /\ u \in TorrentState
  BY DEF SameFlags, TorrentState
<1>4. /\ e.deleting = r.deleting /\ e.meta = r.meta /\ e.verify = r.verify /\ e.error = TRUE
  BY DEF TorrentState
<1>5. /\ SameFlags(r, q) /\ q.queued = TRUE /\ q.verify = r.verify
      /\ (Stale(q) => Stale(r) /\ TRUE = r.queued)
  BY SetQueuedFlags
<1>6. StartNow(ts, t, bypass, gone) =
        IF Refused(r, bypass) THEN r ELSE IF Queues(ts, t, bypass) THEN q
        ELSE IF Disappeared(r, gone) THEN e ELSE StartInSessionThread(u, gone)
  BY DEF StartNow, Starts, StartHere
<1>7. ASSUME Refused(r, bypass) PROVE Mild(r, FALSE) /\ Will(r, FALSE)
  <2>1. r.running \/ r.queued \/ r.verify # "none"
    BY <1>2, <1>7 DEF Refused, Activity
  <2>2. r.running \/ r.queued => ~Stale(r)
    BY <1>1 DEF Startable
  <2> HIDE DEF r
  <2> QED BY <1>1, <1>2, <2>1, <2>2 DEF Startable, Mild, Will
<1> HIDE DEF r, e, u, q
<1>8. Mild(e, FALSE) /\ Will(e, FALSE)
  BY <1>1, <1>4 DEF Startable, Mild, Will, Stale
<1>9. Mild(q, FALSE) /\ Will(q, FALSE)
  BY <1>1, <1>5 DEF Startable, Mild, Will, SameFlags
<1>10. Mild(u, FALSE)
  BY <1>1, <1>3 DEF Startable, Mild, Stale, SameFlags
<1>11. LET s == StartInSessionThread(u, gone) IN Mild(s, FALSE) /\ Will(s, FALSE)
  BY <1>3, <1>10, StartInSessionThreadTame
<1> QED BY <1>6, <1>7, <1>8, <1>9, <1>11

(* What is sound without posted work is sound with it.                     *)
LEMMA WithWork ==
    ASSUME NEW s, NEW w, Mild(s, FALSE), Will(s, FALSE)
    PROVE  Mild(s, w) /\ Will(s, w)
BY DEF Mild, Will

(* A stop leaves nothing to honour and a resume file that is current or    *)
(* marked.                                                                 *)
LEMMA StopTame ==
    ASSUME NEW r \in TorrentState, ~r.deleting
    PROVE  LET s == Stop(r) IN Mild(s, FALSE) /\ Will(s, FALSE)
<1> DEFINE d == [r EXCEPT !.intent = FALSE, !.dirty = TRUE]
           s == StopNow(d)
<1>1. d \in TorrentState /\ d.deleting = r.deleting /\ d.intent = FALSE /\ d.dirty = TRUE
  BY DEF TorrentState
<1>2. Stop(r) = s
  BY DEF Stop
<1> HIDE DEF d
<1>3. /\ SameFlags(d, s) /\ (Stale(s) => Stale(d) /\ ~d.queued)
      /\ s.running = FALSE /\ s.queued = FALSE /\ s.verify = "none"
  BY <1>1, StopNowFlags
<1> HIDE DEF s
<1> QED BY <1>1, <1>2, <1>3 DEF Mild, Will, Stale, SameFlags

(* A mild torrent that is to run can be started.                           *)
LEMMA MildStarts ==
    ASSUME NEW r, NEW w, Mild(r, w), r.intent
    PROVE  Startable(r)
BY DEF Mild, Startable

(* What differs only in what is neither seen nor saved here.               *)
LEMMA AlikeTame ==
    ASSUME NEW r, NEW s, NEW w, Mild(r, w), SameFlags(r, s), s.running = r.running,
           s.queued = r.queued, s.verify = r.verify, Stale(s) => Stale(r)
    PROVE  Tame(r, s, w)
BY DEF Tame, Mild, Will, SameFlags

(* Saving forgets no intent,                                               *)
LEMMA SaveTame ==
    ASSUME NEW r \in TorrentState, NEW w, Mild(r, w)
    PROVE  Tame(r, Save(r), w)
<1> DEFINE s == Save(r)
<1>1. /\ SameFlags(r, s) /\ (Stale(s) => Stale(r))
      /\ s.running = r.running /\ s.queued = r.queued /\ s.verify = r.verify
  BY SaveFlags
<1> HIDE DEF s
<1> QED BY <1>1, AlikeTame DEF s

(* nor do the checks and stops that it has put off,                        *)
LEMMA IdleTame ==
    ASSUME NEW r \in TorrentState, NEW gone \in BOOLEAN, NEW w \in BOOLEAN, Mild(r, w)
    PROVE  Tame(r, Idle(r, gone), w)
<1> DEFINE s == IF r.check THEN Recheck(r, gone) ELSE r
<1>1. s \in TorrentState /\ Tame(r, s, w)
  BY RecheckTame, RecheckKept DEF Kept, Tame
<1> HIDE DEF s
<1>2. Idle(r, gone) \in {s, Stop(s)}
  BY DEF Idle, s
<1>3. Mild(Stop(s), w) /\ Will(Stop(s), w)
  <2>1. ~s.deleting
    BY <1>1 DEF Tame, Mild
  <2>2. LET x == Stop(s) IN Mild(x, FALSE) /\ Will(x, FALSE)
    BY <1>1, <2>1, StopTame
  <2> QED BY <2>2, WithWork
<1> QED BY <1>1, <1>2, <1>3 DEF Tame

(* but moving the data may, and then leaves the flags consistent all the   *)
(* same.                                                                   *)
LEMMA RelocateMild ==
    ASSUME NEW r \in TorrentState, NEW ok \in BOOLEAN, NEW w, Mild(r, w)
    PROVE  Mild(Relocate(r, ok), w)
<1> DEFINE s == [r EXCEPT !.verify = "none"]
           d == [s EXCEPT !.dirty = TRUE]
           e == [s EXCEPT !.error = TRUE]
<1>1. /\ SameFlags(r, d) /\ d.queued = r.queued /\ d.dirty = TRUE /\ d.verify = "none"
      /\ e \in TorrentState /\ e.deleting = r.deleting
  BY DEF SameFlags, TorrentState
<1>2. Relocate(r, ok) \in {d, Stop(e)}
  BY DEF Relocate
<1> HIDE DEF d, e
<1>3. Mild(d, w)
  BY <1>1 DEF Mild, Stale, SameFlags
<1>4. Mild(Stop(e), w)
  <2>1. LET x == Stop(e) IN Mild(x, FALSE) /\ Will(x, FALSE)
    BY <1>1, StopTame DEF Mild
  <2> QED BY <2>1, WithWork
<1> QED BY <1>2, <1>3, <1>4

(* A completion does all that was waited for.                              *)
LEMMA VerifiedTame ==
    ASSUME NEW ts \in [Torrents -> TorrentState], NEW t \in Torrents, Mild(ts[t], TRUE)
    PROVE  LET s == Verified(ts, t) IN Mild(s, FALSE) /\ Will(s, FALSE)
<1> DEFINE r  == Recheck(ts[t], FALSE)
           us == [ts EXCEPT ![t] = r]
           n  == StartNow(us, t, FALSE, FALSE)
<1>1. r \in TorrentState /\ Mild(r, TRUE)
  BY RecheckKept, RecheckTame DEF Kept, Tame
<1>2. Verified(ts, t) = IF r.intent THEN n ELSE r
  BY DEF Verified
<1> HIDE DEF r
<1>3. us[t] = r
  OBVIOUS
<1> HIDE DEF us
<1>4. ASSUME r.intent PROVE Mild(n, FALSE) /\ Will(n, FALSE)
  BY <1>1, <1>3, <1>4, MildStarts, StartNowTame
<1>5. ASSUME ~r.intent PROVE Mild(r, FALSE) /\ Will(r, FALSE)
  BY <1>1, <1>5 DEF Mild, Will
<1> HIDE DEF n
<1> QED BY <1>2, <1>4, <1>5

(* What is asked to start may be started, unless it runs.                  *)
LEMMA IntendStarts ==
    ASSUME NEW ts \in [Torrents -> TorrentState], NEW t \in Torrents, NEW w, Mild(ts[t], w),
           ~ts[t].running \/ ts[t].queued
    PROVE  Intend(ts, t)[t] \in TorrentState /\ Startable(Intend(ts, t)[t])
<1> DEFINE r == ts[t]
           s == [r EXCEPT !.intent = TRUE]
<1>1. /\ s.deleting = r.deleting /\ s.meta = r.meta /\ s.error = r.error /\ s.intent = TRUE
      /\ s.running = r.running /\ s.queued = r.queued /\ s.verify = r.verify
      /\ s.dirty = r.dirty /\ s.resume = r.resume /\ s \in TorrentState
      /\ r.running \in BOOLEAN /\ r.queued \in BOOLEAN /\ r.error \in BOOLEAN /\ r.intent \in BOOLEAN
  BY ZenonT(30) DEF TorrentState
<1>2. Intend(ts, t) = [ts EXCEPT ![t] = s]
  BY DEF Intend
<1>3. Mild(r, w) /\ (~r.running \/ r.queued)
  OBVIOUS
<1>4. Intend(ts, t)[t] = s
  BY <1>2
<1> HIDE DEF r, s
<1>5. Stale(s) /\ s.queued => Stale(r)
  BY <1>1, <1>3 DEF Mild, Stale
<1>6. ~(Stale(s) /\ s.queued)
  BY <1>1, <1>3, <1>5 DEF Mild
<1>7. Startable(s)
  BY <1>1, <1>3, <1>6 DEF Mild, Startable
<1> QED BY <1>1, <1>4, <1>7

(* The queue timer forgets no intent.                                      *)
LEMMA PulseTame ==
    ASSUME NEW ts \in [Torrents -> TorrentState], NEW dir, NEW gone, NEW t \in Torrents,
           NEW w \in BOOLEAN, Mild(ts[t], w)
    PROVE  Tame(ts[t], Pulse(ts, dir, gone)[t], w)
<1> DEFINE n == StartNow(Intend(ts, t), t, TRUE, t \in gone)
<1>1. Pulse(ts, dir, gone)[t] = ts[t] \/ (ts[t].queued /\ Pulse(ts, dir, gone)[t] = n)
  BY DEF Pulse, First, IsQueued
<1>2. ASSUME ts[t].queued PROVE Mild(n, w) /\ Will(n, w)
  <2>1. Intend(ts, t)[t] \in TorrentState /\ Startable(Intend(ts, t)[t]) /\ (t \in gone) \in BOOLEAN
    BY <1>2, IntendStarts
  <2>2. Mild(n, FALSE) /\ Will(n, FALSE)
    BY <2>1, StartNowTame
  <2> QED BY <2>2, WithWork
<1> HIDE DEF n
<1> QED BY <1>1, <1>2 DEF Tame

(* A torrent that is not in the session is ready to be loaded.             *)
Asleep(r) == ~r.deleting /\ r.verify = "none" /\ ~r.queued /\ r.dirty

(* A torrent that is loaded is idle, and its resume file is to be saved.   *)
LEMMA FreshAsleep ==
    ASSUME NEW stored, NEW meta, NEW resume
    PROVE  Asleep(Fresh(stored, meta, resume))
BY DEF Asleep, Fresh

(* A torrent that is added has the intent it was added with.               *)
LEMMA AddedMild ==
    ASSUME NEW kind, NEW intent \in BOOLEAN
    PROVE  LET r == Added(kind, intent)
           IN  /\ Mild(r, FALSE) /\ r.intent = intent /\ r.running = FALSE
<1> DEFINE f == Fresh(TRUE, kind # "magnet", NoResume)
           r == [f EXCEPT !.intent = intent]
           u == [r EXCEPT !.has = "all"]
           c == Recheck(u, FALSE)
<1>1. f \in TorrentState /\ Asleep(f) /\ f.running = FALSE
  <2>1. NoResume \in Resume /\ (kind # "magnet") \in BOOLEAN
    BY DEF NoResume, Progress, Resume
  <2>2. f.running = FALSE
    BY DEF Fresh
  <2> QED BY <2>1, <2>2, FreshType, FreshAsleep
<1>2. Added(kind, intent) = IF kind = "seed" THEN c ELSE r
  BY DEF Added
<1> HIDE DEF f
<1>3. /\ r.intent = intent /\ r.running = FALSE /\ Asleep(r)
      /\ u \in TorrentState /\ u.intent = intent /\ u.running = FALSE /\ Asleep(u)
  BY <1>1 DEF Asleep, TorrentState, Progress
<1> HIDE DEF r, u
<1>4. Mild(r, FALSE) /\ Mild(u, FALSE)
  BY <1>3 DEF Mild, Asleep, Stale
<1>5. c.intent = intent /\ c.running = FALSE
  <2> DEFINE s == [u EXCEPT !.check = FALSE]
             d == [s EXCEPT !.done = ~u.done, !.dirty = TRUE]
  <2>1. /\ s.intent = intent /\ s.running = FALSE /\ d.intent = intent /\ d.running = FALSE
        /\ d \in TorrentState
    BY <1>3 DEF TorrentState
  <2>2. c \in {s, d, Save(d)}
    BY <1>3 DEF Recheck, VerifiesFirst
  <2> HIDE DEF s, d
  <2>3. Save(d).intent = d.intent /\ Save(d).running = d.running
    BY <2>1, SaveFlags DEF SameFlags
  <2> QED BY <2>1, <2>2, <2>3
<1>6. Mild(c, FALSE)
  BY <1>3, <1>4, RecheckTame DEF Tame
<1> HIDE DEF c
<1> QED BY <1>2, <1>3, <1>4, <1>5, <1>6

-----------------------------------------------------------------------------
(* Every step, again: what it does to what torrents are meant to do.       *)
Named(t) == \E i \in DOMAIN work : work[i].t = t

IntentInv ==
    /\ work \in Seq(Completion)
    /\ \A t \in torrents : Mild(tor[t], Named(t))
    /\ \A t \in Torrents \ torrents : Asleep(tor[t])

Better(t) ==
    /\ t \in torrents' => Mild(tor'[t], Named(t)')
    /\ t \notin torrents' => Asleep(tor'[t])
    /\ Honoured(t) => Honoured(t)' \/ UserRelocate(t)

Improved == work' \in Seq(Completion) /\ \A t \in Torrents : Better(t)

(* The intent of a torrent is honoured, in the words of the invariant,     *)
LEMMA HonouredWill ==
    ASSUME NEW t
    PROVE  Honoured(t) <=> (t \in torrents => Will(tor[t], Named(t)))
BY DEF Honoured, Will, Named

(* and the same after the step.                                            *)
LEMMA HonouredWillNext ==
    ASSUME NEW t
    PROVE  Honoured(t)' <=> (t \in torrents' => Will(tor'[t], Named(t)'))
BY DEF Honoured, Will, Named

(* A step that improves keeps the invariant.                               *)
LEMMA ImprovedKeeps == ASSUME Improved, torrents' \subseteq Torrents PROVE IntentInv'
BY DEF Improved, Better, IntentInv

(* Whether there is work posted for a torrent is yes or no.                *)
LEMMA NamedBoolean == ASSUME NEW t PROVE Named(t) \in BOOLEAN
BY DEF Named

(* A torrent that is not touched is as good as it was,                     *)
LEMMA SameStays ==
    ASSUME IntentInv, NEW t \in Torrents, tor'[t] = tor[t], torrents' = torrents, Named(t)' = Named(t)
    PROVE  Better(t)
BY HonouredWill, HonouredWillNext DEF Better, IntentInv

(* so is one that an operation tames,                                      *)
LEMMA TameStays ==
    ASSUME NEW t \in Torrents, t \in torrents, torrents' = torrents, Named(t)' = Named(t),
           Tame(tor[t], tor'[t], Named(t))
    PROVE  Better(t)
BY HonouredWill, HonouredWillNext DEF Better, Tame

(* one that is settled by a start or a stop,                               *)
LEMMA SettledStays ==
    ASSUME NEW t \in Torrents, t \in torrents', Mild(tor'[t], FALSE), Will(tor'[t], FALSE)
    PROVE  Better(t)
BY WithWork, HonouredWillNext DEF Better

(* and one that has left the session.                                      *)
LEMMA AsleepStays ==
    ASSUME NEW t \in Torrents, t \notin torrents', Asleep(tor'[t])
    PROVE  Better(t)
BY HonouredWillNext DEF Better

(* Without a change of the work, it is posted for the same torrents.       *)
LEMMA SameNamed == ASSUME work' = work, NEW t PROVE Named(t)' = Named(t)
BY DEF Named

(* A step that changes one torrent and posts nothing.                      *)
LEMMA OneImproves ==
    ASSUME IntentInv, tor \in [Torrents -> TorrentState], NEW t \in Torrents, t \in torrents, NEW r,
           tor' = [tor EXCEPT ![t] = r], torrents' = torrents, work' = work,
           Tame(tor[t], r, Named(t))
    PROVE  Improved
<1>1. \A u \in Torrents : Named(u)' = Named(u)
  BY SameNamed
<1>2. Better(t)
  BY <1>1, TameStays
<1>3. ASSUME NEW u \in Torrents, u # t PROVE Better(u)
  BY <1>1, <1>3, SameStays
<1> QED BY <1>2, <1>3 DEF Improved, IntentInv

(* A step that changes one torrent tamely improves.                        *)
LEMMA ChangeImproves ==
    ASSUME IntentInv, SessionInv, NEW t \in Torrents, NEW r, Change(t, r), Tame(tor[t], r, Named(t))
    PROVE  Improved
BY OneImproves DEF Change, SessionInv, TorInv

(* A call from the session thread improves if what it does is tame.        *)
LEMMA CallImproves ==
    ASSUME ~AppThread, IntentInv, SessionInv, NEW t \in Torrents, NEW here, NEW op, NEW now,
           Call(t, here, op, now), t \in torrents => Tame(tor[t], now, Named(t))
    PROVE  Improved
BY OneImproves DEF Call, SessionInv, TorInv

(* So does every call of the user,                                         *)
LEMMA UserImproves ==
    ASSUME ~AppThread, IntentInv, SessionInv, UserNext
    PROVE  Improved
<1>0. /\ tor \in [Torrents -> TorrentState] /\ torrents \subseteq Torrents
      /\ \A t \in Torrents : tor[t] \in TorrentState /\ Named(t) \in BOOLEAN
      /\ \A t \in torrents : Mild(tor[t], Named(t))
  BY TorrentsType, NamedBoolean DEF SessionInv, TorInv, IntentInv
<1>1. ASSUME NEW t \in Torrents, NEW bypass \in BOOLEAN, UserStart(t, bypass) PROVE Improved
  <2> DEFINE ts == Intend(tor, t)
  <2>1. PICK gone \in Gone :
          /\ ~tor[t].running
          /\ Call(t, StartHere(ts, t, bypass, gone), "start", StartNow(ts, t, bypass, gone))
    BY <1>1 DEF UserStart
  <2>2. t \in torrents
    BY <2>1 DEF Call
  <2>3. ts[t] \in TorrentState /\ Startable(ts[t])
    BY <1>0, <2>1, <2>2, IntendStarts
  <2> HIDE DEF ts
  <2> DEFINE now == StartNow(ts, t, bypass, gone)
  <2>4. Mild(now, FALSE) /\ Will(now, FALSE)
    BY <2>3, StartNowTame, GoneIsBoolean
  <2> HIDE DEF now
  <2>5. Tame(tor[t], now, Named(t))
    BY <2>4, WithWork DEF Tame
  <2> QED BY <2>1, <2>5, CallImproves DEF now
<1>2. ASSUME NEW t \in Torrents, UserStop(t) PROVE Improved
  <2> DEFINE now == [tor[t] EXCEPT !.stopping = TRUE]
  <2>1. Call(t, [tor[t] EXCEPT !.intent = FALSE, !.dirty = TRUE], "stop", now)
    BY <1>2 DEF UserStop
  <2>2. /\ SameFlags(tor[t], now) /\ now.running = tor[t].running /\ now.queued = tor[t].queued
        /\ now.verify = tor[t].verify /\ (Stale(now) => Stale(tor[t]))
    BY <1>0 DEF SameFlags, TorrentState, Stale
  <2>3. t \in torrents
    BY <2>1 DEF Call
  <2> HIDE DEF now
  <2>4. Tame(tor[t], now, Named(t))
    BY <1>0, <2>2, <2>3, AlikeTame
  <2> QED BY <2>1, <2>4, CallImproves
<1>3. ASSUME NEW t \in Torrents, UserVerify(t) PROVE Improved
  <2>1. PICK gone \in Gone : Call(t, tor[t], "verify", VerifyNow(tor[t], gone))
    BY <1>3 DEF UserVerify
  <2>2. t \in torrents
    BY <2>1 DEF Call
  <2>3. Tame(tor[t], VerifyNow(tor[t], gone), Named(t))
    BY <1>0, <2>2, VerifyNowTame, GoneIsBoolean
  <2> QED BY <2>1, <2>3, CallImproves
<1>4. ASSUME NEW t \in Torrents, UserRelocate(t) PROVE Improved
  <2>1. PICK ok \in BOOLEAN :
          Call(t, tor[t], IF ok THEN "move" ELSE "movefail", Relocate(tor[t], ok))
    BY <1>4 DEF UserRelocate
  <2>2. /\ t \in torrents /\ tor' = [tor EXCEPT ![t] = Relocate(tor[t], ok)]
        /\ UNCHANGED <<torrents, work>>
    BY <2>1 DEF Call
  <2>3. \A u \in Torrents : Named(u)' = Named(u)
    BY <2>2, SameNamed
  <2>4. Better(t)
    BY <1>0, <1>4, <2>2, <2>3, RelocateMild DEF Better
  <2>5. ASSUME NEW u \in Torrents, u # t PROVE Better(u)
    BY <1>0, <2>2, <2>3, <2>5, SameStays
  <2> QED BY <2>2, <2>4, <2>5 DEF Improved, IntentInv
<1>5. ASSUME NEW t \in Torrents, UserRemove(t) PROVE Improved
  <2>1. tor' = [tor EXCEPT ![t] = NoTorrent] /\ torrents' = torrents \ {t} /\ work' = work
    BY <1>5 DEF UserRemove
  <2>2. Better(t)
    BY <1>0, <2>1, FreshAsleep, AsleepStays DEF NoTorrent
  <2>3. ASSUME NEW u \in Torrents, u # t PROVE Better(u)
    <3>1. tor'[u] = tor[u] /\ (u \in torrents' <=> u \in torrents) /\ Named(u)' = Named(u)
      BY <1>0, <2>1, <2>3, SameNamed
    <3> QED BY <3>1, HonouredWill, HonouredWillNext DEF Better, IntentInv
  <2> QED BY <2>1, <2>2, <2>3 DEF Improved, IntentInv
<1>6. ASSUME NEW t \in Torrents, NEW has \in Progress, UserSetFilesWanted(t, has) PROVE Improved
  <2> DEFINE r == [tor[t] EXCEPT !.has = has, !.dirty = TRUE]
  <2>1. /\ t \in torrents /\ UNCHANGED <<torrents, work>>
        /\ \E gone \in Gone : tor' = [tor EXCEPT ![t] = Recheck(r, gone)]
    BY <1>6 DEF UserSetFilesWanted
  <2>2. PICK gone \in Gone : tor' = [tor EXCEPT ![t] = Recheck(r, gone)]
    BY <2>1
  <2>3. /\ r \in TorrentState /\ SameFlags(tor[t], r) /\ r.running = tor[t].running
        /\ r.queued = tor[t].queued /\ r.verify = tor[t].verify /\ ~Stale(r)
    BY <1>0, ZenonT(30) DEF SameFlags, TorrentState, Stale
  <2> HIDE DEF r
  <2>4. Tame(tor[t], r, Named(t))
    BY <1>0, <2>1, <2>3, AlikeTame
  <2>5. Tame(r, Recheck(r, gone), Named(t))
    BY <1>0, <2>3, <2>4, RecheckTame, GoneIsBoolean DEF Tame
  <2>6. Tame(tor[t], Recheck(r, gone), Named(t))
    BY <2>4, <2>5, TameTwice
  <2> QED BY <1>0, <2>1, <2>2, <2>6, OneImproves
<1>7. ASSUME NEW t \in Torrents, NEW intent \in BOOLEAN, NEW kind \in Kinds,
             UserAdd(t, intent, kind)
      PROVE  Improved
  <2> DEFINE r   == Added(kind, intent)
             ts  == [tor EXCEPT ![t] = r]
             v   == VerifyNow(r, FALSE)
             now == StartNow(ts, t, kind = "magnet", FALSE)
  <2>1. t \notin torrents /\ torrents' = torrents \cup {t} /\ work' = work
    BY <1>7 DEF UserAdd
  <2>2. r \in TorrentState /\ Mild(r, FALSE) /\ r.intent = intent /\ r.running = FALSE
    BY AddedType, AddedMild
  <2>3. \/ kind = "files" /\ tor' = [ts EXCEPT ![t] = v]
        \/ ~intent /\ tor' = ts
        \/ intent /\ tor' = [ts EXCEPT ![t] = now]
    BY <1>0, <1>7 DEF UserAdd
  <2>4. kind = "files" => r.meta = TRUE
    BY DEF Added, Fresh
  <2> HIDE DEF r
  <2>5. ts[t] = r
    BY <1>0
  <2>6. ASSUME kind = "files" PROVE Mild(v, FALSE) /\ Will(v, FALSE)
    <3>1. Mild(v, FALSE)
      BY <2>2, VerifyNowTame DEF Tame
    <3>2. ~r.deleting
      BY <2>2 DEF Mild
    <3>3. v = [[r EXCEPT !.verify = "none"] EXCEPT
                 !.error = @ \/ Disappeared([r EXCEPT !.verify = "none"], FALSE),
                 !.intent = @ /\ ~Disappeared([r EXCEPT !.verify = "none"], FALSE),
                 !.verify = "queued"]
      BY <2>2, <2>4, <2>6, <3>2 DEF VerifyNow
    <3>4. v.verify = "queued"
      BY <2>2, <3>3 DEF TorrentState
    <3> QED BY <3>1, <3>4 DEF Will
  <2>7. ASSUME ~intent PROVE Will(r, FALSE)
    BY <2>2, <2>7 DEF Will
  <2>8. ASSUME intent PROVE Mild(now, FALSE) /\ Will(now, FALSE)
    <3>1. Startable(ts[t]) /\ ts[t] \in TorrentState
      BY <2>2, <2>5, <2>8, MildStarts
    <3> HIDE DEF ts
    <3> QED BY <3>1, StartNowTame
  <2> HIDE DEF now, v
  <2>9. Mild(tor'[t], FALSE) /\ Will(tor'[t], FALSE)
    BY <1>0, <2>2, <2>3, <2>6, <2>7, <2>8
  <2>10. ASSUME NEW u \in Torrents, u # t PROVE Better(u)
    <3>1. tor'[u] = tor[u] /\ (u \in torrents' <=> u \in torrents) /\ Named(u)' = Named(u)
      BY <1>0, <2>1, <2>3, <2>10, SameNamed
    <3> QED BY <3>1, HonouredWill, HonouredWillNext DEF Better, IntentInv
  <2>11. Better(t)
    BY <2>1, <2>9, SettledStays
  <2> QED BY <2>1, <2>10, <2>11 DEF Improved, IntentInv
<1>8. ASSUME NEW q, UserMove(q) PROVE Improved
  <2>1. UNCHANGED <<torrents, tor, work>>
    BY <1>8 DEF UserMove
  <2>2. \A u \in Torrents : Better(u)
    BY <2>1, SameNamed, SameStays
  <2> QED BY <2>1, <2>2 DEF Improved, IntentInv
<1> QED BY <1>1, <1>2, <1>3, <1>4, <1>5, <1>6, <1>7, <1>8 DEF UserNext

(* so do the blocks, the errors and the verification of a torrent,         *)
LEMMA TorrentImproves ==
    ASSUME IntentInv, SessionInv, NEW t \in Torrents, TorrentNext(t)
    PROVE  Improved
<1>0. /\ tor \in [Torrents -> TorrentState] /\ tor[t] \in TorrentState /\ Named(t) \in BOOLEAN
      /\ t \in torrents => Mild(tor[t], Named(t))
  BY NamedBoolean DEF SessionInv, TorInv, IntentInv
<1>1. CASE SeedLimit(t)
  <2> DEFINE r == [tor[t] EXCEPT !.stopping = TRUE]
  <2>1. Change(t, r) /\ t \in torrents
    BY <1>1 DEF SeedLimit, Change
  <2>2. /\ SameFlags(tor[t], r) /\ r.running = tor[t].running /\ r.queued = tor[t].queued
        /\ r.verify = tor[t].verify /\ (Stale(r) => Stale(tor[t]))
    BY <1>0 DEF SameFlags, TorrentState, Stale
  <2> HIDE DEF r
  <2>3. Tame(tor[t], r, Named(t))
    BY <1>0, <2>1, <2>2, AlikeTame
  <2> QED BY <2>1, <2>3, ChangeImproves
<1>2. CASE WriteError(t)
  <2> DEFINE r == [tor[t] EXCEPT !.error = TRUE]
  <2>1. Change(t, Stop(r)) /\ t \in torrents
    BY <1>2 DEF WriteError, Change
  <2>2. r \in TorrentState /\ ~r.deleting
    BY <1>0, <2>1 DEF TorrentState, Mild
  <2> HIDE DEF r
  <2>3. Tame(tor[t], Stop(r), Named(t))
    <3>1. LET x == Stop(r) IN Mild(x, FALSE) /\ Will(x, FALSE)
      BY <2>2, StopTame
    <3> QED BY <3>1, WithWork DEF Tame
  <2> QED BY <2>1, <2>3, ChangeImproves
<1>3. ASSUME NEW has \in Progress, Receive(t, has) PROVE Improved
  <2> DEFINE r == [tor[t] EXCEPT !.has = has, !.dirty = TRUE, !.check = TRUE,
                               !.idle = FALSE]
  <2>1. Change(t, r) /\ t \in torrents
    BY <1>3 DEF Receive, Change
  <2>2. /\ SameFlags(tor[t], r) /\ r.running = tor[t].running /\ r.queued = tor[t].queued
        /\ r.verify = tor[t].verify /\ ~Stale(r)
    BY <1>0 DEF SameFlags, TorrentState, Stale
  <2> HIDE DEF r
  <2>3. Tame(tor[t], r, Named(t))
    BY <1>0, <2>1, <2>2, AlikeTame
  <2> QED BY <2>1, <2>3, ChangeImproves
<1>4. ASSUME NEW seed \in BOOLEAN, GetMetainfo(t, seed) PROVE Improved
  <2> DEFINE w  == Named(t)
             r  == [tor[t] EXCEPT !.meta = TRUE, !.dirty = TRUE]
             u  == [r EXCEPT !.has = "all"]
             s  == Recheck(u, FALSE)
             ts == [tor EXCEPT ![t] = s]
             v  == [s EXCEPT !.stopping = @ \/ s.running]
             n  == StartNow(ts, t, FALSE, FALSE)
  <2>1. Change(t, IF ~seed THEN VerifyNow(r, FALSE) ELSE IF s.intent THEN n ELSE v)
        /\ t \in torrents
    BY <1>4 DEF GetMetainfo, Change
  <2>2. r \in TorrentState /\ u \in TorrentState /\ Tame(tor[t], r, w) /\ Tame(tor[t], u, w)
    <3>1. /\ r \in TorrentState /\ r.meta = TRUE /\ ~Stale(r)
          /\ r.running = tor[t].running /\ r.queued = tor[t].queued /\ r.verify = tor[t].verify
          /\ r.deleting = tor[t].deleting /\ r.intent = tor[t].intent /\ r.error = tor[t].error
      BY <1>0 DEF TorrentState, Stale
    <3>2. /\ u \in TorrentState /\ u.meta = TRUE /\ ~Stale(u)
          /\ u.running = tor[t].running /\ u.queued = tor[t].queued /\ u.verify = tor[t].verify
          /\ u.deleting = tor[t].deleting /\ u.intent = tor[t].intent /\ u.error = tor[t].error
      BY <1>0 DEF TorrentState, Progress, Stale
    <3> HIDE DEF r, u
    <3> QED BY <1>0, <2>1, <3>1, <3>2 DEF Tame, Mild, Will
  <2> HIDE DEF r, u
  <2>3. s \in TorrentState /\ Tame(tor[t], s, w)
    <3>1. s \in TorrentState
      BY <2>2, RecheckKept DEF Kept
    <3>2. Tame(u, s, w)
      BY <1>0, <2>2, RecheckTame DEF Tame
    <3> QED BY <2>2, <3>1, <3>2, TameTwice
  <2> HIDE DEF s
  <2>4. Tame(tor[t], VerifyNow(r, FALSE), w)
    <3>1. Tame(r, VerifyNow(r, FALSE), w)
      BY <1>0, <2>2, VerifyNowTame DEF Tame
    <3> QED BY <2>2, <3>1, TameTwice
  <2>5. Tame(tor[t], v, w)
    <3>1. /\ SameFlags(s, v) /\ v.running = s.running /\ v.queued = s.queued
          /\ v.verify = s.verify /\ (Stale(v) => Stale(s))
      BY <2>3 DEF SameFlags, TorrentState, Stale
    <3>2. Mild(s, w)
      BY <2>3 DEF Tame
    <3> HIDE DEF v
    <3>3. Tame(s, v, w)
      BY <3>1, <3>2, AlikeTame
    <3> QED BY <2>3, <3>3, TameTwice
  <2>6. ts[t] = s
    BY <1>0
  <2> HIDE DEF ts, v
  <2>7. ASSUME s.intent PROVE Tame(tor[t], n, w)
    <3>1. Startable(ts[t]) /\ ts[t] \in TorrentState
      BY <2>3, <2>6, <2>7, MildStarts DEF Tame
    <3>2. Mild(n, FALSE) /\ Will(n, FALSE)
      BY <3>1, StartNowTame
    <3> QED BY <3>2, WithWork DEF Tame
  <2> HIDE DEF n
  <2> QED BY <2>1, <2>4, <2>5, <2>7, ChangeImproves
<1>5. CASE VerifyBegin(t)
  <2> DEFINE r == [tor[t] EXCEPT !.verify = "active"]
  <2>1. Change(t, r) /\ t \in torrents /\ tor[t].verify = "queued"
    BY <1>5 DEF VerifyBegin, Change
  <2>2. /\ SameFlags(tor[t], r) /\ r.running = tor[t].running /\ r.queued = tor[t].queued
        /\ r.verify = "active" /\ (Stale(r) => Stale(tor[t]))
    BY <1>0 DEF SameFlags, TorrentState, Stale
  <2> HIDE DEF r
  <2>3. Tame(tor[t], r, Named(t))
    BY <1>0, <2>1, <2>2 DEF Tame, Mild, Will, SameFlags
  <2> QED BY <2>1, <2>3, ChangeImproves
<1>6. CASE VerifyDone(t)
  <2> DEFINE r    == [tor[t] EXCEPT !.verify = "none"]
             item == [op |-> "verified", t |-> t]
  <2>1. t \in torrents /\ torrents' = torrents /\ tor' = [tor EXCEPT ![t] = r]
        /\ tor[t].verify = "active"
    BY <1>6 DEF VerifyDone
  <2>2. ~tor[t].deleting
    BY <1>0, <2>1 DEF Mild
  <2>3. work' = Append(work, item) /\ work \in Seq(Completion)
    BY <1>6, <2>2 DEF VerifyDone, Post, IntentInv
  <2>4. item \in Completion /\ item.t = t
    BY DEF Completion
  <2> HIDE DEF item
  <2>5. /\ work' \in Seq(Completion) /\ Len(work) \in Nat
        /\ DOMAIN work' = 1 .. Len(work) + 1 /\ DOMAIN work = 1 .. Len(work)
        /\ work'[Len(work) + 1] = item /\ \A i \in 1 .. Len(work) : work'[i] = work[i]
    BY <2>3, <2>4
  <2>6. Named(t)' /\ \A u \in Torrents : u # t => Named(u)' = Named(u)
    BY <2>4, <2>5 DEF Named
  <2>7. /\ SameFlags(tor[t], r) /\ r.running = tor[t].running /\ r.queued = tor[t].queued
        /\ r.verify = "none" /\ (Stale(r) => Stale(tor[t]))
    BY <1>0 DEF SameFlags, TorrentState, Stale
  <2>8. tor'[t] = r
    BY <1>0, <2>1
  <2> HIDE DEF r
  <2>9. Mild(r, TRUE) /\ Will(r, TRUE)
    BY <1>0, <2>1, <2>7 DEF Mild, Will, SameFlags
  <2>10. Better(t)
    BY <2>1, <2>6, <2>8, <2>9, HonouredWillNext DEF Better
  <2>11. ASSUME NEW u \in Torrents, u # t PROVE Better(u)
    BY <1>0, <2>1, <2>6, <2>11, SameStays
  <2> QED BY <2>5, <2>10, <2>11 DEF Improved
<1>7. ASSUME NEW has \in Progress, VerifyPiece(t, has) PROVE Improved
  <2> DEFINE r == [tor[t] EXCEPT !.has = has, !.dirty = TRUE]
  <2>1. Change(t, r) /\ t \in torrents
    BY <1>7 DEF VerifyPiece, Change
  <2>2. /\ SameFlags(tor[t], r) /\ r.running = tor[t].running /\ r.queued = tor[t].queued
        /\ r.verify = tor[t].verify /\ ~Stale(r)
    BY <1>0 DEF SameFlags, TorrentState, Stale
  <2> HIDE DEF r
  <2>3. Tame(tor[t], r, Named(t))
    BY <1>0, <2>1, <2>2, AlikeTame
  <2> QED BY <2>1, <2>3, ChangeImproves
<1>8. CASE GoesIdle(t)
  <2> DEFINE r == [tor[t] EXCEPT !.idle = TRUE]
  <2>1. Change(t, r) /\ t \in torrents
    BY <1>8 DEF GoesIdle, Change
  <2>2. /\ SameFlags(tor[t], r) /\ r.running = tor[t].running /\ r.queued = tor[t].queued
        /\ r.verify = tor[t].verify /\ (Stale(r) => Stale(tor[t]))
    BY <1>0 DEF SameFlags, TorrentState, Stale
  <2> HIDE DEF r
  <2>3. Tame(tor[t], r, Named(t))
    BY <1>0, <2>1, <2>2, AlikeTame
  <2> QED BY <2>1, <2>3, ChangeImproves
<1>9. CASE Transfer(t)
  <2> DEFINE r == [tor[t] EXCEPT !.idle = FALSE]
  <2>1. Change(t, r) /\ t \in torrents
    BY <1>9 DEF Transfer, Change
  <2>2. /\ SameFlags(tor[t], r) /\ r.running = tor[t].running /\ r.queued = tor[t].queued
        /\ r.verify = tor[t].verify /\ (Stale(r) => Stale(tor[t]))
    BY <1>0 DEF SameFlags, TorrentState, Stale
  <2> HIDE DEF r
  <2>3. Tame(tor[t], r, Named(t))
    BY <1>0, <2>1, <2>2, AlikeTame
  <2> QED BY <2>1, <2>3, ChangeImproves
<1> QED BY <1>1, <1>2, <1>3, <1>4, <1>5, <1>6, <1>7, <1>8, <1>9 DEF TorrentNext

(* everything the session does,                                            *)
LEMMA SessionImproves ==
    ASSUME IntentInv, SessionInv, SessionNext
    PROVE  Improved
<1>0. /\ tor \in [Torrents -> TorrentState] /\ torrents \subseteq Torrents
      /\ \A t \in Torrents : tor[t] \in TorrentState /\ Named(t) \in BOOLEAN
      /\ \A t \in torrents : Mild(tor[t], Named(t))
      /\ work \in Seq(Completion)
  BY TorrentsType, NamedBoolean DEF SessionInv, TorInv, IntentInv
<1>1. CASE RunWork
  <2> DEFINE op == Head(work).op
             t  == Head(work).t
             s  == Verified(tor, t)
  <2>1. work # <<>> /\ work' = Tail(work)
    BY <1>1 DEF RunWork
  <2>2. /\ Head(work) \in Completion /\ Tail(work) \in Seq(Completion) /\ Head(work) = work[1]
        /\ Len(work) \in Nat /\ Len(work) > 0
        /\ DOMAIN work = 1 .. Len(work) /\ DOMAIN Tail(work) = 1 .. Len(work) - 1
        /\ \A i \in 1 .. Len(work) - 1 : Tail(work)[i] = work[i + 1]
    BY <1>0, <2>1
  <2>3. op = "verified" /\ t \in Torrents
    BY <2>2 DEF Completion
  <2>4. /\ torrents' = torrents
        /\ tor' = [tor EXCEPT ![t] = IF t \in torrents /\ ~tor[t].deleting THEN s ELSE @]
    BY <1>1, <2>3 DEF RunWork
  <2>5. Named(t) /\ \A u \in Torrents : u # t => Named(u)' = Named(u)
    <3>1. Named(t)
      BY <2>2 DEF Named
    <3>2. ASSUME NEW u \in Torrents, u # t PROVE Named(u)' = Named(u)
      <4> HIDE DEF t, op, s
      <4>0. t = work[1].t
        BY <2>2 DEF t
      <4>1. ASSUME Named(u)' PROVE Named(u)
        <5>1. PICK i \in 1 .. Len(work) - 1 : Tail(work)[i].t = u
          BY <2>1, <2>2, <4>1 DEF Named
        <5>2. i + 1 \in 1 .. Len(work) /\ work[i + 1].t = u
          BY <2>2, <5>1
        <5> QED BY <2>2, <5>2 DEF Named
      <4>2. ASSUME Named(u) PROVE Named(u)'
        <5>1. PICK i \in 1 .. Len(work) : work[i].t = u
          BY <2>2, <4>2 DEF Named
        <5>2. i # 1
          BY <3>2, <4>0, <5>1
        <5>3. i - 1 \in 1 .. Len(work) - 1 /\ Tail(work)[i - 1].t = u
          BY <2>2, <5>1, <5>2
        <5> QED BY <2>1, <2>2, <5>3 DEF Named
      <4> QED BY <4>1, <4>2 DEF Named
    <3> QED BY <3>1, <3>2
  <2> HIDE DEF t, op
  <2>6. Better(t)
    <3>1. CASE t \in torrents
      <4>1. Mild(tor[t], TRUE) /\ ~tor[t].deleting
        BY <1>0, <2>5, <3>1 DEF Mild
      <4>2. Mild(s, FALSE) /\ Will(s, FALSE)
        BY <1>0, <2>3, <4>1, VerifiedTame
      <4>3. tor'[t] = s
        BY <1>0, <2>3, <2>4, <3>1, <4>1
      <4> HIDE DEF s
      <4> QED BY <2>3, <2>4, <3>1, <4>2, <4>3, SettledStays
    <3>2. CASE t \notin torrents
      <4>1. tor'[t] = tor[t]
        BY <1>0, <2>3, <2>4, <3>2
      <4> QED BY <2>3, <2>4, <3>2, <4>1, AsleepStays DEF IntentInv
    <3> QED BY <3>1, <3>2
  <2>7. ASSUME NEW u \in Torrents, u # t PROVE Better(u)
    BY <1>0, <2>4, <2>5, <2>7, SameStays
  <2> QED BY <2>1, <2>2, <2>6, <2>7 DEF Improved
<1>2. CASE QueueTimer
  <2>1. PICK gone \in GoneSets : tor' = Pulse(Pulse(tor, "up", gone), "down", gone)
    BY <1>2 DEF QueueTimer
  <2>2. UNCHANGED <<torrents, work>>
    BY <1>2 DEF QueueTimer
  <2> DEFINE mid == Pulse(tor, "up", gone)
  <2>3. mid \in [Torrents -> TorrentState]
    BY <1>0, PulseKept
  <2>4. ASSUME NEW t \in Torrents PROVE Better(t)
    <3>1. Named(t)' = Named(t)
      BY <2>2, SameNamed
    <3>2. CASE t \in torrents
      <4>1. Tame(tor[t], mid[t], Named(t))
        BY <1>0, <3>2, PulseTame
      <4> HIDE DEF mid
      <4>2. Tame(mid[t], Pulse(mid, "down", gone)[t], Named(t))
        BY <1>0, <2>3, <4>1, PulseTame DEF Tame
      <4>3. Tame(tor[t], tor'[t], Named(t))
        BY <2>1, <4>1, <4>2, TameTwice DEF mid
      <4> QED BY <2>2, <3>1, <3>2, <4>3, TameStays
    <3>3. CASE t \notin torrents
      <4>1. Pulse(tor, "up", gone)[t] = tor[t]
        BY <1>0, <3>3 DEF Pulse, First
      <4>2. tor'[t] = tor[t]
        BY <1>0, <2>1, <2>3, <3>3, <4>1 DEF Pulse, First
      <4> QED BY <2>2, <3>1, <4>2, SameStays
    <3> QED BY <3>2, <3>3
  <2> QED BY <1>0, <2>2, <2>4 DEF Improved
<1>3. CASE IdleWork
  <2>1. PICK gone \in GoneSets :
          tor' = [t \in Torrents |-> IF t \in torrents THEN Idle(tor[t], t \in gone) ELSE tor[t]]
    BY <1>3 DEF IdleWork
  <2>2. UNCHANGED <<torrents, work>>
    BY <1>3 DEF IdleWork
  <2>3. ASSUME NEW t \in Torrents PROVE Better(t)
    <3>1. Named(t)' = Named(t) /\ (t \in gone) \in BOOLEAN
      BY <2>2, SameNamed
    <3>2. CASE t \in torrents
      <4>1. Tame(tor[t], Idle(tor[t], t \in gone), Named(t))
        BY <1>0, <3>1, <3>2, IdleTame
      <4> QED BY <2>1, <2>2, <3>1, <3>2, <4>1, TameStays
    <3>3. CASE t \notin torrents
      BY <2>1, <2>2, <3>1, <3>3, SameStays
    <3> QED BY <3>2, <3>3
  <2> QED BY <1>0, <2>2, <2>3 DEF Improved
<1>4. CASE SaveTimer
  <2>1. /\ tor' = [t \in Torrents |-> IF t \in torrents THEN Save(tor[t]) ELSE tor[t]]
        /\ UNCHANGED <<torrents, work>>
    BY <1>4 DEF SaveTimer
  <2>2. ASSUME NEW t \in Torrents PROVE Better(t)
    <3>1. Named(t)' = Named(t)
      BY <2>1, SameNamed
    <3>2. CASE t \in torrents
      <4>1. Tame(tor[t], Save(tor[t]), Named(t))
        BY <1>0, <3>2, SaveTame
      <4> QED BY <2>1, <3>1, <3>2, <4>1, TameStays
    <3>3. CASE t \notin torrents
      BY <2>1, <3>1, <3>3, SameStays
    <3> QED BY <3>2, <3>3
  <2> QED BY <1>0, <2>1, <2>2 DEF Improved
<1>5. CASE LoadTorrent
  <2> DEFINE t  == Head(toLoad)
             in == IF tor[t].resume.exists THEN ~tor[t].resume.paused ELSE TRUE
             r  == [tor[t] EXCEPT !.intent = in]
             ts == [tor EXCEPT ![t].intent = in]
  <2>1. t \in Torrents /\ t \notin torrents
    <3>1. toLoad # <<>> /\ toLoad \in Seq(Torrents) /\ ToSet(toLoad) \cap torrents = {} /\ Distinct(toLoad)
      BY <1>5 DEF LoadTorrent, Up, SessionInv, LoadInv
    <3> QED BY <3>1, TailDistinct
  <2>2. torrents' = torrents \cup {t} /\ work' = work
    BY <1>5 DEF LoadTorrent
  <2>3. PICK gone \in Gone :
          tor' = [ts EXCEPT ![t] = IF in THEN StartNow(ts, t, ~ts[t].meta, gone)
                                   ELSE [ts[t] EXCEPT !.error = Disappeared(ts[t], gone)]]
    BY <1>5 DEF LoadTorrent
  <2>4. in \in BOOLEAN
    BY <1>0, <2>1 DEF TorrentState
  <2>5. ts = [tor EXCEPT ![t] = r]
    OBVIOUS
  <2> HIDE DEF t, in
  <2>6. /\ r \in TorrentState /\ Asleep(r) /\ r.intent = in /\ r.meta \in BOOLEAN
    <3>1. Asleep(tor[t])
      BY <2>1 DEF IntentInv
    <3> DEFINE a == tor[t]
    <3>2. a \in TorrentState /\ Asleep(a) /\ r = [a EXCEPT !.intent = in]
      BY <1>0, <2>1, <3>1
    <3> HIDE DEF a, r
    <3> QED BY ONLY <2>4, <3>2 DEF Asleep, TorrentState
  <2> HIDE DEF r
  <2>7. ts[t] = r
    BY <1>0, <2>1, <2>5
  <2> HIDE DEF ts
  <2> DEFINE n == StartNow(ts, t, ~ts[t].meta, gone)
             e == [r EXCEPT !.error = Disappeared(r, gone)]
  <2>8. ASSUME in PROVE Mild(n, FALSE) /\ Will(n, FALSE)
    <3>1. Startable(ts[t]) /\ ts[t] \in TorrentState
      BY <2>6, <2>7, <2>8 DEF Startable, Asleep, Stale
    <3> QED BY <3>1, StartNowTame, GoneIsBoolean
  <2>9. ASSUME ~in PROVE Mild(e, FALSE) /\ Will(e, FALSE)
    <3>1. /\ e.deleting = r.deleting /\ e.verify = r.verify /\ e.queued = r.queued
          /\ e.dirty = r.dirty /\ e.intent = r.intent
      BY <2>6 DEF TorrentState
    <3> HIDE DEF e
    <3> QED BY <2>6, <2>9, <3>1 DEF Mild, Will, Stale, Asleep
  <2>10. Better(t)
    <3>1. tor'[t] = IF in THEN n ELSE e
      BY <1>0, <2>1, <2>3, <2>5, <2>7
    <3> HIDE DEF n, e
    <3> QED BY <2>1, <2>2, <2>8, <2>9, <3>1, SettledStays
  <2>11. ASSUME NEW u \in Torrents, u # t PROVE Better(u)
    <3>1. tor'[u] = tor[u] /\ (u \in torrents' <=> u \in torrents) /\ Named(u)' = Named(u)
      BY <1>0, <2>2, <2>3, <2>5, <2>11, SameNamed
    <3> QED BY <3>1, HonouredWill, HonouredWillNext DEF Better, IntentInv
  <2> QED BY <1>0, <2>2, <2>10, <2>11 DEF Improved
<1>6. CASE Close \/ Crash
  <2>1. PICK ts, file : Reopen(ts, file)
    BY <1>6 DEF Close, Crash
  <2>2. /\ torrents' = {} /\ work' = <<>>
        /\ \A t \in Torrents : tor'[t] = IF ts[t].stored THEN Fresh(TRUE, ts[t].meta, ts[t].resume)
                                          ELSE NoTorrent
    BY <2>1 DEF Reopen
  <2>3. ASSUME NEW t \in Torrents PROVE Better(t)
    BY <2>2, FreshAsleep, AsleepStays DEF NoTorrent
  <2> QED BY <2>2, <2>3 DEF Improved
<1> QED BY <1>1, <1>2, <1>3, <1>4, <1>5, <1>6 DEF SessionNext

(* and so every step.                                                      *)
LEMMA EveryStepImproves ==
    ASSUME ~AppThread, IntentInv, SessionInv, [Next]_vars
    PROVE  Improved
<1>1. CASE UNCHANGED vars
  <2>1. UNCHANGED <<tor, torrents, work>>
    BY <1>1 DEF vars
  <2>2. ASSUME NEW t \in Torrents PROVE Better(t)
    BY <2>1, SameNamed, SameStays
  <2> QED BY <2>1, <2>2 DEF Improved, IntentInv
<1> QED BY <1>1, UserImproves, SessionImproves, TorrentImproves DEF Next

(* A session that starts has forgotten nothing.                            *)
LEMMA IntentInit == Init => IntentInv
<1>1. ASSUME Init
      PROVE  torrents = {} /\ work = <<>> /\ \A t \in Torrents : tor[t] = NoTorrent
  BY <1>1 DEF Init
<1>2. Asleep(NoTorrent)
  BY FreshAsleep DEF NoTorrent
<1> QED BY <1>1, <1>2 DEF IntentInv

(* The invariant of intents is inductive relative to that of the session.  *)
LEMMA IntentStep ==
    ASSUME ~AppThread
    PROVE  SessionInv /\ IntentInv /\ SessionInv' /\ [Next]_vars => IntentInv'
<1> SUFFICES ASSUME SessionInv, IntentInv, SessionInv', [Next]_vars PROVE IntentInv'
  OBVIOUS
<1>1. Improved
  BY EveryStepImproves
<1>2. torrents' \subseteq Torrents
  <2>1. QueueInv'
    BY DEF SessionInv
  <2>2. torrents' = ToSet(queue'.order) /\ queue'.order \in Seq(Torrents)
    BY <2>1 DEF QueueInv, Sound, Queue
  <2> QED BY <2>2 DEF ToSet
<1> QED BY <1>1, <1>2, ImprovedKeeps

(* What is to run and what the resume files say go together through every  *)
(* call, verification, timer, crash and reload.                            *)
THEOREM IntentHolds ==
    ASSUME ~AppThread
    PROVE  Spec => [](SessionInv /\ IntentInv)
<1>1. SessionInv /\ IntentInv /\ [Next]_vars => SessionInv' /\ IntentInv'
  BY SessionStep, IntentStep
<1> QED BY <1>1, SessionInit, IntentInit, PTL DEF Spec

(* A resume file that is behind and not marked for saving is that of a     *)
(* torrent in verification, with its completion posted or with an error.   *)
THEOREM ResumeIsCurrent ==
    ASSUME ~AppThread
    PROVE  Spec => []CleanResumeIsCurrent
<1>1. IntentInv => CleanResumeIsCurrent
  BY DEF IntentInv, CleanResumeIsCurrent, Mild, Stale, Named
<1> QED BY <1>1, IntentHolds, PTL

(* Only moving its data makes the session forget that a torrent is to run. *)
THEOREM IntentIsKept ==
    ASSUME ~AppThread
    PROVE  Spec => OnlyMovesForgetIntent
<1> DEFINE Forgets(t) == Honoured(t) /\ ~Honoured(t)'
           Kind == \A t \in Torrents : Forgets(t) => UserRelocate(t)
<1>1. SessionInv /\ IntentInv /\ [Next]_vars => [Kind]_vars
  BY EveryStepImproves DEF Improved, Better
<1> QED BY <1>1, IntentHolds, PTL DEF OnlyMovesForgetIntent, Spec

-----------------------------------------------------------------------------
(* The queue's slots, when all calls come from the session thread.  First  *)
(* the torrents that the queue timer chooses: as many as it asks for, or   *)
(* all that wait.                                                          *)
InLine(ts, dir) == {t \in torrents : IsQueued(ts[t], dir)}
Ahead(w, t) == {u \in w : queue.posOf[u] < queue.posOf[t]}

(* In the session's queue every torrent has a position of its own.         *)
LEMMA Positions ==
    ASSUME SessionInv
    PROVE  /\ \A t \in torrents : queue.posOf[t] \in 0 .. Len(queue.order)
           /\ \A t, u \in torrents : queue.posOf[t] = queue.posOf[u] => t = u
           /\ Len(queue.order) \in Nat
<1>1. /\ Sound(queue, Torrents) /\ torrents = ToSet(queue.order) /\ torrents \subseteq Torrents
      /\ Len(queue.order) \in Nat
  BY TorrentsType DEF SessionInv, QueueInv, Sound, Queue
<1>2. \A t \in torrents : /\ queue.posOf[t] \in 0 .. Len(queue.order) - 1
                          /\ queue.order[queue.posOf[t] + 1] = t
  BY <1>1, Held
<1> QED BY <1>1, <1>2

(* The timer chooses among those in line, n of them or all.                *)
LEMMA FirstChosen ==
    ASSUME SessionInv, NEW ts, NEW dir, NEW n \in Nat
    PROVE  LET c == First(ts, dir, n)
           IN  /\ c \subseteq InLine(ts, dir) /\ IsFiniteSet(c)
               /\ Cardinality(c) <= n
               /\ c = InLine(ts, dir) \/ Cardinality(c) = n
<1> DEFINE w == InLine(ts, dir)
           c == First(ts, dir, n)
<1>1. c = {t \in w : Cardinality(Ahead(w, t)) < n}
  BY DEF First, InLine, Ahead
<1>2. w \subseteq torrents /\ IsFiniteSet(w)
  <2>1. w \subseteq torrents /\ torrents \subseteq Torrents /\ IsFiniteSet(Torrents)
    BY TorrentsType, LifeAssumption DEF SessionInv, InLine
  <2> QED BY <2>1, FS_Subset
<1> HIDE DEF w
<1>3. /\ \A t \in w : queue.posOf[t] \in 0 .. Len(queue.order)
      /\ \A t, u \in w : queue.posOf[t] = queue.posOf[u] => t = u
      /\ Len(queue.order) \in Nat
  BY <1>2, Positions
<1>4. \A t \in w : Ahead(w, t) \subseteq w /\ IsFiniteSet(Ahead(w, t)) /\ Cardinality(Ahead(w, t)) \in Nat
  BY <1>2, FS_Subset, FS_CardinalityType DEF Ahead
<1>5. c \subseteq w /\ IsFiniteSet(c) /\ Cardinality(c) \in Nat
  <2>1. c \subseteq w
    BY <1>1
  <2> HIDE DEF c
  <2> QED BY <1>2, <2>1, FS_Subset, FS_CardinalityType
<1> HIDE DEF c
<1>6. Cardinality(c) <= n
  <2>1. CASE c = {}
    BY <2>1, FS_EmptySet
  <2>2. CASE c # {}
    <3> DEFINE m == Len(queue.order)
               S == {m - queue.posOf[t] : t \in c}
    <3>1. S \in SUBSET Nat /\ S # {}
      BY <1>3, <1>5, <2>2
    <3>2. PICK least \in S : \A k \in S : least <= k
      BY <3>1, LeastOf
    <3>3. PICK t \in c : least = m - queue.posOf[t]
      BY <3>2
    <3>4. ASSUME NEW u \in c \ {t} PROVE u \in Ahead(w, t)
      <4>1. m - queue.posOf[t] <= m - queue.posOf[u]
        BY <3>2, <3>3
      <4>2. u \in w /\ t \in w /\ u # t
        BY <1>5, <3>4
      <4>3. queue.posOf[u] # queue.posOf[t]
        BY <1>3, <4>2
      <4>4. queue.posOf[u] \in 0 .. m /\ queue.posOf[t] \in 0 .. m /\ m \in Nat
        BY <1>3, <4>2
      <4>5. queue.posOf[u] < queue.posOf[t]
        BY <4>1, <4>3, <4>4
      <4> QED BY <4>2, <4>5 DEF Ahead
    <3> HIDE DEF m, S
    <3>5. Cardinality(c \ {t}) <= Cardinality(Ahead(w, t)) /\ Cardinality(Ahead(w, t)) \in Nat
          /\ Cardinality(Ahead(w, t)) < n
      BY <1>1, <1>4, <1>5, <3>4, FS_Subset
    <3>6. Cardinality(c \ {t}) = Cardinality(c) - 1
      BY <1>5, FS_RemoveElement
    <3> QED BY <1>5, <3>5, <3>6
  <2> QED BY <2>1, <2>2
<1>7. ASSUME c # w PROVE Cardinality(c) >= n
  <2> DEFINE S == {queue.posOf[t] : t \in w \ c}
  <2>1. S \in SUBSET Nat /\ S # {}
    <3>1. \E t : t \in w \ c
      BY <1>5, <1>7
    <3>2. \A t \in w \ c : queue.posOf[t] \in Nat
      BY <1>3
    <3> QED BY <3>1, <3>2
  <2>2. PICK least \in S : \A k \in S : least <= k
    BY <2>1, LeastOf
  <2>3. PICK t \in w \ c : least = queue.posOf[t]
    BY <2>2
  <2>4. ASSUME NEW u \in Ahead(w, t) PROVE u \in c
    <3>1. u \in w /\ queue.posOf[u] < queue.posOf[t]
      BY DEF Ahead
    <3>2. queue.posOf[u] \in Int /\ queue.posOf[t] \in Int
      BY <1>3, <3>1
    <3>3. u \notin w \ c
      BY <2>2, <2>3, <3>1, <3>2
    <3> QED BY <3>1, <3>3
  <2>5. Cardinality(Ahead(w, t)) <= Cardinality(c)
    BY <1>5, <2>4, FS_Subset
  <2>6. Cardinality(Ahead(w, t)) >= n /\ Cardinality(Ahead(w, t)) \in Nat
    BY <1>1, <1>4, <2>3
  <2> QED BY <1>5, <2>5, <2>6
<1>8. c = w \/ Cardinality(c) = n
  BY <1>5, <1>6, <1>7
<1> QED BY <1>5, <1>6, <1>8 DEF c, w

(* What is done to a torrent, as far as slots go: s neither runs nor waits *)
(* unless r did, and it is as complete.                                    *)
Still(r, s) == (s.queued => r.queued) /\ (s.running => r.running)
SameData(r, s) == s.meta = r.meta /\ s.has = r.has /\ s.done = r.done

(* A torrent does not wait for a slot while it runs.                       *)
Apart(r) == r.queued => ~r.running

(* Two steps that start nothing are one.                                   *)
LEMMA StillTwice ==
    ASSUME NEW r, NEW s, NEW u, Still(r, s), Still(s, u)
    PROVE  Still(r, u)
BY DEF Still

(* Saving touches no data and starts nothing,                              *)
LEMMA SaveData ==
    ASSUME NEW r \in TorrentState
    PROVE  SameData(r, Save(r)) /\ Still(r, Save(r))
<1> DEFINE f == [exists |-> TRUE, paused |-> ~r.intent, has |-> r.has]
           u == [r EXCEPT !.dirty = FALSE, !.resume = f]
<1>1. Save(r) \in {r, u}
  BY DEF Save
<1> HIDE DEF f
<1>2. SameData(r, u) /\ Still(r, u)
  BY DEF SameData, Still, TorrentState
<1> HIDE DEF u
<1> QED BY <1>1, <1>2 DEF SameData, Still

(* nor does marking a torrent as queued touch any data.                    *)
LEMMA SetQueuedData ==
    ASSUME NEW r \in TorrentState, NEW on \in BOOLEAN
    PROVE  SameData(r, SetQueued(r, on))
<1> DEFINE d == r.dirty \/ r.queued # on
           u == [r EXCEPT !.queued = on, !.dirty = d]
<1>1. SetQueued(r, on) = u
  BY DEF SetQueued, TorrentState
<1> HIDE DEF d
<1> QED BY <1>1 DEF SameData, TorrentState

(* A torrent that is stopped keeps its data,                               *)
LEMMA StopNowData ==
    ASSUME NEW r \in TorrentState
    PROVE  /\ SameData(r, StopNow(r)) /\ Still(r, StopNow(r))
           /\ StopNow(r).running = FALSE
<1> DEFINE s == [r EXCEPT !.running = FALSE, !.stopping = FALSE, !.verify = "none",
                     !.idle = FALSE]
           u == IF r.deleting THEN s ELSE Save(s)
<1>1. s \in TorrentState /\ SameData(r, s)
  BY DEF SameData, TorrentState
<1>2. StopNow(r) = SetQueued(u, FALSE)
  BY DEF StopNow
<1> HIDE DEF s
<1>3. u \in TorrentState /\ SameData(s, u)
  BY <1>1, SaveData, SaveKept DEF Kept, SameData
<1> HIDE DEF u
<1>4. SameData(u, SetQueued(u, FALSE))
  BY <1>3, SetQueuedData
<1>5. SameData(r, StopNow(r))
  BY <1>1, <1>2, <1>3, <1>4 DEF SameData
<1>6. StopNow(r).running = FALSE /\ StopNow(r).queued = FALSE
  BY StopNowFlags
<1> QED BY <1>5, <1>6 DEF Still

(* and a stop starts nothing.                                              *)
LEMMA StopStill ==
    ASSUME NEW r \in TorrentState
    PROVE  Still(r, Stop(r))
<1> DEFINE s == [r EXCEPT !.intent = FALSE, !.dirty = TRUE]
<1>1. s \in TorrentState /\ Still(r, s)
  BY DEF Still, TorrentState
<1> HIDE DEF s
<1>2. Still(s, StopNow(s))
  BY <1>1, StopNowData
<1> QED BY <1>1, <1>2, StillTwice DEF Stop, s

(* A verification that begins has touched no data yet, and starts nothing. *)
LEMMA VerifyNowData ==
    ASSUME NEW r \in TorrentState, NEW gone \in BOOLEAN
    PROVE  SameData(r, VerifyNow(r, gone)) /\ Still(r, VerifyNow(r, gone))
<1> DEFINE idle == [r EXCEPT !.verify = "none"]
           s    == IF r.running THEN StopNow(idle) ELSE idle
           lost == Disappeared(s, gone)
           e    == s.error \/ lost
           i    == s.intent /\ ~lost
           u    == [s EXCEPT !.error = e, !.intent = i, !.verify = "queued"]
<1>1. idle \in TorrentState /\ SameData(r, idle) /\ Still(r, idle)
  BY DEF SameData, Still, TorrentState
<1>2. VerifyNow(r, gone) \in {r, idle, u}
  BY DEF VerifyNow
<1> HIDE DEF idle
<1>3. s \in TorrentState /\ SameData(r, s) /\ Still(r, s)
  <2>1. StopNow(idle) \in TorrentState /\ SameData(idle, StopNow(idle)) /\ Still(idle, StopNow(idle))
    BY <1>1, StopNowKept, StopNowData DEF Kept
  <2> QED BY <1>1, <2>1 DEF SameData, Still
<1> HIDE DEF s, e, i
<1>4. SameData(s, u) /\ Still(s, u)
  BY <1>3 DEF SameData, Still, TorrentState
<1> HIDE DEF u
<1> QED BY <1>1, <1>2, <1>3, <1>4 DEF SameData, Still

(* A recheck that finds a change needs no other.                           *)
LEMMA RecheckData ==
    ASSUME NEW r \in TorrentState, NEW gone \in BOOLEAN
    PROVE  LET c == Recheck(r, gone)
           IN  /\ Still(r, c) /\ c.meta = r.meta /\ c.has = r.has
               /\ c.done = r.done \/ ~NeedsRecheck(c)
               /\ ~NeedsRecheck(r) => c.done = r.done /\ c.verify = r.verify
                                      /\ c.running = r.running
<1> DEFINE s == [r EXCEPT !.check = FALSE]
           d == [s EXCEPT !.done = ~r.done, !.dirty = TRUE]
           c == Recheck(r, gone)
<1>1. /\ s \in TorrentState /\ SameData(r, s) /\ Still(r, s) /\ s.verify = r.verify
      /\ s.running = r.running
      /\ d \in TorrentState /\ Still(r, d) /\ d.meta = r.meta /\ d.has = r.has /\ d.done = ~r.done
  BY ZenonT(30) DEF SameData, Still, TorrentState
<1>2. \/ ~NeedsRecheck(r) /\ c = s
      \/ NeedsRecheck(r) /\ c \in {VerifyNow(s, gone), Save(d), d}
  BY DEF Recheck
<1> HIDE DEF s, d, c
<1>3. SameData(s, VerifyNow(s, gone)) /\ Still(s, VerifyNow(s, gone))
  BY <1>1, VerifyNowData
<1>4. SameData(d, Save(d)) /\ Still(d, Save(d))
  BY <1>1, SaveData
<1>5. NeedsRecheck(r) => r.done # (r.has = "all")
  BY DEF NeedsRecheck
<1>6. r.done \in BOOLEAN
  BY DEF TorrentState
<1>7. CASE ~NeedsRecheck(r) /\ c = s
  BY <1>1, <1>7 DEF SameData, c
<1>8. CASE NeedsRecheck(r) /\ c = VerifyNow(s, gone)
  BY <1>1, <1>3, <1>8 DEF SameData, Still, c
<1>9. CASE NeedsRecheck(r) /\ c \in {Save(d), d}
  <2>1. Still(r, c) /\ c.meta = r.meta /\ c.has = r.has /\ c.done = ~r.done
    BY <1>1, <1>4, <1>9 DEF SameData, Still
  <2>2. ~NeedsRecheck(c)
    BY <1>5, <1>6, <1>9, <2>1 DEF NeedsRecheck
  <2> QED BY <1>9, <2>1, <2>2 DEF c
<1> QED BY <1>2, <1>7, <1>8, <1>9

(* The checks and stops that a torrent has put off start nothing,          *)
LEMMA IdleStill ==
    ASSUME NEW r \in TorrentState, NEW gone \in BOOLEAN
    PROVE  Still(r, Idle(r, gone))
<1> DEFINE s == IF r.check THEN Recheck(r, gone) ELSE r
<1>1. s \in TorrentState /\ Still(r, s)
  BY RecheckData, RecheckKept DEF Kept, Still
<1> HIDE DEF s
<1>2. Idle(r, gone) \in {s, Stop(s)}
  BY DEF Idle, s
<1> QED BY <1>1, <1>2, StopStill, StillTwice

(* nor does moving the data.                                               *)
LEMMA RelocateStill ==
    ASSUME NEW r \in TorrentState, NEW ok \in BOOLEAN
    PROVE  Still(r, Relocate(r, ok))
<1> DEFINE s == [r EXCEPT !.verify = "none"]
           d == [s EXCEPT !.dirty = TRUE]
           e == [s EXCEPT !.error = TRUE]
<1>1. Still(r, d) /\ e \in TorrentState /\ Still(r, e)
  BY DEF Still, TorrentState
<1>2. Relocate(r, ok) \in {d, Stop(e)}
  BY DEF Relocate
<1> HIDE DEF d, e
<1> QED BY <1>1, <1>2, StopStill, StillTwice

(* start(): what does not start goes on as it was, or waits, when it is    *)
(* stopped.                                                                *)
LEMMA StartNowData ==
    ASSUME NEW ts, NEW t, ts[t] \in TorrentState, NEW bypass \in BOOLEAN, NEW gone \in BOOLEAN
    PROVE  LET s == StartNow(ts, t, bypass, gone)
           IN  /\ s.meta = ts[t].meta
               /\ ~NeedsRecheck(ts[t]) => s.done = ts[t].done
               /\ IF Starts(ts, t, bypass, gone) THEN s.running /\ ~s.queued
                  ELSE /\ SameData(ts[t], s) /\ s.running = ts[t].running
                       /\ s.queued => ts[t].queued \/ ~ts[t].running
<1> DEFINE r == ts[t]
           e == [r EXCEPT !.error = TRUE]
           u == [r EXCEPT !.running = TRUE, !.dirty = TRUE]
           q == SetQueued(r, TRUE)
           c == Recheck(u, gone)
           d == SetQueued(c, FALSE)
           v == [d EXCEPT !.running = TRUE, !.error = FALSE, !.dirty = TRUE, !.idle = FALSE]
           s == StartNow(ts, t, bypass, gone)
<1>1. r \in TorrentState
  OBVIOUS
<1>2. IF Starts(ts, t, bypass, gone) THEN s = v
      ELSE s = IF Refused(r, bypass) THEN r ELSE IF Queues(ts, t, bypass) THEN q ELSE e
  BY DEF StartNow, Starts, StartHere, StartInSessionThread
<1>3. Queues(ts, t, bypass) => ~r.running
  BY DEF Queues, Activity, TorrentState
<1> HIDE DEF r
<1>4. /\ SameData(r, e) /\ e.running = r.running /\ e.queued = r.queued
      /\ u \in TorrentState /\ SameData(r, u)
  BY <1>1 DEF SameData, TorrentState
<1>5. SameData(r, q) /\ q.running = r.running
  BY <1>1, SetQueuedData, SetQueuedFlags
<1> HIDE DEF u, e, q
<1>6. c \in TorrentState /\ c.meta = r.meta /\ (~NeedsRecheck(r) => c.done = r.done)
  <2>1. NeedsRecheck(u) = NeedsRecheck(r)
    BY <1>4 DEF NeedsRecheck, SameData
  <2> QED BY <1>4, <2>1, RecheckData, RecheckKept DEF Kept, SameData
<1> HIDE DEF c
<1>7. d \in TorrentState /\ SameData(c, d) /\ d.queued = FALSE
  BY <1>6, SetQueuedData, SetQueuedKept, SetQueuedFlags DEF Kept
<1> HIDE DEF d
<1>8. v.running = TRUE /\ v.queued = FALSE /\ SameData(d, v)
  BY <1>7 DEF SameData, TorrentState
<1> HIDE DEF v, s
<1>9. CASE Starts(ts, t, bypass, gone)
  BY <1>2, <1>6, <1>7, <1>8, <1>9 DEF SameData, r, s
<1>10. CASE ~Starts(ts, t, bypass, gone)
  BY <1>2, <1>3, <1>4, <1>5, <1>10 DEF SameData, r, s
<1> QED BY <1>9, <1>10

(* A start leaves no torrent both running and waiting.                     *)
LEMMA StartNowApart ==
    ASSUME NEW ts, NEW t, ts[t] \in TorrentState, NEW bypass \in BOOLEAN, NEW gone \in BOOLEAN,
           Apart(ts[t])
    PROVE  Apart(StartNow(ts, t, bypass, gone))
<1> DEFINE s == StartNow(ts, t, bypass, gone)
<1>1. /\ IF Starts(ts, t, bypass, gone) THEN s.running /\ ~s.queued
         ELSE s.running = ts[t].running /\ (s.queued => ts[t].queued \/ ~ts[t].running)
  BY StartNowData
<1> HIDE DEF s
<1> QED BY <1>1 DEF Apart, s

-----------------------------------------------------------------------------
(* The torrents that are active, before and after a start.                 *)
LEMMA ActiveFinite ==
    ASSUME NEW ts, NEW dir
    PROVE  IsFiniteSet(Active(ts, dir)) /\ Cardinality(Active(ts, dir)) \in Nat
<1>1. IsFiniteSet(Torrents) /\ Active(ts, dir) \subseteq Torrents
  BY LifeAssumption DEF Active
<1> QED BY <1>1, FS_Subset, FS_CardinalityType

(* Those that take a slot are those that run, are not verified and have    *)
(* not stalled.                                                            *)
LEMMA ActiveRuns ==
    ASSUME NEW ts \in [Torrents -> TorrentState], NEW dir \in Directions, NEW t \in Torrents
    PROVE  t \in Active(ts, dir) <=>
             /\ ts[t].verify = "none" /\ ts[t].running /\ Direction(ts[t]) = dir
             /\ ~Stalled(ts[t])
<1>1. /\ ts[t].verify \in {"none", "queued", "active"} /\ ts[t].running \in BOOLEAN
      /\ ts[t].done \in BOOLEAN
  BY DEF TorrentState
<1>2. t \in Active(ts, dir) <=> /\ Activity(ts[t]) = IF dir = "up" THEN "seed" ELSE "download"
                               /\ ~Stalled(ts[t])
  BY DEF Active
<1> QED BY <1>1, <1>2 DEF Activity, Direction, Directions

(* The queue sizes are numbers.                                            *)
LEMMA SizeType == ASSUME NEW dir \in Directions PROVE QueueSize[dir] \in Nat /\ NoLimit \in Nat
BY LifeAssumption DEF NoLimit

(* Slots that are free and slots that are taken make up the queue's size.  *)
LEMMA FreeSlotsType ==
    ASSUME NEW ts, NEW dir \in Directions
    PROVE  /\ FreeSlots(ts, dir) \in Nat
           /\ QueueEnabled(dir) /\ FreeSlots(ts, dir) > 0 =>
                Cardinality(Active(ts, dir)) + FreeSlots(ts, dir) = QueueSize[dir]
           /\ QueueEnabled(dir) /\ Cardinality(Active(ts, dir)) + FreeSlots(ts, dir) < QueueSize[dir] =>
                FALSE
           /\ Cardinality(Active(ts, dir)) >= QueueSize[dir] /\ QueueEnabled(dir) =>
                FreeSlots(ts, dir) = 0
BY ActiveFinite, SizeType DEF FreeSlots

(* A torrent seeds or downloads.                                           *)
LEMMA DirectionType == ASSUME NEW r PROVE Direction(r) \in Directions
BY DEF Direction, Directions

(* What start() lets start finds a slot.                                   *)
LEMMA StartAdmits ==
    ASSUME NEW ts \in [Torrents -> TorrentState], NEW t \in Torrents, NEW gone \in BOOLEAN,
           NEW s, s = StartNow(ts, t, FALSE, gone), s.running, ~ts[t].running,
           Direction(s) = Direction(ts[t]), QueueEnabled(Direction(s))
    PROVE  Cardinality(Active([ts EXCEPT ![t] = s], Direction(s))) <= QueueSize[Direction(s)]
<1> DEFINE dir == Direction(s)
           us  == [ts EXCEPT ![t] = s]
           A   == Active(ts, dir)
           B   == Active(us, dir)
<1>1. Starts(ts, t, FALSE, gone)
  BY StartNowData
<1>2. Activity(ts[t]) = "stopped"
  BY <1>1 DEF Starts, Refused, Activity
<1>3. FreeSlots(ts, dir) # 0
  BY <1>1, <1>2 DEF Starts, Queues
<1>4. dir \in Directions /\ QueueEnabled(dir)
  BY DirectionType
<1>5. \A u \in Torrents : u # t => us[u] = ts[u]
  OBVIOUS
<1> HIDE DEF dir, us
<1>6. B \subseteq A \cup {t}
  BY <1>5 DEF Active
<1> HIDE DEF A, B
<1>7. IsFiniteSet(A) /\ Cardinality(A) \in Nat /\ Cardinality(B) \in Nat
  BY ActiveFinite DEF A, B
<1>8. IsFiniteSet(A \cup {t}) /\ Cardinality(A \cup {t}) <= Cardinality(A) + 1
      /\ Cardinality(A \cup {t}) \in Nat
  <2>1. /\ IsFiniteSet(A \cup {t})
        /\ Cardinality(A \cup {t}) = IF t \in A THEN Cardinality(A) ELSE Cardinality(A) + 1
    BY <1>7, FS_AddElement
  <2> QED BY <1>7, <2>1
<1>9. Cardinality(B) <= Cardinality(A \cup {t})
  BY <1>6, <1>8, FS_Subset
<1>10. FreeSlots(ts, dir) \in Nat /\ Cardinality(A) + FreeSlots(ts, dir) = QueueSize[dir]
  BY <1>3, <1>4, FreeSlotsType DEF A
<1>11. Cardinality(B) <= QueueSize[dir]
  BY <1>3, <1>7, <1>8, <1>9, <1>10
<1> QED BY <1>11 DEF B, us, dir

(* What the queue timer starts.                                            *)
Chosen(ts, dir) == First(ts, dir, FreeSlots(ts, dir))
Pulsed(ts, t, gone) == StartNow(Intend(ts, t), t, TRUE, t \in gone)

(* What the queue timer does to each torrent: it starts those it chose.    *)
LEMMA PulseIs ==
    ASSUME SessionInv, NEW ts \in [Torrents -> TorrentState], NEW dir \in Directions, NEW gone,
           NEW t \in Torrents
    PROVE  /\ QueueEnabled(dir) /\ t \in Chosen(ts, dir) =>
                Pulse(ts, dir, gone)[t] = Pulsed(ts, t, gone)
           /\ ~(QueueEnabled(dir) /\ t \in Chosen(ts, dir)) => Pulse(ts, dir, gone)[t] = ts[t]
           /\ t \in Chosen(ts, dir) => t \in torrents /\ ts[t].queued /\ Direction(ts[t]) = dir
<1>1. Chosen(ts, dir) \subseteq InLine(ts, dir)
  BY FirstChosen, FreeSlotsType DEF Chosen
<1>2. t \in Chosen(ts, dir) => t \in torrents /\ ts[t].queued /\ Direction(ts[t]) = dir
  BY <1>1 DEF InLine, IsQueued
<1> QED BY <1>2 DEF Pulse, Pulsed, Chosen

(* A torrent that is chosen starts, or goes on as it was; it does not wait *)
(* any longer once its completeness has changed.                           *)
LEMMA ChosenStarts ==
    ASSUME NEW ts \in [Torrents -> TorrentState], NEW t \in Torrents, NEW gone \in BOOLEAN,
           NEW s, s = StartNow(Intend(ts, t), t, TRUE, gone)
    PROVE  /\ s.queued => s.done = ts[t].done
           /\ s.running /\ ~ts[t].running => ~s.queued
<1> DEFINE r == [ts[t] EXCEPT !.intent = TRUE]
<1>1. Intend(ts, t) = [ts EXCEPT ![t] = r]
  BY DEF Intend
<1>2. r \in TorrentState /\ SameData(ts[t], r) /\ r.running = ts[t].running
  BY ZenonT(30) DEF SameData, TorrentState
<1> HIDE DEF r
<1>3. Intend(ts, t)[t] = r
  BY <1>1
<1>4. IF Starts(Intend(ts, t), t, TRUE, gone) THEN s.running /\ ~s.queued
      ELSE SameData(r, s) /\ s.running = r.running
  <2> DEFINE is == Intend(ts, t)
  <2>1. is[t] = r /\ r \in TorrentState /\ s = StartNow(is, t, TRUE, gone)
    BY <1>2, <1>3
  <2> HIDE DEF is
  <2>2. PICK bypass \in BOOLEAN : bypass = TRUE
    OBVIOUS
  <2>3. is[t] \in TorrentState /\ s = StartNow(is, t, bypass, gone)
    BY ONLY <2>1, <2>2
  <2>4. IF Starts(is, t, bypass, gone) THEN s.running /\ ~s.queued
        ELSE SameData(is[t], s) /\ s.running = is[t].running
    BY ONLY <2>3, gone \in BOOLEAN, bypass \in BOOLEAN, StartNowData
  <2>5. IF Starts(is, t, TRUE, gone) THEN s.running /\ ~s.queued
        ELSE SameData(r, s) /\ s.running = r.running
    BY ONLY <2>1, <2>2, <2>4
  <2> QED BY <2>5 DEF is
<1> QED BY <1>2, <1>4 DEF SameData

(* The timer lets no more run in a direction than it has slots there.      *)
LEMMA PulseAdmits ==
    ASSUME SessionInv, NEW ts \in [Torrents -> TorrentState], NEW dir \in Directions, NEW gone,
           \A u \in Torrents : Pulse(ts, dir, gone)[u].done = ts[u].done
    PROVE  LET us == Pulse(ts, dir, gone)
           IN  /\ \A t \in Torrents : us[t].running /\ ~ts[t].running =>
                     /\ Direction(us[t]) = dir
                     /\ QueueEnabled(dir) => Cardinality(Active(us, dir)) <= QueueSize[dir]
               /\ \A d \in Directions : d # dir => Active(us, d) \subseteq Active(ts, d)
<1> DEFINE us == Pulse(ts, dir, gone)
           c  == Chosen(ts, dir)
           n  == FreeSlots(ts, dir)
<1>1. us \in [Torrents -> TorrentState] /\ n \in Nat
  BY PulseKept, FreeSlotsType
<1>2. \A u \in Torrents : us[u].done = ts[u].done
  OBVIOUS
<1>3. \A u \in Torrents : us[u] = ts[u] \/ (u \in c /\ Direction(ts[u]) = dir /\ Direction(us[u]) = dir)
  <2>1. ASSUME NEW u \in Torrents PROVE us[u] = ts[u] \/ (u \in c /\ Direction(ts[u]) = dir)
    BY PulseIs
  <2> QED BY <1>2, <2>1 DEF Direction
<1>4. IsFiniteSet(c) /\ Cardinality(c) <= n /\ Cardinality(c) \in Nat
  BY <1>1, FirstChosen, FS_CardinalityType DEF Chosen
<1> HIDE DEF us, c
<1>5. ASSUME NEW t \in Torrents, us[t].running, ~ts[t].running, QueueEnabled(dir)
      PROVE  Cardinality(Active(us, dir)) <= QueueSize[dir]
  <2>1. t \in c
    BY <1>3, <1>5
  <2>2. n > 0
    <3>1. Cardinality(c) # 0
      BY <1>4, <2>1, FS_EmptySet
    <3> QED BY <1>1, <1>4, <3>1
  <2>3. Cardinality(Active(ts, dir)) + n = QueueSize[dir]
    BY <1>5, <2>2, FreeSlotsType
  <2>4. Active(us, dir) \subseteq Active(ts, dir) \cup c
    BY <1>3 DEF Active
  <2>5. /\ IsFiniteSet(Active(ts, dir) \cup c)
        /\ Cardinality(Active(ts, dir) \cup c) <= Cardinality(Active(ts, dir)) + Cardinality(c)
        /\ Cardinality(Active(ts, dir)) \in Nat
        /\ Cardinality(Active(ts, dir) \cup c) \in Nat
    <3>1. IsFiniteSet(Active(ts, dir)) /\ Cardinality(Active(ts, dir)) \in Nat
      BY ActiveFinite
    <3>2. /\ IsFiniteSet(Active(ts, dir) \cup c)
          /\ Cardinality(Active(ts, dir) \cup c) =
               Cardinality(Active(ts, dir)) + Cardinality(c) - Cardinality(Active(ts, dir) \cap c)
      BY <1>4, <3>1, FS_Union
    <3>3. Cardinality(Active(ts, dir) \cap c) \in Nat
      <4>1. IsFiniteSet(Active(ts, dir) \cap c)
        BY <1>4, FS_Subset
      <4> QED BY <4>1, FS_CardinalityType
    <3>4. Cardinality(Active(ts, dir) \cup c) \in Nat
      BY <3>2, FS_CardinalityType
    <3> QED BY <1>4, <3>1, <3>2, <3>3, <3>4
  <2>6. Cardinality(Active(us, dir)) <= Cardinality(Active(ts, dir) \cup c)
    BY <2>4, <2>5, FS_Subset
  <2>7. Cardinality(Active(us, dir)) \in Nat
    BY ActiveFinite
  <2> HIDE DEF n
  <2> QED BY <1>1, <1>4, <2>3, <2>5, <2>6, <2>7
<1>6. \A d \in Directions : d # dir => Active(us, d) \subseteq Active(ts, d)
  <2> SUFFICES ASSUME NEW d \in Directions, d # dir, NEW u \in Active(us, d) PROVE u \in Active(ts, d)
    OBVIOUS
  <2>1. u \in Torrents
    BY DEF Active
  <2>2. Direction(us[u]) = d
    BY <1>1, <2>1, ActiveRuns
  <2>3. us[u] = ts[u]
    BY <1>3, <2>1, <2>2
  <2> QED BY <2>1, <2>3 DEF Active
<1>7. \A t \in Torrents : us[t].running /\ ~ts[t].running => Direction(us[t]) = dir
  BY <1>3
<1> QED BY <1>5, <1>6, <1>7 DEF us

(* When what waits may start at once, the timer leaves nothing waiting for *)
(* a slot that is free.                                                    *)
Ready(r) == r.queued => r.verify = "none" /\ ~r.running /\ ~NeedsRecheck(r)

(* A torrent that is chosen, and is ready, runs.                           *)
LEMMA ChosenRuns ==
    ASSUME NEW ts \in [Torrents -> TorrentState], NEW t \in Torrents, ts[t].queued, Ready(ts[t]),
           QueueEnabled(Direction(ts[t]))
    PROVE  LET s == StartNow(Intend(ts, t), t, TRUE, FALSE)
           IN  /\ s.running /\ ~s.queued /\ s.verify = "none" /\ s.done = ts[t].done
               /\ s.idle = FALSE
<1> DEFINE r == [ts[t] EXCEPT !.intent = TRUE]
           u == [r EXCEPT !.running = TRUE, !.dirty = TRUE]
           c == Recheck(u, FALSE)
           d == SetQueued(c, FALSE)
           v == [d EXCEPT !.running = TRUE, !.error = FALSE, !.dirty = TRUE, !.idle = FALSE]
           is == Intend(ts, t)
<1>1. is = [ts EXCEPT ![t] = r]
  BY DEF Intend
<1>2. /\ r \in TorrentState /\ r.verify = "none" /\ ~r.running /\ r.queued
      /\ SameData(ts[t], r) /\ u \in TorrentState /\ SameData(r, u) /\ u.verify = "none"
  <2> DEFINE a == ts[t]
  <2>1. a \in TorrentState /\ a.verify = "none" /\ ~a.running /\ a.queued /\ r = [a EXCEPT !.intent = TRUE]
    BY DEF Ready
  <2> HIDE DEF a, r
  <2>2. /\ r \in TorrentState /\ r.verify = "none" /\ ~r.running /\ r.queued /\ SameData(a, r)
    BY ONLY <2>1 DEF SameData, TorrentState
  <2> DEFINE k == [r EXCEPT !.running = TRUE]
  <2>3. k \in TorrentState /\ SameData(r, k) /\ k.verify = "none"
    BY ONLY <2>2 DEF SameData, TorrentState
  <2>4. u = [k EXCEPT !.dirty = TRUE]
    BY <2>2 DEF TorrentState
  <2> HIDE DEF k, u
  <2>5. u \in TorrentState /\ SameData(k, u) /\ u.verify = "none"
    BY ONLY <2>3, <2>4 DEF SameData, TorrentState
  <2> QED BY <2>2, <2>3, <2>5 DEF a, SameData
<1>3. is[t] = r
  BY <1>1
<1>4. Direction(r) = Direction(ts[t]) /\ ~NeedsRecheck(u)
  BY <1>2 DEF Direction, NeedsRecheck, Ready, SameData
<1> HIDE DEF is
<1>5. Activity(r) = "wait"
  BY <1>2, <1>4 DEF Activity
<1>6. ~Refused(r, TRUE) /\ ~Queues(is, t, TRUE) /\ ~Disappeared(r, FALSE)
  BY <1>5 DEF Refused, Queues, Disappeared
<1>7. StartNow(is, t, TRUE, FALSE) = v
  BY <1>3, <1>6 DEF StartNow, Starts, StartHere, StartInSessionThread
<1> HIDE DEF r, u
<1>8. c \in TorrentState /\ c.done = u.done /\ c.verify = "none"
  BY <1>2, <1>4, RecheckData, RecheckKept DEF Kept
<1> HIDE DEF c
<1>9. d \in TorrentState /\ SameData(c, d) /\ d.queued = FALSE /\ d.verify = "none"
  BY <1>8, SetQueuedData, SetQueuedKept, SetQueuedFlags DEF Kept
<1> HIDE DEF d
<1>10. /\ v.running = TRUE /\ v.queued = FALSE /\ v.verify = "none" /\ v.done = d.done
       /\ v.idle = FALSE
  BY <1>9 DEF TorrentState
<1> HIDE DEF v
<1> QED BY <1>2, <1>7, <1>8, <1>9, <1>10 DEF SameData, is

(* A firing of the timer for one direction leaves nothing waiting there    *)
(* that could run,                                                         *)
LEMMA PulseFills ==
    ASSUME SessionInv, NEW ts \in [Torrents -> TorrentState], NEW dir \in Directions,
           \A t \in torrents : Ready(ts[t])
    PROVE  LET us == Pulse(ts, dir, {})
           IN  /\ \A t \in Torrents : us[t] = ts[t] \/ (~us[t].queued /\ Direction(us[t]) = dir
                                                       /\ Direction(ts[t]) = dir)
               /\ \A t \in torrents : Direction(us[t]) = dir => ~Waiting(us, t)
<1> DEFINE us == Pulse(ts, dir, {})
           c  == Chosen(ts, dir)
           n  == FreeSlots(ts, dir)
           A  == Active(ts, dir)
           B  == Active(us, dir)
<1>1. us \in [Torrents -> TorrentState] /\ n \in Nat /\ torrents \subseteq Torrents
  BY PulseKept, FreeSlotsType, TorrentsType DEF SessionInv
<1>2. ASSUME NEW t \in Torrents
      PROVE  /\ ~QueueEnabled(dir) => us[t] = ts[t]
             /\ t \notin c => us[t] = ts[t]
             /\ t \in c => t \in torrents /\ Direction(ts[t]) = dir /\ ts[t].queued
             /\ t \in c /\ QueueEnabled(dir) =>
                  /\ us[t].running /\ ~us[t].queued /\ us[t].verify = "none"
                  /\ Direction(us[t]) = dir /\ us[t].idle = FALSE
  <2> DEFINE r == Pulsed(ts, t, {})
             q == StartNow(Intend(ts, t), t, TRUE, FALSE)
  <2>1. /\ QueueEnabled(dir) /\ t \in c => us[t] = r
        /\ ~(QueueEnabled(dir) /\ t \in c) => us[t] = ts[t]
        /\ t \in c => t \in torrents /\ ts[t].queued /\ Direction(ts[t]) = dir
    BY PulseIs
  <2>2. r = q
    <3>1. (t \in {}) = FALSE
      OBVIOUS
    <3> QED BY ONLY <3>1, Zenon DEF Pulsed
  <2>3. ASSUME t \in c, QueueEnabled(dir)
        PROVE  q.running /\ ~q.queued /\ q.verify = "none" /\ q.done = ts[t].done /\ q.idle = FALSE
    <3>1. ts[t].queued /\ Ready(ts[t]) /\ QueueEnabled(Direction(ts[t]))
      BY <2>1, <2>3
    <3> HIDE DEF c, us, r
    <3> QED BY <3>1, ChosenRuns
  <2> HIDE DEF r, q, us, c
  <2> QED BY <2>1, <2>2, <2>3 DEF Direction
<1>3. /\ c \subseteq InLine(ts, dir) /\ IsFiniteSet(c) /\ Cardinality(c) \in Nat
      /\ c = InLine(ts, dir) \/ Cardinality(c) = n
  BY <1>1, FirstChosen, FS_CardinalityType DEF Chosen
<1> HIDE DEF us, c
<1>4. ASSUME NEW t \in torrents, Direction(us[t]) = dir, Waiting(us, t) PROVE FALSE
  <2>1. t \in Torrents /\ us[t].queued /\ QueueEnabled(dir) /\ FreeSlots(us, dir) > 0
    <3>1. t \in Torrents
      BY <1>1
    <3>2. Activity(us[t]) = "wait"
      BY <1>4 DEF Waiting
    <3>3. us[t].queued /\ QueueEnabled(Direction(us[t]))
      BY <3>2 DEF Activity
    <3> QED BY <1>4, <3>1, <3>3 DEF Waiting
  <2>2. t \notin c /\ us[t] = ts[t]
    BY <1>2, <2>1
  <2>3. t \in InLine(ts, dir)
    BY <1>4, <2>1, <2>2 DEF InLine, IsQueued
  <2>4. Cardinality(c) = n
    BY <1>3, <2>2, <2>3
  <2>5. c \subseteq Torrents
    BY <1>1, <1>3 DEF InLine
  <2>6. A \cap c = {}
    <3> SUFFICES ASSUME NEW u \in A, u \in c PROVE FALSE
      OBVIOUS
    <3>1. u \in Torrents /\ u \in torrents /\ ts[u].queued
      BY <1>2, <2>5
    <3>2. ts[u].running
      BY <3>1, ActiveRuns
    <3> QED BY <3>1, <3>2 DEF Ready
  <2>7. A \cup c \subseteq B
    <3>1. ASSUME NEW u \in A PROVE u \in B
      <4>1. u \in Torrents /\ u \notin c
        BY <2>6 DEF Active
      <4> QED BY <1>2, <4>1 DEF Active
    <3>2. ASSUME NEW u \in c PROVE u \in B
      BY <1>1, <1>2, <2>1, <2>5, ActiveRuns DEF Stalled
    <3> QED BY <3>1, <3>2
  <2> HIDE DEF A, B
  <2>8. IsFiniteSet(A) /\ IsFiniteSet(B) /\ Cardinality(A) \in Nat /\ Cardinality(B) \in Nat
    BY ActiveFinite DEF A, B
  <2>9. Cardinality(A \cup c) = Cardinality(A) + n
    <3>1. Cardinality(A \cup c) = Cardinality(A) + Cardinality(c) - Cardinality(A \cap c)
      BY <1>3, <2>8, FS_Union
    <3>2. Cardinality(A \cap c) = 0
      BY <2>6, FS_EmptySet
    <3> HIDE DEF n
    <3> QED BY <1>1, <1>3, <2>4, <2>8, <3>1, <3>2
  <2>10. Cardinality(A) + n <= Cardinality(B)
    <3>1. Cardinality(A \cup c) <= Cardinality(B)
      BY <2>7, <2>8, FS_Subset
    <3> QED BY <2>9, <3>1
  <2>11. Cardinality(A) + n >= QueueSize[dir]
    BY <2>1, <2>8, FreeSlotsType, SizeType DEF A
  <2>12. Cardinality(B) >= QueueSize[dir]
    <3> HIDE DEF n
    <3> QED BY <1>1, <2>8, <2>10, <2>11, SizeType
  <2>13. FreeSlots(us, dir) = 0
    BY <2>1, <2>12, FreeSlotsType DEF B
  <2> QED BY <2>1, <2>13
<1>5. \A t \in Torrents : us[t] = ts[t] \/ (~us[t].queued /\ Direction(us[t]) = dir
                                            /\ Direction(ts[t]) = dir)
  BY <1>2
<1> QED BY <1>4, <1>5 DEF us

(* and so the firing for both fills the slots.                             *)
LEMMA TimerFills ==
    ASSUME SessionInv, \A t \in torrents : Apart(tor[t])
    PROVE  TimerFillsSlots
<1> DEFINE mid   == Pulse(tor, "up", {})
           after == Pulse(mid, "down", {})
<1> SUFFICES ASSUME \A t \in torrents : tor[t].queued => tor[t].verify = "none" /\ ~NeedsRecheck(tor[t]),
                    NEW t \in torrents, Waiting(after, t)
             PROVE  FALSE
  BY DEF TimerFillsSlots
<1>1. /\ tor \in [Torrents -> TorrentState] /\ torrents \subseteq Torrents
      /\ "up" \in Directions /\ "down" \in Directions
  BY TorrentsType DEF SessionInv, TorInv, Directions
<1>2. \A u \in torrents : Ready(tor[u])
  BY DEF Ready, Apart
<1>3. mid \in [Torrents -> TorrentState]
  BY <1>1, PulseKept
<1>4. /\ \A u \in Torrents : mid[u] = tor[u] \/ ~mid[u].queued
      /\ \A u \in torrents : Direction(mid[u]) = "up" => ~Waiting(mid, u)
  BY <1>1, <1>2, PulseFills
<1> HIDE DEF mid
<1>5. \A u \in torrents : Ready(mid[u])
  BY <1>1, <1>2, <1>4 DEF Ready
<1>6. /\ \A u \in Torrents : after[u] = mid[u] \/ (~after[u].queued /\ Direction(after[u]) = "down"
                                                  /\ Direction(mid[u]) = "down")
      /\ \A u \in torrents : Direction(after[u]) = "down" => ~Waiting(after, u)
  BY <1>1, <1>3, <1>5, PulseFills
<1>7. after \in [Torrents -> TorrentState]
  BY <1>3, PulseKept
<1> HIDE DEF after
<1>8. Direction(after[t]) = "up" /\ after[t] = mid[t]
  BY <1>1, <1>6 DEF Direction
<1>9. Active(after, "up") = Active(mid, "up")
  <2>1. ASSUME NEW u \in Torrents PROVE u \in Active(after, "up") <=> u \in Active(mid, "up")
    <3>1. /\ u \in Active(after, "up") => Direction(after[u]) = "up"
          /\ u \in Active(mid, "up") => Direction(mid[u]) = "up"
      BY <1>1, <1>3, <1>7, ActiveRuns
    <3>2. CASE after[u] = mid[u]
      BY <3>2 DEF Active
    <3>3. CASE Direction(after[u]) = "down" /\ Direction(mid[u]) = "down"
      BY <3>1, <3>3
    <3> QED BY <1>6, <3>2, <3>3
  <2> QED BY <2>1 DEF Active
<1>10. FreeSlots(after, "up") = FreeSlots(mid, "up")
  BY <1>9 DEF FreeSlots
<1>11. Waiting(mid, t)
  BY <1>8, <1>10 DEF Waiting
<1> QED BY <1>4, <1>8, <1>11

-----------------------------------------------------------------------------
(* Every step, a third time: what it does to the slots.                    *)
Admits(t) ==
    /\ ~tor[t].running /\ tor'[t].running /\ tor'[t].meta
    /\ \A u \in Torrents : tor'[u].done = tor[u].done
    /\ QueueTimer \/ ~UserStart(t, TRUE)
    /\ QueueEnabled(Direction(tor'[t]))
    => Cardinality(Active(tor', Direction(tor'[t]))) <= QueueSize[Direction(tor'[t])]

Placed(t) == (Apart(tor[t]) => Apart(tor'[t])) /\ Admits(t)

(* A step that starts nothing takes no slot and keeps running and waiting  *)
(* apart,                                                                  *)
LEMMA StillPlaced ==
    ASSUME NEW t, Still(tor[t], tor'[t])
    PROVE  Placed(t)
BY DEF Placed, Admits, Still, Apart

(* and so does one that leaves the torrent alone,                          *)
LEMMA SamePlaced == ASSUME NEW t, tor'[t] = tor[t] PROVE Placed(t)
BY StillPlaced DEF Still

(* one that changes one torrent and starts nothing,                        *)
LEMMA OneStill ==
    ASSUME tor \in [Torrents -> TorrentState], NEW t \in Torrents, NEW r,
           tor' = [tor EXCEPT ![t] = r], Still(tor[t], r)
    PROVE  \A u \in Torrents : Placed(u)
<1>1. ASSUME NEW u \in Torrents PROVE Still(tor[u], tor'[u])
  BY DEF Still
<1> QED BY <1>1, StillPlaced

(* A start that may have to wait for a slot, of what is as complete as it  *)
(* was when it started.                                                    *)
LEMMA OneStarts ==
    ASSUME tor \in [Torrents -> TorrentState], NEW ts \in [Torrents -> TorrentState],
           NEW t \in Torrents, NEW gone \in BOOLEAN, NEW s, s = StartNow(ts, t, FALSE, gone),
           tor' = [ts EXCEPT ![t] = s], \A u \in Torrents : u # t => ts[u] = tor[u],
           Still(tor[t], ts[t]), s.done = tor[t].done => s.done = ts[t].done
    PROVE  \A u \in Torrents : Placed(u)
<1>1. ASSUME NEW u \in Torrents, u # t PROVE Placed(u)
  BY <1>1, SamePlaced
<1>2. tor'[t] = s
  OBVIOUS
<1>3. Apart(tor[t]) => Apart(s)
  BY StartNowApart DEF Still, Apart
<1>4. ASSUME ~tor[t].running, s.running, \A u \in Torrents : tor'[u].done = tor[u].done,
             QueueEnabled(Direction(s))
      PROVE  Cardinality(Active(tor', Direction(s))) <= QueueSize[Direction(s)]
  <2>1. ~ts[t].running /\ s.done = ts[t].done
    BY <1>2, <1>4 DEF Still
  <2>2. Direction(s) = Direction(ts[t])
    BY <2>1 DEF Direction
  <2> QED BY <1>4, <2>1, <2>2, StartAdmits
<1>5. Admits(t)
  BY <1>2, <1>4 DEF Admits
<1> QED BY <1>1, <1>2, <1>3, <1>5 DEF Placed

(* A start that is told to skip the queue.                                 *)
LEMMA OneSkips ==
    ASSUME tor \in [Torrents -> TorrentState], NEW ts \in [Torrents -> TorrentState],
           NEW t \in Torrents, NEW gone \in BOOLEAN, NEW bypass \in BOOLEAN,
           tor' = [ts EXCEPT ![t] = StartNow(ts, t, bypass, gone)],
           \A u \in Torrents : u # t => ts[u] = tor[u],
           Still(tor[t], ts[t]), Admits(t)
    PROVE  \A u \in Torrents : Placed(u)
<1>1. ASSUME NEW u \in Torrents, u # t PROVE Placed(u)
  BY <1>1, SamePlaced
<1>2. Apart(tor[t]) => Apart(StartNow(ts, t, bypass, gone))
  BY StartNowApart DEF Still, Apart
<1> QED BY <1>1, <1>2 DEF Placed

(* and a call that starts nothing.                                         *)
LEMMA CallPlaces ==
    ASSUME ~AppThread, tor \in [Torrents -> TorrentState], NEW t \in Torrents, NEW here, NEW op,
           NEW now, Call(t, here, op, now), Still(tor[t], now)
    PROVE  \A u \in Torrents : Placed(u)
BY OneStill DEF Call

(* No call of the user that goes by the queue takes a slot that is not     *)
(* free,                                                                   *)
LEMMA UserPlaces ==
    ASSUME ~AppThread, SessionInv, UserNext, ~QueueTimer
    PROVE  \A t \in Torrents : Placed(t)
<1>0. /\ tor \in [Torrents -> TorrentState] /\ \A t \in Torrents : tor[t] \in TorrentState
  BY DEF SessionInv, TorInv
<1>1. ASSUME NEW t \in Torrents, NEW bypass \in BOOLEAN, UserStart(t, bypass)
      PROVE  \A u \in Torrents : Placed(u)
  <2> DEFINE r  == [tor[t] EXCEPT !.intent = TRUE]
             ts == Intend(tor, t)
  <2>1. PICK gone \in Gone :
          Call(t, StartHere(ts, t, bypass, gone), "start", StartNow(ts, t, bypass, gone))
    BY <1>1 DEF UserStart
  <2>2. ts = [tor EXCEPT ![t] = r] /\ ts \in [Torrents -> TorrentState]
    BY <1>0, IntendKept DEF Intend
  <2>3. Still(tor[t], r) /\ r.done = tor[t].done
    BY <1>0 DEF Still, TorrentState
  <2> HIDE DEF r, ts
  <2>4. ts[t] = r /\ \A u \in Torrents : u # t => ts[u] = tor[u]
    BY <1>0, <2>2
  <2>5. tor' = [ts EXCEPT ![t] = StartNow(ts, t, bypass, gone)]
    BY <1>0, <2>1, <2>2 DEF Call
  <2>6. CASE bypass = FALSE
    BY <1>0, <2>2, <2>3, <2>4, <2>5, <2>6, OneStarts, GoneIsBoolean
  <2>7. CASE bypass = TRUE
    <3>1. Admits(t)
      BY <1>1, <2>7 DEF Admits
    <3> QED BY <1>0, <2>2, <2>3, <2>4, <2>5, <3>1, OneSkips, GoneIsBoolean
  <2> QED BY <2>6, <2>7
<1>2. ASSUME NEW t \in Torrents, UserStop(t) PROVE \A u \in Torrents : Placed(u)
  <2> DEFINE now == [tor[t] EXCEPT !.stopping = TRUE]
  <2>1. Call(t, [tor[t] EXCEPT !.intent = FALSE, !.dirty = TRUE], "stop", now)
    BY <1>2 DEF UserStop
  <2>2. Still(tor[t], now)
    BY <1>0 DEF Still, TorrentState
  <2> HIDE DEF now
  <2> QED BY <1>0, <2>1, <2>2, CallPlaces
<1>3. ASSUME NEW t \in Torrents, UserVerify(t) PROVE \A u \in Torrents : Placed(u)
  <2>1. PICK gone \in Gone : Call(t, tor[t], "verify", VerifyNow(tor[t], gone))
    BY <1>3 DEF UserVerify
  <2>2. Still(tor[t], VerifyNow(tor[t], gone))
    BY <1>0, VerifyNowData, GoneIsBoolean
  <2> QED BY <1>0, <2>1, <2>2, CallPlaces
<1>4. ASSUME NEW t \in Torrents, UserRelocate(t) PROVE \A u \in Torrents : Placed(u)
  <2>1. PICK ok \in BOOLEAN :
          Call(t, tor[t], IF ok THEN "move" ELSE "movefail", Relocate(tor[t], ok))
    BY <1>4 DEF UserRelocate
  <2>2. Still(tor[t], Relocate(tor[t], ok))
    BY <1>0, RelocateStill
  <2> QED BY <1>0, <2>1, <2>2, CallPlaces
<1>5. ASSUME NEW t \in Torrents, UserRemove(t) PROVE \A u \in Torrents : Placed(u)
  <2>1. tor' = [tor EXCEPT ![t] = NoTorrent]
    BY <1>5 DEF UserRemove
  <2>2. Still(tor[t], NoTorrent)
    BY DEF Still, NoTorrent, Fresh
  <2> QED BY <1>0, <2>1, <2>2, OneStill
<1>6. ASSUME NEW t \in Torrents, NEW has \in Progress, UserSetFilesWanted(t, has)
      PROVE  \A u \in Torrents : Placed(u)
  <2> DEFINE r == [tor[t] EXCEPT !.has = has, !.dirty = TRUE]
  <2>1. PICK gone \in Gone : tor' = [tor EXCEPT ![t] = Recheck(r, gone)]
    BY <1>6 DEF UserSetFilesWanted
  <2>2. r \in TorrentState /\ Still(tor[t], r)
    BY <1>0 DEF Still, TorrentState
  <2> HIDE DEF r
  <2>3. Still(tor[t], Recheck(r, gone))
    BY <2>2, RecheckData, StillTwice, GoneIsBoolean
  <2> QED BY <1>0, <2>1, <2>3, OneStill
<1>7. ASSUME NEW t \in Torrents, NEW intent \in BOOLEAN, NEW kind \in Kinds,
             UserAdd(t, intent, kind)
      PROVE  \A u \in Torrents : Placed(u)
  <2> DEFINE r   == Added(kind, intent)
             ts  == [tor EXCEPT ![t] = r]
             mag == kind = "magnet"
  <2>1. r \in TorrentState /\ r.running = FALSE /\ r.queued = FALSE /\ ~NeedsRecheck(r)
        /\ (mag => r.meta = FALSE)
    <3> DEFINE f == Fresh(TRUE, kind # "magnet", NoResume)
               g == [f EXCEPT !.intent = intent]
               u == [g EXCEPT !.has = "all"]
               c == Recheck(u, FALSE)
    <3>1. f \in TorrentState /\ f.running = FALSE /\ f.queued = FALSE /\ f.has = "none" /\ f.done = FALSE
          /\ (mag => f.meta = FALSE)
      <4>1. NoResume \in Resume /\ (kind # "magnet") \in BOOLEAN
        BY DEF NoResume, Progress, Resume
      <4> QED BY <4>1, FreshType DEF Fresh, NoResume
    <3>2. r = IF kind = "seed" THEN c ELSE g
      BY DEF Added
    <3> HIDE DEF f
    <3>3. /\ g.running = FALSE /\ g.queued = FALSE /\ g.has = "none" /\ g.done = FALSE
          /\ (mag => g.meta = FALSE)
          /\ u \in TorrentState /\ u.running = FALSE /\ u.queued = FALSE /\ u.done = FALSE
          /\ u.has = "all"
      BY <3>1 DEF TorrentState, Progress
    <3> HIDE DEF g, u
    <3>4. ~NeedsRecheck(g)
      BY <3>3 DEF NeedsRecheck
    <3>5. NeedsRecheck(u) /\ ~VerifiesFirst(u)
      BY <3>3 DEF NeedsRecheck, VerifiesFirst
    <3>6. Still(u, c) /\ c.has = "all"
      BY <3>3, RecheckData
    <3>7. c.done = TRUE
      <4> DEFINE d == [[u EXCEPT !.check = FALSE] EXCEPT !.done = ~u.done, !.dirty = TRUE]
      <4>1. d \in TorrentState /\ d.done = TRUE
        BY <3>3 DEF TorrentState
      <4>2. c = Save(d)
        BY <3>5, <4>1 DEF Recheck, VerifiesFirst
      <4> HIDE DEF d
      <4> QED BY <4>1, <4>2, SaveData DEF SameData
    <3>8. c.running \in BOOLEAN /\ c.queued \in BOOLEAN
      BY <3>3, RecheckKept DEF Kept, TorrentState
    <3>9. ~NeedsRecheck(c) /\ c.running = FALSE /\ c.queued = FALSE
      BY <3>3, <3>6, <3>7, <3>8 DEF NeedsRecheck, Still
    <3> HIDE DEF c
    <3>10. r \in TorrentState
      BY AddedType
    <3> QED BY <3>2, <3>3, <3>4, <3>9, <3>10
  <2>2. \/ tor' = ts \/ tor' = [ts EXCEPT ![t] = VerifyNow(@, FALSE)]
        \/ tor' = [ts EXCEPT ![t] = StartNow(ts, t, mag, FALSE)]
    BY <1>7 DEF UserAdd
  <2> HIDE DEF r
  <2>3. ts[t] = r /\ ts \in [Torrents -> TorrentState]
        /\ \A u \in Torrents : u # t => ts[u] = tor[u]
    BY <1>0, <2>1
  <2>4. Still(tor[t], r)
    BY <2>1 DEF Still
  <2>5. CASE tor' = ts
    BY <1>0, <2>4, <2>5, OneStill
  <2>6. CASE tor' = [ts EXCEPT ![t] = VerifyNow(@, FALSE)]
    <3>1. tor' = [tor EXCEPT ![t] = VerifyNow(r, FALSE)]
      BY <1>0, <2>3, <2>6
    <3>2. Still(tor[t], VerifyNow(r, FALSE))
      BY <2>1, <2>4, VerifyNowData, StillTwice
    <3> QED BY <1>0, <3>1, <3>2, OneStill
  <2>7. CASE tor' = [ts EXCEPT ![t] = StartNow(ts, t, mag, FALSE)]
    <3> DEFINE s == StartNow(ts, t, mag, FALSE)
    <3>1. s.meta = r.meta /\ s.done = r.done
      <4>1. ts[t] \in TorrentState /\ mag \in BOOLEAN /\ ~NeedsRecheck(ts[t])
        BY <2>1, <2>3
      <4>2. PICK skip \in BOOLEAN, gone \in BOOLEAN : skip = mag /\ gone = FALSE
        BY <4>1
      <4> HIDE DEF ts, mag
      <4>3. s = StartNow(ts, t, skip, gone)
        BY <4>2
      <4> HIDE DEF s
      <4>4. s.meta = ts[t].meta /\ s.done = ts[t].done
        BY <4>1, <4>3, StartNowData
      <4> QED BY <2>3, <4>4
    <3> HIDE DEF ts, s
    <3>2. CASE mag = FALSE
      <4>1. s = StartNow(ts, t, FALSE, FALSE)
        BY <3>2 DEF s
      <4>2. tor' = [ts EXCEPT ![t] = s]
        BY <2>7 DEF s
      <4> QED BY <1>0, <2>3, <2>4, <3>1, <4>1, <4>2, OneStarts
    <3>3. CASE mag = TRUE
      <4>1. tor'[t] = s
        BY <2>3, <2>7 DEF s
      <4>2. Admits(t)
        BY <2>1, <3>1, <3>3, <4>1 DEF Admits
      <4> QED BY <1>0, <2>3, <2>4, <2>7, <4>2, OneSkips
    <3> QED BY <3>2, <3>3
  <2> QED BY <2>2, <2>5, <2>6, <2>7
<1>8. ASSUME NEW q, UserMove(q) PROVE \A u \in Torrents : Placed(u)
  BY <1>8, SamePlaced DEF UserMove
<1> QED BY <1>1, <1>2, <1>3, <1>4, <1>5, <1>6, <1>7, <1>8 DEF UserNext

(* A recheck and then a start: the start finds the torrent as complete as  *)
(* the recheck left it.                                                    *)
LEMMA OneRechecked ==
    ASSUME tor \in [Torrents -> TorrentState], NEW t \in Torrents, NEW a \in TorrentState,
           Still(tor[t], a), a.done = tor[t].done, NEW r, r = Recheck(a, FALSE),
           tor' = [tor EXCEPT ![t] = StartNow([tor EXCEPT ![t] = r], t, FALSE, FALSE)]
    PROVE  \A u \in Torrents : Placed(u)
<1> DEFINE ts == [tor EXCEPT ![t] = r]
           s  == StartNow(ts, t, FALSE, FALSE)
<1>1. /\ r \in TorrentState /\ Still(a, r)
      /\ r.done = tor[t].done \/ ~NeedsRecheck(r)
  BY RecheckData, RecheckKept DEF Kept
<1>2. /\ ts \in [Torrents -> TorrentState] /\ ts[t] = r
      /\ \A u \in Torrents : u # t => ts[u] = tor[u]
  BY <1>1
<1>3. tor' = [ts EXCEPT ![t] = s]
  OBVIOUS
<1> HIDE DEF ts
<1>4. ~NeedsRecheck(ts[t]) => s.done = ts[t].done
  BY <1>1, <1>2, StartNowData
<1>5. Still(tor[t], ts[t])
  BY <1>1, <1>2, StillTwice
<1> HIDE DEF s
<1>6. s.done = tor[t].done => s.done = ts[t].done
  BY <1>1, <1>2, <1>4
<1>7. PICK gone \in BOOLEAN : gone = FALSE
  OBVIOUS
<1>8. s = StartNow(ts, t, FALSE, gone)
  BY <1>7 DEF s
<1>9. tor \in [Torrents -> TorrentState] /\ t \in Torrents
  OBVIOUS
<1> QED BY ONLY <1>2, <1>3, <1>5, <1>6, <1>7, <1>8, <1>9, OneStarts

(* nor does a change of one torrent that starts nothing,                   *)
LEMMA ChangePlaces ==
    ASSUME tor \in [Torrents -> TorrentState], NEW t \in Torrents, NEW r, Change(t, r),
           Still(tor[t], r)
    PROVE  \A u \in Torrents : Placed(u)
BY OneStill DEF Change

(* nor do the blocks, the errors and the verification of a torrent.        *)
LEMMA TorrentPlaces ==
    ASSUME SessionInv, NEW t \in Torrents, TorrentNext(t)
    PROVE  \A u \in Torrents : Placed(u)
<1>0. tor \in [Torrents -> TorrentState] /\ tor[t] \in TorrentState
  BY DEF SessionInv, TorInv
<1>1. CASE SeedLimit(t)
  <2> DEFINE r == [tor[t] EXCEPT !.stopping = TRUE]
  <2>1. Change(t, r) /\ Still(tor[t], r)
    BY <1>0, <1>1 DEF SeedLimit, Still, TorrentState
  <2> HIDE DEF r
  <2> QED BY <1>0, <2>1, ChangePlaces
<1>2. CASE WriteError(t)
  <2> DEFINE r == [tor[t] EXCEPT !.error = TRUE]
  <2>1. Change(t, Stop(r)) /\ r \in TorrentState /\ Still(tor[t], r)
    BY <1>0, <1>2 DEF WriteError, Still, TorrentState
  <2> HIDE DEF r
  <2>2. Still(tor[t], Stop(r))
    BY <2>1, StopStill, StillTwice
  <2> QED BY <1>0, <2>1, <2>2, ChangePlaces
<1>3. ASSUME NEW has \in Progress, Receive(t, has) PROVE \A u \in Torrents : Placed(u)
  <2> DEFINE r == [tor[t] EXCEPT !.has = has, !.dirty = TRUE, !.check = TRUE,
                               !.idle = FALSE]
  <2>1. Change(t, r) /\ Still(tor[t], r)
    BY <1>0, <1>3 DEF Receive, Still, TorrentState
  <2> HIDE DEF r
  <2> QED BY <1>0, <2>1, ChangePlaces
<1>4. ASSUME NEW seed \in BOOLEAN, GetMetainfo(t, seed) PROVE \A u \in Torrents : Placed(u)
  <2> DEFINE r  == [tor[t] EXCEPT !.meta = TRUE, !.dirty = TRUE]
             a  == [r EXCEPT !.has = "all"]
             s  == Recheck(a, FALSE)
             ts == [tor EXCEPT ![t] = s]
             v  == [s EXCEPT !.stopping = s.stopping \/ s.running]
             n  == StartNow(ts, t, FALSE, FALSE)
  <2>1. Change(t, IF ~seed THEN VerifyNow(r, FALSE) ELSE IF s.intent THEN n ELSE v)
    BY <1>4 DEF GetMetainfo
  <2>2. /\ r \in TorrentState /\ Still(tor[t], r) /\ a \in TorrentState /\ Still(tor[t], a)
        /\ a.done = tor[t].done
    <3>1. r \in TorrentState /\ Still(tor[t], r) /\ r.done = tor[t].done
      BY <1>0 DEF Still, TorrentState
    <3> HIDE DEF r
    <3>2. a \in TorrentState /\ Still(r, a) /\ a.done = r.done
      BY <3>1 DEF Still, TorrentState, Progress
    <3> HIDE DEF a
    <3> QED BY <3>1, <3>2, StillTwice
  <2> HIDE DEF r, a
  <2>3. s \in TorrentState /\ Still(tor[t], s)
    BY <2>2, RecheckData, RecheckKept, StillTwice DEF Kept
  <2>4. CASE ~seed
    <3>1. Still(tor[t], VerifyNow(r, FALSE))
      BY <2>2, VerifyNowData, StillTwice
    <3>2. Change(t, VerifyNow(r, FALSE))
      BY <2>1, <2>4
    <3> QED BY <1>0, <3>1, <3>2, ChangePlaces
  <2>5. CASE seed /\ s.intent
    <3>1. tor' = [tor EXCEPT ![t] = StartNow([tor EXCEPT ![t] = s], t, FALSE, FALSE)]
      BY <2>1, <2>5 DEF Change
    <3> QED BY <1>0, <2>2, <3>1, OneRechecked
  <2>6. CASE seed /\ ~s.intent
    <3> HIDE DEF s
    <3>1. Still(s, v)
      BY <2>3 DEF Still, TorrentState
    <3>2. Change(t, v)
      BY <2>1, <2>6
    <3> HIDE DEF v
    <3>3. Still(tor[t], v)
      BY <2>3, <3>1, StillTwice
    <3> QED BY <1>0, <3>2, <3>3, ChangePlaces
  <2> QED BY <2>4, <2>5, <2>6
<1>5. CASE VerifyBegin(t)
  <2> DEFINE r == [tor[t] EXCEPT !.verify = "active"]
  <2>1. Change(t, r) /\ Still(tor[t], r)
    BY <1>0, <1>5 DEF VerifyBegin, Still, TorrentState
  <2> HIDE DEF r
  <2> QED BY <1>0, <2>1, ChangePlaces
<1>6. CASE VerifyDone(t)
  <2> DEFINE r == [tor[t] EXCEPT !.verify = "none"]
  <2>1. tor' = [tor EXCEPT ![t] = r] /\ Still(tor[t], r)
    BY <1>0, <1>6 DEF VerifyDone, Still, TorrentState
  <2> HIDE DEF r
  <2> QED BY <1>0, <2>1, OneStill
<1>7. ASSUME NEW has \in Progress, VerifyPiece(t, has) PROVE \A u \in Torrents : Placed(u)
  <2> DEFINE r == [tor[t] EXCEPT !.has = has, !.dirty = TRUE]
  <2>1. Change(t, r) /\ Still(tor[t], r)
    BY <1>0, <1>7 DEF VerifyPiece, Still, TorrentState
  <2> HIDE DEF r
  <2> QED BY <1>0, <2>1, ChangePlaces
<1>8. CASE GoesIdle(t)
  <2> DEFINE r == [tor[t] EXCEPT !.idle = TRUE]
  <2>1. Change(t, r) /\ Still(tor[t], r)
    BY <1>0, <1>8 DEF GoesIdle, Still, TorrentState
  <2> HIDE DEF r
  <2> QED BY <1>0, <2>1, ChangePlaces
<1>9. CASE Transfer(t)
  <2> DEFINE r == [tor[t] EXCEPT !.idle = FALSE]
  <2>1. Change(t, r) /\ Still(tor[t], r)
    BY <1>0, <1>9 DEF Transfer, Still, TorrentState
  <2> HIDE DEF r
  <2> QED BY <1>0, <2>1, ChangePlaces
<1> QED BY <1>1, <1>2, <1>3, <1>4, <1>5, <1>6, <1>7, <1>8, <1>9 DEF TorrentNext

(* The queue timer: seeds first, then downloads.  A torrent that the first *)
(* pulse found to be otherwise complete does not wait for the second.      *)
LEMMA PulseApart ==
    ASSUME SessionInv, NEW ts \in [Torrents -> TorrentState], NEW dir \in Directions, NEW gone,
           NEW t \in Torrents
    PROVE  LET s == Pulse(ts, dir, gone)[t]
           IN  /\ Apart(ts[t]) => Apart(s)
               /\ s.queued => s.done = ts[t].done
               /\ ~ts[t].queued => s = ts[t]
<1> DEFINE s == Pulse(ts, dir, gone)[t]
           g == t \in gone
           n == StartNow(Intend(ts, t), t, TRUE, g)
           r == [ts[t] EXCEPT !.intent = TRUE]
<1>1. /\ s = ts[t] \/ (s = Pulsed(ts, t, gone) /\ ts[t].queued)
  BY PulseIs
<1>2. g \in BOOLEAN /\ Pulsed(ts, t, gone) = n
  BY DEF Pulsed
<1> HIDE DEF g, n, s
<1>3. n.queued => n.done = ts[t].done
  BY <1>2, ChosenStarts, ZenonT(30) DEF n
<1>4. ASSUME Apart(ts[t]) PROVE Apart(n)
  <2>1. Intend(ts, t) = [ts EXCEPT ![t] = r]
    BY DEF Intend
  <2>2. r \in TorrentState /\ Apart(r)
    BY <1>4, ZenonT(30) DEF Apart, TorrentState
  <2> HIDE DEF r
  <2>3. Intend(ts, t)[t] = r
    BY <2>1
  <2>4. PICK skip \in BOOLEAN : skip = TRUE
    OBVIOUS
  <2>5. n = StartNow(Intend(ts, t), t, skip, g)
    BY <2>4 DEF n
  <2>6. Apart(StartNow(Intend(ts, t), t, skip, g))
    BY <1>2, <2>2, <2>3, StartNowApart
  <2> QED BY <2>5, <2>6
<1>5. /\ Apart(ts[t]) => Apart(s)
      /\ s.queued => s.done = ts[t].done
      /\ ~ts[t].queued => s = ts[t]
  BY <1>1, <1>2, <1>3, <1>4
<1> QED BY <1>5 DEF s

(* The queue timer takes free slots only.                                  *)
LEMMA TimerPlaces ==
    ASSUME SessionInv, QueueTimer
    PROVE  \A t \in Torrents : Placed(t)
<1>1. PICK gone \in GoneSets : tor' = Pulse(Pulse(tor, "up", gone), "down", gone)
  BY DEF QueueTimer
<1> DEFINE mid == Pulse(tor, "up", gone)
<1>2. /\ tor \in [Torrents -> TorrentState] /\ mid \in [Torrents -> TorrentState]
      /\ "up" \in Directions /\ "down" \in Directions
  BY PulseKept DEF SessionInv, TorInv, Directions
<1>3. ASSUME NEW t \in Torrents
      PROVE  /\ Apart(tor[t]) => Apart(mid[t])
             /\ mid[t].queued => mid[t].done = tor[t].done
  BY <1>2, PulseApart
<1>4. ASSUME \A u \in Torrents : mid[u].done = tor[u].done
      PROVE  \A t \in Torrents : mid[t].running /\ ~tor[t].running =>
                /\ Direction(mid[t]) = "up"
                /\ QueueEnabled("up") => Cardinality(Active(mid, "up")) <= QueueSize["up"]
  BY <1>2, <1>4, PulseAdmits
<1> HIDE DEF mid
<1>5. tor' = Pulse(mid, "down", gone)
  BY <1>1 DEF mid
<1>6. ASSUME NEW t \in Torrents
      PROVE  /\ Apart(mid[t]) => Apart(tor'[t])
             /\ ~mid[t].queued => tor'[t] = mid[t]
  BY <1>2, <1>5, PulseApart
<1>7. ASSUME \A u \in Torrents : tor'[u].done = mid[u].done
      PROVE  /\ \A t \in Torrents : tor'[t].running /\ ~mid[t].running =>
                  /\ Direction(tor'[t]) = "down"
                  /\ QueueEnabled("down") => Cardinality(Active(tor', "down")) <= QueueSize["down"]
             /\ Active(tor', "up") \subseteq Active(mid, "up")
  BY <1>2, <1>5, <1>7, PulseAdmits
<1>8. ASSUME NEW t \in Torrents PROVE Admits(t)
  <2> SUFFICES ASSUME ~tor[t].running, tor'[t].running,
                      \A u \in Torrents : tor'[u].done = tor[u].done,
                      QueueEnabled(Direction(tor'[t]))
               PROVE  Cardinality(Active(tor', Direction(tor'[t]))) <= QueueSize[Direction(tor'[t])]
    BY DEF Admits
  <2>1. \A u \in Torrents : mid[u].done = tor[u].done
    BY <1>3, <1>6
  <2>2. \A u \in Torrents : tor'[u].done = mid[u].done
    BY <2>1
  <2>3. CASE mid[t].running
    <3>1. /\ Direction(mid[t]) = "up"
          /\ QueueEnabled("up") => Cardinality(Active(mid, "up")) <= QueueSize["up"]
      BY <1>4, <2>1, <2>3
    <3>2. Direction(tor'[t]) = "up"
      BY <2>2, <3>1 DEF Direction
    <3>3. Cardinality(Active(tor', "up")) <= Cardinality(Active(mid, "up"))
      BY <1>7, <2>2, ActiveFinite, FS_Subset
    <3>4. /\ Cardinality(Active(tor', "up")) \in Nat /\ Cardinality(Active(mid, "up")) \in Nat
          /\ QueueSize["up"] \in Nat
      BY <1>2, ActiveFinite, SizeType
    <3> QED BY <3>1, <3>2, <3>3, <3>4
  <2>4. CASE ~mid[t].running
    BY <1>7, <2>2, <2>4
  <2> QED BY <2>3, <2>4
<1> QED BY <1>3, <1>6, <1>8 DEF Placed

(* A torrent that is loaded takes a slot only if one is free,              *)
LEMMA LoadPlaces ==
    ASSUME SessionInv, LoadTorrent
    PROVE  \A u \in Torrents : Placed(u)
<1> DEFINE t  == Head(toLoad)
           in == IF tor[t].resume.exists THEN ~tor[t].resume.paused ELSE TRUE
           r  == [tor[t] EXCEPT !.intent = in]
           ts == [tor EXCEPT ![t].intent = in]
<1>0. tor \in [Torrents -> TorrentState]
  BY DEF SessionInv, TorInv
<1>1. t \in Torrents
  <2>1. toLoad # <<>> /\ toLoad \in Seq(Torrents)
    BY DEF LoadTorrent, Up, SessionInv, LoadInv
  <2> QED BY <2>1
<1>2. PICK gone \in Gone :
        tor' = [ts EXCEPT ![t] = IF in THEN StartNow(ts, t, ~ts[t].meta, gone)
                                 ELSE [ts[t] EXCEPT !.error = Disappeared(ts[t], gone)]]
  BY DEF LoadTorrent
<1>3. in \in BOOLEAN
  BY <1>0, <1>1 DEF TorrentState
<1>4. ts = [tor EXCEPT ![t] = r]
  OBVIOUS
<1> HIDE DEF t, in
<1>5. r \in TorrentState /\ Still(tor[t], r) /\ r.done = tor[t].done /\ r.meta \in BOOLEAN
  BY <1>0, <1>1, <1>3 DEF Still, TorrentState
<1> HIDE DEF r
<1>6. /\ ts[t] = r /\ ts \in [Torrents -> TorrentState]
      /\ \A u \in Torrents : u # t => ts[u] = tor[u]
  BY <1>0, <1>1, <1>4, <1>5
<1>7. CASE ~in
  <2> DEFINE e == [r EXCEPT !.error = Disappeared(r, gone)]
  <2>1. tor' = [tor EXCEPT ![t] = e]
    BY <1>0, <1>1, <1>2, <1>4, <1>6, <1>7
  <2>2. Still(tor[t], e)
    BY <1>5 DEF Still, TorrentState
  <2> HIDE DEF e
  <2> QED BY <1>0, <1>1, <2>1, <2>2, OneStill
<1> HIDE DEF ts
<1>8. CASE in /\ r.meta
  <2> DEFINE s == StartNow(ts, t, FALSE, gone)
  <2>1. tor' = [ts EXCEPT ![t] = s]
    BY <1>2, <1>5, <1>6, <1>8
  <2>2. s = StartNow(ts, t, FALSE, gone) /\ gone \in BOOLEAN
    BY GoneIsBoolean
  <2> HIDE DEF s
  <2>3. Still(tor[t], ts[t]) /\ (s.done = tor[t].done => s.done = ts[t].done)
    BY <1>5, <1>6
  <2> QED BY ONLY <1>0, <1>1, <1>6, <2>1, <2>2, <2>3, OneStarts
<1>9. CASE in /\ ~r.meta
  <2>1. PICK bypass \in BOOLEAN : bypass = TRUE
    OBVIOUS
  <2> DEFINE s == StartNow(ts, t, bypass, gone)
  <2>2. tor' = [ts EXCEPT ![t] = s]
    BY <1>2, <1>5, <1>6, <1>9, <2>1
  <2>3. s.meta = ts[t].meta
    BY <1>5, <1>6, StartNowData, GoneIsBoolean
  <2>4. gone \in BOOLEAN /\ Still(tor[t], ts[t])
    BY <1>5, <1>6, GoneIsBoolean
  <2>5. Admits(t)
    <3> HIDE DEF s
    <3>1. tor'[t] = s
      BY <1>1, <1>6, <2>2
    <3> QED BY <1>6, <1>9, <2>3, <3>1 DEF Admits
  <2>6. tor' = [ts EXCEPT ![t] = StartNow(ts, t, bypass, gone)]
    BY <2>2
  <2> QED BY ONLY <1>0, <1>1, <1>6, <2>1, <2>4, <2>5, <2>6, OneSkips
<1> QED BY <1>5, <1>7, <1>8, <1>9

(* and so does whatever the session does,                                  *)
LEMMA SessionPlaces ==
    ASSUME SessionInv, IntentInv, SessionNext
    PROVE  \A t \in Torrents : Placed(t)
<1>0. /\ tor \in [Torrents -> TorrentState] /\ \A t \in Torrents : tor[t] \in TorrentState
      /\ work \in Seq(Completion)
  BY DEF SessionInv, TorInv, IntentInv
<1>1. CASE RunWork
  <2> DEFINE op == Head(work).op
             t  == Head(work).t
             r  == Recheck(tor[t], FALSE)
  <2>1. op = "verified" /\ t \in Torrents
    <3>1. Head(work) \in Completion
      BY <1>0, <1>1 DEF RunWork
    <3> QED BY <3>1 DEF Completion
  <2>2. tor' = [tor EXCEPT ![t] = IF t \in torrents /\ ~tor[t].deleting THEN Verified(tor, t) ELSE @]
    BY <1>1, <2>1 DEF RunWork
  <2> HIDE DEF t, op
  <2>3. Still(tor[t], tor[t]) /\ tor[t] \in TorrentState
    BY <1>0, <2>1 DEF Still
  <2>4. Still(tor[t], r)
    BY <2>3, RecheckData
  <2>5. CASE tor' = [tor EXCEPT ![t] = tor[t]]
    BY <1>0, <2>1, <2>3, <2>5, OneStill
  <2>6. CASE tor' = [tor EXCEPT ![t] = r]
    <3> HIDE DEF r
    <3> QED BY <1>0, <2>1, <2>4, <2>6, OneStill
  <2>7. CASE tor' = [tor EXCEPT ![t] = StartNow([tor EXCEPT ![t] = r], t, FALSE, FALSE)]
    <3>1. r = Recheck(tor[t], FALSE) /\ tor[t].done = tor[t].done
      OBVIOUS
    <3> HIDE DEF r
    <3> QED BY <1>0, <2>1, <2>3, <2>7, <3>1, OneRechecked
  <2> QED BY <2>1, <2>2, <2>5, <2>6, <2>7 DEF Verified
<1>2. CASE QueueTimer
  BY <1>2, TimerPlaces
<1>3. CASE IdleWork
  <2>1. PICK gone \in GoneSets :
          tor' = [t \in Torrents |-> IF t \in torrents THEN Idle(tor[t], t \in gone) ELSE tor[t]]
    BY <1>3 DEF IdleWork
  <2>2. ASSUME NEW t \in Torrents PROVE Placed(t)
    <3> DEFINE g == t \in gone
    <3>1. tor'[t] \in {Idle(tor[t], g), tor[t]} /\ g \in BOOLEAN
      BY <2>1
    <3> HIDE DEF g
    <3>2. Still(tor[t], Idle(tor[t], g))
      BY <1>0, <3>1, IdleStill
    <3> QED BY <3>1, <3>2, StillPlaced, SamePlaced
  <2> QED BY <2>2
<1>4. CASE SaveTimer
  <2>1. ASSUME NEW t \in Torrents PROVE Placed(t)
    <3>1. tor'[t] \in {Save(tor[t]), tor[t]}
      BY <1>4 DEF SaveTimer
    <3>2. Still(tor[t], Save(tor[t]))
      BY <1>0, SaveData
    <3> QED BY <3>1, <3>2, StillPlaced, SamePlaced
  <2> QED BY <2>1
<1>5. CASE LoadTorrent
  BY <1>5, LoadPlaces
<1>6. CASE Close \/ Crash
  <2>1. PICK ts, file : Reopen(ts, file)
    BY <1>6 DEF Close, Crash
  <2>2. ASSUME NEW t \in Torrents PROVE Placed(t)
    <3>1. tor'[t] = IF ts[t].stored THEN Fresh(TRUE, ts[t].meta, ts[t].resume) ELSE NoTorrent
      BY <2>1 DEF Reopen
    <3>2. tor'[t].running = FALSE /\ tor'[t].queued = FALSE
      BY <3>1 DEF NoTorrent, Fresh
    <3>3. Still(tor[t], tor'[t])
      BY <3>2 DEF Still
    <3> QED BY <3>3, StillPlaced
  <2> QED BY <2>2
<1> QED BY <1>1, <1>2, <1>3, <1>4, <1>5, <1>6 DEF SessionNext

(* and every step.                                                         *)
LEMMA EveryStepPlaces ==
    ASSUME ~AppThread, SessionInv, IntentInv, [Next]_vars
    PROVE  \A t \in Torrents : Placed(t)
<1>1. CASE UNCHANGED vars
  BY <1>1, SamePlaced DEF vars
<1>2. CASE QueueTimer
  BY <1>2, TimerPlaces
<1>3. CASE UserNext /\ ~QueueTimer
  BY <1>3, UserPlaces
<1>4. CASE SessionNext
  BY <1>4, SessionPlaces
<1>5. ASSUME NEW t \in Torrents, TorrentNext(t) PROVE \A u \in Torrents : Placed(u)
  BY <1>5, TorrentPlaces
<1> QED BY <1>1, <1>2, <1>3, <1>4, <1>5 DEF Next

(* No torrent waits for a slot while it runs.                              *)
ApartInv == \A t \in Torrents : Apart(tor[t])

(* When a session starts, no torrent both runs and waits.                  *)
LEMMA ApartInit == Init => ApartInv
BY DEF Init, ApartInv, Apart, NoTorrent, Fresh

(* No torrent ever both runs and waits, when the session thread makes all  *)
(* calls.                                                                  *)
LEMMA ApartHolds ==
    ASSUME ~AppThread
    PROVE  Spec => [](SessionInv /\ IntentInv /\ ApartInv)
<1>1. SessionInv /\ IntentInv /\ ApartInv /\ [Next]_vars => ApartInv'
  <2> SUFFICES ASSUME SessionInv, IntentInv, ApartInv, [Next]_vars PROVE ApartInv'
    OBVIOUS
  <2>1. \A t \in Torrents : Placed(t)
    BY EveryStepPlaces
  <2> QED BY <2>1 DEF Placed, ApartInv
<1> QED BY <1>1, ApartInit, IntentHolds, PTL DEF Spec

(* Whenever the queue timer fires, it leaves no torrent waiting that could *)
(* have a free slot, when those that wait may start.                       *)
THEOREM TimerFillsAll ==
    ASSUME ~AppThread
    PROVE  Spec => []TimerFillsSlots
<1>1. SessionInv /\ ApartInv => TimerFillsSlots
  BY TimerFills, TorrentsType DEF ApartInv, SessionInv
<1> QED BY <1>1, ApartHolds, PTL

(* No start that goes by the queue, and no pulse of its timer, leaves more *)
(* torrents active in a direction than it has slots.                       *)
THEOREM SlotsHold ==
    ASSUME ~AppThread
    PROVE  Spec => SlotsRespected
<1> DEFINE Kind == \A t \in Torrents : Admits(t)
<1>1. SessionInv /\ IntentInv /\ ApartInv /\ [Next]_vars => Kind
  BY EveryStepPlaces DEF Placed
<1> QED BY <1>1, ApartHolds, PTL DEF SlotsRespected, Spec, Admits

=============================================================================
