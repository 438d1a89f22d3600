-------------------------- MODULE AnnouncerProofs ---------------------------
(***************************************************************************)
(* Proofs about Announcer, for any trackers, any lists and any bounds.     *)
(*                                                                         *)
(* Neither invariant about steady tiers is inductive: what is queued and   *)
(* what is under way have to be taken together.  While the torrent runs, a *)
(* stop is never the last event of a queue, and one that is under way has  *)
(* something behind it; while it is stopped, a stop is the last event of a *)
(* queue, and anything else that is under way has one behind it.           *)
(***************************************************************************)
EXTENDS Announcer, FiniteSetTheorems, WellFoundedInduction, TLAPS

WhileRunning(t) ==
    /\ t.flight # <<>> \/ t.events # <<>>
    /\ t.events # <<>> => t.events[Len(t.events)] # "stopped"
    /\ t.flight # <<>> /\ t.flight[1].event = "stopped" => t.events # <<>>

WhileStopped(t) ==
    /\ t.events # <<>> => t.events[Len(t.events)] = "stopped"
    /\ t.flight # <<>> /\ t.flight[1].event # "stopped" => t.events # <<>>

SteadyInv(t, r) ==
    t.steady => /\ Len(t.flight) <= 1
                /\ t.events # <<>> => t.scheduled
                /\ IF r THEN WhileRunning(t) ELSE WhileStopped(t)

TierOK(t) ==
    /\ t \in Tier
    /\ t.pos \in 1 .. Len(t.order)
    /\ IsInjective(t.order)
    /\ WellQueued(t.events)

TierInv(t, r) == TierOK(t) /\ SteadyInv(t, r)

IInv ==
    /\ running \in BOOLEAN /\ (running => Present)
    /\ tiers \in Seq(Tier)
    /\ \A i \in DOMAIN tiers : TierInv(tiers[i], running)

-----------------------------------------------------------------------------
(* What is left of a queue without its trailing events e.                  *)
Trimmed(q, e) ==
    IF q # <<>> /\ q[Len(q)] = e THEN SubSeq(q, 1, Len(q) - 1) ELSE q

(* In a queue without equal neighbours, RemoveTrailing drops one event at  *)
(* most.                                                                   *)
LEMMA Trailing ==
    ASSUME NEW q \in Seq(Events), NEW e \in Events,
           \A n \in 1 .. Len(q) - 1 : q[n] # q[n + 1]
    PROVE  RemoveTrailing(q, e) = Trimmed(q, e)
<1> DEFINE P(n) == /\ n = 0 \/ q[n] # e
                   /\ \A i \in n + 1 .. Len(q) : q[i] = e
           m == IF q # <<>> /\ q[Len(q)] = e THEN Len(q) - 1 ELSE Len(q)
<1>1. m \in 0 .. Len(q) /\ P(m)
  <2>1. CASE q = <<>> \/ q[Len(q)] # e
    BY <2>1
  <2>2. CASE q # <<>> /\ q[Len(q)] = e
    <3>0. Len(q) \in Nat \ {0}
      BY <2>2
    <3>1. m = Len(q) - 1
      BY <2>2
    <3>2. Len(q) # 1 => q[Len(q) - 1] # q[(Len(q) - 1) + 1]
      <4>1. Len(q) # 1 => Len(q) - 1 \in 1 .. Len(q) - 1
        <5>1. \A k \in Nat : k # 0 /\ k # 1 => k - 1 \in 1 .. k - 1
          OBVIOUS
        <5> HIDE DEF P, m
        <5> QED BY <3>0, <5>1
      <4> HIDE DEF P, m
      <4> QED BY <4>1
    <3>3. Len(q) - 1 = 0 \/ q[Len(q) - 1] # e
      BY <3>0, <3>2, <2>2
    <3>4. \A i \in (Len(q) - 1) + 1 .. Len(q) : q[i] = e
      BY <3>0, <2>2
    <3>5. P(Len(q) - 1)
      BY <3>3, <3>4
    <3> HIDE DEF P, m
    <3> QED BY <3>0, <3>1, <3>5
  <2> QED BY <2>1, <2>2
<1>2. ASSUME NEW n \in 0 .. Len(q), P(n) PROVE n = m
  BY <1>2, <1>1
<1>3. (CHOOSE n \in 0 .. Len(q) : P(n)) = m
  BY <1>1, <1>2
<1>4. SubSeq(q, 1, Len(q)) = q
  OBVIOUS
<1> QED BY <1>3, <1>4 DEF RemoveTrailing, Trimmed

(* Dropping a trailing event leaves a well-shaped queue that does not end  *)
(* with it.                                                                *)
LEMMA TrimmedShape ==
    ASSUME NEW q \in Seq(Events), NEW e \in Events, WellQueued(q)
    PROVE  /\ Trimmed(q, e) \in Seq(Events)
           /\ WellQueued(Trimmed(q, e))
           /\ Trimmed(q, e) # <<>> => Trimmed(q, e)[Len(Trimmed(q, e))] # e
BY DEF Trimmed, WellQueued

(* A pushed event comes last.                                              *)
LEMMA Pushed ==
    ASSUME NEW q \in Seq(Events), NEW e \in Events, WellQueued(q)
    PROVE  /\ PushEvent(q, e) \in Seq(Events)
           /\ WellQueued(PushEvent(q, e))
           /\ Len(PushEvent(q, e)) > 0
           /\ PushEvent(q, e)[Len(PushEvent(q, e))] = e
<1> DEFINE a == LeadingUp(q, e)
           b == Trimmed(a, "none")
           c == Trimmed(b, e)
<1>1. /\ a \in Seq(Events) /\ WellQueued(a)
      /\ e = "stopped" => a \in {<<>>, <<"completed">>}
  <2>1. WellQueued(<<>>) /\ WellQueued(<<"completed">>)
    BY DEF WellQueued
  <2>2. <<>> \in Seq(Events) /\ <<"completed">> \in Seq(Events)
    BY DEF Events
  <2>3. (a = q /\ e # "stopped") \/ a \in {<<>>, <<"completed">>}
    BY DEF LeadingUp
  <2> HIDE DEF a
  <2> QED BY <2>1, <2>2, <2>3
<1>2. /\ b \in Seq(Events) /\ WellQueued(b)
      /\ b # <<>> => b[Len(b)] # "none"
  BY <1>1, TrimmedShape DEF Events
<1>3. /\ c \in Seq(Events) /\ WellQueued(c)
      /\ c # <<>> => c[Len(c)] # e
  BY <1>2, TrimmedShape
<1>4. c # <<>> => c[Len(c)] # "none"
  <2> HIDE DEF b
  <2> QED BY ONLY <1>2 DEF Trimmed, WellQueued
<1>5. e = "stopped" => c \in {<<>>, <<"completed">>}
  BY <1>1 DEF Trimmed
<1>6. PushEvent(q, e) = Append(c, e)
  <2>1. RemoveTrailing(a, "none") = b
    BY <1>1, Trailing DEF WellQueued, Events
  <2>2. RemoveTrailing(b, e) = c
    BY <1>2, Trailing DEF WellQueued
  <2> QED BY <2>1, <2>2 DEF PushEvent
<1>7. WellQueued(Append(c, e))
  <2> HIDE DEF c
  <2> QED BY ONLY e \in Events, <1>3, <1>4, <1>5 DEF WellQueued
<1>8. /\ Append(c, e) \in Seq(Events) /\ Len(Append(c, e)) > 0
      /\ Append(c, e)[Len(Append(c, e))] = e
  BY <1>3
<1> HIDE DEF c
<1> QED BY <1>6, <1>7, <1>8

(* The rest of a queue, when its first event was pulled.                   *)
LEMMA Pulled ==
    ASSUME NEW q \in Seq(Events), WellQueued(q), q # <<>>
    PROVE  /\ Head(q) \in Events /\ Tail(q) \in Seq(Events)
           /\ WellQueued(Tail(q))
           /\ Tail(q) = <<>> => q[Len(q)] = Head(q)
           /\ Tail(q) # <<>> => Tail(q)[Len(Tail(q))] = q[Len(q)]
<1>1. /\ Tail(q) \in Seq(Events) /\ Len(Tail(q)) = Len(q) - 1
      /\ \A n \in 1 .. Len(q) - 1 : Tail(q)[n] = q[n + 1]
      /\ Head(q) = q[1] /\ Head(q) \in Events
      /\ Len(q) \in Nat \ {0}
  OBVIOUS
<1>2. WellQueued(Tail(q))
  <2>1. ASSUME NEW n \in 1 .. Len(Tail(q)) - 1
        PROVE  Tail(q)[n] # Tail(q)[n + 1] /\ Tail(q)[n] # "none"
    <3>1. n + 1 \in 1 .. Len(q) - 1 /\ n \in 1 .. Len(q) - 1
      BY <1>1
    <3> QED BY <1>1, <3>1 DEF WellQueued
  <2>2. ASSUME NEW n \in DOMAIN Tail(q), Tail(q)[n] = "stopped"
        PROVE  n = 1
    <3>1. n \in 1 .. Len(q) - 1 /\ n + 1 \in DOMAIN q /\ n + 1 # 1
      BY <1>1
    <3> QED BY <1>1, <2>2, <3>1 DEF WellQueued
  <2> QED BY <2>1, <2>2 DEF WellQueued
<1>3. Tail(q) = <<>> => Len(q) = 1
  <2>1. ASSUME NEW r \in Seq(Events), Len(r) = Len(q) - 1, r = <<>>
        PROVE  Len(q) = 1
    <3>1. Len(r) = 0
      BY <2>1
    <3>2. Len(q) \in Nat /\ Len(q) - 1 = 0
      BY <2>1, <3>1
    <3> QED BY <3>2
  <2> QED BY <1>1, <2>1
<1>4. Tail(q) # <<>> => Len(q) - 1 \in 1 .. Len(q) - 1
  BY <1>1
<1> QED BY <1>1, <1>2, <1>3, <1>4

-----------------------------------------------------------------------------
(* What is done to one tier.                                               *)
LEMMA PushTier ==
    ASSUME NEW t, TierOK(t), NEW e \in Events
    PROVE  /\ TierOK(Push(t, e))
           /\ LET u == Push(t, e)
              IN  /\ u.events # <<>> /\ u.events[Len(u.events)] = e
                  /\ u.scheduled /\ u.flight = t.flight /\ u.steady = t.steady
                  /\ u.order = t.order /\ u.ok = t.ok
<1> DEFINE q == PushEvent(t.events, e)
<1>1. q \in Seq(Events) /\ WellQueued(q) /\ Len(q) > 0 /\ q[Len(q)] = e
  BY Pushed DEF TierOK, Tier
<1>2. q # <<>>
  BY <1>1
<1> HIDE DEF q
<1>3. Push(t, e) = [t EXCEPT !.events = q, !.scheduled = TRUE]
  BY DEF Push, q, TierOK, Tier
<1> QED BY <1>1, <1>2, <1>3 DEF TierOK, Tier

(* Moving on to the next tracker keeps the tier, its events and what is    *)
(* under way.                                                              *)
LEMMA NextTier ==
    ASSUME NEW t, TierOK(t)
    PROVE  LET u == UseNextTracker(t)
           IN  /\ TierOK(u)
               /\ u.events = t.events /\ u.scheduled = t.scheduled
               /\ u.flight = t.flight /\ u.steady = t.steady /\ u.order = t.order
<1>1. t.pos % Len(t.order) \in 0 .. Len(t.order) - 1
  BY DEF TierOK, Tier
<1> DEFINE pos == (t.pos % Len(t.order)) + 1
<1>2. pos \in 1 .. Len(t.order) /\ pos \in Nat
  BY <1>1 DEF TierOK, Tier
<1>3. UseNextTracker(t) = [t EXCEPT !.pos = pos, !.announcing = FALSE, !.scraping = FALSE]
  BY DEF UseNextTracker
<1> HIDE DEF pos
<1> QED BY <1>2, <1>3 DEF TierOK, Tier

(* The current tracker goes to the front of its order, the others keep     *)
(* theirs.                                                                 *)
LEMMA PromotedOrder ==
    ASSUME NEW s \in Seq(Trackers), NEW p \in 1 .. Len(s), IsInjective(s)
    PROVE  LET order == <<s[p]>> \o RemoveAt(s, p)
           IN  order \in Seq(Trackers) /\ 1 \in 1 .. Len(order) /\ IsInjective(order)
<1> DEFINE a == SubSeq(s, 1, p - 1)
           b == SubSeq(s, p + 1, Len(s))
           order == <<s[p]>> \o (a \o b)
           From(k) == IF k = 1 THEN p ELSE IF k <= p THEN k - 1 ELSE k
<1>1. p \in Nat /\ Len(s) \in Nat /\ 1 <= p /\ p <= Len(s) /\ s[p] \in Trackers
  OBVIOUS
<1>2. a \in Seq(Trackers) /\ Len(a) = p - 1 /\ \A i \in 1 .. p - 1 : a[i] = s[i]
  BY <1>1
<1>3. b \in Seq(Trackers) /\ Len(b) = Len(s) - p
      /\ \A i \in 1 .. Len(s) - p : b[i] = s[p + i]
  BY <1>1
<1>4. <<s[p]>> \in Seq(Trackers) /\ Len(<<s[p]>>) = 1 /\ <<s[p]>>[1] = s[p]
  BY <1>1
<1> HIDE DEF a, b
<1>5. a \o b \in Seq(Trackers) /\ Len(a \o b) = Len(s) - 1
      /\ \A i \in 1 .. Len(s) - 1 : (a \o b)[i] = IF i <= p - 1 THEN a[i] ELSE b[i - (p - 1)]
  <2>1. \A x, y \in Seq(Trackers) :
           /\ x \o y \in Seq(Trackers) /\ Len(x \o y) = Len(x) + Len(y)
           /\ \A i \in 1 .. Len(x) + Len(y) : (x \o y)[i] = IF i <= Len(x) THEN x[i] ELSE y[i - Len(x)]
    OBVIOUS
  <2>2. Len(a) + Len(b) = Len(s) - 1
    BY <1>1, <1>2, <1>3
  <2>3. a \o b \in Seq(Trackers) /\ Len(a \o b) = Len(a) + Len(b)
        /\ \A i \in 1 .. Len(a) + Len(b) :
              (a \o b)[i] = IF i <= Len(a) THEN a[i] ELSE b[i - Len(a)]
    <3>1. a \in Seq(Trackers) /\ b \in Seq(Trackers)
      BY <1>2, <1>3
    <3> QED BY <2>1, <3>1
  <2>4. Len(a) = p - 1
    BY <1>2
  <2> QED BY <2>2, <2>3, <2>4
<1>6. order \in Seq(Trackers) /\ Len(order) = Len(s)
      /\ \A k \in 1 .. Len(s) : order[k] = IF k = 1 THEN s[p] ELSE (a \o b)[k - 1]
  <2> DEFINE h == <<s[p]>>
             r == a \o b
  <2>1. h \in Seq(Trackers) /\ Len(h) = 1 /\ h[1] = s[p] /\ r \in Seq(Trackers) /\ Len(r) = Len(s) - 1
    BY <1>4, <1>5
  <2> HIDE DEF h, r
  <2>2. h \o r \in Seq(Trackers) /\ Len(h \o r) = Len(s)
        /\ \A k \in 1 .. Len(s) : (h \o r)[k] = IF k = 1 THEN s[p] ELSE r[k - 1]
    <3>1. \A x, y \in Seq(Trackers) :
             /\ x \o y \in Seq(Trackers) /\ Len(x \o y) = Len(x) + Len(y)
             /\ \A i \in 1 .. Len(x) + Len(y) : (x \o y)[i] = IF i <= Len(x) THEN x[i] ELSE y[i - Len(x)]
      OBVIOUS
    <3>2. h \o r \in Seq(Trackers) /\ Len(h \o r) = Len(h) + Len(r)
          /\ \A i \in 1 .. Len(h) + Len(r) : (h \o r)[i] = IF i <= Len(h) THEN h[i] ELSE r[i - Len(h)]
      BY <2>1, <3>1
    <3>3. Len(h) = 1 /\ Len(r) = Len(s) - 1 /\ Len(h) + Len(r) = Len(s)
      BY <1>1, <2>1
    <3>4. h \o r \in Seq(Trackers) /\ Len(h \o r) = Len(s)
          /\ \A i \in 1 .. Len(s) : (h \o r)[i] = IF i <= 1 THEN h[i] ELSE r[i - 1]
      BY <3>2, <3>3
    <3> QED BY <1>1, <2>1, <3>4
  <2> QED BY <2>2 DEF h, r
<1> HIDE DEF order
<1>7. ASSUME NEW k \in 1 .. Len(s) PROVE From(k) \in 1 .. Len(s) /\ order[k] = s[From(k)]
  <2>1. CASE k = 1
    BY <1>1, <1>6, <2>1
  <2>2. CASE k # 1 /\ k <= p
    <3>1. k - 1 \in 1 .. Len(s) - 1 /\ k - 1 <= p - 1 /\ k - 1 \in 1 .. p - 1
      BY <1>1, <2>2
    <3>2. order[k] = a[k - 1]
      BY <1>5, <1>6, <2>2, <3>1
    <3> QED BY <1>1, <1>2, <2>2, <3>1, <3>2
  <2>3. CASE k # 1 /\ ~(k <= p)
    <3>1. k - 1 \in 1 .. Len(s) - 1 /\ ~(k - 1 <= p - 1) /\ (k - 1) - (p - 1) = k - p
          /\ k - p \in 1 .. Len(s) - p /\ p + (k - p) = k
      BY <1>1, <2>3
    <3>2. order[k] = b[k - p]
      BY <1>5, <1>6, <2>3, <3>1
    <3> QED BY <1>1, <1>3, <2>3, <3>1, <3>2
  <2> QED BY <2>1, <2>2, <2>3
<1>8. \A k, l \in 1 .. Len(s) : From(k) = From(l) => k = l
  BY <1>1
<1> HIDE DEF From
<1>9. \A k, l \in 1 .. Len(s) : order[k] = order[l] => k = l
  <2>1. \A k, l \in 1 .. Len(s) : s[k] = s[l] => k = l
    BY DEF IsInjective
  <2> QED BY <1>7, <1>8, <2>1
<1>10. DOMAIN order = 1 .. Len(s) /\ 1 \in 1 .. Len(order)
  BY <1>1, <1>6
<1>11. order = <<s[p]>> \o RemoveAt(s, p)
  BY DEF RemoveAt, order, a, b
<1> QED BY <1>6, <1>9, <1>10, <1>11 DEF IsInjective

(* Putting the tracker that answered first keeps the tier and what it has  *)
(* to say.                                                                 *)
LEMMA PromotedTier ==
    ASSUME NEW t, TierOK(t)
    PROVE  LET u == PromoteCurrent(t)
           IN  /\ TierOK(u)
               /\ u.events = t.events /\ u.scheduled = t.scheduled
               /\ u.flight = t.flight /\ u.steady = t.steady
<1> DEFINE order == <<Current(t)>> \o RemoveAt(t.order, t.pos)
<1>1. order \in Seq(Trackers) /\ 1 \in 1 .. Len(order) /\ IsInjective(order)
  BY PromotedOrder DEF TierOK, Tier, Current
<1> HIDE DEF order
<1>2. PromoteCurrent(t) = t \/ PromoteCurrent(t) = [t EXCEPT !.order = order, !.pos = 1]
  BY DEF PromoteCurrent, order
<1>3. CASE PromoteCurrent(t) = t
  BY <1>3
<1>4. CASE PromoteCurrent(t) = [t EXCEPT !.order = order, !.pos = 1]
  <2> DEFINE u == [t EXCEPT !.order = order, !.pos = 1]
  <2>1. u \in Tier
    BY <1>1 DEF TierOK, Tier
  <2>2. /\ u.order = order /\ u.pos = 1 /\ u.events = t.events
        /\ u.scheduled = t.scheduled /\ u.flight = t.flight /\ u.steady = t.steady
    BY DEF TierOK, Tier
  <2> HIDE DEF u
  <2> QED BY <1>1, <1>4, <2>1, <2>2 DEF TierOK, u
<1> QED BY <1>2, <1>3, <1>4

(* A tier that sends the head of its queue stays in step with the torrent. *)
LEMMA AnnouncedTier ==
    ASSUME NEW t, NEW r \in BOOLEAN, TierInv(t, r), t.events # <<>>, t.scheduled, r = running
    PROVE  TierInv(Announced(t), r)
<1> DEFINE req == [event |-> Head(t.events), running |-> r]
           u == [t EXCEPT !.steady = @ /\ t.flight = <<>>, !.flight = Append(@, req),
                          !.events = Tail(@), !.announcing = TRUE]
<1>1. TierOK(t) /\ t \in Tier /\ t.events # <<>> /\ WellQueued(t.events)
      /\ t.events \in Seq(Events) /\ t.flight \in Seq(Request) /\ t.scheduled
  BY DEF TierInv, TierOK, Tier
<1>2. /\ Head(t.events) \in Events /\ Tail(t.events) \in Seq(Events)
      /\ WellQueued(Tail(t.events))
      /\ Tail(t.events) = <<>> => t.events[Len(t.events)] = Head(t.events)
      /\ Tail(t.events) # <<>> => Tail(t.events)[Len(Tail(t.events))] = t.events[Len(t.events)]
  BY <1>1, Pulled
<1>3. req \in Request /\ req.event = Head(t.events)
  BY <1>2 DEF Request
<1> HIDE DEF req
<1>4. Append(t.flight, req) \in Seq(Request)
  BY <1>1, <1>3
<1>5. u \in Tier
  BY <1>1, <1>2, <1>4 DEF Tier
<1>6. /\ u.order = t.order /\ u.pos = t.pos /\ u.events = Tail(t.events)
      /\ u.scheduled = t.scheduled /\ u.flight = Append(t.flight, req)
      /\ u.steady = (t.steady /\ t.flight = <<>>)
  BY <1>1 DEF Tier
<1>7. u = Announced(t)
  BY <1>1 DEF Announced, Unless, Tier, req
<1> HIDE DEF u
<1>8. TierOK(u)
  BY <1>1, <1>2, <1>5, <1>6 DEF TierOK
<1>9. ASSUME u.steady PROVE SteadyInv(u, r)
  <2>1. t.steady /\ t.flight = <<>>
    BY <1>6, <1>9
  <2>2. Append(<<>>, req) # <<>> /\ Len(Append(<<>>, req)) = 1 /\ Append(<<>>, req)[1] = req
    BY <1>3
  <2>3. u.flight # <<>> /\ Len(u.flight) = 1 /\ u.flight[1].event = Head(t.events)
    BY <1>3, <1>6, <2>1, <2>2
  <2>4. IF r THEN t.events[Len(t.events)] # "stopped" ELSE t.events[Len(t.events)] = "stopped"
    BY <1>1, <2>1 DEF TierInv, SteadyInv, WhileRunning, WhileStopped
  <2> QED BY <1>1, <1>2, <1>6, <2>3, <2>4 DEF SteadyInv, WhileRunning, WhileStopped
<1> QED BY <1>7, <1>8, <1>9 DEF TierInv, SteadyInv

(* The tier when the nth answer has come, before anything is made of it.   *)
Answered(t, n) == [t EXCEPT !.flight = RemoveAt(@, n), !.announcing = FALSE, !.ok = FALSE]

(* An answer takes its own request out of the flight and no other.         *)
LEMMA AnsweredTier ==
    ASSUME NEW t, TierOK(t), NEW n \in DOMAIN t.flight
    PROVE  LET u == Answered(t, n)
           IN  /\ TierOK(u) /\ t.flight[n] \in Request
               /\ u.events = t.events /\ u.scheduled = t.scheduled /\ u.steady = t.steady
               /\ Len(t.flight) <= 1 => u.flight = <<>> /\ n = 1
               /\ Len(u.flight) < Len(t.flight)
               /\ \A k \in DOMAIN t.flight :
                     k # n => \E l \in DOMAIN u.flight : u.flight[l] = t.flight[k]
<1> DEFINE f == RemoveAt(t.flight, n)
           u == [t EXCEPT !.flight = f, !.announcing = FALSE, !.ok = FALSE]
<1>1. t \in Tier /\ t.flight \in Seq(Request)
  BY DEF TierOK, Tier
<1>2. f \in Seq(Request) /\ (Len(t.flight) <= 1 => f = <<>> /\ n = 1)
      /\ Len(f) < Len(t.flight)
  <2> DEFINE fl == t.flight
  <2>1. fl \in Seq(Request) /\ n \in 1 .. Len(fl)
    BY <1>1
  <2> HIDE DEF fl
  <2>2. RemoveAt(fl, n) \in Seq(Request) /\ Len(RemoveAt(fl, n)) = Len(fl) - 1
    BY ONLY <2>1 DEF RemoveAt
  <2> HIDE DEF RemoveAt
  <2>3. Len(fl) <= 1 => RemoveAt(fl, n) = <<>> /\ n = 1
    BY ONLY <2>1, <2>2
  <2> QED BY <2>1, <2>2, <2>3 DEF fl
<1>6. ASSUME NEW k \in DOMAIN t.flight, k # n
      PROVE  \E l \in DOMAIN f : f[l] = t.flight[k]
  <2>1. CASE k < n
    <3>1. k \in DOMAIN f /\ f[k] = t.flight[k]
      <4> DEFINE fl == t.flight
      <4>1. fl \in Seq(Request) /\ n \in 1 .. Len(fl) /\ k \in 1 .. Len(fl) /\ k < n
        BY <1>1, <2>1
      <4> HIDE DEF fl
      <4>2. k \in DOMAIN RemoveAt(fl, n) /\ RemoveAt(fl, n)[k] = fl[k]
        BY ONLY <4>1 DEF RemoveAt
      <4> QED BY <4>2 DEF fl
    <3> QED BY <3>1
  <2>2. CASE k > n
    <3>1. k - 1 \in DOMAIN f /\ f[k - 1] = t.flight[k]
      <4> DEFINE fl == t.flight
                 a  == SubSeq(fl, 1, n - 1)
                 b  == SubSeq(fl, n + 1, Len(fl))
      <4>1. fl \in Seq(Request) /\ n \in 1 .. Len(fl) /\ k \in 1 .. Len(fl) /\ k > n
        BY <1>1, <2>2
      <4>2. f = a \o b
        BY DEF RemoveAt
      <4> HIDE DEF fl, f
      <4>3. a \in Seq(Request) /\ Len(a) = n - 1
        BY ONLY <4>1
      <4>4. b \in Seq(Request) /\ Len(b) = Len(fl) - n /\ b[k - n] = fl[k] /\ k - n \in 1 .. Len(b)
        <5>1. b \in Seq(Request) /\ Len(b) = Len(fl) - n
          BY ONLY <4>1
        <5>2. k - n \in 1 .. Len(fl) - n /\ (k - n) + (n + 1) - 1 = k
          BY ONLY <4>1
        <5>3. b[k - n] = fl[(k - n) + (n + 1) - 1]
          BY ONLY <4>1, <5>2
        <5> QED BY ONLY <5>1, <5>2, <5>3
      <4> HIDE DEF a, b
      <4>5. Len(a) + (k - n) = k - 1 /\ k - 1 \in 1 .. Len(a) + Len(b)
        <5>1. k \in Nat /\ n \in Nat /\ Len(fl) \in Nat /\ k <= Len(fl) /\ n <= Len(fl) /\ 1 <= n /\ n < k
          BY ONLY <4>1
        <5>2. Len(a) = n - 1 /\ Len(b) = Len(fl) - n
          BY ONLY <4>3, <4>4
        <5>3. (n - 1) + (Len(fl) - n) = Len(fl) - 1 /\ (n - 1) + (k - n) = k - 1
              /\ k - 1 \in 1 .. Len(fl) - 1
          BY ONLY <5>1
        <5> QED BY ONLY <5>2, <5>3
      <4>6. DOMAIN (a \o b) = 1 .. Len(a) + Len(b)
            /\ \A l \in 1 .. Len(b) : (a \o b)[Len(a) + l] = b[l]
        <5>1. a \in Seq(Request) /\ b \in Seq(Request)
          BY <4>3, <4>4
        <5> QED BY <5>1
      <4>7. (a \o b)[k - 1] = b[k - n]
        BY <4>4, <4>5, <4>6
      <4> QED BY <4>2, <4>4, <4>5, <4>6, <4>7 DEF fl
    <3> QED BY <3>1
  <2>3. k \in Nat /\ n \in Nat
    BY <1>1
  <2> QED BY <1>6, <2>1, <2>2, <2>3
<1>3. u = Answered(t, n)
  BY DEF Answered
<1> HIDE DEF f
<1>4. u \in Tier
  BY <1>1, <1>2 DEF Tier
<1>5. /\ u.events = t.events /\ u.scheduled = t.scheduled /\ u.steady = t.steady
      /\ u.flight = f /\ u.order = t.order /\ u.pos = t.pos
  BY <1>1 DEF Tier
<1> HIDE DEF u
<1> QED BY <1>1, <1>2, <1>6, <1>3, <1>4, <1>5 DEF TierOK

(* A tier whose announce succeeded stays in step with the torrent.         *)
LEMMA AcknowledgedTier ==
    ASSUME NEW t, NEW r \in BOOLEAN, TierInv(t, r), NEW n \in DOMAIN t.flight
    PROVE  TierInv(Acknowledged(Answered(t, n), t.flight[n]), r)
<1> DEFINE a == Answered(t, n)
           q == t.flight[n]
           p == PromoteCurrent(a)
           d == [p EXCEPT !.running = q.running, !.ok = TRUE]
<1>1. /\ TierOK(a) /\ q \in Request
      /\ a.events = t.events /\ a.scheduled = t.scheduled /\ a.steady = t.steady
      /\ Len(t.flight) <= 1 => a.flight = <<>> /\ n = 1
  BY AnsweredTier DEF TierInv
<1> HIDE DEF a
<1>2. /\ TierOK(p)
      /\ p.events = t.events /\ p.scheduled = t.scheduled /\ p.steady = t.steady
      /\ p.flight = a.flight
  BY <1>1, PromotedTier
<1>3. Acknowledged(a, q) = IF q.event # "stopped" /\ d.events = <<>> THEN Push(d, "none") ELSE d
  BY DEF Acknowledged
<1> HIDE DEF p, q
<1>4. /\ TierOK(d)
      /\ d.events = t.events /\ d.scheduled = t.scheduled /\ d.steady = t.steady
      /\ d.flight = a.flight
  BY <1>1, <1>2 DEF TierOK, Tier, Request
<1> HIDE DEF d
<1>5. ASSUME t.steady
      PROVE  /\ Len(t.flight) <= 1 /\ a.flight = <<>> /\ q = t.flight[1]
             /\ t.events # <<>> => t.scheduled
             /\ t.flight # <<>>
             /\ IF r THEN WhileRunning(t) ELSE WhileStopped(t)
  <2>1. Len(t.flight) <= 1 /\ t.flight # <<>>
    BY <1>5 DEF TierInv, SteadyInv
  <2> QED BY <1>1, <1>5, <2>1 DEF TierInv, SteadyInv, q
<1>6. CASE q.event # "stopped" /\ t.events = <<>>
  <2>1. Acknowledged(a, q) = Push(d, "none")
    BY <1>3, <1>4, <1>6
  <2> DEFINE u == Push(d, "none")
  <2>2. /\ TierOK(u) /\ u.events # <<>> /\ u.events[Len(u.events)] = "none"
        /\ u.scheduled /\ u.flight = a.flight /\ u.steady = t.steady
    BY <1>4, PushTier DEF Events
  <2> HIDE DEF u
  <2>3. t.steady => r
    BY <1>5, <1>6 DEF WhileStopped
  <2>4. Len(<<>>) <= 1
    OBVIOUS
  <2>5. SteadyInv(u, r)
    BY <1>5, <2>2, <2>3, <2>4 DEF SteadyInv, WhileRunning
  <2> QED BY <2>1, <2>2, <2>5 DEF TierInv, a, q, u
<1>7. CASE ~(q.event # "stopped" /\ t.events = <<>>)
  <2>1. Acknowledged(a, q) = d
    BY <1>3, <1>4, <1>7
  <2>2. ASSUME t.steady, r PROVE WhileRunning(d)
    <3>1. t.events # <<>>
      BY <1>5, <1>7, <2>2 DEF WhileRunning
    <3> QED BY <1>4, <1>5, <2>2, <3>1 DEF WhileRunning
  <2>3. ASSUME t.steady, ~r PROVE WhileStopped(d)
    BY <1>4, <1>5, <2>3 DEF WhileStopped
  <2>4. Len(<<>>) <= 1
    OBVIOUS
  <2>5. SteadyInv(d, r)
    BY <1>4, <1>5, <2>2, <2>3, <2>4 DEF SteadyInv
  <2> QED BY <1>4, <2>1, <2>5 DEF TierInv, a, q
<1> QED BY <1>6, <1>7

(* A tier that queues a failed announce again stays in step with the       *)
(* torrent.                                                                *)
LEMMA RetriedTier ==
    ASSUME NEW t, NEW r \in BOOLEAN, TierInv(t, r), NEW n \in DOMAIN t.flight
    PROVE  TierInv(Retried(Answered(t, n), t.flight[n]), r)
<1> DEFINE a == Answered(t, n)
           q == t.flight[n]
           p == UseNextTracker(a)
           u == Push(p, q.event)
           v == [u EXCEPT !.steady = @ /\ a.events = <<>>]
<1>1. /\ TierOK(a) /\ q \in Request
      /\ a.events = t.events /\ a.scheduled = t.scheduled /\ a.steady = t.steady
      /\ Len(t.flight) <= 1 => a.flight = <<>> /\ n = 1
  BY AnsweredTier DEF TierInv
<1> HIDE DEF a
<1>2. /\ TierOK(p)
      /\ p.events = t.events /\ p.scheduled = t.scheduled /\ p.steady = t.steady
      /\ p.flight = a.flight
  BY <1>1, NextTier
<1> HIDE DEF p
<1>3. q.event \in Events
  BY <1>1 DEF Request
<1>4. /\ TierOK(u) /\ u.events # <<>> /\ u.events[Len(u.events)] = q.event
      /\ u.scheduled /\ u.flight = a.flight /\ u.steady = t.steady
  BY <1>2, <1>3, PushTier
<1>5. v = Retried(a, q)
  BY DEF Retried, Unless, p
<1> HIDE DEF u
<1>6. /\ TierOK(v) /\ v.events = u.events /\ v.scheduled /\ v.flight = a.flight
      /\ v.steady = (t.steady /\ t.events = <<>>)
  BY <1>1, <1>4 DEF TierOK, Tier
<1> HIDE DEF v
<1>7. ASSUME v.steady PROVE SteadyInv(v, r)
  <2>1. t.steady /\ t.events = <<>>
    BY <1>6, <1>7
  <2>2. Len(t.flight) <= 1 /\ t.flight # <<>>
    BY <2>1 DEF TierInv, SteadyInv
  <2>3. v.flight = <<>> /\ q = t.flight[1]
    BY <1>1, <1>6, <2>2
  <2>4. IF r THEN q.event # "stopped" ELSE q.event = "stopped"
    BY <2>1, <2>2, <2>3 DEF TierInv, SteadyInv, WhileRunning, WhileStopped
  <2>5. Len(<<>>) <= 1
    OBVIOUS
  <2> HIDE DEF q
  <2> QED BY <1>4, <1>6, <2>3, <2>4, <2>5 DEF SteadyInv, WhileRunning, WhileStopped
<1> QED BY <1>5, <1>6, <1>7 DEF TierInv, SteadyInv, a

(* A tier whose announce was refused for good stays in step with the       *)
(* torrent.                                                                *)
LEMMA RefusedTier ==
    ASSUME NEW t, NEW r \in BOOLEAN, TierInv(t, r), NEW n \in DOMAIN t.flight
    PROVE  TierInv(Refused(Answered(t, n)), r)
<1> DEFINE a == Answered(t, n)
           p == UseNextTracker(a)
<1>1. TierOK(a)
  BY AnsweredTier DEF TierInv
<1> HIDE DEF a
<1>2. TierOK(p)
  BY <1>1, NextTier
<1> HIDE DEF p
<1>3. TierOK([p EXCEPT !.steady = @ /\ FALSE]) /\ [p EXCEPT !.steady = @ /\ FALSE].steady = FALSE
  BY <1>2 DEF TierOK, Tier
<1>4. Refused(a) = [p EXCEPT !.steady = @ /\ FALSE]
  BY DEF Refused, Unless, p
<1> QED BY <1>3, <1>4 DEF TierInv, SteadyInv, a

-----------------------------------------------------------------------------
(* The least and the greatest of a set of positions.                       *)
LEMMA Least ==
    ASSUME NEW S, S \subseteq Nat, S # {}
    PROVE  \E x \in S : \A y \in S : x <= y
<1> DEFINE R == OpToRel(<, Nat)
<1>1. IsWellFoundedOn(R, Nat)
  BY NatLessThanWellFounded
<1>2. \A x, y \in Nat : y < x => <<y, x>> \in R
  BY DEF OpToRel
<1> HIDE DEF R
<1>3. PICK x \in S : \A y \in S : ~(<<y, x>> \in R)
  BY <1>1, WFMin
<1>4. ASSUME NEW y \in S PROVE x <= y
  <2>1. x \in Nat /\ y \in Nat /\ ~(y < x)
    BY <1>2, <1>3
  <2> QED BY <2>1
<1> QED BY <1>4

(* A bounded, non-empty set of positions has a greatest element.           *)
LEMMA Greatest ==
    ASSUME NEW m \in Nat, NEW S, S \subseteq 1 .. m, S # {}
    PROVE  \E x \in S : \A y \in S : y <= x
<1> DEFINE T == {m - x : x \in S}
<1>1. \A x \in S : x \in Nat /\ m - x \in Nat
  OBVIOUS
<1>2. T \subseteq Nat /\ T # {}
  BY <1>1
<1>3. PICK z \in T : \A y \in T : z <= y
  BY <1>2, Least
<1>4. PICK x \in S : z = m - x
  OBVIOUS
<1>5. ASSUME NEW y \in S PROVE y <= x
  <2>1. m - y \in T
    OBVIOUS
  <2>2. m - x <= m - y
    BY <1>3, <1>4, <2>1
  <2>3. x \in Nat /\ y \in Nat
    BY <1>1
  <2> QED BY <2>2, <2>3
<1> QED BY <1>5

(* Tiers made anew.                                                        *)
LEMMA Shuffled ==
    ASSUME NEW trackers \in Seq(Trackers), IsInjective(trackers), NEW order \in Orders(trackers)
    PROVE  IsInjective(order)
<1> DEFINE D == 1 .. Len(trackers)
           T == {trackers[i] : i \in D}
<1>1. Len(trackers) \in Nat /\ DOMAIN trackers = D /\ \A i \in D : trackers[i] \in Trackers
  OBVIOUS
<1>2. IsFiniteSet(D) /\ Cardinality(D) = Len(trackers)
  <2>1. IsFiniteSet(1 .. Len(trackers))
        /\ Cardinality(1 .. Len(trackers)) = IF 1 > Len(trackers) THEN 0 ELSE Len(trackers) - 1 + 1
    BY <1>1, FS_Interval
  <2> QED BY <1>1, <2>1
<1>3. trackers \in [D -> T]
  BY <1>1
<1> DEFINE ran == {order[i] : i \in D}
<1>4. order \in [D -> Trackers] /\ ran = T
  <2>1. order \in [D -> Trackers] /\ ToSet(order) = ToSet(trackers)
    BY <1>1 DEF Orders
  <2>2. DOMAIN order = D
    BY <2>1
  <2> QED BY <1>1, <2>1, <2>2 DEF ToSet
<1> HIDE DEF D, T
<1>5. trackers \in Surjection(D, T) /\ trackers \in Injection(D, T)
  <2>1. \A t \in T : \E i \in D : trackers[i] = t
    BY DEF T
  <2>2. \A i, j \in D : trackers[i] = trackers[j] => i = j
    BY <1>1 DEF IsInjective
  <2> QED BY <1>3, <2>1, <2>2 DEF Surjection, Injection, IsInjective
<1>6. Cardinality(T) = Cardinality(D)
  BY <1>2, <1>5, FS_Surjection
<1>7. order \in Surjection(D, T)
  <2>1. order \in [D -> T] /\ \A t \in T : \E i \in D : order[i] = t
    BY <1>4
  <2> QED BY <2>1 DEF Surjection
<1>8. order \in Injection(D, T)
  BY <1>2, <1>6, <1>7, FS_SurjSameCardinalityImpliesInj
<1> QED BY <1>8 DEF Injection

(* A tier made for a new list of trackers is well formed and has nothing   *)
(* to say yet.                                                             *)
LEMMA NewTierOK ==
    ASSUME NEW trackers \in Seq(Trackers), trackers # <<>>, IsInjective(trackers),
           NEW order \in Orders(trackers), NEW steady \in BOOLEAN
    PROVE  LET t == NewTier(order, steady)
           IN  /\ TierOK(t) /\ t.steady = steady /\ t.order = order
               /\ t.events = <<>> /\ t.flight = <<>>
<1> DEFINE t == NewTier(order, steady)
<1>1. order \in Seq(Trackers) /\ 1 \in 1 .. Len(order) /\ IsInjective(order)
  BY Shuffled DEF Orders
<1>2. <<>> \in Seq(Events) /\ <<>> \in Seq(Request)
  OBVIOUS
<1>3. t \in Tier
  BY <1>1, <1>2 DEF NewTier, Tier
<1>4. /\ t.steady = steady /\ t.order = order /\ t.pos = 1
      /\ t.events = <<>> /\ t.flight = <<>>
  BY DEF NewTier
<1>5. WellQueued(<<>>)
  BY DEF WellQueued
<1> HIDE DEF t
<1> QED BY <1>1, <1>3, <1>4, <1>5 DEF TierOK, t

(* What an edited tier takes over from an old one leaves it well formed,   *)
(* and it is not steady.                                                   *)
LEMMA InheritedTier ==
    ASSUME tiers \in Seq(Tier), \A i \in DOMAIN tiers : TierOK(tiers[i]), running \in BOOLEAN,
           NEW trackers \in Seq(Trackers), trackers # <<>>, IsInjective(trackers),
           NEW order \in Orders(trackers)
    PROVE  LET u == Inherit(NewTier(order, FALSE), trackers)
           IN  TierOK(u) /\ u.steady = FALSE
<1> DEFINE t == NewTier(order, FALSE)
           Had(k, i) == trackers[k] \in ToSet(tiers[i].order)
           known == {k \in DOMAIN trackers : \E i \in DOMAIN tiers : Had(k, i)}
           last  == CHOOSE k \in known : \A l \in known : l <= k
           from  == CHOOSE i \in DOMAIN tiers : Had(last, i) /\ \A k \in 1 .. i - 1 : ~Had(last, k)
           next  == [t EXCEPT !.events = tiers[from].events]
           place == CHOOSE p \in DOMAIN t.order : t.order[p] = Current(tiers[from])
           u     == Inherit(t, trackers)
<1>1. TierOK(t) /\ t.steady = FALSE /\ t.order = order
  BY NewTierOK
<1>2. u = IF known = {} THEN t
          ELSE IF Current(tiers[from]) \in ToSet(trackers)
          THEN [next EXCEPT !.pos = place]
          ELSE IF running THEN Push(next, "started") ELSE next
  BY Zenon DEF Inherit
<1> HIDE DEF t, u
<1>3. CASE known = {}
  BY <1>1, <1>2, <1>3 DEF t, u
<1>4. CASE known # {}
  <2>1. last \in known
    <3>1. known \subseteq 1 .. Len(trackers) /\ Len(trackers) \in Nat
      OBVIOUS
    <3>2. \E k \in known : \A l \in known : l <= k
      BY <1>4, <3>1, Greatest
    <3> HIDE DEF known
    <3> QED BY <3>2
  <2>2. from \in DOMAIN tiers
    <3> DEFINE S == {i \in DOMAIN tiers : Had(last, i)}
    <3> HIDE DEF last
    <3>0. \E i \in DOMAIN tiers : Had(last, i)
      BY <2>1
    <3> HIDE DEF Had
    <3>1. S \subseteq 1 .. Len(tiers) /\ S \subseteq Nat /\ S # {}
      BY <3>0
    <3>2. PICK i \in S : \A k \in S : i <= k
      BY <3>1, Least
    <3>3. \A k \in 1 .. i - 1 : k \in DOMAIN tiers /\ k \notin S
      <4> HIDE DEF S
      <4>1. i \in 1 .. Len(tiers) /\ Len(tiers) \in Nat
        BY <3>1, <3>2
      <4>2. ASSUME NEW k \in 1 .. i - 1 PROVE k \in 1 .. Len(tiers) /\ ~(i <= k)
        BY <4>1
      <4> QED BY <3>2, <4>2
    <3>4. \E j \in DOMAIN tiers : Had(last, j) /\ \A k \in 1 .. j - 1 : ~Had(last, k)
      BY <3>2, <3>3
    <3> QED BY <3>4
  <2> HIDE DEF known, last, from
  <2>3. tiers[from].events \in Seq(Events) /\ WellQueued(tiers[from].events)
    BY <2>2 DEF TierOK, Tier
  <2>4. /\ TierOK(next) /\ next.steady = FALSE /\ next.order = order
    BY <1>1, <2>3 DEF TierOK, Tier
  <2>5. CASE Current(tiers[from]) \in ToSet(trackers)
    <3>1. ToSet(order) = ToSet(trackers)
      BY DEF Orders
    <3>2. \E p \in DOMAIN order : order[p] = Current(tiers[from])
      BY <2>5, <3>1 DEF ToSet
    <3>3. place \in 1 .. Len(order) /\ place \in Nat
      <4>1. order \in Seq(Trackers) /\ DOMAIN order = 1 .. Len(order)
        BY <1>1 DEF TierOK, Tier
      <4>2. place \in DOMAIN order
        BY <1>1, <3>2
      <4> HIDE DEF place
      <4> QED BY <4>1, <4>2
    <3> HIDE DEF next, place
    <3>4. u = [next EXCEPT !.pos = place]
      BY <1>2, <1>4, <2>5
    <3> QED BY <2>4, <3>3, <3>4 DEF TierOK, Tier, t, u
  <2>6. CASE Current(tiers[from]) \notin ToSet(trackers)
    <3> HIDE DEF next
    <3>1. TierOK(Push(next, "started")) /\ Push(next, "started").steady = FALSE
      BY <2>4, PushTier DEF Events
    <3>2. u \in {Push(next, "started"), next}
      BY <1>2, <1>4, <2>6
    <3> QED BY <2>4, <3>1, <3>2 DEF t, u
  <2> QED BY <2>5, <2>6
<1> QED BY <1>3, <1>4

-----------------------------------------------------------------------------
(* What is done to all tiers.                                              *)
Good(ts, r) == ts \in Seq(Tier) /\ \A i \in DOMAIN ts : TierInv(ts[i], r)

(* A tier given a stop, or anything else, is in step with a torrent that   *)
(* stopped, or runs.                                                       *)
LEMMA PushTierInv ==
    ASSUME NEW t, NEW q \in BOOLEAN, TierInv(t, q), NEW r \in BOOLEAN, NEW e \in Events,
           r <=> e # "stopped"
    PROVE  TierInv(Push(t, e), r)
<1> DEFINE u == Push(t, e)
<1>1. /\ TierOK(u) /\ u.events # <<>> /\ u.events[Len(u.events)] = e
      /\ u.scheduled /\ u.flight = t.flight /\ u.steady = t.steady
  BY PushTier DEF TierInv
<1> HIDE DEF u
<1>2. SteadyInv(u, r)
  BY <1>1 DEF TierInv, SteadyInv, WhileRunning, WhileStopped
<1> QED BY <1>1, <1>2 DEF TierInv, u

(* Tiers that are changed one by one stay the tiers of the torrent.        *)
LEMMA GoodMap ==
    ASSUME IInv, NEW ts, NEW r \in BOOLEAN,
           ts = [i \in DOMAIN tiers |-> ts[i]],
           \A i \in DOMAIN tiers : TierInv(ts[i], r)
    PROVE  Good(ts, r) /\ (ts # <<>> <=> Present)
<1>1. tiers \in Seq(Tier) /\ DOMAIN tiers = 1 .. Len(tiers) /\ Len(tiers) \in Nat
  BY DEF IInv
<1>2. \A i \in 1 .. Len(tiers) : ts[i] \in Tier
  BY <1>1 DEF TierInv, TierOK
<1>3. DOMAIN ts = 1 .. Len(tiers)
  BY <1>1
<1>4. ts \in Seq(Tier) /\ Len(ts) = Len(tiers)
  BY <1>1, <1>2, <1>3
<1>5. ts # <<>> <=> Len(ts) # 0
  BY <1>4
<1>6. tiers # <<>> <=> Len(tiers) # 0
  BY <1>1
<1> QED BY <1>1, <1>3, <1>4, <1>5, <1>6 DEF Good, Present

(* An event pushed to every tier brings them all in step with it.          *)
LEMMA PushAllGood ==
    ASSUME IInv, NEW e \in Events, NEW r \in BOOLEAN, r <=> e # "stopped"
    PROVE  Good(PushAll(e), r) /\ (PushAll(e) # <<>> <=> Present)
<1>1. \A i \in DOMAIN tiers : TierInv(PushAll(e)[i], r)
  BY PushTierInv DEF PushAll, IInv
<1>2. PushAll(e) = [i \in DOMAIN tiers |-> PushAll(e)[i]]
  BY DEF PushAll
<1> QED BY <1>1, <1>2, GoodMap

(* A torrent without tiers satisfies the invariant.                        *)
THEOREM IInvInit == Init => IInv
<1>1. <<>> \in Seq(Tier) /\ DOMAIN <<>> = {}
  OBVIOUS
<1> QED BY <1>1 DEF Init, IInv

(* The calls of the torrent.                                               *)
LEMMA CallsKeepIInv ==
    ASSUME IInv,
           StartTorrent \/ StopTorrent \/ TorrentCompleted \/ ChangeMyPort \/ ManualAnnounce
    PROVE  IInv'
<1>1. CASE StartTorrent
  <2>1. running' = TRUE /\ Present /\ tiers' = PushAll("started")
    BY <1>1 DEF StartTorrent, Tell
  <2>2. Good(PushAll("started"), TRUE) /\ PushAll("started") # <<>>
    BY <2>1, PushAllGood DEF Events
  <2> QED BY <2>1, <2>2 DEF IInv, Good, Present
<1>2. CASE StopTorrent
  <2>1. running' = FALSE /\ tiers' = PushAll("stopped")
    BY <1>2 DEF StopTorrent, Tell
  <2>2. Good(PushAll("stopped"), FALSE)
    BY PushAllGood DEF Events
  <2> QED BY <2>1, <2>2 DEF IInv, Good, Present
<1>3. CASE TorrentCompleted
  <2>1. running' = running /\ Present
        /\ tiers' = [i \in DOMAIN tiers |-> Unless(Push(tiers[i], "completed"), ~running)]
    BY <1>3 DEF TorrentCompleted, Tell
  <2>2. ASSUME NEW i \in DOMAIN tiers
        PROVE  TierInv(Unless(Push(tiers[i], "completed"), ~running), running)
    <3> DEFINE u == Push(tiers[i], "completed")
               v == [u EXCEPT !.steady = @ /\ running]
    <3>1. running \in BOOLEAN /\ TierInv(tiers[i], running)
      BY DEF IInv
    <3>2. running => TierInv(u, running)
      BY <3>1, PushTierInv DEF Events
    <3>3. TierOK(u)
      BY <3>1, PushTier DEF Events, TierInv
    <3> HIDE DEF u
    <3>4. /\ TierOK(v) /\ v.steady = (u.steady /\ running)
          /\ v.events = u.events /\ v.flight = u.flight /\ v.scheduled = u.scheduled
      BY <3>1, <3>3 DEF TierOK, Tier
    <3>5. v = Unless(u, ~running)
      BY <3>1, <3>3 DEF Unless, TierOK, Tier
    <3> HIDE DEF v
    <3>6. SteadyInv(v, running)
      BY <3>1, <3>2, <3>4 DEF TierInv, SteadyInv, WhileRunning
    <3> QED BY <3>4, <3>5, <3>6 DEF TierInv, u
  <2>3. Good(tiers', running) /\ tiers' # <<>>
    <3>1. running \in BOOLEAN /\ tiers' = [i \in DOMAIN tiers |-> tiers'[i]]
      BY <2>1 DEF IInv
    <3>2. \A i \in DOMAIN tiers : TierInv(tiers'[i], running)
      BY <2>1, <2>2
    <3> QED BY <2>1, <3>1, <3>2, GoodMap
  <2> QED BY <2>1, <2>3 DEF IInv, Good, Present
<1>4. CASE ChangeMyPort
  <2>1. running' = running /\ running /\ Present /\ tiers' = PushAll("started")
    BY <1>4 DEF ChangeMyPort, Tell
  <2>2. Good(PushAll("started"), TRUE) /\ PushAll("started") # <<>>
    BY <2>1, PushAllGood DEF Events
  <2> QED BY <2>1, <2>2 DEF IInv, Good, Present
<1>5. CASE ManualAnnounce
  <2>1. running' = running /\ running /\ Present /\ tiers' = PushAll("none")
    BY <1>5 DEF ManualAnnounce, Tell
  <2>2. Good(PushAll("none"), TRUE) /\ PushAll("none") # <<>>
    BY <2>1, PushAllGood DEF Events
  <2> QED BY <2>1, <2>2 DEF IInv, Good, Present
<1> QED BY <1>1, <1>2, <1>3, <1>4, <1>5

(* Adding, editing and removing.                                           *)
LEMMA EditsKeepIInv ==
    ASSUME IInv, AddTorrent \/ ResetTorrent \/ RemoveTorrent
    PROVE  IInv'
<1>1. ASSUME NEW list \in Lists, NEW orders \in TierOrders(list), NEW i \in DOMAIN list
      PROVE  /\ list[i] \in Seq(Trackers) /\ list[i] # <<>> /\ IsInjective(list[i])
             /\ orders[i] \in Orders(list[i])
  BY AnnouncerAssumption DEF TierOrders
<1>2. ASSUME NEW list \in Lists, NEW ts, ts = [i \in DOMAIN list |-> ts[i]],
             NEW r \in BOOLEAN, \A i \in DOMAIN list : TierInv(ts[i], r)
      PROVE  Good(ts, r) /\ ts # <<>>
  <2>1. list \in Seq(Seq(Trackers)) /\ list # <<>>
    BY AnnouncerAssumption
  <2>2. DOMAIN ts = 1 .. Len(list) /\ Len(list) \in Nat \ {0}
    BY <1>2, <2>1
  <2>3. \A i \in 1 .. Len(list) : ts[i] \in Tier
    BY <1>2, <2>1 DEF TierInv, TierOK
  <2>4. ts \in Seq(Tier) /\ Len(ts) = Len(list)
    BY <1>2, <2>2, <2>3
  <2> QED BY <1>2, <2>1, <2>2, <2>4 DEF Good
<1>3. CASE AddTorrent
  <2>0. PICK list \in Lists : \E orders \in TierOrders(list) :
          tiers' = [i \in DOMAIN list |-> NewTier(orders[i], TRUE)]
    BY <1>3 DEF AddTorrent
  <2>1. PICK orders \in TierOrders(list) :
          tiers' = [i \in DOMAIN list |-> NewTier(orders[i], TRUE)]
    BY <2>0
  <2>2. running = FALSE /\ running' = FALSE
    BY <1>3 DEF AddTorrent, IInv
  <2>3. ASSUME NEW i \in DOMAIN list PROVE TierInv(tiers'[i], FALSE)
    <3> DEFINE t == NewTier(orders[i], TRUE)
    <3>0. /\ list[i] \in Seq(Trackers) /\ list[i] # <<>> /\ IsInjective(list[i])
          /\ orders[i] \in Orders(list[i])
      BY <1>1
    <3>1. TierOK(t) /\ t.events = <<>> /\ t.flight = <<>>
      BY ONLY <3>0, NewTierOK
    <3>2. tiers'[i] = t
      BY <2>1
    <3>3. Len(<<>>) <= 1
      OBVIOUS
    <3> HIDE DEF t
    <3> QED BY <3>1, <3>2, <3>3 DEF TierInv, SteadyInv, WhileStopped
  <2>4. Good(tiers', FALSE) /\ tiers' # <<>>
    <3>1. tiers' = [i \in DOMAIN list |-> tiers'[i]]
      BY <2>1
    <3> QED BY <1>2, <2>3, <3>1
  <2> QED BY <2>2, <2>4 DEF IInv, Good
<1>4. CASE ResetTorrent
  <2>0. PICK list \in Lists : \E orders \in TierOrders(list) :
          tiers' = [i \in DOMAIN list |-> Inherit(NewTier(orders[i], FALSE), list[i])]
    BY <1>4, Zenon DEF ResetTorrent
  <2>1. PICK orders \in TierOrders(list) :
          tiers' = [i \in DOMAIN list |-> Inherit(NewTier(orders[i], FALSE), list[i])]
    BY <2>0
  <2>2. running \in BOOLEAN /\ running' = running
    BY <1>4 DEF ResetTorrent, IInv
  <2>3. ASSUME NEW i \in DOMAIN list PROVE TierInv(tiers'[i], running)
    <3> DEFINE u == Inherit(NewTier(orders[i], FALSE), list[i])
    <3>1. tiers \in Seq(Tier) /\ \A k \in DOMAIN tiers : TierOK(tiers[k])
      BY DEF IInv, TierInv
    <3>2. TierOK(u) /\ u.steady = FALSE
      BY <1>1, <2>2, <3>1, InheritedTier
    <3>3. tiers'[i] = u
      BY <2>1
    <3> HIDE DEF u
    <3> QED BY <3>2, <3>3 DEF TierInv, SteadyInv
  <2>4. Good(tiers', running) /\ tiers' # <<>>
    <3>1. tiers' = [i \in DOMAIN list |-> tiers'[i]]
      BY <2>1
    <3> QED BY <1>2, <2>2, <2>3, <3>1
  <2> QED BY <2>2, <2>4 DEF IInv, Good, Present
<1>5. CASE RemoveTorrent
  <2>1. <<>> \in Seq(Tier) /\ DOMAIN <<>> = {}
    OBVIOUS
  <2> QED BY <1>5, <2>1 DEF RemoveTorrent, IInv
<1> QED BY <1>3, <1>4, <1>5

(* Upkeep and the answers.                                                 *)
LEMMA UpkeepKeepsIInv ==
    ASSUME IInv, NEW announce, NEW scrape, Upkeep(announce, scrape)
    PROVE  IInv'
<1> DEFINE T(i) == IF i \in scrape THEN [tiers[i] EXCEPT !.scraping = TRUE] ELSE tiers[i]
           U(i) == IF i \in announce THEN Announced(T(i)) ELSE T(i)
<1>1. /\ running' = running /\ running \in BOOLEAN /\ (running => Present)
      /\ tiers' = [i \in DOMAIN tiers |-> U(i)]
      /\ \A i \in announce : tiers[i].events # <<>> /\ tiers[i].scheduled
  BY DEF Upkeep, IInv, NeedsToAnnounce
<1>2. ASSUME NEW i \in DOMAIN tiers PROVE TierInv(U(i), running)
  <2>1. tiers[i] \in Tier /\ TierInv(tiers[i], running)
    BY DEF IInv, TierInv, TierOK
  <2>2. /\ TierInv(T(i), running)
        /\ T(i).events = tiers[i].events /\ T(i).scheduled = tiers[i].scheduled
    <3> DEFINE u == [tiers[i] EXCEPT !.scraping = TRUE]
    <3>1. u \in Tier
      BY <2>1 DEF Tier
    <3>2. /\ u.order = tiers[i].order /\ u.pos = tiers[i].pos /\ u.events = tiers[i].events
          /\ u.scheduled = tiers[i].scheduled /\ u.flight = tiers[i].flight
          /\ u.steady = tiers[i].steady
      BY <2>1 DEF Tier
    <3> HIDE DEF u
    <3>3. TierInv(u, running)
      BY <2>1, <3>1, <3>2 DEF TierInv, TierOK, SteadyInv, WhileRunning, WhileStopped
    <3>4. T(i) \in {u, tiers[i]}
      BY DEF u
    <3> HIDE DEF T
    <3> QED BY <2>1, <3>2, <3>3, <3>4
  <2> HIDE DEF T
  <2>3. ASSUME i \in announce PROVE TierInv(Announced(T(i)), running)
    <3>1. T(i).events # <<>> /\ T(i).scheduled
      BY <1>1, <2>2, <2>3
    <3> QED BY <1>1, <2>2, <3>1, AnnouncedTier
  <2> QED BY <2>2, <2>3
<1> HIDE DEF U
<1>3. tiers' = [i \in DOMAIN tiers |-> tiers'[i]] /\ \A i \in DOMAIN tiers : TierInv(tiers'[i], running)
  BY <1>1, <1>2
<1>4. Good(tiers', running) /\ (tiers' # <<>> <=> Present)
  BY <1>1, <1>3, GoodMap
<1> QED BY <1>1, <1>4 DEF IInv, Good, Present

(* An answer to an announce, late ones included, keeps the invariant.      *)
LEMMA AnswersKeepIInv ==
    ASSUME IInv, NEW i, NEW n, NEW result \in Results, AnnounceDone(i, n, result)
    PROVE  IInv'
<1> DEFINE r == tiers[i].flight[n]
           t == Answered(tiers[i], n)
           u == CASE result = "ok" -> Acknowledged(t, r)
                  [] result = "error" -> Retried(t, r)
                  [] result = "unregistered" -> Refused(t)
<1>1. /\ i \in DOMAIN tiers /\ n \in DOMAIN tiers[i].flight
      /\ tiers' = [tiers EXCEPT ![i] = u]
      /\ running' = running /\ running \in BOOLEAN /\ (running => Present)
  BY DEF AnnounceDone, IInv, Answered
<1>2. TierInv(tiers[i], running) /\ tiers \in Seq(Tier)
  BY <1>1 DEF IInv
<1>3. /\ TierInv(Acknowledged(t, r), running)
      /\ TierInv(Retried(t, r), running)
      /\ TierInv(Refused(t), running)
  BY <1>1, <1>2, AcknowledgedTier, RetriedTier, RefusedTier
<1> HIDE DEF t, r
<1>4. TierInv(u, running)
  BY <1>3 DEF Results
<1> HIDE DEF u
<1>5. tiers' = [k \in DOMAIN tiers |-> tiers'[k]] /\ \A k \in DOMAIN tiers : TierInv(tiers'[k], running)
  BY <1>1, <1>2, <1>4 DEF IInv
<1>6. Good(tiers', running) /\ (tiers' # <<>> <=> Present)
  BY <1>1, <1>5, GoodMap
<1> QED BY <1>1, <1>6 DEF IInv, Good, Present

(* An answer to a scrape keeps the invariant.                              *)
LEMMA ScrapesKeepIInv ==
    ASSUME IInv, NEW tracker, NEW ok \in BOOLEAN, ScrapeDone(tracker, ok)
    PROVE  IInv'
<1>1. running' = running /\ running \in BOOLEAN /\ (running => Present)
  BY DEF ScrapeDone, IInv
<1>2. /\ tiers' = [i \in DOMAIN tiers |-> tiers'[i]]
      /\ \A i \in DOMAIN tiers :
            tiers'[i] \in {tiers[i], [tiers[i] EXCEPT !.scraping = FALSE], UseNextTracker(tiers[i])}
  BY DEF ScrapeDone
<1>3. ASSUME NEW i \in DOMAIN tiers PROVE TierInv(tiers'[i], running)
  <2>1. tiers[i] \in Tier /\ TierOK(tiers[i]) /\ TierInv(tiers[i], running)
    BY DEF IInv, TierInv, TierOK
  <2> DEFINE u == [tiers[i] EXCEPT !.scraping = FALSE]
             v == UseNextTracker(tiers[i])
  <2>2. TierInv(u, running)
    <3>1. u \in Tier
      BY <2>1 DEF Tier
    <3>2. /\ u.order = tiers[i].order /\ u.pos = tiers[i].pos /\ u.events = tiers[i].events
          /\ u.scheduled = tiers[i].scheduled /\ u.flight = tiers[i].flight
          /\ u.steady = tiers[i].steady
      BY <2>1 DEF Tier
    <3> HIDE DEF u
    <3> QED BY <2>1, <3>1, <3>2 DEF TierInv, TierOK, SteadyInv, WhileRunning, WhileStopped
  <2>3. TierInv(v, running)
    <3>1. /\ TierOK(v)
          /\ v.events = tiers[i].events /\ v.scheduled = tiers[i].scheduled
          /\ v.flight = tiers[i].flight /\ v.steady = tiers[i].steady
      BY <2>1, NextTier
    <3> HIDE DEF v
    <3> QED BY <2>1, <3>1 DEF TierInv, SteadyInv, WhileRunning, WhileStopped
  <2>4. tiers'[i] \in {tiers[i], u, v}
    BY <1>2
  <2> HIDE DEF u, v
  <2> QED BY <2>1, <2>2, <2>3, <2>4
<1>4. Good(tiers', running) /\ (tiers' # <<>> <=> Present)
  BY <1>1, <1>2, <1>3, GoodMap
<1> QED BY <1>1, <1>4 DEF IInv, Good, Present

-----------------------------------------------------------------------------
(* Every step of the announcer keeps the invariant.                        *)
THEOREM IInvNext == IInv /\ [Next]_vars => IInv'
<1> SUFFICES ASSUME IInv, [Next]_vars PROVE IInv'
  OBVIOUS
<1>1. CASE UNCHANGED vars
  BY <1>1 DEF vars, IInv, Present
<1>2. CASE Next
  <2>1. CASE AddTorrent \/ RemoveTorrent \/ ResetTorrent
    BY <2>1, EditsKeepIInv
  <2>2. CASE StartTorrent \/ StopTorrent \/ TorrentCompleted \/ ChangeMyPort \/ ManualAnnounce
    BY <2>2, CallsKeepIInv
  <2>3. CASE \E announce, scrape \in SUBSET DOMAIN tiers : Upkeep(announce, scrape)
    BY <2>3, UpkeepKeepsIInv
  <2>4. CASE \E i \in DOMAIN tiers : \E n \in DOMAIN tiers[i].flight, result \in Results :
               AnnounceDone(i, n, result)
    BY <2>4, AnswersKeepIInv
  <2>5. CASE \E tracker \in Trackers, ok \in BOOLEAN : ScrapeDone(tracker, ok)
    BY <2>5, ScrapesKeepIInv
  <2> QED BY <1>2, <2>1, <2>2, <2>3, <2>4, <2>5 DEF Next
<1> QED BY <1>1, <1>2

(* The invariant holds in every reachable state.                           *)
THEOREM Invariance == Spec => []IInv
BY IInvInit, IInvNext, PTL DEF Spec

(* Scrapes and stops are only ever asked of trackers.                      *)
Asked == scrapes \subseteq Trackers /\ stops \subseteq Trackers

(* The scrapes and stops that are under way are for known trackers.        *)
LEMMA AskedNext == IInv /\ Asked /\ [Next]_vars => Asked'
<1> SUFFICES ASSUME IInv, Asked, [Next]_vars PROVE Asked'
  OBVIOUS
<1>1. \A i \in DOMAIN tiers : Current(tiers[i]) \in Trackers
  BY DEF IInv, TierInv, TierOK, Tier, Current
<1>2. CASE UNCHANGED vars
  BY <1>2 DEF vars, Asked
<1>3. CASE AddTorrent \/ RemoveTorrent \/ ResetTorrent
  BY <1>1, <1>3 DEF AddTorrent, RemoveTorrent, ResetTorrent, Asked
<1>4. CASE StartTorrent \/ StopTorrent \/ TorrentCompleted \/ ChangeMyPort \/ ManualAnnounce
  BY <1>4 DEF StartTorrent, StopTorrent, TorrentCompleted, ChangeMyPort, ManualAnnounce, Tell, Asked
<1>5. ASSUME NEW announce \in SUBSET DOMAIN tiers, NEW scrape \in SUBSET DOMAIN tiers,
             Upkeep(announce, scrape)
      PROVE  Asked'
  BY <1>1, <1>5 DEF Upkeep, Asked
<1>6. ASSUME NEW i, NEW n, NEW result, AnnounceDone(i, n, result) PROVE Asked'
  BY <1>6 DEF AnnounceDone, Asked
<1>7. ASSUME NEW tracker, NEW ok, ScrapeDone(tracker, ok) PROVE Asked'
  BY <1>7 DEF ScrapeDone, Asked
<1> QED BY <1>2, <1>3, <1>4, <1>5, <1>6, <1>7 DEF Next

(* The types: a tier's trying order has each of its trackers once, also    *)
(* when the current one is promoted, and one of them is current.           *)
THEOREM Types == Spec => []TypeOK
<1>1. Init => Asked
  BY DEF Init, Asked
<1>2. Spec => []Asked
  BY <1>1, AskedNext, Invariance, PTL DEF Spec
<1>3. IInv /\ Asked => TypeOK
  <2> SUFFICES ASSUME IInv, Asked PROVE TypeOK
    OBVIOUS
  <2>1. ASSUME NEW i \in DOMAIN tiers
        PROVE  tiers[i].pos \in DOMAIN tiers[i].order /\ IsInjective(tiers[i].order)
    <3>1. tiers[i] \in Tier /\ tiers[i].pos \in 1 .. Len(tiers[i].order) /\ IsInjective(tiers[i].order)
      BY DEF IInv, TierInv, TierOK
    <3> QED BY <3>1 DEF Tier
  <2> QED BY <2>1 DEF IInv, Asked, TypeOK
<1> QED BY <1>2, <1>3, Invariance, PTL

(* The queues keep their shape, whatever is pushed and pulled.             *)
THEOREM QueuesKeepShape == Spec => []QueuesShaped
<1>1. IInv => QueuesShaped
  BY DEF IInv, TierInv, TierOK, QueuesShaped
<1> QED BY <1>1, Invariance, PTL

(* A torrent that runs is announced, or its tier is not steady.            *)
THEOREM RunningTorrentsAnnounce == Spec => []RunningIsAnnounced
<1>1. IInv => RunningIsAnnounced
  BY DEF IInv, TierInv, SteadyInv, WhileRunning, RunningIsAnnounced, Announcing
<1> QED BY <1>1, Invariance, PTL

(* A torrent that is stopped says nothing else, or its tier is not steady. *)
THEOREM StoppedTorrentsAreSilent == Spec => []StoppedIsSilent
<1>1. ASSUME NEW q \in Seq(Events), WellQueued(q), q # <<>> => q[Len(q)] = "stopped"
      PROVE  ToSet(q) \subseteq {"completed", "stopped"}
  <2>1. ASSUME NEW n \in 1 .. Len(q) PROVE q[n] \in {"completed", "stopped"}
    <3>1. q # <<>> /\ Len(q) \in Nat \ {0}
      OBVIOUS
    <3>2. q[Len(q)] = "stopped" /\ (Len(q) = 1 \/ (Len(q) = 2 /\ q[1] = "completed"))
      <4>1. Len(q) \in DOMAIN q /\ q[Len(q)] = "stopped"
        BY <1>1, <3>1
      <4>2. Len(q) = 1 \/ (Len(q) = 2 /\ q[1] = "completed")
        BY <1>1, <4>1 DEF WellQueued
      <4> QED BY <4>1, <4>2
    <3>3. n = Len(q) \/ (Len(q) = 2 /\ n = 1)
      BY <3>1, <3>2
    <3> QED BY <3>2, <3>3
  <2> QED BY <2>1 DEF ToSet
<1>2. IInv => StoppedIsSilent
  <2> SUFFICES ASSUME IInv, ~running, NEW i \in DOMAIN tiers, tiers[i].steady
               PROVE  ToSet(tiers[i].events) \subseteq {"completed", "stopped"}
    BY DEF StoppedIsSilent
  <2>1. /\ tiers[i].events \in Seq(Events) /\ WellQueued(tiers[i].events)
        /\ tiers[i].events # <<>> => tiers[i].events[Len(tiers[i].events)] = "stopped"
    BY DEF IInv, TierInv, TierOK, Tier, SteadyInv, WhileStopped
  <2> QED BY <1>1, <2>1
<1> QED BY <1>2, Invariance, PTL

-----------------------------------------------------------------------------
(* What a tier holds of a completion through each of its steps.            *)
Completed(t) == Holds(t, "completed")

(* Dropping a trailing event drops no other.                               *)
LEMMA TrimKeeps ==
    ASSUME NEW q \in Seq(Events), NEW e \in Events, NEW n \in DOMAIN q, q[n] # e
    PROVE  \E k \in DOMAIN Trimmed(q, e) : Trimmed(q, e)[k] = q[n]
<1>1. CASE q # <<>> /\ q[Len(q)] = e
  <2>1. n # Len(q) /\ n \in 1 .. Len(q) /\ Len(q) \in Nat
    BY <1>1
  <2>2. n \in 1 .. Len(q) - 1
    BY <2>1
  <2>3. Trimmed(q, e) = SubSeq(q, 1, Len(q) - 1)
    BY <1>1 DEF Trimmed
  <2>4. n \in DOMAIN SubSeq(q, 1, Len(q) - 1) /\ SubSeq(q, 1, Len(q) - 1)[n] = q[n]
    BY <2>1, <2>2
  <2> QED BY <2>3, <2>4
<1>2. CASE ~(q # <<>> /\ q[Len(q)] = e)
  BY <1>2 DEF Trimmed
<1> QED BY <1>1, <1>2

(* What is pushed to a queue never drops a completion from it.             *)
LEMMA PushKeeps ==
    ASSUME NEW q \in Seq(Events), NEW e \in Events, WellQueued(q),
           "completed" \in ToSet(q) \/ e = "completed"
    PROVE  "completed" \in ToSet(PushEvent(q, e))
<1> DEFINE a == LeadingUp(q, e)
           b == Trimmed(a, "none")
           c == Trimmed(b, e)
<1>1. a \in Seq(Events) /\ WellQueued(a)
  <2>1. WellQueued(<<>>) /\ WellQueued(<<"completed">>)
    BY DEF WellQueued
  <2>2. <<>> \in Seq(Events) /\ <<"completed">> \in Seq(Events)
    BY DEF Events
  <2> QED BY <2>1, <2>2 DEF LeadingUp
<1>2. "completed" \in ToSet(q) => \E n \in DOMAIN a : a[n] = "completed"
  <2>1. DOMAIN <<"completed">> = 1 .. 1 /\ <<"completed">>[1] = "completed"
    OBVIOUS
  <2> QED BY <2>1 DEF LeadingUp, ToSet
<1> HIDE DEF a
<1>3. b \in Seq(Events) /\ WellQueued(b)
  BY <1>1, TrimmedShape DEF Events
<1>4. \A n \in DOMAIN a : a[n] = "completed" => \E k \in DOMAIN b : b[k] = "completed"
  BY <1>1, TrimKeeps DEF Events
<1> HIDE DEF b
<1>5. c \in Seq(Events)
  BY <1>3, TrimmedShape
<1>6. e # "completed" => \A n \in DOMAIN b : b[n] = "completed" =>
         \E k \in DOMAIN c : c[k] = "completed"
  BY <1>3, TrimKeeps
<1> HIDE DEF c
<1>7. PushEvent(q, e) = Append(c, e)
  <2>1. RemoveTrailing(a, "none") = b
    BY <1>1, Trailing DEF WellQueued, Events, b
  <2>2. RemoveTrailing(b, e) = c
    BY <1>3, Trailing DEF WellQueued, c
  <2> QED BY <2>1, <2>2 DEF PushEvent, a
<1>8. \A k \in DOMAIN c : k \in DOMAIN Append(c, e) /\ Append(c, e)[k] = c[k]
  BY <1>5
<1>9. Len(c) + 1 \in DOMAIN Append(c, e) /\ Append(c, e)[Len(c) + 1] = e
  BY <1>5
<1>10. \E k \in DOMAIN Append(c, e) : Append(c, e)[k] = "completed"
  BY <1>2, <1>4, <1>6, <1>8, <1>9 DEF ToSet
<1> QED BY <1>7, <1>10 DEF ToSet

(* Nor from a tier.                                                        *)
LEMMA PushTierKeeps ==
    ASSUME NEW t, TierOK(t), NEW e \in Events, Completed(t) \/ e = "completed"
    PROVE  Completed(Push(t, e))
<1>1. Push(t, e).flight = t.flight
  BY PushTier
<1>2. Push(t, e).events = PushEvent(t.events, e)
  BY DEF Push, TierOK, Tier
<1>3. t.events \in Seq(Events) /\ WellQueued(t.events)
  BY DEF TierOK, Tier
<1>4. "completed" \in ToSet(t.events) \/ e = "completed" => "completed" \in ToSet(PushEvent(t.events, e))
  BY <1>3, PushKeeps
<1> QED BY <1>1, <1>2, <1>4 DEF Completed, Holds

(* A completion that is sent goes from the queue into the flight.          *)
LEMMA AnnouncedKeeps ==
    ASSUME NEW t, TierOK(t), t.events # <<>>, running \in BOOLEAN, Completed(t)
    PROVE  Completed(Announced(t))
<1> DEFINE req == [event |-> Head(t.events), running |-> running]
           u   == Announced(t)
<1>1. t.events \in Seq(Events) /\ t.flight \in Seq(Request) /\ t \in Tier
  BY DEF TierOK, Tier
<1>2. u.events = Tail(t.events) /\ u.flight = Append(t.flight, req)
  BY <1>1 DEF Announced, Unless, Tier
<1> HIDE DEF u
<1>3. /\ \A k \in DOMAIN t.flight : k \in DOMAIN Append(t.flight, req)
                                   /\ Append(t.flight, req)[k] = t.flight[k]
      /\ Len(t.flight) + 1 \in DOMAIN Append(t.flight, req)
      /\ Append(t.flight, req)[Len(t.flight) + 1] = req
  <2>1. req \in Request
    BY <1>1 DEF Request
  <2> HIDE DEF req
  <2> QED BY <1>1, <2>1
<1>4. \A n \in DOMAIN t.events :
         t.events[n] = Head(t.events) \/ \E k \in DOMAIN Tail(t.events) : Tail(t.events)[k] = t.events[n]
  <2>1. ASSUME NEW n \in DOMAIN t.events, n # 1
        PROVE  n - 1 \in DOMAIN Tail(t.events) /\ Tail(t.events)[n - 1] = t.events[n]
    BY <1>1, <2>1
  <2>2. Head(t.events) = t.events[1]
    BY <1>1
  <2> QED BY <2>1, <2>2
<1> QED BY <1>2, <1>3, <1>4 DEF Completed, Holds, ToSet, u

(* A retried completion is queued again, what else is held stays.          *)
LEMMA RetriedKeeps ==
    ASSUME NEW t, TierOK(t), NEW n \in DOMAIN t.flight, Completed(t)
    PROVE  Completed(Retried(Answered(t, n), t.flight[n]))
<1> DEFINE a == Answered(t, n)
           q == t.flight[n]
           p == UseNextTracker(a)
           u == Push(p, q.event)
           v == [u EXCEPT !.steady = @ /\ a.events = <<>>]
<1>1. /\ TierOK(a) /\ q \in Request /\ a.events = t.events
      /\ \A k \in DOMAIN t.flight :
            k # n => \E l \in DOMAIN a.flight : a.flight[l] = t.flight[k]
  BY AnsweredTier
<1> HIDE DEF a
<1>2. TierOK(p) /\ p.events = t.events /\ p.flight = a.flight
  BY <1>1, NextTier
<1> HIDE DEF p
<1>3. q.event \in Events
  BY <1>1 DEF Request
<1>4. Completed(p) \/ q.event = "completed"
  BY <1>1, <1>2 DEF Completed, Holds
<1>5. Completed(u) /\ TierOK(u)
  BY <1>2, <1>3, <1>4, PushTierKeeps, PushTier
<1>6. v = Retried(a, q)
  BY DEF Retried, Unless, p
<1> HIDE DEF u
<1>7. v.events = u.events /\ v.flight = u.flight
  BY <1>5 DEF TierOK, Tier
<1> HIDE DEF v
<1> QED BY <1>5, <1>6, <1>7 DEF Completed, Holds, a

(* A success is remembered by the tier and ends one request.               *)
LEMMA AcknowledgedSays ==
    ASSUME NEW t, TierOK(t), NEW n \in DOMAIN t.flight
    PROVE  LET u == Acknowledged(Answered(t, n), t.flight[n])
           IN  u.ok /\ Len(u.flight) < Len(t.flight)
<1> DEFINE a == Answered(t, n)
           q == t.flight[n]
           p == PromoteCurrent(a)
           d == [p EXCEPT !.running = q.running, !.ok = TRUE]
<1>1. TierOK(a) /\ q \in Request /\ Len(a.flight) < Len(t.flight)
  BY AnsweredTier
<1> HIDE DEF a
<1>2. TierOK(p) /\ p.flight = a.flight
  BY <1>1, PromotedTier
<1>3. Acknowledged(a, q) \in {Push(d, "none"), d}
  BY DEF Acknowledged
<1> HIDE DEF p, q
<1>4. TierOK(d) /\ d.flight = a.flight /\ d.ok
  BY <1>1, <1>2 DEF TierOK, Tier, Request
<1> HIDE DEF d
<1>5. Push(d, "none").ok = d.ok /\ Push(d, "none").flight = d.flight
  BY <1>4, PushTier DEF Events
<1> QED BY <1>1, <1>3, <1>4, <1>5 DEF a, q

Kept(i) ==
    Completed(tiers[i]) /\ i \in DOMAIN tiers' /\ ~Completed(tiers'[i]) =>
       \/ ResetTorrent
       \/ tiers'[i].ok /\ Len(tiers'[i].flight) < Len(tiers[i].flight)
       \/ \E n \in DOMAIN tiers[i].flight : AnnounceDone(i, n, "unregistered")

(* Every step leaves a tier's completion with it, or has it answered.      *)
LEMMA StepsKeep ==
    ASSUME IInv, Next, NEW i \in DOMAIN tiers
    PROVE  Kept(i)
<1>0. TierOK(tiers[i]) /\ running \in BOOLEAN
  BY DEF IInv, TierInv
<1> SUFFICES ASSUME Completed(tiers[i]), i \in DOMAIN tiers', ~Completed(tiers'[i]) PROVE Kept(i)
  BY DEF Kept
<1>1. ASSUME NEW e \in Events, tiers' = PushAll(e) PROVE FALSE
  BY <1>0, <1>1, PushTierKeeps DEF PushAll
<1>2. CASE AddTorrent
  BY <1>2 DEF AddTorrent, Present
<1>3. CASE RemoveTorrent
  BY <1>3 DEF RemoveTorrent
<1>4. CASE ResetTorrent
  BY <1>4 DEF Kept
<1>5. CASE StartTorrent \/ ChangeMyPort
  BY <1>1, <1>5 DEF StartTorrent, ChangeMyPort, Tell, Events
<1>6. CASE StopTorrent
  BY <1>1, <1>6 DEF StopTorrent, Tell, Events
<1>7. CASE ManualAnnounce
  BY <1>1, <1>7 DEF ManualAnnounce, Tell, Events
<1>8. CASE TorrentCompleted
  <2> DEFINE u == Push(tiers[i], "completed")
  <2>1. tiers'[i] = [u EXCEPT !.steady = @ /\ ~~running]
    BY <1>8 DEF TorrentCompleted, Tell, Unless
  <2>2. TierOK(u) /\ Completed(u)
    BY <1>0, PushTier, PushTierKeeps DEF Events
  <2> HIDE DEF u
  <2>3. tiers'[i].events = u.events /\ tiers'[i].flight = u.flight
    BY <2>1, <2>2 DEF TierOK, Tier
  <2> QED BY <2>2, <2>3 DEF Completed, Holds
<1>9. ASSUME NEW announce, NEW scrape, Upkeep(announce, scrape) PROVE FALSE
  <2> DEFINE s == [tiers[i] EXCEPT !.scraping = TRUE]
             T == IF i \in scrape THEN s ELSE tiers[i]
  <2>1. /\ tiers'[i] = IF i \in announce THEN Announced(T) ELSE T
        /\ i \in announce => tiers[i].events # <<>>
    BY <1>9 DEF Upkeep, NeedsToAnnounce
  <2>2. TierOK(s) /\ s.events = tiers[i].events /\ s.flight = tiers[i].flight
    BY <1>0 DEF TierOK, Tier
  <2> HIDE DEF s
  <2>3. TierOK(T) /\ T.events = tiers[i].events /\ T.flight = tiers[i].flight
    BY <1>0, <2>2
  <2> HIDE DEF T
  <2>4. Completed(T)
    BY <2>3 DEF Completed, Holds
  <2>5. T.events # <<>> => Completed(Announced(T))
    BY <1>0, <2>3, <2>4, AnnouncedKeeps
  <2> QED BY <2>1, <2>3, <2>4, <2>5
<1>10. ASSUME NEW k \in DOMAIN tiers, NEW n \in DOMAIN tiers[k].flight, NEW result \in Results,
              AnnounceDone(k, n, result)
       PROVE  Kept(i)
  <2>1. tiers' = [tiers EXCEPT ![k] =
           CASE result = "ok" -> Acknowledged(Answered(tiers[k], n), tiers[k].flight[n])
             [] result = "error" -> Retried(Answered(tiers[k], n), tiers[k].flight[n])
             [] result = "unregistered" -> Refused(Answered(tiers[k], n))]
    BY <1>10 DEF AnnounceDone, Answered
  <2>2. k = i
    BY <2>1
  <2>3. CASE result = "ok"
    <3>1. tiers'[i] = Acknowledged(Answered(tiers[i], n), tiers[i].flight[n])
      BY <2>1, <2>2, <2>3
    <3>2. tiers'[i].ok /\ Len(tiers'[i].flight) < Len(tiers[i].flight)
      BY <1>0, <2>2, <3>1, AcknowledgedSays
    <3> QED BY <3>2 DEF Kept
  <2>4. CASE result = "error"
    <3>1. tiers'[i] = Retried(Answered(tiers[i], n), tiers[i].flight[n])
      BY <2>1, <2>2, <2>4
    <3> QED BY <1>0, <2>2, <3>1, RetriedKeeps
  <2>5. CASE result = "unregistered"
    BY <1>10, <2>2, <2>5 DEF Kept
  <2> QED BY <2>3, <2>4, <2>5 DEF Results
<1>11. ASSUME NEW tracker, NEW ok, ScrapeDone(tracker, ok) PROVE FALSE
  <2>1. tiers'[i] \in {tiers[i], [tiers[i] EXCEPT !.scraping = FALSE], UseNextTracker(tiers[i])}
    BY <1>11 DEF ScrapeDone
  <2>2. \A u \in {[tiers[i] EXCEPT !.scraping = FALSE], UseNextTracker(tiers[i])} :
           u.events = tiers[i].events /\ u.flight = tiers[i].flight
    BY <1>0, NextTier DEF TierOK, Tier
  <2> QED BY <2>1, <2>2 DEF Completed, Holds
<1> QED BY <1>2, <1>3, <1>4, <1>5, <1>6, <1>7, <1>8, <1>9, <1>10, <1>11 DEF Next

(* A completion is neither dropped nor overtaken by a stop, a start, a     *)
(* failure or a scrape.                                                    *)
THEOREM CompletionsAreKept == Spec => CompletionIsKept
<1>1. IInv /\ [Next]_vars => [\A i \in DOMAIN tiers : Kept(i)]_vars
  BY StepsKeep
<1>2. Spec => [][\A i \in DOMAIN tiers : Kept(i)]_vars
  BY <1>1, Invariance, PTL DEF Spec
<1> QED BY <1>2 DEF Kept, Completed, CompletionIsKept

=============================================================================
