----------------------------- MODULE Announcer ------------------------------
(***************************************************************************)
(* announcer.cc: what one torrent tells its trackers, and in which order.  *)
(* The trackers come in tiers.  A tier talks to one tracker at a time,     *)
(* keeps a queue of the events to announce, and sends the first of them    *)
(* when its time has come.  Answers come late, in any order or as errors;  *)
(* meanwhile the user starts and stops the torrent or edits its trackers.  *)
(*                                                                         *)
(* Time is not modelled: a time that was set comes, sooner or later, and   *)
(* a scrape may be due whenever none is under way.  A request that nobody  *)
(* waits for any more, because its tier is gone, is forgotten: its answer  *)
(* is ignored (getTier finds nothing).  One torrent never needs more than  *)
(* the MaxAnnouncesPerUpkeep that one upkeep sends.                        *)
(***************************************************************************)
EXTENDS Naturals, FiniteSets, SequencesExt

CONSTANTS
    Trackers,   \* the trackers there are
    Lists,      \* the tracker lists the torrent can have: tiers of trackers,
                \* none of which is there twice (tr_announce_list::can_add)
    MaxTiers,   \* the longest of these lists
    MaxEvents,  \* bound: events in a queue
    MaxFlight,  \* bound: announces of a tier under way
    MaxScrapes  \* bound: scrapes under way

ASSUME AnnouncerAssumption ==
    /\ \A list \in Lists : list # <<>> /\ \A i \in DOMAIN list : list[i] # <<>>
    /\ \A list \in Lists : list \in Seq(Seq(Trackers)) /\ Len(list) <= MaxTiers
    /\ \A list \in Lists : \A i \in DOMAIN list : IsInjective(list[i])
    /\ MaxTiers \in Nat /\ MaxEvents \in Nat /\ MaxFlight \in Nat /\ MaxScrapes \in Nat

Events == {"none", "started", "completed", "stopped"}

VARIABLES
    running,  \* tr_torrent::is_running_
    tiers,    \* the torrent's tiers; none when there is no torrent
    scrapes,  \* trackers that were asked for a scrape and have not answered
    stops     \* stops_: trackers to be told that a removed torrent stopped

vars == <<running, tiers, scrapes, stops>>

-----------------------------------------------------------------------------
(* A tier.  order and pos are its tr_tracker_trying_order, pos being 0     *)
(* when no tracker is current; scheduled says that announceAt is set;      *)
(* running and ok are isRunning and lastAnnounceSucceeded; flight holds    *)
(* the announces that were sent and not answered.  steady is no field of   *)
(* the program: it holds until an announce fails with newer ones queued,   *)
(* is refused, overlaps with another or is about a completion after the    *)
(* stop, or the tracker list is edited.                                    *)
NewTier(order, steady) ==
    [order |-> order, pos |-> 1, events |-> <<>>, scheduled |-> FALSE,
     announcing |-> FALSE, scraping |-> FALSE, running |-> FALSE, ok |-> FALSE,
     flight |-> <<>>, steady |-> steady]

(* The trying order of a tier is a shuffle of its trackers.                *)
Orders(trackers) ==
    {order \in [DOMAIN trackers -> Trackers] : ToSet(order) = ToSet(trackers)}

TierOrders(list) ==
    {orders \in [DOMAIN list -> UNION {Orders(list[i]) : i \in DOMAIN list}] :
        \A i \in DOMAIN list : orders[i] \in Orders(list[i])}

Current(tier) == tier.order[tier.pos]

(* mutant: the order is not gone through again.                            *)
UseTrackerAfter(tier) ==
    [tier EXCEPT !.pos = @ + 1, !.announcing = FALSE, !.scraping = FALSE]

UseNextTracker(tier) ==
    [tier EXCEPT !.pos = (@ % Len(tier.order)) + 1, !.announcing = FALSE, !.scraping = FALSE]

PromoteCurrent(tier) ==
    IF tier.pos <= 1 THEN tier
    ELSE [tier EXCEPT !.order = <<Current(tier)>> \o RemoveAt(@, tier.pos), !.pos = 1]

(* tier_announce_event_push and its three special cases.                   *)
RemoveTrailing(q, e) ==
    SubSeq(q, 1, CHOOSE n \in 0 .. Len(q) : /\ n = 0 \/ q[n] # e
                                            /\ \A i \in n + 1 .. Len(q) : q[i] = e)

(* mutants: a stop drops nothing; a stop drops everything.                 *)
LeadingUpAll(q, e) == q
LeadingUpNone(q, e) == IF e = "stopped" THEN <<>> ELSE q

LeadingUp(q, e) ==
    IF e # "stopped" THEN q
    ELSE IF "completed" \in ToSet(q) THEN <<"completed">> ELSE <<>>

(* mutant: without special case #3.                                        *)
PushTwice(q, e) == Append(RemoveTrailing(LeadingUp(q, e), "none"), e)

PushEvent(q, e) ==
    Append(RemoveTrailing(RemoveTrailing(LeadingUp(q, e), "none"), e), e)

Push(tier, e) == [tier EXCEPT !.events = PushEvent(@, e), !.scheduled = TRUE]

Unless(tier, cond) == [tier EXCEPT !.steady = @ /\ ~cond]

-----------------------------------------------------------------------------
(* What the torrent asks for.                                              *)
Present == tiers # <<>>
Fits(ts) == \A i \in DOMAIN ts : Len(ts[i].events) <= MaxEvents

PushAll(e) == [i \in DOMAIN tiers |-> Push(tiers[i], e)]

Tell(ts) ==
    /\ Present /\ Fits(ts)
    /\ tiers' = ts
    /\ UNCHANGED <<scrapes, stops>>

StartTorrent == ~running /\ running' = TRUE /\ Tell(PushAll("started"))

StopTorrent == running' = FALSE /\ Tell(PushAll("stopped"))

(* A download can also be complete because fewer files are wanted, and it  *)
(* need not run.                                                           *)
TorrentCompleted ==
    /\ UNCHANGED running
    /\ Tell([i \in DOMAIN tiers |-> Unless(Push(tiers[i], "completed"), ~running)])

ChangeMyPort == running /\ UNCHANGED running /\ Tell(PushAll("started"))

ManualAnnounce == running /\ UNCHANGED running /\ Tell(PushAll("none"))

AddTorrent ==
    /\ ~Present
    /\ \E list \in Lists : \E orders \in TierOrders(list) :
          tiers' = [i \in DOMAIN list |-> NewTier(orders[i], TRUE)]
    /\ UNCHANGED <<running, scrapes, stops>>

(* The torrent is stopped and freed.  What its queues held is never sent;  *)
(* the trackers that know it as running are told by a request of its own.  *)
RemoveTorrent ==
    /\ Present
    /\ running' = FALSE
    /\ tiers' = <<>>
    /\ stops' = stops \cup {Current(tiers[i]) : i \in {k \in DOMAIN tiers : tiers[k].running /\ tiers[k].ok}}
    /\ UNCHANGED scrapes

(* resetTorrent: the tracker list was edited and the tiers are made anew.  *)
(* A tier takes over the queue of the tier that had the last of its known  *)
(* trackers, without the time that was set, and its current tracker if it  *)
(* still has it; if it has not, it takes its next one and says hello.      *)
Inherit(tier, trackers) ==
    LET Had(t, i) == t \in ToSet(tiers[i].order)
        known == {k \in DOMAIN trackers : \E i \in DOMAIN tiers : Had(trackers[k], i)}
        last  == CHOOSE k \in known : \A l \in known : l <= k
        old   == tiers[CHOOSE i \in DOMAIN tiers :
                          Had(trackers[last], i) /\ \A k \in 1 .. i - 1 : ~Had(trackers[last], k)]
        stays == Current(old) \in ToSet(trackers)
        next  == [tier EXCEPT !.events = old.events]
    IN  IF known = {} THEN tier
        ELSE IF stays
        THEN [next EXCEPT !.pos = CHOOSE p \in DOMAIN tier.order : tier.order[p] = Current(old)]
        ELSE IF running THEN Push(next, "started") ELSE next

ResetTorrent ==
    /\ Present
    /\ \E list \in Lists : \E orders \in TierOrders(list) :
          tiers' = [i \in DOMAIN list |-> Inherit(NewTier(orders[i], FALSE), list[i])]
    /\ Fits(tiers')
    /\ UNCHANGED <<running, scrapes, stops>>

-----------------------------------------------------------------------------
(* mutant: only a torrent that runs is announced.                          *)
NeedsToAnnounceRunning(tier) ==
    running /\ ~tier.announcing /\ ~tier.scraping /\ tier.scheduled /\ tier.events # <<>>

(* upkeep(), every half second: first the stops of removed torrents; then  *)
(* of the tiers whose time has come some are scraped and some announced.   *)
NeedsToAnnounce(tier) ==
    ~tier.announcing /\ ~tier.scraping /\ tier.scheduled /\ tier.events # <<>>

Announced(tier) ==
    [Unless(tier, tier.flight # <<>>) EXCEPT
        !.flight = Append(@, [event |-> Head(tier.events), running |-> running]),
        !.events = Tail(@), !.announcing = TRUE]

Upkeep(announce, scrape) ==
    /\ \A i \in announce : NeedsToAnnounce(tiers[i]) /\ Len(tiers[i].flight) < MaxFlight
    /\ \A i \in scrape : ~tiers[i].scraping /\ Current(tiers[i]) \notin scrapes
    /\ tiers' = [i \in DOMAIN tiers |->
                    LET tier == IF i \in scrape THEN [tiers[i] EXCEPT !.scraping = TRUE] ELSE tiers[i]
                    IN  IF i \in announce THEN Announced(tier) ELSE tier]
    /\ scrapes' = scrapes \cup {Current(tiers[i]) : i \in scrape}
    /\ scrape = {} \/ Cardinality(scrapes') <= MaxScrapes
    /\ stops' = {}
    /\ UNCHANGED running

(* mutant: no periodic update follows.                                     *)
AcknowledgedOnly(tier, r) ==
    [PromoteCurrent(tier) EXCEPT !.running = r.running, !.ok = TRUE]

(* onAnnounceDone, for the nth announce that tier i has under way.         *)
Acknowledged(tier, r) ==
    LET done == [PromoteCurrent(tier) EXCEPT !.running = r.running, !.ok = TRUE]
    IN  IF r.event # "stopped" /\ done.events = <<>> THEN Push(done, "none") ELSE done

Retried(tier, r) ==
    Unless(Push(UseNextTracker(tier), r.event), tier.events # <<>>)

Refused(tier) == Unless(UseNextTracker(tier), TRUE)

AnnounceDone(i, n, result) ==
    /\ i \in DOMAIN tiers /\ n \in DOMAIN tiers[i].flight
    /\ LET r    == tiers[i].flight[n]
           tier == [tiers[i] EXCEPT !.flight = RemoveAt(@, n), !.announcing = FALSE, !.ok = FALSE]
       IN  tiers' = [tiers EXCEPT ![i] = CASE result = "ok" -> Acknowledged(tier, r)
                                           [] result = "error" -> Retried(tier, r)
                                           [] result = "unregistered" -> Refused(tier)]
    /\ Fits(tiers')
    /\ UNCHANGED <<running, scrapes, stops>>

(* onScrapeDone: the first tier that now uses this tracker is meant.  One  *)
(* that failed is left, also when an announce to it is under way.          *)
ScrapeDone(tracker, ok) ==
    /\ tracker \in scrapes
    /\ scrapes' = scrapes \ {tracker}
    /\ LET using == {i \in DOMAIN tiers : Current(tiers[i]) = tracker}
       IN  tiers' = [i \in DOMAIN tiers |->
                        IF i \in using /\ \A k \in using : i <= k
                        THEN IF ok THEN [tiers[i] EXCEPT !.scraping = FALSE]
                             ELSE UseNextTracker(tiers[i])
                        ELSE tiers[i]]
    /\ UNCHANGED <<running, stops>>

-----------------------------------------------------------------------------
Init == running = FALSE /\ tiers = <<>> /\ scrapes = {} /\ stops = {}

Results == {"ok", "error", "unregistered"}

Next ==
    \/ AddTorrent \/ RemoveTorrent \/ ResetTorrent
    \/ StartTorrent \/ StopTorrent \/ TorrentCompleted \/ ChangeMyPort \/ ManualAnnounce
    \/ \E announce, scrape \in SUBSET DOMAIN tiers : Upkeep(announce, scrape)
    \/ \E i \in DOMAIN tiers : \E n \in DOMAIN tiers[i].flight, result \in Results :
          AnnounceDone(i, n, result)
    \/ \E tracker \in Trackers, ok \in BOOLEAN : ScrapeDone(tracker, ok)

(* A request is answered or times out.  An announce whose time has come is *)
(* sent by the first upkeep that finds its tier idle; there is one between *)
(* any two scrapes, which are seconds apart.                               *)
Fairness ==
    /\ \A i \in 1 .. MaxTiers : SF_vars(i \in DOMAIN tiers /\ Upkeep({i}, {}))
    /\ \A i \in 1 .. MaxTiers : WF_vars(\E n \in 1 .. MaxFlight, result \in Results :
                                      AnnounceDone(i, n, result))
    /\ WF_vars(\E tracker \in Trackers, ok \in BOOLEAN : ScrapeDone(tracker, ok))

Spec == Init /\ [][Next]_vars /\ Fairness

-----------------------------------------------------------------------------
(* Type invariant.                                                         *)
Request == [event : Events, running : BOOLEAN]

Tier ==
    [order : Seq(Trackers), pos : Nat, events : Seq(Events), scheduled : BOOLEAN,
     announcing : BOOLEAN, scraping : BOOLEAN, running : BOOLEAN, ok : BOOLEAN,
     flight : Seq(Request), steady : BOOLEAN]

TypeOK ==
    /\ running \in BOOLEAN
    /\ tiers \in Seq(Tier)
    /\ \A i \in DOMAIN tiers : tiers[i].pos \in DOMAIN tiers[i].order
    /\ \A i \in DOMAIN tiers : IsInjective(tiers[i].order)
    /\ scrapes \subseteq Trackers /\ stops \subseteq Trackers

(* Whatever was pushed and pulled in whatever order, a queue has no two    *)
(* equal events in a row, a periodic update only at its end, and before a  *)
(* stop nothing but a completion.                                          *)
WellQueued(q) ==
    /\ \A n \in 1 .. Len(q) - 1 : q[n] # q[n + 1] /\ q[n] # "none"
    /\ \A n \in DOMAIN q : q[n] = "stopped" => n = 1 \/ (n = 2 /\ q[1] = "completed")

QueuesShaped == \A i \in DOMAIN tiers : WellQueued(tiers[i].events)

(* A torrent that runs has something to announce with a time set, or is    *)
(* being announced, unless the tracker refused it, its trackers were       *)
(* edited, a failed announce came back behind newer ones, or two were      *)
(* under way at once.                                                      *)
Announcing(tier) == tier.flight # <<>> \/ (tier.events # <<>> /\ tier.scheduled)

RunningIsAnnounced ==
    running => \A i \in DOMAIN tiers : tiers[i].steady => Announcing(tiers[i])

(* A torrent that is stopped has nothing queued that would tell a tracker  *)
(* that it runs, unless a failed announce came back behind newer ones, two *)
(* were under way at once, or it was found complete after the stop.        *)
StoppedIsSilent ==
    ~running => \A i \in DOMAIN tiers :
                  tiers[i].steady => ToSet(tiers[i].events) \subseteq {"completed", "stopped"}

(* A completion that was queued leaves the tier only when a tracker has    *)
(* acknowledged or refused it, or the tier itself is gone: no stop, start  *)
(* or failure drops it.                                                    *)
Holds(tier, e) ==
    e \in ToSet(tier.events) \/ \E n \in DOMAIN tier.flight : tier.flight[n].event = e

CompletionIsKept ==
    [][\A i \in DOMAIN tiers :
          Holds(tiers[i], "completed") /\ i \in DOMAIN tiers' /\ ~Holds(tiers'[i], "completed") =>
             \/ ResetTorrent
             \/ tiers'[i].ok /\ Len(tiers'[i].flight) < Len(tiers[i].flight)
             \/ \E n \in DOMAIN tiers[i].flight : AnnounceDone(i, n, "unregistered")]_vars

(* A stop that comes first in its queue is sent, or overtaken by a call or *)
(* a failed completion.                                                    *)
StopFirst(i) ==
    /\ i \in DOMAIN tiers /\ tiers[i].events # <<>>
    /\ Head(tiers[i].events) = "stopped" /\ tiers[i].scheduled

StopIsSent == \A i \in 1 .. MaxTiers : StopFirst(i) ~> ~StopFirst(i)

(* Editing the tracker list of a torrent that runs leaves no tier without  *)
(* anything to announce, "if we weren't already talking to the current     *)
(* tracker" not either.                                                    *)
EditsKeepAnnouncing ==
    [][ResetTorrent /\ running /\ (\A i \in DOMAIN tiers : Announcing(tiers[i])) =>
          \A i \in DOMAIN tiers' : Announcing(tiers'[i])]_vars

=============================================================================
