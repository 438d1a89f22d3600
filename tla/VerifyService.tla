--------------------------- MODULE VerifyService ---------------------------
(***************************************************************************)
(* What the rest of libtransmission may rely on when it has a torrent's    *)
(* local data verified: torrents are verified one at a time, a             *)
(* verification that is not cancelled ends with one completion for the     *)
(* session thread, and a torrent is freed only when nobody verifies it.    *)
(* How a thread, a lock, a flag and a condition variable bring this about  *)
(* is in VerifyWorker.                                                     *)
(***************************************************************************)
EXTENDS Naturals

CONSTANT Torrents

VARIABLES torrents,   \* the torrents of the session
          state,      \* none, queued or active
          completions, \* of each torrent: completions not run yet
          open        \* FALSE when the session has shut the service down

vars == <<torrents, state, completions, open>>

Init ==
    /\ torrents = Torrents
    /\ state = [t \in Torrents |-> "none"]
    /\ completions = [t \in Torrents |-> 0]
    /\ open = TRUE

Queue(t) ==
    /\ open /\ t \in torrents
    /\ state[t] = "none"
    /\ state' = [state EXCEPT ![t] = "queued"]
    /\ UNCHANGED <<torrents, completions, open>>

Begin(t) ==
    /\ state[t] = "queued"
    /\ \A u \in Torrents : state[u] # "active"
    /\ state' = [state EXCEPT ![t] = "active"]
    /\ UNCHANGED <<torrents, completions, open>>

Complete(t) ==
    /\ state[t] = "active"
    /\ state' = [state EXCEPT ![t] = "none"]
    /\ completions' = [completions EXCEPT ![t] = @ + 1]
    /\ UNCHANGED <<torrents, open>>

Cancel(t) ==
    /\ state[t] # "none"
    /\ state' = [state EXCEPT ![t] = "none"]
    /\ UNCHANGED <<torrents, completions, open>>

RunCompletion(t) ==
    /\ completions[t] > 0
    /\ completions' = [completions EXCEPT ![t] = @ - 1]
    /\ UNCHANGED <<torrents, state, open>>

(* Once the service is shut down, what was still queued never begins.      *)
Free(t) ==
    /\ t \in torrents
    /\ state[t] = "none" \/ (~open /\ state[t] = "queued")
    /\ torrents' = torrents \ {t}
    /\ UNCHANGED <<state, completions, open>>

Close ==
    /\ open
    /\ \A t \in Torrents : state[t] # "active"
    /\ open' = FALSE
    /\ UNCHANGED <<torrents, state, completions>>

Next ==
    \/ \E t \in Torrents : \/ Queue(t) \/ Begin(t) \/ Complete(t) \/ Cancel(t)
                           \/ RunCompletion(t) \/ Free(t)
    \/ Close

Spec == Init /\ [][Next]_vars

=============================================================================
