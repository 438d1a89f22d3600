---------------------------- MODULE MCAnnouncer -----------------------------
(* Announcer with two trackers, for TLC.                                   *)
EXTENDS Announcer

CONSTANTS a, b

TwoTrackers == {a, b}

(* A tier with both trackers, of which the first can be removed.           *)
OneTier == {<< <<a, b>> >>, << <<b>> >>}

(* A tier with one tracker, to which another tier is added.                *)
OneOrTwoTiers == {<< <<a>> >>, << <<a>>, <<b>> >>}

=============================================================================
