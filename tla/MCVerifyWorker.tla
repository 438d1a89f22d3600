--------------------------- MODULE MCVerifyWorker ---------------------------
(* VerifyWorker with two torrents, for TLC.                                *)
EXTENDS VerifyWorker, TLC

CONSTANTS t1, t2

TwoTorrents   == {t1, t2}
SmallFirst    == t1 :> 1 @@ t2 :> 2
TwoPriorities == {0, 1}

=============================================================================
