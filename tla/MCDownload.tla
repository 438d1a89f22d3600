----------------------------- MODULE MCDownload -----------------------------
(* Download on small torrents, for TLC.                                    *)
EXTENDS Download, TLC

CONSTANTS p1, p2, w1

OnePeer   == {p1}
TwoPeers  == {p1, p2}
OneSeed   == {w1}
NoSources == {}

(* A peer's bitfield names all pieces; Have messages make up the others.   *)
FullBitfield == {Pieces}

=============================================================================
