--------------------------- MODULE MCWishlistList ---------------------------
(* WishlistList on small torrents, for TLC.                                *)
EXTENDS WishlistList, TLC

CONSTANTS p1

OnePeer    == {p1}
AllOrEven  == {Pieces, {c \in Pieces : c % 2 = 0}}
AllPieces  == {Pieces}
NoneOrLast == {{}, {PieceCount - 1}}
NoPriority == {{}}
Start      == {0, 2}
OneSalt    == {0}
FullOrOne  == {{}, {1}, Pieces}

(* The order of a sequential download, up to ten pieces from any of them.  *)
ASSUME SaltsRotateSmall == \A n \in 1 .. 10 : SaltsRotate(n)

=============================================================================
