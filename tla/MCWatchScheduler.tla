--------------------------- MODULE MCWatchScheduler ---------------------------
(* Two watched resources in two directories, for watch.cfg: one directory is    *)
(* moved to a free place or onto the other.                                     *)
EXTENDS WatchScheduler
CONSTANTS w1, w2
MCWatch == {w1, w2}
MCInitAt == w1 :> <<"a", "x">> @@ w2 :> <<"b", "x">>
MCMoves == {<<<<"a">>, <<"b">>>>, <<<<"a">>, <<"c">>>>}
=============================================================================
