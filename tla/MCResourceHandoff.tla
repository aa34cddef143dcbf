------------------------- MODULE MCResourceHandoff -------------------------
(* Instances of ResourceHandoff. *)
EXTENDS ResourceHandoff, TLC

CONSTANTS m1, m2, m3

MCMsg == {m1, m2, m3}
=============================================================================
