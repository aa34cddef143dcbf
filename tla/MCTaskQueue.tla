---------------------------- MODULE MCTaskQueue ----------------------------
(* Instances of TaskQueue: a first message and one its handler enqueues.    *)
EXTENDS TaskQueue, TLC

CONSTANTS m1, m2

Two == {m1, m2}
Symmetry == Permutations(Two)
=============================================================================
