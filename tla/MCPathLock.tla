---------------------------- MODULE MCPathLock ----------------------------
(* Instances of PathLock: a directory "d" with the entry "c" below it.      *)
EXTENDS PathLock, TLC

CONSTANTS o1, o2

MCAnc == [p \in Path |-> IF p = "c" THEN {"d"} ELSE {}]
MCOwners2 == {o1, o2}
MCCrash == {o1}
MCPatient == {o2}
E_(p) == [path |-> p, kind |-> "E"]
T_(p) == [path |-> p, kind |-> "T"]
MCBatches == {<<T_("d")>>, <<E_("d")>>, <<E_("d"), E_("c")>>}
MCBatchesFew == {<<T_("d")>>, <<E_("c")>>}
MCBatchesFile == {<<T_("d")>>, <<E_("c")>>, <<T_("c")>>}
Symmetry2 == Permutations({o1, o2})
=============================================================================
