-------------------------- MODULE MCComponentBuild --------------------------
(***************************************************************************)
(* Small instances of ComponentBuild for TLC.                              *)
(***************************************************************************)
EXTENDS ComponentBuild, TLC

CONSTANTS p1, p2, s1, s2, v1, v2, t1, t2

OnePatch == <<p1>>
TwoPatches == <<p1, p2>>
Symmetry == Permutations({v1, v2}) \cup Permutations({t1, t2})

MCStampOf == [p \in {p1, p2} |-> IF p = p1 THEN s1 ELSE s2]
=============================================================================
