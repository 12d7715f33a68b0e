--------------------------- MODULE MCPk11Sessions ---------------------------
(***************************************************************************)
(* Small instances of Pk11Sessions for TLC.                                *)
(***************************************************************************)
EXTENDS Pk11Sessions, TLC

Symmetry == Permutations(Callers) \cup Permutations(Structs)
              \cup Permutations(Objects) \cup Permutations(Keys)
=============================================================================
