------------------------------- MODULE MCUgen -------------------------------
(***************************************************************************)
(* Small instances of Ugen for TLC.                                        *)
(***************************************************************************)
EXTENDS Ugen, TLC

CONSTANTS d1, h1, h2, h3

\* Configuration 0 has interface 0 with two alternates and interface 1;
\* configuration 1 has interface 0 only.
MCDescr == [c \in {0, 1} |->
              IF c = 0 THEN << <<{1}, {1, 2}>>, <<{2}>> >> ELSE << <<{1}>> >>]
Symmetry == Permutations(Handles)
=============================================================================
