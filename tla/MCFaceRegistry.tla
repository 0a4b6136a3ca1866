---------------------------- MODULE MCFaceRegistry ----------------------------
(* FaceRegistry with model values for the students. *)
EXTENDS FaceQueries
CONSTANTS a, b
MCUsers == {a, b}
Symmetry == Permutations(MCUsers)
=============================================================================
