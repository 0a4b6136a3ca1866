------------------------ MODULE MCRecognitionTracker ------------------------
(* RecognitionTracker with two or three students. *)
EXTENDS RecognitionTracker
CONSTANTS s, t, a, b, c
TwoTracks == {s, t}
TwoUsers == {a, b}
ThreeUsers == {a, b, c}
OnePhoneOnly == {b}
Symmetry == Permutations(TwoTracks)
=============================================================================
