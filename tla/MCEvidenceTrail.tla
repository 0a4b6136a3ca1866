-------------------------- MODULE MCEvidenceTrail --------------------------
(* An instance of EvidenceTrail for TLC: a student is recognised, then a    *)
(* face nobody is matched to is seen, then the student again.               *)
EXTENDS EvidenceReads

CONSTANT s1

MCSubjectOf == <<s1, NoOne, s1>>

=============================================================================
