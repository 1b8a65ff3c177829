-------------------------- MODULE MCLearningProgram --------------------------
(* Small instances of LearningProgram. *)
EXTENDS LearningProgram
=============================================================================
