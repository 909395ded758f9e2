---------------------------- MODULE MCEnrollment ----------------------------
(* Two programs on one path, alike but for their kind; the kinds, the       *)
(* chain's length and the changes of the node are in the .cfg.              *)
EXTENDS Enrollment, TLC

Alike == Permutations(Run)
=============================================================================
