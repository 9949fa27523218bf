---------------------------- MODULE MCScheduler ----------------------------
(* Instances of Scheduler for TLC. *)
EXTENDS Scheduler, TLC
ProcessSymmetry == Permutations(Workers)
=============================================================================
