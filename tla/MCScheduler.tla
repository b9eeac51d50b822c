---------------------------- MODULE MCScheduler ----------------------------
(* The main thread and a few workers, which are interchangeable.           *)
EXTENDS Scheduler, TLC

Symmetry == Permutations(Workers)
=============================================================================
