---------------------------- MODULE MCRerunCycle ----------------------------
(* Small instances of RerunCycle for TLC. *)
EXTENDS RerunCycle, TLC

MCSymmetry == Permutations(Procs)
=============================================================================
