---------------------------- MODULE MCCandidates ----------------------------
(* Instances of Candidates for TLC.                                           *)
EXTENDS Surfacing, TLC

MCSymmetry == Permutations(Procs)
=============================================================================
