---------------------------- MODULE MCMonteCarlo ----------------------------
(* The instances of MonteCarlo that TLC checks.                            *)
EXTENDS MonteCarloSweep, MonteCarlo_inv, TLC

CONSTANTS s1, s2, s3

TwoSlaves == {s1, s2}
ThreeSlaves == {s1, s2, s3}

TwoSymmetry == Permutations(TwoSlaves)
ThreeSymmetry == Permutations(ThreeSlaves)
=============================================================================
