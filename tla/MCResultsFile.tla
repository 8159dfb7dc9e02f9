---------------------------- MODULE MCResultsFile ----------------------------
(* The instances of ResultsFile that TLC checks.                           *)
EXTENDS ResultsFile

(* Estimates take two samples in behaviours without an edit or a crash,    *)
(* one in the others.                                                      *)
FewSamplesWhenDisturbed ==
  \/ edits = 0 /\ crashes = 0
  \/ samples < 2 /\ \A i \in 1..Len(file) : file[i].samples < 2
=============================================================================
