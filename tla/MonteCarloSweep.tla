--------------------------- MODULE MonteCarloSweep ---------------------------
(***************************************************************************)
(* MonteCarlo implements Sweep: a worker's batch is the result in its      *)
(* stream to the master; a value is closed by writing its final row.       *)
(***************************************************************************)
EXTENDS MonteCarlo

BatchesOf(s) ==
  {[point |-> up[s][i].point, count |-> up[s][i].count] :
     i \in {j \in 1..Len(up[s]) : up[s][j].tag = "result"}}

Phase ==
  IF MasterGone \/ pc = "disable" THEN "stopped"
  ELSE IF pc = "next" THEN "closed" ELSE "sampling"

Made == [s \in Slaves |-> BatchesOf(s)]

Total == IF pc = "setup" THEN 0 ELSE samples

Published ==
  [i \in 1..Len(rows) |-> [point |-> rows[i].point, samples |-> rows[i].samples,
                           converged |-> rows[i].converged]]

Abstract == INSTANCE Sweep WITH
  Workers <- Slaves, Alone <- Local, phase <- Phase, at <- point, made <- Made,
  total <- Total, published <- Published

(* Every behaviour of the master and its slaves, crashes and interrupts    *)
(* included, is a behaviour of Sweep: each batch is added at most once and *)
(* only to its own value, and a row holds exactly what was added.          *)
ImplementsSweep == Abstract!Spec
=============================================================================
