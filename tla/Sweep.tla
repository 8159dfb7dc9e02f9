-------------------------------- MODULE Sweep --------------------------------
(***************************************************************************)
(* What the distributed sweep promises, without connections, messages or   *)
(* waiting: workers make batches of samples, each for some parameter value *)
(* already announced and one at a time; a batch for the current value is   *)
(* added to the total once, a batch for an earlier one never; a value is   *)
(* closed with a row that holds exactly the samples added.                 *)
(***************************************************************************)
EXTENDS Naturals, Sequences

CONSTANTS Workers, NumPoints, Batches, MinSamples, Alone

VARIABLES
  phase,      \* "sampling" or "closed", or the sweep has "stopped"
  at,         \* index of the current parameter value
  made,       \* for each worker, the batch made and not yet disposed of
  total,      \* samples added at the current value
  published   \* the rows

vars == <<phase, at, made, total, published>>

Init ==
  /\ phase = "sampling"
  /\ at = 1
  /\ made = [w \in Workers |-> {}]
  /\ total = 0
  /\ published = <<>>

Make(w) ==
  /\ made[w] = {}
  /\ \E p \in 1..at, n \in Batches :
       made' = [made EXCEPT ![w] = {[point |-> p, count |-> n]}]
  /\ UNCHANGED <<phase, at, total, published>>

Add(w) ==
  /\ phase = "sampling"
  /\ \E b \in made[w] : b.point = at /\ total' = total + b.count
  /\ made' = [made EXCEPT ![w] = {}]
  /\ UNCHANGED <<phase, at, published>>

(* A batch is lost with its worker, or is of an earlier value.             *)
Drop(w) ==
  /\ made' = [made EXCEPT ![w] = {}]
  /\ UNCHANGED <<phase, at, total, published>>

(* Without workers the sampling is done in place.                          *)
Draw ==
  /\ Alone
  /\ phase = "sampling"
  /\ total' = total + 1
  /\ UNCHANGED <<phase, at, made, published>>

Close ==
  /\ phase = "sampling"
  /\ phase' = "closed"
  /\ published' \in
       {IF total = 0 THEN published
        ELSE Append(published, [point |-> at, samples |-> total, converged |-> c]) :
          c \in {FALSE} \cup {total >= MinSamples}}
  /\ UNCHANGED <<at, made, total>>

Advance ==
  /\ phase = "closed"
  /\ at < NumPoints
  /\ phase' = "sampling"
  /\ at' = at + 1
  /\ total' = 0
  /\ UNCHANGED <<made, published>>

Stop ==
  /\ phase' = "stopped"
  /\ UNCHANGED <<at, made, total, published>>

Next ==
  \/ \E w \in Workers : Make(w) \/ Add(w) \/ Drop(w)
  \/ Draw
  \/ Close
  \/ Advance
  \/ Stop

Spec == Init /\ [][Next]_vars
=============================================================================
