--------------------------- MODULE MonteCarlo_inv ---------------------------
(***************************************************************************)
(* The inductive invariant of MonteCarlo: what is in the two streams of a  *)
(* slave, and in the slave, for every state the master holds it in.        *)
(***************************************************************************)
EXTENDS MonteCarlo

(* After reading d, slave s has the system and parameter value p.          *)
Configures(s, d, p) ==
  \/ d = <<>> /\ code[s] /\ param[s] = p
  \/ d = <<GetParameter(p)>> /\ code[s]
  \/ d = <<GetCode, GetParameter(p)>>

(* Slave s has still to read the request to work, and will be configured   *)
(* for p when it does.                                                     *)
Asked(s, p) ==
  \/ down[s] = <<Work>> /\ code[s] /\ param[s] = p
  \/ down[s] = <<GetParameter(p), Work>> /\ code[s]
  \/ down[s] = <<GetCode, GetParameter(p), Work>>

Sampling(s) ==
  slave[s] = "working" /\ down[s] = <<>> /\ code[s] /\ param[s] \in Points

(* The requests a waiting slave may have before it.                        *)
LinkInv(s) ==
  /\ slave[s] = "off" =>
       down[s] = <<>> /\ up[s] = <<>> /\ s \notin backlog /\ smap[s] = "none"
  /\ slave[s] = "working" => Sampling(s)
  /\ slave[s] = "ready" =>
       \/ down[s] \in {<<>>, <<GetCpuTime>>, <<Die>>}
       \/ \E p \in Points : Configures(s, down[s], p) \/ Asked(s, p)

(* One batch is asked for, being made, or returned.                        *)
InWork(s) ==
  \/ slave[s] = "ready" /\ up[s] = <<>> /\ \E p \in Points : Asked(s, p)
  \/ up[s] = <<>> /\ Sampling(s)
  \/ /\ slave[s] = "ready" /\ down[s] = <<>> /\ code[s]
     /\ \E n \in Batches : up[s] = <<Result(param[s], n)>>

BeingRead(s) == pc = "result" /\ s \in cur
BeingCharged(s) == pc = "cputime" /\ s \in cur

UpInv(s) ==
  \/ up[s] = <<>>
  \/ /\ smap[s] \in {"working", "eventpending"} \/ BeingRead(s)
     /\ \E p \in 0..NumPoints, n \in Batches : up[s] = <<Result(p, n)>>
  \/ BeingCharged(s) /\ up[s] = <<CpuTime>>

IdleInv(s) ==
  /\ slave[s] = "ready"
  /\ CASE pc \in {"init", "assign"} -> Configures(s, down[s], point)
       [] pc \in {"setup", "disable"} -> down[s] = <<>>
       [] OTHER -> down[s] = <<>> /\ code[s] /\ param[s] = point

(* What the master's state of a running slave says about it.               *)
ViewInv(s) ==
  /\ smap[s] \in {"none", "new"} => slave[s] = "ready" /\ down[s] = <<>>
  /\ smap[s] = "idle" /\ s \notin cur => IdleInv(s)
  /\ smap[s] \in {"working", "eventpending"} =>
       \/ InWork(s)
       \/ pc = "disable" /\ slave[s] = "ready" /\ down[s] = <<Die>> /\ up[s] = <<>>
  /\ BeingRead(s) => InWork(s)
  /\ BeingCharged(s) =>
       /\ slave[s] = "ready" /\ code[s] /\ param[s] = point
       /\ \/ down[s] = <<GetCpuTime>> /\ up[s] = <<>>
          \/ down[s] = <<>> /\ up[s] = <<CpuTime>>

(* Where the master is bounds the states it holds its slaves in.           *)
MapInv ==
  /\ \A s \in backlog : smap[s] = "none"
  /\ Local => backlog = {} /\ \A s \in Slaves : smap[s] = "none"
  /\ \A s \in Slaves :
       /\ smap[s] = "new" => pc \notin {"assign", "wait", "accept"}
       /\ smap[s] = "idle" => pc \notin {"wait", "accept"}
       /\ smap[s] = "eventpending" => pc \in {"find", "result", "cputime"}

MasterInv ==
  /\ pc \in {"result", "cputime"} => \E s \in Slaves : cur = {s} /\ smap[s] = "idle"
  /\ pc \notin {"result", "cputime"} => cur = {}
  /\ MapInv

ProtocolInv ==
  /\ open = ~MasterGone
  /\ \A s \in Slaves : LinkInv(s)
  /\ open => MasterInv /\ \A s \in Slaves : UpInv(s) /\ (Alive(s) => ViewInv(s))

(* The loop runs with converged false; what made it true holds until the   *)
(* row is written.                                                         *)
EstimateInv ==
  /\ pc \in {"local", "init", "assign", "wait", "accept", "find", "result",
             "cputime", "update"} => ~converged
  /\ pc \in {"check", "final"} /\ converged => est = samples /\ samples >= MinSamples
  /\ ConvergedRowsSound
  /\ OwnResultsOnly

(* An interrupt is latched where the loop ends, and lasts to the end of    *)
(* the value.                                                              *)
InterruptInv == intr # "none" => pc \in {"final", "next", "disable"} \/ MasterGone

(* Nothing sent or set is of a value that the sweep has not reached; a     *)
(* stream to the master holds one result at most, even when the master is  *)
(* gone; a signal can only kill the master within its first value; only    *)
(* without a cluster does the master draw samples itself.                  *)
Below(q, p) == \A i \in 1..Len(q) : q[i].point <= p

OneResult(s) ==
  \A i, j \in 1..Len(up[s]) :
    up[s][i].tag = "result" /\ up[s][j].tag = "result" => i = j

SweepInv ==
  /\ \A s \in Slaves : param[s] <= point /\ Below(down[s], point) /\ OneResult(s)
  /\ pc = "setup" /\ ~handler => samples = 0
  /\ pc = "local" => Local
(* No slave crashes, or there is none.  A slave is then gone only when it  *)
(* found no master, or was told to die; the estimate lags behind the       *)
(* samples only until the next updateresults, and no row is written        *)
(* between.                                                                *)
Reliable == Local \/ "crash" \notin Faults

GoneInv(s) ==
  open /\ Gone(s) =>
    /\ s \notin backlog
    /\ smap[s] = "none" \/ (pc = "disable" /\ smap[s] = "working")

RowsInv ==
  /\ \A s \in Slaves : GoneInv(s)
  /\ est # samples =>
       MasterGone \/ pc = "cputime" \/ (pc \in {"find", "result", "update"} /\ fresh)
  /\ RowsReflectSamples

(* Without a cluster every pass of the loop draws samples, so that the     *)
(* floor never meets an empty result.                                      *)
Unfloored == Local \/ (Reliable /\ ~FloorGiven)

FloorInv ==
  /\ pc # "aborted"
  /\ Local /\ pc = "update" => fresh /\ samples > 0
  /\ Local /\ pc \in {"check", "final", "next"} => est > 0
  /\ Local => pc \in {"setup", "local", "update", "check", "final", "next",
                     "disable", "exited", "killed"}

(* A user who has done nothing has interrupted nothing, and the loop of a  *)
(* value ends only when it has converged.                                  *)
Undisturbed == presses = 0 /\ ~sigint

SkipInv ==
  /\ Undisturbed => keys = <<>> /\ intr = "none" /\ (pc = "final" => converged)
  /\ NoPointSkipped
(* A slave that runs, or hangs, was told no later value than the current   *)
(* one, and not yet this one while the master holds it as new; what it     *)
(* returned was for the last value it was told.                            *)
ToldInv(s) ==
  open /\ ~Gone(s) =>
    /\ LastParameter(s) <= point
    /\ pc = "setup" \/ smap[s] \in {"none", "new"} => LastParameter(s) < point
    /\ \A i \in 1..Len(up[s]) :
         up[s][i].tag = "result" => up[s][i].point = LastParameter(s)
=============================================================================
