----------------------------- MODULE MonteCarlo -----------------------------
(***************************************************************************)
(* The sweep of a simulation over its parameter values: simcommsys's main  *)
(* loop, montecarlo::estimate and the helpers it calls, run by the master  *)
(* (or, when Local, by the only process) over the slaves of Cluster.       *)
(*                                                                         *)
(* Samples are counted, not computed: whether the accuracy asked for is    *)
(* reached is any Boolean once MinSamples are in, and TRUE from MaxSamples *)
(* on (the estimators converge).                                           *)
(***************************************************************************)
EXTENDS Cluster

CONSTANTS
  Local,        \* endpoint 'local': no cluster
  MinSamples,   \* --min-samples
  MaxSamples,   \* the sample count at which the accuracy is reached
  FloorGiven,   \* --floor-min or --floor-max is given
  Keys,         \* the keys the user may press
  MaxKeys       \* how many keys the user may press

ASSUME LocalAssumption == Local \in BOOLEAN /\ FloorGiven \in BOOLEAN
ASSUME SamplesAssumption ==
  MinSamples \in Nat \ {0} /\ MaxSamples \in Nat /\ MinSamples <= MaxSamples
ASSUME KeysAssumption == Keys \subseteq {"q", "s", "x"} /\ MaxKeys \in Nat

VARIABLES
  pc,         \* where the master is
  point,      \* index of the parameter value being simulated
  cur,        \* the slave whose result is being read (a set, at most one)
  fresh,      \* results_available
  converged,  \* converged
  samples,    \* system->get_samplecount()
  origin,     \* the points whose batches are in the running totals
  est,        \* the sample count that result/errormargin reflect (0: empty)
  rows,       \* the final rows written to the results file
  intr,       \* hard_int, soft_int
  keys,       \* key presses not yet read
  presses,    \* how many keys have been pressed
  sigint,     \* interrupt_caught
  handler     \* catch_signal is installed

sweepVars == <<pc, point, cur, fresh, converged, samples, origin, est, rows>>
userVars == <<intr, keys, presses, sigint, handler>>
vars == <<clusterVars, sweepVars, userVars>>

PC == {"setup", "local", "init", "assign", "wait", "accept", "find", "result",
       "cputime", "update", "check", "final", "next", "disable", "exited",
       "aborted", "killed"}

Row == [point : Points, samples : Nat, est : Nat,
        converged : BOOLEAN, state : BOOLEAN]

TypeOK ==
  /\ ClusterTypeOK
  /\ pc \in PC
  /\ point \in Points
  /\ cur \in SUBSET Slaves
  /\ fresh \in BOOLEAN
  /\ converged \in BOOLEAN
  /\ samples \in Nat
  /\ origin \in SUBSET Points
  /\ est \in Nat
  /\ rows \in Seq(Row)
  /\ intr \in {"none", "hard", "soft"}
  /\ keys \in Seq(Keys)
  /\ presses \in 0..MaxKeys
  /\ sigint \in BOOLEAN
  /\ handler \in BOOLEAN

Init ==
  /\ ClusterInit
  /\ pc = "setup"
  /\ point = 1
  /\ cur = {}
  /\ fresh = FALSE
  /\ converged = FALSE
  /\ samples = 0
  /\ origin = {}
  /\ est = 0
  /\ rows = <<>>
  /\ intr = "none"
  /\ keys = <<>>
  /\ presses = 0
  /\ sigint = FALSE
  /\ handler = FALSE

MasterGone == pc \in {"exited", "aborted", "killed"}

(***************************************************************************)
(* interrupt(): the value latched earlier, else a caught signal, else one  *)
(* key, read and consumed whatever it is.  (Mutant: the keys exchanged.)   *)
(***************************************************************************)
LatchSwapped ==
  CASE intr # "none" -> intr
    [] intr = "none" /\ sigint -> "hard"
    [] intr = "none" /\ ~sigint /\ keys = <<>> -> "none"
    [] OTHER -> CASE Head(keys) = "q" -> "soft"
                  [] Head(keys) = "s" -> "hard"
                  [] OTHER -> "none"

Latch ==
  CASE intr # "none" -> intr
    [] intr = "none" /\ sigint -> "hard"
    [] intr = "none" /\ ~sigint /\ keys = <<>> -> "none"
    [] OTHER -> CASE Head(keys) = "q" -> "hard"
                  [] Head(keys) = "s" -> "soft"
                  [] OTHER -> "none"

Interrupted == Latch # "none"

ReadKeys ==
  keys' = IF intr = "none" /\ ~sigint /\ keys # <<>> THEN Tail(keys) ELSE keys

EvaluateInterrupt ==
  /\ intr' = Latch
  /\ ReadKeys
  /\ handler' = TRUE
  /\ UNCHANGED <<presses, sigint>>

(***************************************************************************)
(* montecarlo::estimate, up to the loop                                    *)
(***************************************************************************)
StartEstimate ==
  /\ pc = "setup"
  /\ samples' = 0
  /\ origin' = {}
  /\ est' = 0
  /\ converged' = FALSE
  /\ fresh' = FALSE
  /\ IF Local
     THEN pc' = "local" /\ UNCHANGED smap
     ELSE pc' = "init" /\ ResetSlaves
  /\ UNCHANGED <<open, backlog, linkVars, point, cur, rows, userVars>>

(* One pass of the loop without a cluster.                                 *)
SampleAndAccumulate ==
  /\ pc = "local"
  /\ samples' = samples + 1
  /\ origin' = origin \cup {point}
  /\ fresh' = TRUE
  /\ pc' = "update"
  /\ UNCHANGED <<clusterVars, point, cur, converged, est, rows, userVars>>

(* initnewslaves() finds s; find_new_slave has already made it idle.       *)
InitSlave(s) ==
  /\ pc = "init"
  /\ smap[s] = "new"
  /\ \/ SendAs(s, <<GetCode, GetParameter(point)>>, "idle")
     \/ SendFails(s)
  /\ UNCHANGED <<open, backlog, up, slave, code, param, sweepVars, userVars>>

NoNewSlave ==
  /\ pc = "init"
  /\ InState("new") = {}
  /\ pc' = "assign"
  /\ UNCHANGED <<clusterVars, point, cur, fresh, converged, samples, origin, est,
                 rows, userVars>>

(* Mutant: the wait starts with slaves still idle.                         *)
AllAssignedAlways == TRUE

AllAssigned == converged \/ InState("idle") = {}

(* workidleslaves() finds s; find_idle_slave has already made it working.  *)
WorkIdleSlave(s) ==
  /\ pc = "assign"
  /\ ~converged
  /\ smap[s] = "idle"
  /\ \/ SendAs(s, <<Work>>, "working")
     \/ SendFails(s)
  /\ UNCHANGED <<open, backlog, up, slave, code, param, sweepVars, userVars>>

NoIdleSlave ==
  /\ pc = "assign"
  /\ AllAssigned
  /\ pc' = "wait"
  /\ UNCHANGED <<clusterVars, point, cur, fresh, converged, samples, origin, est,
                 rows, userVars>>

MasterWait ==
  /\ pc = "wait"
  /\ WaitForEvent
  /\ fresh' = FALSE
  /\ pc' = "find"
  /\ UNCHANGED <<open, linkVars, point, cur, converged, samples, origin, est, rows,
                 userVars>>

(* The accept() of a wait that SIGINT cut short: it blocks until a slave   *)
(* connects.                                                               *)
MasterAccept(s) ==
  /\ pc = "accept"
  /\ AcceptThenMarkAll(s)
  /\ fresh' = FALSE
  /\ pc' = "find"
  /\ UNCHANGED <<open, linkVars, point, cur, converged, samples, origin, est, rows,
                 userVars>>

(***************************************************************************)
(* readpendingslaves                                                       *)
(***************************************************************************)
FindPendingSlave(s) ==
  /\ pc = "find"
  /\ smap[s] = "eventpending"
  /\ smap' = [smap EXCEPT ![s] = "idle"]
  /\ cur' = {s}
  /\ pc' = "result"
  /\ UNCHANGED <<open, backlog, linkVars, point, fresh, converged, samples, origin,
                 est, rows, userVars>>

NoPendingSlave ==
  /\ pc = "find"
  /\ InState("eventpending") = {}
  /\ pc' = "update"
  /\ UNCHANGED <<clusterVars, point, cur, fresh, converged, samples, origin, est,
                 rows, userVars>>

(* Mutant: the results are not checked.                                    *)
AnyResult(s) == TRUE

(* Mutant: the comparison is the wrong way round.                          *)
ForeignResult(s) == Head(up[s]).point # point

(* The digest and the parameter sent with the result are the current ones. *)
CurrentResult(s) == Head(up[s]).point = point

(* The result is of another parameter value: resetslave(s).                *)
DiscardResult(s) ==
  /\ pc = "result"
  /\ s \in cur
  /\ Receives(s, "result")
  /\ ~CurrentResult(s)
  /\ ResetSlave(s)
  /\ cur' = {}
  /\ pc' = "find"
  /\ UNCHANGED <<open, backlog, down, slave, code, param, point, fresh, converged,
                 samples, origin, est, rows, userVars>>

(* The result is accumulated, and the request for the CPU time is sent or  *)
(* fails.                                                                  *)
AccumulateResult(s) ==
  /\ pc = "result"
  /\ s \in cur
  /\ Receives(s, "result")
  /\ CurrentResult(s)
  /\ samples' = samples + Head(up[s]).count
  /\ origin' = origin \cup {Head(up[s]).point}
  /\ \/ /\ SendAs(s, <<GetCpuTime>>, smap[s])
        /\ pc' = "cputime"
        /\ UNCHANGED cur
     \/ /\ SendFails(s)
        /\ pc' = "find"
        /\ cur' = {}
  /\ UNCHANGED <<open, backlog, slave, code, param, point, fresh, converged, est,
                 rows, userVars>>

ReadCpuTime(s) ==
  /\ pc = "cputime"
  /\ s \in cur
  /\ Receives(s, "cputime")
  /\ fresh' = TRUE
  /\ cur' = {}
  /\ pc' = "find"
  /\ UNCHANGED <<open, backlog, smap, down, slave, code, param, point, converged,
                 samples, origin, est, rows, userVars>>

ReadFails(s) ==
  /\ pc \in {"result", "cputime"}
  /\ s \in cur
  /\ ReceiveFails(s)
  /\ cur' = {}
  /\ pc' = "find"
  /\ UNCHANGED <<open, backlog, linkVars, point, fresh, converged, samples, origin,
                 est, rows, userVars>>

(***************************************************************************)
(* The rest of the loop, and what follows it                               *)
(***************************************************************************)
(* Mutant: min_samples is not looked at.                                   *)
AccuracyAtAnyCount(b) == samples >= MaxSamples => b

AccuracyReached(b) ==
  /\ b => samples >= MinSamples
  /\ samples >= MaxSamples => b

(* Mutant: the statistics wait for min_samples too.                        *)
UpdateResultsLate ==
  /\ pc = "update"
  /\ IF fresh /\ samples >= MinSamples
     THEN /\ est' = samples
          /\ \E b \in BOOLEAN : AccuracyReached(b) /\ converged' = b
     ELSE UNCHANGED <<est, converged>>
  /\ pc' = "check"
  /\ UNCHANGED <<clusterVars, point, cur, fresh, samples, origin, rows, userVars>>

UpdateResults ==
  /\ pc = "update"
  /\ IF fresh
     THEN /\ est' = samples
          /\ \E b \in BOOLEAN : AccuracyReached(b) /\ converged' = b
     ELSE UNCHANGED <<est, converged>>
  /\ pc' = "check"
  /\ UNCHANGED <<clusterVars, point, cur, fresh, samples, origin, rows, userVars>>

(* Mutant: the loop ends with the first results.                           *)
LoopEndsWhenFresh == Interrupted \/ fresh

LoopEnds == Interrupted \/ converged

(* Mutant: new slaves are initialised once, before the loop.               *)
LoopHeadLate == IF Local THEN "local" ELSE "assign"

LoopHead == IF Local THEN "local" ELSE "init"

CheckInterrupt ==
  /\ pc = "check"
  /\ EvaluateInterrupt
  /\ pc' = IF LoopEnds THEN "final" ELSE LoopHead
  /\ UNCHANGED <<clusterVars, point, cur, fresh, converged, samples, origin, est,
                 rows>>

(* writefinalresults(result, errormargin, interrupt()): no row is written  *)
(* when there are no samples.                                              *)
WriteFinalResults ==
  /\ pc = "final"
  /\ EvaluateInterrupt
  /\ rows' = IF samples = 0 THEN rows
             ELSE Append(rows, [point |-> point, samples |-> samples, est |-> est,
                                converged |-> converged, state |-> Interrupted])
  /\ pc' = "next"
  /\ UNCHANGED <<clusterVars, point, cur, fresh, converged, samples, origin, est>>

(* Mutant: one iteration too many.                                         *)
MorePointsOrEqual == point <= NumPoints

MorePoints == point < NumPoints

(* Mutant: a soft interrupt is not reset.                                  *)
KeptInterrupt == Latch

(* interrupt_was_soft() resets the interrupt it reports.                   *)
InterruptAfterPoint == IF Latch = "soft" THEN "none" ELSE Latch

(* The end of an iteration of main's loop: a hard interrupt ends it, a     *)
(* soft one is reset; then, with a floor, min() or max() of the results is *)
(* compared with it, and of an empty vector aborts.                        *)
NextPoint ==
  /\ pc = "next"
  /\ ReadKeys
  /\ intr' = InterruptAfterPoint
  /\ handler' = TRUE
  /\ \/ /\ \/ Latch = "hard"
           \/ FloorGiven /\ est > 0
           \/ (FloorGiven => est > 0) /\ ~MorePoints
        /\ pc' = "disable"
        /\ UNCHANGED <<open, point>>
     \/ /\ Latch # "hard"
        /\ FloorGiven => est > 0
        /\ MorePoints
        /\ pc' = "setup"
        /\ point' = point + 1
        /\ UNCHANGED open
     \/ /\ Latch # "hard"
        /\ FloorGiven /\ est = 0
        /\ pc' = "aborted"
        /\ open' = FALSE
        /\ UNCHANGED point
  /\ UNCHANGED <<backlog, smap, linkVars, cur, fresh, converged, samples, origin,
                 est, rows, presses, sigint>>

(* disable(), called by the destructor: a failing send leaves it by an     *)
(* exception, which ends the process.                                      *)
KillIdleSlave(s) ==
  /\ pc = "disable"
  /\ smap[s] = "idle"
  /\ \/ SendAs(s, <<Die>>, "working") /\ UNCHANGED <<pc, open>>
     \/ SendFails(s) /\ pc' = "aborted" /\ open' = FALSE
  /\ UNCHANGED <<backlog, up, slave, code, param, point, cur, fresh, converged,
                 samples, origin, est, rows, userVars>>

Exit ==
  /\ pc = "disable"
  /\ InState("idle") = {}
  /\ pc' = "exited"
  /\ open' = FALSE
  /\ UNCHANGED <<backlog, smap, linkVars, point, cur, fresh, converged, samples,
                 origin, est, rows, userVars>>

MasterNext ==
  \/ StartEstimate
  \/ SampleAndAccumulate
  \/ \E s \in Slaves : InitSlave(s) \/ WorkIdleSlave(s)
  \/ NoNewSlave
  \/ NoIdleSlave
  \/ MasterWait
  \/ \E s \in Slaves : MasterAccept(s)
  \/ \E s \in Slaves : FindPendingSlave(s) \/ DiscardResult(s)
  \/ \E s \in Slaves : AccumulateResult(s) \/ ReadCpuTime(s) \/ ReadFails(s)
  \/ NoPendingSlave
  \/ UpdateResults
  \/ CheckInterrupt
  \/ WriteFinalResults
  \/ NextPoint
  \/ \E s \in Slaves : KillIdleSlave(s)
  \/ Exit

(***************************************************************************)
(* The user                                                                *)
(***************************************************************************)
PressKey(k) ==
  /\ ~MasterGone
  /\ presses < MaxKeys
  /\ presses' = presses + 1
  /\ keys' = Append(keys, k)
  /\ UNCHANGED <<clusterVars, sweepVars, intr, sigint, handler>>

(* Ctrl-C.  catch_signal is installed by the first call of interrupted():  *)
(* before it the signal kills the process.  A signal that arrives while    *)
(* select() sleeps ends it with EINTR and the descriptor set untouched.    *)
SigInt ==
  /\ "sigint" \in Faults
  /\ ~MasterGone
  /\ ~sigint
  /\ IF handler
     THEN /\ \/ UNCHANGED pc
             \/ pc = "wait" /\ Readable = {} /\ backlog = {} /\ pc' = "accept"
          /\ sigint' = TRUE
          /\ UNCHANGED open
     ELSE pc' = "killed" /\ open' = FALSE /\ UNCHANGED sigint
  /\ UNCHANGED <<backlog, smap, linkVars, point, cur, fresh, converged, samples,
                 origin, est, rows, intr, keys, presses, handler>>

(* Everything has stopped, except what will never answer.                  *)
Finished ==
  /\ MasterGone
  /\ \A s \in Slaves : Local \/ Gone(s) \/ slave[s] = "hung"
  /\ UNCHANGED vars

Next ==
  \/ MasterNext
  \/ ~Local /\ \E s \in Slaves : SlaveNext(s) /\ UNCHANGED <<sweepVars, userVars>>
  \/ \E k \in Keys : PressKey(k)
  \/ SigInt
  \/ Finished

Spec == Init /\ [][Next]_vars

(* The master runs whenever it is not blocked in a call, and so does each  *)
(* slave process; the user, new slaves and faults owe nothing.             *)
Fairness ==
  /\ WF_vars(MasterNext)
  /\ \A s \in Slaves : WF_vars(SlaveProcess(s) /\ UNCHANGED <<sweepVars, userVars>>)

FairSpec == Spec /\ Fairness
(***************************************************************************)
(* What the sweep promises                                                 *)
(***************************************************************************)

(* When the master blocks in waitforevent, every connection it knows has   *)
(* been given work that is still to be answered: workidleslaves asked all  *)
(* idle slaves, and readpendingslaves and initnewslaves left none behind.  *)
BusyWhileWaiting ==
  pc \in {"wait", "accept"} => \A s \in Connected : smap[s] = "working"

(* The master reads a result, or a CPU time, only from a stream where that *)
(* is what comes next: the untyped reads of readpendingslaves and          *)
(* updatecputime never take one for the other.                             *)
RepliesInStep ==
  \A s \in cur : up[s] # <<>> =>
    /\ pc = "result" => Head(up[s]).tag = "result"
    /\ pc = "cputime" => Head(up[s]).tag = "cputime"

(* The batches a slave has been asked for and the master has not read.     *)
Outstanding(s) ==
  Cardinality({i \in 1..Len(down[s]) : down[s][i].tag = "slave_work"})
    + Cardinality({i \in 1..Len(up[s]) : up[s][i].tag = "result"})
    + (IF slave[s] = "working" THEN 1 ELSE 0)

(* The master's states are true of its slaves: one that is marked working  *)
(* (or has its event pending, or is being read) and still runs has exactly *)
(* one batch outstanding, and any other has none; so no slave is forgotten *)
(* and none is asked twice.                                                *)
OneBatchOutstanding ==
  \A s \in Slaves : open /\ pc # "disable" /\ Alive(s) =>
    Outstanding(s) = IF smap[s] \in {"working", "eventpending"}
                        \/ (pc = "result" /\ s \in cur) THEN 1 ELSE 0

(* A slave that is sampling has a system and a parameter: slave_work       *)
(* dereferences system without a check.                                    *)
WorkersConfigured ==
  \A s \in Slaves : slave[s] = "working" => code[s] /\ param[s] # 0

(* The parameter a slave will have once it has read what it was sent.      *)
LastParameter(s) ==
  LET sent == {i \in 1..Len(down[s]) : down[s][i].tag = "slave_getparameter"}
  IN  IF sent = {} THEN param[s]
      ELSE down[s][CHOOSE i \in sent : \A j \in sent : j <= i].point

(* Work is only assigned for the parameter value being simulated, although *)
(* slaves carry over from one value to the next (resetslaves).             *)
AssignedCurrent ==
  \A s \in Slaves :
    pc = "assign" /\ smap[s] = "idle" /\ Alive(s) => LastParameter(s) = point

(* A slave is never initialised twice for one parameter value: since each  *)
(* slave_getparameter reseeds its generator with the same seed, it would   *)
(* return the samples it has already returned.                             *)
StreamsNotRepeated ==
  [][\A s \in Slaves :
       Len(down'[s]) > Len(down[s]) + 1 => LastParameter(s) # point]_vars

(* The running totals hold results of the current parameter value only,    *)
(* although slaves still return results of earlier ones.                   *)
OwnResultsOnly == pc \notin {"setup", "killed"} => origin \subseteq {point}

(* A row of a converged estimate is what its samples say: the estimate was *)
(* made from all of them, and they are at least min_samples.               *)
ConvergedRowsSound ==
  \A i \in 1..Len(rows) : rows[i].converged =>
    rows[i].est = rows[i].samples /\ rows[i].samples >= MinSamples

(* Every row's estimate reflects every sample the row counts.              *)
RowsReflectSamples ==
  \A i \in 1..Len(rows) : rows[i].est = rows[i].samples

(* A user who does not interfere gets a converged row for every value that *)
(* the sweep has left behind, whatever happens to the slaves.              *)
NoPointSkipped ==
  presses = 0 /\ ~sigint =>
    \A p \in Points :
      p < point \/ (p = point /\ pc \in {"next", "disable", "exited"}) =>
        \E i \in 1..Len(rows) : rows[i].point = p /\ rows[i].converged

(* A latched interrupt lets no sample be added any more, and is spent with *)
(* the value it stopped: after a hard one no other value begins, a soft    *)
(* one does not reach into the next.                                       *)
InterruptSpent ==
  [][intr # "none" =>
       /\ samples' = samples
       /\ point' # point => intr = "soft" /\ intr' = "none"]_vars

(* The sweep is never stopped by an assertion.                             *)
NeverAborts == pc # "aborted"

(* The sweep ends if some slave keeps running.                             *)
SweepEnds == <>MasterGone \/ <>[](\A s \in Slaves : ~Alive(s))

(* The 'q' key ends the sweep whether or not there are slaves.             *)
QuitHonoured == (\E i \in 1..Len(keys) : keys[i] = "q") ~> MasterGone

(* Ctrl-C ends the sweep.                                                  *)
CtrlCHonoured == sigint ~> MasterGone

(* No slave process outlives the master for ever.                          *)
SlavesStop == MasterGone ~> (\A s \in Slaves : ~Alive(s))

(* A slave that connects while the sweep goes on is put to work.           *)
SlavesServed ==
  \A s \in Slaves :
    s \in backlog ~> (slave[s] = "working" \/ ~Alive(s) \/ MasterGone)
=============================================================================
