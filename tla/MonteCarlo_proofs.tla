-------------------------- MODULE MonteCarlo_proofs --------------------------
(***************************************************************************)
(* Proofs about MonteCarlo, for any slaves, points, batches, faults and    *)
(* user: its types, the estimate, the invariant of the protocol with the   *)
(* safety properties that follow from it, the user's interrupts, the rows  *)
(* of the sweep, the values a slave is told, and the refinement of Sweep.  *)
(***************************************************************************)
EXTENDS MonteCarlo_inv, MonteCarloSweep, Induction, SequenceTheorems,
        FiniteSetTheorems, TLAPS

(***************************************************************************)
(* Types                                                                   *)
(***************************************************************************)
LEMMA RequestTypes ==
  /\ GetCode \in Request
  /\ Work \in Request
  /\ GetCpuTime \in Request
  /\ Die \in Request
  /\ \A p \in Points : GetParameter(p) \in Request
  /\ \A r \in Request : r.tag = "slave_getparameter" => r.point \in Points
<1>1. GetCode \in Request /\ Work \in Request /\ GetCpuTime \in Request /\ Die \in Request
  BY DEF Request
<1>2. \A p \in Points : GetParameter(p) \in Request
  BY DEF Request
<1>3. ASSUME NEW r \in Request, r.tag = "slave_getparameter" PROVE r.point \in Points
  BY <1>3 DEF Request, GetCode, Work, GetCpuTime, Die, GetParameter
<1> QED BY <1>1, <1>2, <1>3

LEMMA ReplyTypes ==
  /\ CpuTime \in Reply
  /\ \A p \in 0..NumPoints, n \in Batches : Result(p, n) \in Reply
  /\ \A r \in Reply : r.tag = "result" => r.point \in 0..NumPoints /\ r.count \in Nat
<1>1. CpuTime \in Reply /\ \A p \in 0..NumPoints, n \in Batches : Result(p, n) \in Reply
  BY DEF Reply
<1>2. ASSUME NEW r \in Reply, r.tag = "result"
      PROVE  r.point \in 0..NumPoints /\ r.count \in Nat
  <2>1. PICK p \in 0..NumPoints, n \in Batches : r = Result(p, n)
    BY <1>2 DEF Reply, CpuTime
  <2> QED BY <2>1, BatchesAssumption DEF Result
<1> QED BY <1>1, <1>2

LEMMA DeliverType ==
  ASSUME ClusterTypeOK, NEW s \in Slaves, NEW m \in Seq(Request), Deliver(s, m)
  PROVE  down' \in [Slaves -> Seq(Request)]
<1>1. down[s] \o m \in Seq(Request)
  BY ConcatProperties DEF ClusterTypeOK
<1> QED BY <1>1 DEF ClusterTypeOK, Deliver

LEMMA SendType ==
  ASSUME ClusterTypeOK, NEW s \in Slaves, NEW m \in Seq(Request),
         NEW v \in MasterView, SendAs(s, m, v) \/ SendFails(s)
  PROVE  down' \in [Slaves -> Seq(Request)] /\ smap' \in [Slaves -> MasterView]
<1>1. CASE SendAs(s, m, v)
  BY <1>1, DeliverType DEF SendAs, ClusterTypeOK
<1>2. CASE SendFails(s)
  BY <1>2 DEF SendFails, ClusterTypeOK, MasterView
<1> QED BY <1>1, <1>2

LEMMA SlaveTypes ==
  ASSUME ClusterTypeOK, NEW s \in Slaves, SlaveNext(s)
  PROVE  ClusterTypeOK'
<1> USE DEF ClusterTypeOK
<1>0. 0 \in 0..NumPoints /\ Points \subseteq 0..NumPoints
  BY NumPointsAssumption DEF Points
<1>1. ASSUME NEW tag, Reads(s, tag)
      PROVE  down' \in [Slaves -> Seq(Request)] /\ Head(down[s]) \in Request
  <2>1. Tail(down[s]) \in Seq(Request) /\ Head(down[s]) \in Request
    BY <1>1, HeadTailProperties DEF Reads
  <2> QED BY <1>1, <2>1 DEF Reads
<1>2. CASE Connect(s)
  BY <1>2 DEF Connect, SlaveState
<1>3. CASE ConnectFails(s)
  BY <1>3 DEF ConnectFails, SlaveState
<1>4. CASE SlaveGetCode(s)
  <2>1. down' \in [Slaves -> Seq(Request)]
    BY <1>4, <1>1 DEF SlaveGetCode
  <2>2. code' \in [Slaves -> BOOLEAN]
    BY <1>4 DEF SlaveGetCode
  <2>3. param' \in [Slaves -> 0..NumPoints]
    BY <1>4, <1>0 DEF SlaveGetCode
  <2> QED BY <1>4, <2>1, <2>2, <2>3 DEF SlaveGetCode
<1>5. CASE SlaveGetParameter(s)
  <2>1. down' \in [Slaves -> Seq(Request)] /\ Head(down[s]) \in Request
    BY <1>5, <1>1 DEF SlaveGetParameter
  <2>2. Head(down[s]).point \in Points
    BY <1>5, <2>1, RequestTypes DEF SlaveGetParameter, Reads
  <2>3. param' \in [Slaves -> 0..NumPoints]
    BY <1>5, <2>2, <1>0 DEF SlaveGetParameter
  <2> QED BY <1>5, <2>1, <2>3 DEF SlaveGetParameter
<1>6. CASE SlaveWork(s)
  <2>1. down' \in [Slaves -> Seq(Request)]
    BY <1>6, <1>1 DEF SlaveWork
  <2> QED BY <1>6, <2>1 DEF SlaveWork, SlaveState
<1>7. ASSUME NEW n \in Batches, SlaveReturn(s, n) PROVE ClusterTypeOK'
  <2>1. Append(up[s], Result(param[s], n)) \in Seq(Reply)
    BY ReplyTypes, AppendProperties
  <2>2. up' \in [Slaves -> Seq(Reply)]
    BY <1>7, <2>1 DEF SlaveReturn
  <2> QED BY <1>7, <2>2 DEF SlaveReturn, SlaveState
<1>8. CASE SlaveSendCpuTime(s)
  <2>1. down' \in [Slaves -> Seq(Request)]
    BY <1>8, <1>1 DEF SlaveSendCpuTime
  <2>2. Append(up[s], CpuTime) \in Seq(Reply)
    BY ReplyTypes, AppendProperties
  <2>3. up' \in [Slaves -> Seq(Reply)]
    BY <1>8, <2>2 DEF SlaveSendCpuTime
  <2> QED BY <1>8, <2>1, <2>3 DEF SlaveSendCpuTime
<1>9. CASE SlaveDie(s)
  <2>1. down' \in [Slaves -> Seq(Request)]
    BY <1>9, <1>1 DEF SlaveDie
  <2> QED BY <1>9, <2>1 DEF SlaveDie, SlaveState
<1>10. CASE SlaveLosesMaster(s)
  BY <1>10 DEF SlaveLosesMaster, SlaveState
<1>11. CASE Crash(s)
  <2>1. PICK k \in 0..Len(up[s]) : up' = [up EXCEPT ![s] = SubSeq(@, 1, k)]
    BY <1>11 DEF Crash
  <2>2. SubSeq(up[s], 1, k) \in Seq(Reply)
    BY <2>1
  <2> QED BY <1>11, <2>1, <2>2 DEF Crash, SlaveState
<1>12. CASE Hang(s)
  BY <1>12 DEF Hang, SlaveState
<1> QED BY <1>2, <1>3, <1>4, <1>5, <1>6, <1>7, <1>8, <1>9, <1>10, <1>11, <1>12
        DEF SlaveNext, SlaveProcess

LEMMA InterruptTypes ==
  ASSUME TypeOK
  PROVE  /\ Latch \in {"none", "hard", "soft"}
         /\ ReadKeys => keys' \in Seq(Keys)
         /\ EvaluateInterrupt => /\ intr' \in {"none", "hard", "soft"}
                                 /\ keys' \in Seq(Keys)
                                 /\ handler' \in BOOLEAN
<1>1. keys # <<>> => Tail(keys) \in Seq(Keys)
  BY DEF TypeOK
<1>2. Latch \in {"none", "hard", "soft"}
  BY DEF TypeOK, Latch
<1>3. ReadKeys => keys' \in Seq(Keys)
  BY <1>1 DEF TypeOK, ReadKeys
<1> QED BY <1>2, <1>3 DEF EvaluateInterrupt

LEMMA MasterTypes ==
  ASSUME TypeOK, MasterNext
  PROVE  TypeOK'
<1> USE DEF TypeOK
<1>1. CASE StartEstimate
  <2>1. smap' \in [Slaves -> MasterView]
    BY <1>1 DEF StartEstimate, ResetSlaves, ClusterTypeOK, MasterView
  <2> QED BY <1>1, <2>1 DEF StartEstimate, ClusterTypeOK, linkVars, userVars, PC
<1>2. CASE SampleAndAccumulate
  BY <1>2 DEF SampleAndAccumulate, ClusterTypeOK, clusterVars, userVars, PC
<1>3. ASSUME NEW s \in Slaves, InitSlave(s) PROVE TypeOK'
  <2>1. <<GetCode, GetParameter(point)>> \in Seq(Request)
    BY RequestTypes
  <2>2. down' \in [Slaves -> Seq(Request)] /\ smap' \in [Slaves -> MasterView]
    BY <1>3, <2>1, SendType DEF InitSlave, MasterView
  <2> QED BY <1>3, <2>2 DEF InitSlave, ClusterTypeOK, sweepVars, userVars
<1>4. ASSUME NEW s \in Slaves, WorkIdleSlave(s) PROVE TypeOK'
  <2>1. <<Work>> \in Seq(Request)
    BY RequestTypes
  <2>2. down' \in [Slaves -> Seq(Request)] /\ smap' \in [Slaves -> MasterView]
    BY <1>4, <2>1, SendType DEF WorkIdleSlave, MasterView
  <2> QED BY <1>4, <2>2 DEF WorkIdleSlave, ClusterTypeOK, sweepVars, userVars
<1>5. CASE NoNewSlave
  BY <1>5 DEF NoNewSlave, ClusterTypeOK, clusterVars, userVars, PC
<1>6. CASE NoIdleSlave
  BY <1>6 DEF NoIdleSlave, ClusterTypeOK, clusterVars, userVars, PC
<1>7. CASE MasterWait
  <2>1. backlog' \subseteq Slaves /\ smap' \in [Slaves -> MasterView]
    BY <1>7 DEF MasterWait, WaitForEvent, ClusterTypeOK, MasterView
  <2> QED BY <1>7, <2>1 DEF MasterWait, ClusterTypeOK, linkVars, userVars, PC
<1>8. ASSUME NEW s \in Slaves, MasterAccept(s) PROVE TypeOK'
  <2>1. backlog' \subseteq Slaves /\ smap' \in [Slaves -> MasterView]
    BY <1>8 DEF MasterAccept, AcceptThenMarkAll, ClusterTypeOK, MasterView
  <2> QED BY <1>8, <2>1 DEF MasterAccept, ClusterTypeOK, linkVars, userVars, PC
<1>9. ASSUME NEW s \in Slaves, FindPendingSlave(s) PROVE TypeOK'
  BY <1>9 DEF FindPendingSlave, ClusterTypeOK, MasterView, linkVars, userVars, PC
<1>10. ASSUME NEW s \in Slaves, NEW tag, Receives(s, tag)
       PROVE  up' \in [Slaves -> Seq(Reply)] /\ Head(up[s]) \in Reply
  <2>1. Tail(up[s]) \in Seq(Reply) /\ Head(up[s]) \in Reply
    BY <1>10, HeadTailProperties DEF Receives, ClusterTypeOK
  <2> QED BY <1>10, <2>1 DEF Receives, ClusterTypeOK
<1>11. ASSUME NEW s \in Slaves, DiscardResult(s) PROVE TypeOK'
  <2>1. up' \in [Slaves -> Seq(Reply)]
    BY <1>10, <1>11 DEF DiscardResult
  <2>2. smap' \in [Slaves -> MasterView]
    BY <1>11 DEF DiscardResult, ResetSlave, ClusterTypeOK, MasterView
  <2> QED BY <1>11, <2>1, <2>2 DEF DiscardResult, ClusterTypeOK, userVars, PC
<1>12. ASSUME NEW s \in Slaves, AccumulateResult(s) PROVE TypeOK'
  <2>1. up' \in [Slaves -> Seq(Reply)] /\ Head(up[s]) \in Reply
    BY <1>10, <1>12 DEF AccumulateResult
  <2>2. Head(up[s]).count \in Nat
    BY <1>12, <2>1, ReplyTypes DEF AccumulateResult, Receives
  <2>3. samples' \in Nat /\ origin' \in SUBSET Points
    BY <1>12, <2>2 DEF AccumulateResult, CurrentResult
  <2>4. <<GetCpuTime>> \in Seq(Request) /\ smap[s] \in MasterView
    BY RequestTypes DEF ClusterTypeOK
  <2>5. down' \in [Slaves -> Seq(Request)] /\ smap' \in [Slaves -> MasterView]
    BY <1>12, <2>4, SendType DEF AccumulateResult
  <2>6. cur' \in SUBSET Slaves /\ pc' \in PC
    BY <1>12 DEF AccumulateResult, PC
  <2> QED BY <1>12, <2>1, <2>3, <2>5, <2>6 DEF AccumulateResult, ClusterTypeOK, userVars
<1>13. ASSUME NEW s \in Slaves, ReadCpuTime(s) PROVE TypeOK'
  <2>1. up' \in [Slaves -> Seq(Reply)]
    BY <1>10, <1>13 DEF ReadCpuTime
  <2> QED BY <1>13, <2>1 DEF ReadCpuTime, ClusterTypeOK, userVars, PC
<1>14. ASSUME NEW s \in Slaves, ReadFails(s) PROVE TypeOK'
  BY <1>14 DEF ReadFails, ReceiveFails, ClusterTypeOK, MasterView, linkVars, userVars, PC
<1>15. CASE NoPendingSlave
  BY <1>15 DEF NoPendingSlave, ClusterTypeOK, clusterVars, userVars, PC
<1>16. CASE UpdateResults
  <2>1. est' \in Nat /\ converged' \in BOOLEAN
    BY <1>16 DEF UpdateResults
  <2> QED BY <1>16, <2>1 DEF UpdateResults, ClusterTypeOK, clusterVars, userVars, PC
<1>17. CASE CheckInterrupt
  <2>1. pc' \in PC
    BY <1>17 DEF CheckInterrupt, LoopHead, PC
  <2> QED BY <1>17, <2>1, InterruptTypes
          DEF CheckInterrupt, EvaluateInterrupt, ClusterTypeOK, clusterVars
<1>18. CASE WriteFinalResults
  <2>1. [point |-> point, samples |-> samples, est |-> est,
         converged |-> converged, state |-> Interrupted] \in Row
    BY DEF Row, Interrupted
  <2>2. rows' \in Seq(Row)
    BY <1>18, <2>1, AppendProperties DEF WriteFinalResults
  <2> QED BY <1>18, <2>2, InterruptTypes
          DEF WriteFinalResults, EvaluateInterrupt, ClusterTypeOK, clusterVars, PC
<1>19. CASE NextPoint
  <2>1. pc' \in PC /\ open' \in BOOLEAN
    BY <1>19 DEF NextPoint, PC, ClusterTypeOK
  <2>2. point' \in Points
    BY <1>19, NumPointsAssumption DEF NextPoint, MorePoints, Points
  <2>3. intr' \in {"none", "hard", "soft"} /\ keys' \in Seq(Keys) /\ handler' \in BOOLEAN
    BY <1>19, InterruptTypes DEF NextPoint, InterruptAfterPoint
  <2> QED BY <1>19, <2>1, <2>2, <2>3 DEF NextPoint, ClusterTypeOK, linkVars
<1>20. ASSUME NEW s \in Slaves, KillIdleSlave(s) PROVE TypeOK'
  <2>1. <<Die>> \in Seq(Request)
    BY RequestTypes
  <2>2. down' \in [Slaves -> Seq(Request)] /\ smap' \in [Slaves -> MasterView]
    BY <1>20, <2>1, SendType DEF KillIdleSlave, MasterView
  <2>3. pc' \in PC /\ open' \in BOOLEAN
    BY <1>20 DEF KillIdleSlave, PC, ClusterTypeOK
  <2> QED BY <1>20, <2>2, <2>3 DEF KillIdleSlave, ClusterTypeOK, userVars
<1>21. CASE Exit
  BY <1>21 DEF Exit, ClusterTypeOK, linkVars, userVars, PC
<1> QED BY <1>1, <1>2, <1>3, <1>4, <1>5, <1>6, <1>7, <1>8, <1>9, <1>11, <1>12, <1>13,
           <1>14, <1>15, <1>16, <1>17, <1>18, <1>19, <1>20, <1>21 DEF MasterNext

LEMMA UserTypes ==
  ASSUME TypeOK, (\E k \in Keys : PressKey(k)) \/ SigInt
  PROVE  TypeOK'
<1> USE DEF TypeOK
<1>1. ASSUME NEW k \in Keys, PressKey(k) PROVE TypeOK'
  <2>1. keys' \in Seq(Keys)
    BY <1>1, AppendProperties DEF PressKey
  <2>2. presses' \in 0..MaxKeys
    BY <1>1, KeysAssumption DEF PressKey
  <2> QED BY <1>1, <2>1, <2>2 DEF PressKey, ClusterTypeOK, clusterVars, sweepVars
<1>2. CASE SigInt
  <2>1. pc' \in PC /\ open' \in BOOLEAN /\ sigint' \in BOOLEAN
    BY <1>2 DEF SigInt, PC, ClusterTypeOK
  <2> QED BY <1>2, <2>1 DEF SigInt, ClusterTypeOK, linkVars
<1> QED BY <1>1, <1>2

LEMMA InitTypes == Init => TypeOK
<1> SUFFICES ASSUME Init PROVE TypeOK
  OBVIOUS
<1>1. ClusterTypeOK
  BY NumPointsAssumption
     DEF Init, ClusterInit, ClusterTypeOK, MasterView, SlaveState, Points
<1>2. 1 \in Points
  BY NumPointsAssumption DEF Points
<1>3. 0 \in 0..MaxKeys
  BY KeysAssumption
<1>4. keys \in Seq(Keys) /\ rows \in Seq(Row)
  BY DEF Init
<1> QED BY <1>1, <1>2, <1>3, <1>4 DEF Init, TypeOK, PC

LEMMA StepTypes == TypeOK /\ [Next]_vars => TypeOK'
<1> SUFFICES ASSUME TypeOK, [Next]_vars PROVE TypeOK'
  OBVIOUS
<1>1. CASE MasterNext
  BY <1>1, MasterTypes
<1>2. ASSUME NEW s \in Slaves, SlaveNext(s), UNCHANGED <<sweepVars, userVars>>
      PROVE  TypeOK'
  BY <1>2, SlaveTypes DEF TypeOK, sweepVars, userVars
<1>3. CASE (\E k \in Keys : PressKey(k)) \/ SigInt
  BY <1>3, UserTypes
<1>4. CASE Finished \/ UNCHANGED vars
  BY <1>4 DEF Finished, vars, clusterVars, sweepVars, userVars, TypeOK, ClusterTypeOK
<1> QED BY <1>1, <1>2, <1>3, <1>4 DEF Next

(* Every variable of the master and of its slaves keeps its type: in       *)
(* particular only requests and replies of the protocol are ever in a      *)
(* stream, and the sweep's index never leaves its range.                   *)
THEOREM TypeCorrect == Spec => []TypeOK
<1> QED BY InitTypes, StepTypes, PTL DEF Spec

(***************************************************************************)
(* The estimate                                                            *)
(***************************************************************************)
LEMMA EstimateStep ==
  ASSUME TypeOK, EstimateInv, [Next]_vars
  PROVE  EstimateInv'
<1> USE DEF EstimateInv
<1>1. CASE StartEstimate
  BY <1>1 DEF StartEstimate, ConvergedRowsSound, OwnResultsOnly
<1>2. CASE SampleAndAccumulate
  BY <1>2 DEF SampleAndAccumulate, ConvergedRowsSound, OwnResultsOnly
<1>3. ASSUME NEW s \in Slaves, InitSlave(s) \/ WorkIdleSlave(s) PROVE EstimateInv'
  BY <1>3 DEF InitSlave, WorkIdleSlave, sweepVars, ConvergedRowsSound, OwnResultsOnly
<1>4. CASE NoNewSlave \/ NoIdleSlave \/ MasterWait
  BY <1>4 DEF NoNewSlave, NoIdleSlave, MasterWait, ConvergedRowsSound, OwnResultsOnly
<1>5. ASSUME NEW s \in Slaves, MasterAccept(s) \/ FindPendingSlave(s) PROVE EstimateInv'
  BY <1>5 DEF MasterAccept, FindPendingSlave, ConvergedRowsSound, OwnResultsOnly
<1>6. ASSUME NEW s \in Slaves, DiscardResult(s) \/ ReadCpuTime(s) \/ ReadFails(s)
      PROVE  EstimateInv'
  BY <1>6 DEF DiscardResult, ReadCpuTime, ReadFails, ConvergedRowsSound, OwnResultsOnly
<1>7. ASSUME NEW s \in Slaves, AccumulateResult(s) PROVE EstimateInv'
  <2>1. OwnResultsOnly'
    BY <1>7 DEF AccumulateResult, CurrentResult, OwnResultsOnly
  <2>2. pc' \in {"cputime", "find"} /\ ~converged'
    BY <1>7 DEF AccumulateResult
  <2> QED BY <1>7, <2>1, <2>2 DEF AccumulateResult, ConvergedRowsSound
<1>8. CASE NoPendingSlave
  BY <1>8 DEF NoPendingSlave, ConvergedRowsSound, OwnResultsOnly
<1>9. CASE UpdateResults
  <2>1. converged' => est' = samples' /\ samples' >= MinSamples
    BY <1>9 DEF UpdateResults, AccuracyReached
  <2> QED BY <1>9, <2>1 DEF UpdateResults, ConvergedRowsSound, OwnResultsOnly
<1>10. CASE CheckInterrupt
  <2>1. pc' # "final" => ~converged'
    BY <1>10 DEF CheckInterrupt, LoopEnds
  <2> QED BY <1>10, <2>1 DEF CheckInterrupt, ConvergedRowsSound, OwnResultsOnly
<1>11. CASE WriteFinalResults
  <2>1. CASE samples = 0
    BY <1>11, <2>1 DEF WriteFinalResults, ConvergedRowsSound, OwnResultsOnly
  <2>2. CASE samples # 0
    <3> DEFINE r == [point |-> point, samples |-> samples, est |-> est,
                     converged |-> converged, state |-> Interrupted]
    <3>1. r \in Row
      BY DEF Row, Interrupted, TypeOK
    <3>2. rows' = Append(rows, r)
      BY <1>11, <2>2 DEF WriteFinalResults
    <3>3. r.converged => r.est = r.samples /\ r.samples >= MinSamples
      BY <1>11 DEF WriteFinalResults
    <3> HIDE DEF r
    <3>4. ASSUME NEW i \in 1..Len(rows'), rows'[i].converged
          PROVE  rows'[i].est = rows'[i].samples /\ rows'[i].samples >= MinSamples
      <4>1. rows' \in Seq(Row) /\ Len(rows') = Len(rows) + 1 /\ Len(rows) \in Nat
        BY <3>1, <3>2, AppendProperties, LenProperties DEF TypeOK
      <4>2. CASE i \in 1..Len(rows)
        <5>1. rows'[i] = rows[i]
          BY <3>1, <3>2, <4>2, AppendProperties DEF TypeOK
        <5> QED BY <3>4, <4>2, <5>1 DEF ConvergedRowsSound
      <4>3. CASE i = Len(rows) + 1
        <5>1. rows'[i] = r
          BY <3>1, <3>2, <4>3, AppendProperties DEF TypeOK
        <5> QED BY <3>3, <3>4, <5>1
      <4> QED BY <4>1, <4>2, <4>3
    <3> QED BY <1>11, <3>4 DEF WriteFinalResults, ConvergedRowsSound, OwnResultsOnly
  <2> QED BY <2>1, <2>2
<1>12. CASE NextPoint
  BY <1>12 DEF NextPoint, ConvergedRowsSound, OwnResultsOnly
<1>13. ASSUME NEW s \in Slaves, KillIdleSlave(s) PROVE EstimateInv'
  BY <1>13 DEF KillIdleSlave, ConvergedRowsSound, OwnResultsOnly
<1>14. CASE Exit
  BY <1>14 DEF Exit, ConvergedRowsSound, OwnResultsOnly
<1>15. CASE UNCHANGED <<sweepVars, userVars>> \/ Finished \/ UNCHANGED vars
  BY <1>15 DEF Finished, vars, sweepVars, userVars, ConvergedRowsSound, OwnResultsOnly
<1>16. ASSUME NEW k \in Keys, PressKey(k) PROVE EstimateInv'
  BY <1>16 DEF PressKey, sweepVars, ConvergedRowsSound, OwnResultsOnly
<1>17. CASE SigInt
  BY <1>17 DEF SigInt, ConvergedRowsSound, OwnResultsOnly
<1> QED BY <1>1, <1>2, <1>3, <1>4, <1>5, <1>6, <1>7, <1>8, <1>9, <1>10, <1>11, <1>12,
           <1>13, <1>14, <1>15, <1>16, <1>17 DEF Next, MasterNext

LEMMA EstimateInvariant == Spec => []EstimateInv
<1>1. ASSUME Init PROVE EstimateInv
  <2>1. Len(rows) = 0
    BY <1>1 DEF Init
  <2>2. ConvergedRowsSound
    BY <2>1 DEF ConvergedRowsSound
  <2> QED BY <1>1, <2>2 DEF Init, EstimateInv, OwnResultsOnly
<1> QED BY <1>1, EstimateStep, TypeCorrect, PTL DEF Spec

(* Whatever slaves do, and however late, only results of the current       *)
(* parameter value are in the running totals.                              *)
THEOREM OwnResults == Spec => []OwnResultsOnly
<1>1. EstimateInv => OwnResultsOnly
  BY DEF EstimateInv
<1> QED BY <1>1, EstimateInvariant, PTL

(* A row of a converged estimate was computed from exactly the samples it  *)
(* counts, and they are enough.                                            *)
THEOREM ConvergedRows == Spec => []ConvergedRowsSound
<1>1. EstimateInv => ConvergedRowsSound
  BY DEF EstimateInv
<1> QED BY <1>1, EstimateInvariant, PTL

(***************************************************************************)
(* Short streams                                                           *)
(***************************************************************************)
LEMMA Tails ==
  ASSUME NEW a, NEW b, NEW c
  PROVE  /\ <<a>> # <<>> /\ Head(<<a>>) = a /\ Tail(<<a>>) = <<>>
         /\ <<a, b>> # <<>> /\ Head(<<a, b>>) = a /\ Tail(<<a, b>>) = <<b>>
         /\ <<a, b, c>> # <<>> /\ Head(<<a, b, c>>) = a /\ Tail(<<a, b, c>>) = <<b, c>>
OBVIOUS

LEMMA Appends ==
  ASSUME NEW a, NEW b
  PROVE  /\ Append(<<>>, a) = <<a>>
         /\ <<>> \o <<a>> = <<a>>
         /\ <<>> \o <<a, b>> = <<a, b>>
OBVIOUS

LEMMA AppendSecond ==
  ASSUME NEW S, NEW a \in S, NEW b \in S
  PROVE  <<a>> \o <<b>> = <<a, b>>
<1> DEFINE l == <<a>> \o <<b>>  r == <<a, b>>
<1>1. l \in Seq(S) /\ r \in Seq(S) /\ Len(l) = 2 /\ Len(r) = 2
  BY ConcatProperties
<1>2. \A i \in 1..2 : l[i] = r[i]
  BY ConcatProperties
<1> HIDE DEF l, r
<1>3. l = r
  BY <1>1, <1>2, SeqEqual
<1> QED BY <1>3 DEF l, r

LEMMA AppendThird ==
  ASSUME NEW S, NEW a \in S, NEW b \in S, NEW c \in S
  PROVE  <<a, b>> \o <<c>> = <<a, b, c>>
<1> DEFINE l == <<a, b>> \o <<c>>  r == <<a, b, c>>
<1>1. l \in Seq(S) /\ r \in Seq(S) /\ Len(l) = 3 /\ Len(r) = 3
  BY ConcatProperties
<1>2. \A i \in 1..3 : l[i] = r[i]
  BY ConcatProperties
<1> HIDE DEF l, r
<1>3. l = r
  BY <1>1, <1>2, SeqEqual
<1> QED BY <1>3 DEF l, r

LEMMA Tags ==
  /\ GetCode.tag = "slave_getcode" /\ Work.tag = "slave_work"
  /\ GetCpuTime.tag = "getcputime" /\ Die.tag = "die"
  /\ \A p \in Points : GetParameter(p).tag = "slave_getparameter"
                       /\ GetParameter(p).point = p
  /\ CpuTime.tag = "cputime"
  /\ \A p \in 0..NumPoints, n \in Batches :
       Result(p, n).tag = "result" /\ Result(p, n).point = p
BY DEF GetCode, Work, GetCpuTime, Die, GetParameter, CpuTime, Result

(***************************************************************************)
(* What a slave reads                                                      *)
(***************************************************************************)
SlaveReads(s) ==
  SlaveGetCode(s) \/ SlaveGetParameter(s) \/ SlaveWork(s) \/ SlaveSendCpuTime(s)
    \/ SlaveDie(s)

(* A slave that is being configured goes on being configured.              *)
LEMMA ConfiguresStep ==
  ASSUME TypeOK, NEW s \in Slaves, NEW p \in Points,
         Configures(s, down[s], p), SlaveReads(s)
  PROVE  /\ SlaveGetCode(s) \/ SlaveGetParameter(s)
         /\ Configures(s, down[s], p)'
<1> USE DEF TypeOK, ClusterTypeOK
<1>1. down[s] # <<>> /\ down'[s] = Tail(down[s])
  BY DEF SlaveReads, SlaveGetCode, SlaveGetParameter, SlaveWork, SlaveSendCpuTime,
         SlaveDie, Reads
<1>2. CASE down[s] = <<GetParameter(p)>> /\ code[s]
  <2>1. Head(down[s]).tag = "slave_getparameter" /\ Head(down[s]).point = p
        /\ down'[s] = <<>>
    BY <1>1, <1>2, Tails, Tags
  <2>2. SlaveGetParameter(s)
    BY <2>1 DEF SlaveReads, SlaveGetCode, SlaveGetParameter, SlaveWork,
                SlaveSendCpuTime, SlaveDie, Reads
  <2> QED BY <1>2, <2>1, <2>2 DEF SlaveGetParameter, Configures
<1>3. CASE down[s] = <<GetCode, GetParameter(p)>>
  <2>1. Head(down[s]).tag = "slave_getcode" /\ down'[s] = <<GetParameter(p)>>
    BY <1>1, <1>3, Tails, Tags
  <2>2. SlaveGetCode(s)
    BY <2>1 DEF SlaveReads, SlaveGetCode, SlaveGetParameter, SlaveWork,
                SlaveSendCpuTime, SlaveDie, Reads
  <2> QED BY <2>1, <2>2 DEF SlaveGetCode, Configures
<1> QED BY <1>1, <1>2, <1>3 DEF Configures

(* A slave that has been asked to work is configured, and then works.      *)
LEMMA AskedStep ==
  ASSUME TypeOK, NEW s \in Slaves, NEW p \in Points, Asked(s, p), SlaveReads(s)
  PROVE  \/ (SlaveGetCode(s) \/ SlaveGetParameter(s)) /\ Asked(s, p)'
         \/ SlaveWork(s) /\ Sampling(s)'
<1> USE DEF TypeOK, ClusterTypeOK
<1>1. down[s] # <<>> /\ down'[s] = Tail(down[s])
  BY DEF SlaveReads, SlaveGetCode, SlaveGetParameter, SlaveWork, SlaveSendCpuTime,
         SlaveDie, Reads
<1>2. CASE down[s] = <<Work>> /\ code[s] /\ param[s] = p
  <2>1. Head(down[s]).tag = "slave_work" /\ down'[s] = <<>>
    BY <1>1, <1>2, Tails, Tags
  <2>2. SlaveWork(s)
    BY <2>1 DEF SlaveReads, SlaveGetCode, SlaveGetParameter, SlaveWork,
                SlaveSendCpuTime, SlaveDie, Reads
  <2> QED BY <1>2, <2>1, <2>2 DEF SlaveWork, Sampling
<1>3. CASE down[s] = <<GetParameter(p), Work>> /\ code[s]
  <2>1. Head(down[s]).tag = "slave_getparameter" /\ Head(down[s]).point = p
        /\ down'[s] = <<Work>>
    BY <1>1, <1>3, Tails, Tags
  <2>2. SlaveGetParameter(s)
    BY <2>1 DEF SlaveReads, SlaveGetCode, SlaveGetParameter, SlaveWork,
                SlaveSendCpuTime, SlaveDie, Reads
  <2> QED BY <1>3, <2>1, <2>2 DEF SlaveGetParameter, Asked
<1>4. CASE down[s] = <<GetCode, GetParameter(p), Work>>
  <2>1. Head(down[s]).tag = "slave_getcode" /\ down'[s] = <<GetParameter(p), Work>>
    BY <1>1, <1>4, Tails, Tags
  <2>2. SlaveGetCode(s)
    BY <2>1 DEF SlaveReads, SlaveGetCode, SlaveGetParameter, SlaveWork,
                SlaveSendCpuTime, SlaveDie, Reads
  <2> QED BY <2>1, <2>2 DEF SlaveGetCode, Asked
<1> QED BY <1>2, <1>3, <1>4 DEF Asked

(* The three other requests stand alone.                                   *)
LEMMA LoneRequestStep ==
  ASSUME TypeOK, NEW s \in Slaves, SlaveReads(s)
  PROVE  /\ down[s] # <<>>
         /\ down[s] = <<GetCpuTime>> => SlaveSendCpuTime(s) /\ down'[s] = <<>>
         /\ down[s] = <<Die>> => SlaveDie(s) /\ down'[s] = <<>>
<1>1. down[s] # <<>> /\ down'[s] = Tail(down[s])
  BY DEF SlaveReads, SlaveGetCode, SlaveGetParameter, SlaveWork, SlaveSendCpuTime,
         SlaveDie, Reads, TypeOK, ClusterTypeOK
<1>2. ASSUME down[s] = <<GetCpuTime>> PROVE SlaveSendCpuTime(s) /\ down'[s] = <<>>
  <2>1. Head(down[s]).tag = "getcputime" /\ down'[s] = <<>>
    BY <1>1, <1>2, Tails, Tags
  <2> QED BY <2>1 DEF SlaveReads, SlaveGetCode, SlaveGetParameter, SlaveWork,
                      SlaveSendCpuTime, SlaveDie, Reads
<1>3. ASSUME down[s] = <<Die>> PROVE SlaveDie(s) /\ down'[s] = <<>>
  <2>1. Head(down[s]).tag = "die" /\ down'[s] = <<>>
    BY <1>1, <1>3, Tails, Tags
  <2> QED BY <2>1 DEF SlaveReads, SlaveGetCode, SlaveGetParameter, SlaveWork,
                      SlaveSendCpuTime, SlaveDie, Reads
<1> QED BY <1>1, <1>2, <1>3

(***************************************************************************)
(* Steps of the slaves                                                     *)
(***************************************************************************)
LEMMA LinkFrame ==
  ASSUME NEW t \in Slaves, LinkInv(t),
         down'[t] = down[t], up'[t] = up[t], slave'[t] = slave[t],
         code'[t] = code[t], param'[t] = param[t], smap'[t] = smap[t],
         t \in backlog' => t \in backlog
  PROVE  LinkInv(t)'
BY DEF LinkInv, Sampling, Configures, Asked

LEMMA ViewFrame ==
  ASSUME NEW t \in Slaves,
         down'[t] = down[t], up'[t] = up[t], slave'[t] = slave[t],
         code'[t] = code[t], param'[t] = param[t], smap'[t] = smap[t],
         pc' = pc, point' = point, cur' = cur
  PROVE  /\ UpInv(t) => UpInv(t)'
         /\ ViewInv(t) => ViewInv(t)'
         /\ Alive(t)' => Alive(t)
<1>1. UpInv(t) => UpInv(t)'
  BY DEF UpInv, BeingRead, BeingCharged
<1>2. InWork(t) => InWork(t)'
  BY DEF InWork, Asked, Sampling
<1>3. IdleInv(t) => IdleInv(t)'
  BY DEF IdleInv, Configures
<1>4. ViewInv(t) => ViewInv(t)'
  BY <1>2, <1>3 DEF ViewInv, BeingRead, BeingCharged
<1> QED BY <1>1, <1>4 DEF Alive

(* Only slave s and its streams change.                                    *)
OnlyLink(s) ==
  /\ UNCHANGED <<open, smap, sweepVars, userVars>>
  /\ \A t \in Slaves \ {s} :
       /\ down'[t] = down[t] /\ up'[t] = up[t] /\ slave'[t] = slave[t]
       /\ code'[t] = code[t] /\ param'[t] = param[t]

LEMMA LinkStep ==
  ASSUME TypeOK, ProtocolInv, ~Local, NEW s \in Slaves, OnlyLink(s),
         backlog' \subseteq backlog \cup {s},
         open /\ s \in backlog' => smap[s] = "none",
         LinkInv(s)',
         open => UpInv(s)' /\ (Alive(s)' => ViewInv(s)')
  PROVE  ProtocolInv'
<1>1. \A t \in Slaves : LinkInv(t)'
  BY LinkFrame DEF OnlyLink, ProtocolInv
<1>2. open => \A t \in Slaves : UpInv(t)' /\ (Alive(t)' => ViewInv(t)')
  BY ViewFrame DEF OnlyLink, ProtocolInv, sweepVars
<1>3. open /\ MasterInv => MasterInv'
  BY DEF OnlyLink, MasterInv, MapInv, sweepVars
<1> QED BY <1>1, <1>2, <1>3 DEF ProtocolInv, OnlyLink, MasterGone, sweepVars

LEMMA ReadsProtocol ==
  ASSUME TypeOK, ProtocolInv, ~Local, NEW s \in Slaves, SlaveReads(s),
         UNCHANGED <<sweepVars, userVars>>
  PROVE  ProtocolInv'
<1> USE DEF TypeOK, ClusterTypeOK
<1>1. OnlyLink(s) /\ backlog' \subseteq backlog /\ smap' = smap
  BY DEF OnlyLink, SlaveReads, SlaveGetCode, SlaveGetParameter, SlaveWork,
         SlaveSendCpuTime, SlaveDie, Reads
<1>2. slave[s] = "ready" /\ down[s] # <<>> /\ LinkInv(s)
  BY DEF SlaveReads, SlaveGetCode, SlaveGetParameter, SlaveWork, SlaveSendCpuTime,
         SlaveDie, Reads, ProtocolInv
<1>3. SlaveGetCode(s) \/ SlaveGetParameter(s)
        => slave'[s] = "ready" /\ up'[s] = up[s]
  BY <1>2 DEF SlaveGetCode, SlaveGetParameter
<1>4. SlaveWork(s) => slave'[s] = "working" /\ up'[s] = up[s]
  BY DEF SlaveWork
<1>5. SlaveSendCpuTime(s) => /\ slave'[s] = "ready" /\ up'[s] = Append(up[s], CpuTime)
                             /\ code'[s] = code[s] /\ param'[s] = param[s]
  BY <1>2 DEF SlaveSendCpuTime
<1>6. SlaveDie(s) => slave'[s] = "ended" /\ up'[s] = up[s]
  BY DEF SlaveDie
<1>7. /\ ~(SlaveSendCpuTime(s) /\ (SlaveGetCode(s) \/ SlaveGetParameter(s) \/ SlaveWork(s)
                                     \/ SlaveDie(s)))
      /\ ~(SlaveDie(s) /\ (SlaveGetCode(s) \/ SlaveGetParameter(s) \/ SlaveWork(s)))
  BY DEF SlaveSendCpuTime, SlaveGetCode, SlaveGetParameter, SlaveWork, SlaveDie, Reads
<1>8. LinkInv(s)'
  <2>1. CASE down[s] \in {<<>>, <<GetCpuTime>>, <<Die>>}
    BY <1>2, <1>5, <1>6, <2>1, LoneRequestStep DEF LinkInv
  <2>2. ASSUME NEW p \in Points, Configures(s, down[s], p) PROVE LinkInv(s)'
    BY <1>3, <2>2, ConfiguresStep DEF LinkInv
  <2>3. ASSUME NEW p \in Points, Asked(s, p) PROVE LinkInv(s)'
    BY <1>3, <1>4, <2>3, AskedStep DEF LinkInv
  <2> QED BY <1>2, <2>1, <2>2, <2>3 DEF LinkInv
<1>9. ASSUME open PROVE UpInv(s)' /\ (Alive(s)' => ViewInv(s)')
  <2>1. UpInv(s) /\ ViewInv(s) /\ MasterInv
    BY <1>2, <1>9 DEF ProtocolInv, Alive
  <2>2. smap'[s] = smap[s] /\ pc' = pc /\ point' = point /\ cur' = cur
    BY <1>1 DEF OnlyLink, sweepVars
  <2>3. CASE BeingCharged(s)
    <3>1. down[s] = <<GetCpuTime>> /\ up[s] = <<>> /\ code[s] /\ param[s] = point
      BY <1>2, <2>1, <2>3 DEF ViewInv
    <3>2. SlaveSendCpuTime(s) /\ down'[s] = <<>>
      BY <3>1, LoneRequestStep
    <3>3. up'[s] = <<CpuTime>>
      BY <1>5, <3>1, <3>2
    <3>4. smap[s] = "idle" /\ s \in cur
      BY <2>1, <2>3 DEF BeingCharged, MasterInv
    <3> QED BY <1>5, <2>2, <2>3, <3>1, <3>2, <3>3, <3>4
            DEF UpInv, ViewInv, BeingCharged, BeingRead
  <2>4. CASE BeingRead(s)
    <3>1. InWork(s) /\ smap[s] = "idle" /\ s \in cur
      BY <2>1, <2>4 DEF BeingRead, MasterInv, ViewInv
    <3>2. PICK p \in Points : Asked(s, p) /\ up[s] = <<>>
      BY <1>2, <3>1 DEF InWork, Sampling
    <3>3. InWork(s)' /\ up'[s] = <<>>
      BY <1>3, <1>4, <3>2, AskedStep DEF InWork
    <3> QED BY <2>2, <2>4, <3>1, <3>3 DEF UpInv, ViewInv, BeingRead, BeingCharged
  <2>5. CASE ~BeingCharged(s) /\ ~BeingRead(s)
    <3>1. ~BeingCharged(s)' /\ ~BeingRead(s)'
      BY <2>2, <2>5 DEF BeingCharged, BeingRead
    <3>2. smap[s] \notin {"none", "new"}
      BY <1>2, <2>1 DEF ViewInv
    <3>3. CASE smap[s] = "idle"
      <4>1. s \notin cur
        BY <2>1, <2>5 DEF MasterInv, BeingCharged, BeingRead
      <4>2. IdleInv(s) /\ up[s] = <<>>
        BY <2>1, <2>5, <3>3, <4>1 DEF ViewInv, UpInv
      <4>3. pc \in {"init", "assign"}
        BY <1>2, <4>2 DEF IdleInv
      <4>4. PICK p \in Points : p = point
        OBVIOUS
      <4>5. Configures(s, down[s], p)
        BY <4>2, <4>3, <4>4 DEF IdleInv
      <4>6. (SlaveGetCode(s) \/ SlaveGetParameter(s)) /\ Configures(s, down[s], p)'
        BY <4>5, ConfiguresStep
      <4>7. Configures(s, down[s], point)'
        BY <2>2, <4>4, <4>6 DEF Configures
      <4>8. IdleInv(s)' /\ up'[s] = <<>>
        BY <1>3, <2>2, <4>2, <4>3, <4>6, <4>7 DEF IdleInv
      <4> QED BY <2>2, <3>1, <3>3, <4>8 DEF UpInv, ViewInv
    <3>4. CASE smap[s] \in {"working", "eventpending"} /\ InWork(s)
      <4>1. PICK p \in Points : Asked(s, p) /\ up[s] = <<>>
        BY <1>2, <3>4 DEF InWork, Sampling
      <4>2. InWork(s)' /\ up'[s] = <<>>
        BY <1>3, <1>4, <4>1, AskedStep DEF InWork
      <4> QED BY <2>2, <3>1, <3>4, <4>2 DEF UpInv, ViewInv
    <3>5. CASE smap[s] \in {"working", "eventpending"} /\ ~InWork(s)
      <4>1. down[s] = <<Die>> /\ up[s] = <<>>
        BY <2>1, <3>5 DEF ViewInv
      <4>2. SlaveDie(s)
        BY <4>1, LoneRequestStep
      <4> QED BY <1>6, <4>1, <4>2 DEF UpInv, Alive
    <3> QED BY <3>2, <3>3, <3>4, <3>5 DEF MasterView
  <2> QED BY <2>3, <2>4, <2>5
<1>10. open /\ s \in backlog' => smap[s] = "none"
  BY <1>1 DEF ProtocolInv, MasterInv, MapInv
<1> QED BY <1>1, <1>8, <1>9, <1>10, LinkStep

LEMMA ConnectProtocol ==
  ASSUME TypeOK, ProtocolInv, ~Local, NEW s \in Slaves, Connect(s),
         UNCHANGED <<sweepVars, userVars>>
  PROVE  ProtocolInv'
<1> USE DEF TypeOK, ClusterTypeOK
<1>1. OnlyLink(s) /\ backlog' = backlog \cup {s}
  BY DEF OnlyLink, Connect
<1>2. /\ slave[s] = "off" /\ down[s] = <<>> /\ up[s] = <<>> /\ smap[s] = "none"
      /\ slave'[s] = "ready" /\ down'[s] = <<>> /\ up'[s] = <<>> /\ smap'[s] = "none"
  BY DEF Connect, ProtocolInv, LinkInv
<1>3. open => s \notin cur
  BY <1>2 DEF ProtocolInv, MasterInv
<1>4. open => UpInv(s)' /\ ViewInv(s)'
  BY <1>1, <1>2, <1>3 DEF OnlyLink, UpInv, ViewInv, BeingRead, BeingCharged, sweepVars
<1>5. LinkInv(s)'
  BY <1>2 DEF LinkInv
<1> QED BY <1>1, <1>2, <1>4, <1>5, LinkStep

(* A slave that stops running owes the invariant only its stream up.       *)
LEMMA StopProtocol ==
  ASSUME TypeOK, ProtocolInv, ~Local, NEW s \in Slaves,
         OnlyLink(s), backlog' = backlog, slave'[s] \in {"hung", "ended", "failed"},
         open => up'[s] \in {<<>>, up[s]}
  PROVE  ProtocolInv'
<1>1. LinkInv(s)' /\ ~Alive(s)'
  BY DEF LinkInv, Alive
<1>2. open => UpInv(s)'
  BY DEF ProtocolInv, UpInv, BeingRead, BeingCharged, OnlyLink, sweepVars
<1>3. backlog' \subseteq backlog \cup {s} /\ (open /\ s \in backlog' => smap[s] = "none")
  BY DEF ProtocolInv, MasterInv, MapInv
<1> QED BY <1>1, <1>2, <1>3, LinkStep

LEMMA Prefixes ==
  ASSUME NEW S, NEW a \in S, NEW k \in 0..1
  PROVE  SubSeq(<<a>>, 1, k) \in {<<>>, <<a>>}
<1> DEFINE q == <<a>>
<1>1. q \in Seq(S) /\ Len(q) = 1
  OBVIOUS
<1>2. k = 0 => SubSeq(q, 1, k) = <<>>
  BY <1>1, SubSeqEmpty
<1>3. k = 1 => SubSeq(q, 1, k) = q
  BY <1>1, SubSeqFull
<1> QED BY <1>2, <1>3

LEMMA CrashProtocol ==
  ASSUME TypeOK, ProtocolInv, ~Local, NEW s \in Slaves, Crash(s),
         UNCHANGED <<sweepVars, userVars>>
  PROVE  ProtocolInv'
<1> USE DEF TypeOK, ClusterTypeOK
<1>1. OnlyLink(s) /\ backlog' = backlog /\ slave'[s] = "failed"
  BY DEF OnlyLink, Crash
<1>2. PICK k \in 0..Len(up[s]) : up'[s] = SubSeq(up[s], 1, k)
  BY DEF Crash
<1>3. ASSUME open PROVE up'[s] \in {<<>>, up[s]}
  <2>1. up[s] = <<>> \/ \E a \in Reply : up[s] = <<a>>
    BY <1>3 DEF ProtocolInv, UpInv, Reply
  <2>2. CASE up[s] = <<>>
    BY <1>2, <2>2
  <2>3. ASSUME NEW a \in Reply, up[s] = <<a>> PROVE up'[s] \in {<<>>, up[s]}
    <3>1. k \in 0..1
      BY <1>2, <2>3
    <3> QED BY <1>2, <2>3, <3>1, Prefixes
  <2> QED BY <2>1, <2>2, <2>3
<1> QED BY <1>1, <1>3, StopProtocol

LEMMA ReturnProtocol ==
  ASSUME TypeOK, ProtocolInv, ~Local, NEW s \in Slaves, NEW n \in Batches,
         SlaveReturn(s, n), UNCHANGED <<sweepVars, userVars>>
  PROVE  ProtocolInv'
<1> USE DEF TypeOK, ClusterTypeOK
<1>1. OnlyLink(s) /\ backlog' = backlog /\ smap' = smap /\ open
      /\ pc' = pc /\ cur' = cur /\ point' = point
  BY DEF OnlyLink, SlaveReturn, sweepVars
<1>2. slave[s] = "working" /\ Sampling(s) /\ UpInv(s) /\ ViewInv(s) /\ MasterInv
  BY <1>1 DEF SlaveReturn, ProtocolInv, LinkInv, Alive
<1>3. ~BeingCharged(s) /\ smap[s] \notin {"none", "new"}
  BY <1>2 DEF ViewInv
<1>4. (smap[s] \in {"working", "eventpending"} \/ BeingRead(s)) /\ InWork(s)
  <2>1. smap[s] = "idle" => s \in cur
    BY <1>2 DEF ViewInv, IdleInv
  <2>2. s \in cur => BeingRead(s)
    BY <1>2, <1>3 DEF MasterInv, BeingRead, BeingCharged
  <2> QED BY <1>2, <1>3, <2>1, <2>2 DEF ViewInv, MasterView
<1>5. up[s] = <<>>
  BY <1>2, <1>4 DEF InWork
<1>6. /\ slave'[s] = "ready" /\ down'[s] = <<>> /\ code'[s]
      /\ param'[s] = param[s] /\ param[s] \in Points
  BY <1>2 DEF SlaveReturn, Sampling
<1>7. up'[s] = <<Result(param[s], n)>>
  <2>1. Result(param[s], n) \in Reply
    BY DEF Reply
  <2> QED BY <1>5, <2>1, Appends DEF SlaveReturn
<1>8. InWork(s)'
  BY <1>6, <1>7 DEF InWork
<1>9. UpInv(s)' /\ ViewInv(s)'
  BY <1>1, <1>3, <1>4, <1>6, <1>7, <1>8
     DEF UpInv, ViewInv, BeingRead, BeingCharged, MasterInv
<1>10. LinkInv(s)'
  BY <1>6 DEF LinkInv
<1>11. s \in backlog' => smap[s] = "none"
  BY <1>1, <1>2 DEF MasterInv, MapInv
<1> QED BY <1>1, <1>9, <1>10, <1>11, LinkStep

LEMMA SlaveProtocol ==
  ASSUME TypeOK, ProtocolInv, ~Local, NEW s \in Slaves, SlaveNext(s),
         UNCHANGED <<sweepVars, userVars>>
  PROVE  ProtocolInv'
<1> USE DEF TypeOK, ClusterTypeOK
<1>1. CASE Connect(s)
  BY <1>1, ConnectProtocol
<1>2. CASE ConnectFails(s)
  <2>1. OnlyLink(s) /\ backlog' = backlog /\ slave'[s] = "failed" /\ up'[s] = up[s]
    BY <1>2 DEF ConnectFails, OnlyLink
  <2> QED BY <2>1, StopProtocol
<1>3. CASE SlaveReads(s)
  BY <1>3, ReadsProtocol
<1>4. ASSUME NEW n \in Batches, SlaveReturn(s, n) PROVE ProtocolInv'
  BY <1>4, ReturnProtocol
<1>5. CASE SlaveLosesMaster(s)
  <2>1. OnlyLink(s) /\ backlog' = backlog /\ slave'[s] = "failed" /\ up'[s] = up[s]
    BY <1>5 DEF SlaveLosesMaster, OnlyLink
  <2> QED BY <2>1, StopProtocol
<1>6. CASE Crash(s)
  BY <1>6, CrashProtocol
<1>7. CASE Hang(s)
  <2>1. OnlyLink(s) /\ backlog' = backlog /\ slave'[s] = "hung" /\ up'[s] = up[s]
    BY <1>7 DEF Hang, OnlyLink
  <2> QED BY <2>1, StopProtocol
<1> QED BY <1>1, <1>2, <1>3, <1>4, <1>5, <1>6, <1>7
        DEF SlaveNext, SlaveProcess, SlaveReads

(***************************************************************************)
(* Steps of the master: the slaves they leave alone                        *)
(***************************************************************************)
SameLink(t) ==
  /\ down'[t] = down[t] /\ up'[t] = up[t] /\ slave'[t] = slave[t]
  /\ code'[t] = code[t] /\ param'[t] = param[t]

(* The moves of the master that ask nothing new of an idle slave.          *)
IdleMove ==
  \/ pc \notin {"init", "assign"} /\ pc' \in {"setup", "disable"}
  \/ pc \in {"init", "assign"} /\ pc' \in {"init", "assign"} /\ point' = point
  \/ pc \notin {"setup", "disable", "init", "assign"} /\ point' = point

LEMMA KeepSlave ==
  ASSUME NEW t \in Slaves, SameLink(t), smap'[t] = smap[t],
         t \notin cur, t \notin cur',
         UpInv(t), Alive(t) => ViewInv(t),
         IdleMove \/ smap[t] # "idle",
         pc = "disable" => pc' = "disable"
  PROVE  UpInv(t)' /\ (Alive(t)' => ViewInv(t)')
<1>1. UpInv(t)'
  BY DEF SameLink, UpInv, BeingRead, BeingCharged
<1>2. InWork(t) => InWork(t)'
  BY DEF SameLink, InWork, Asked, Sampling
<1>3. smap[t] = "idle" /\ IdleInv(t) => IdleInv(t)'
  <2> SUFFICES ASSUME IdleMove, IdleInv(t) PROVE IdleInv(t)'
    OBVIOUS
  <2>1. slave'[t] = "ready"
    BY DEF IdleInv, SameLink
  <2>2. CASE pc \notin {"init", "assign"} /\ pc' \in {"setup", "disable"}
    BY <2>1, <2>2 DEF IdleInv, SameLink
  <2>3. CASE pc \in {"init", "assign"} /\ pc' \in {"init", "assign"} /\ point' = point
    <3>1. Configures(t, down[t], point)
      BY <2>3 DEF IdleInv
    <3>2. Configures(t, down[t], point)'
      BY <2>3, <3>1 DEF Configures, SameLink
    <3> QED BY <2>1, <2>3, <3>2 DEF IdleInv
  <2>4. CASE pc \notin {"setup", "disable", "init", "assign"} /\ point' = point
    <3>1. down'[t] = <<>> /\ code'[t] /\ param'[t] = point'
      BY <2>4 DEF IdleInv, SameLink
    <3>2. Configures(t, down[t], point)'
      BY <3>1 DEF Configures
    <3> QED BY <2>1, <3>1, <3>2 DEF IdleInv
  <2> QED BY <2>2, <2>3, <2>4 DEF IdleMove
<1>4. Alive(t)' => ViewInv(t)'
  <2> SUFFICES ASSUME ViewInv(t) PROVE ViewInv(t)'
    BY DEF Alive, SameLink
  <2>1. smap'[t] \in {"none", "new"} => slave'[t] = "ready" /\ down'[t] = <<>>
    BY DEF ViewInv, SameLink
  <2>2. smap'[t] = "idle" /\ t \notin cur' => IdleInv(t)'
    BY <1>3 DEF ViewInv
  <2>3. smap'[t] \in {"working", "eventpending"} =>
          \/ InWork(t)'
          \/ pc' = "disable" /\ slave'[t] = "ready" /\ down'[t] = <<Die>> /\ up'[t] = <<>>
    BY <1>2 DEF ViewInv, SameLink
  <2> QED BY <2>1, <2>2, <2>3 DEF ViewInv, BeingRead, BeingCharged
<1> QED BY <1>1, <1>4

(* The master moves and touches no slave.                                  *)
LEMMA MoveStep ==
  ASSUME TypeOK, ProtocolInv, UNCHANGED clusterVars, open, ~MasterGone',
         cur = {}, cur' = {}, pc' \notin {"result", "cputime"},
         MapInv => MapInv', IdleMove, pc = "disable" => pc' = "disable"
  PROVE  ProtocolInv'
<1>1. \A t \in Slaves : LinkInv(t)'
  BY LinkFrame DEF clusterVars, ProtocolInv
<1>2. \A t \in Slaves : UpInv(t)' /\ (Alive(t)' => ViewInv(t)')
  BY KeepSlave DEF clusterVars, ProtocolInv, SameLink
<1>3. MasterInv'
  BY DEF ProtocolInv, MasterInv
<1> QED BY <1>1, <1>2, <1>3 DEF ProtocolInv, clusterVars

(* The master deals with slave s.                                          *)
LEMMA DealStep ==
  ASSUME TypeOK, ProtocolInv, NEW s \in Slaves, open' = open, open, ~MasterGone',
         backlog' = backlog, smap[s] # "none",
         \A t \in Slaves \ {s} : SameLink(t) /\ smap'[t] = smap[t],
         cur \subseteq {s}, cur' \subseteq {s}, IdleMove,
         pc = "disable" => pc' = "disable",
         LinkInv(s)', UpInv(s)', Alive(s)' => ViewInv(s)',
         MasterInv => MasterInv'
  PROVE  ProtocolInv'
<1>1. \A t \in Slaves : LinkInv(t)'
  BY LinkFrame DEF ProtocolInv, SameLink
<1>2. \A t \in Slaves : UpInv(t)' /\ (Alive(t)' => ViewInv(t)')
  <2>1. ASSUME NEW t \in Slaves \ {s} PROVE UpInv(t)' /\ (Alive(t)' => ViewInv(t)')
    BY KeepSlave DEF ProtocolInv
  <2> QED BY <2>1
<1> QED BY <1>1, <1>2 DEF ProtocolInv

(* Nothing is owed to slaves once the master is gone.                      *)
LEMMA GoneStep ==
  ASSUME TypeOK, ProtocolInv, open' = FALSE, MasterGone', backlog' = backlog,
         \A t \in Slaves : SameLink(t) /\ (smap'[t] = smap[t] \/ slave[t] # "off")
  PROVE  ProtocolInv'
<1>1. ASSUME NEW t \in Slaves PROVE LinkInv(t)'
  BY <1>1 DEF ProtocolInv, SameLink, LinkInv, Sampling, Configures, Asked
<1> QED BY <1>1 DEF ProtocolInv, TypeOK, ClusterTypeOK

LEMMA AtWork ==
  ASSUME ProtocolInv, ~MasterGone
  PROVE  /\ open /\ MasterInv
         /\ \A t \in Slaves : LinkInv(t) /\ UpInv(t) /\ (Alive(t) => ViewInv(t))
BY DEF ProtocolInv

LEMMA MovesProtocol ==
  ASSUME TypeOK, ProtocolInv, EstimateInv,
         \/ SampleAndAccumulate \/ NoNewSlave \/ NoIdleSlave \/ NoPendingSlave
         \/ UpdateResults \/ CheckInterrupt \/ WriteFinalResults
  PROVE  ProtocolInv'
<1>1. UNCHANGED clusterVars /\ cur' = cur /\ point' = point
  BY DEF SampleAndAccumulate, NoNewSlave, NoIdleSlave, NoPendingSlave, UpdateResults,
         CheckInterrupt, WriteFinalResults
<1>2. pc \in {"local", "init", "assign", "find", "update", "check", "final"}
  BY DEF SampleAndAccumulate, NoNewSlave, NoIdleSlave, NoPendingSlave, UpdateResults,
         CheckInterrupt, WriteFinalResults
<1>3. open /\ MasterInv /\ cur = {}
  BY <1>2, AtWork DEF MasterGone, MasterInv
<1>4. /\ pc' \in {"update", "assign", "wait", "check", "final", "local", "init", "next"}
      /\ pc' = "assign" => pc = "init"
      /\ pc' = "init" => pc = "check"
      /\ pc = "init" => pc' = "assign"
      /\ pc = "assign" => pc' = "wait"
      /\ pc' = "wait" => pc = "assign"
  BY DEF SampleAndAccumulate, NoNewSlave, NoIdleSlave, NoPendingSlave, UpdateResults,
         CheckInterrupt, WriteFinalResults, LoopHead
<1>5. CASE NoIdleSlave
  <2>1. InState("idle") = {}
    BY <1>5 DEF NoIdleSlave, AllAssigned, EstimateInv
  <2>2. pc = "assign" /\ pc' = "wait"
    BY <1>5 DEF NoIdleSlave
  <2>3. \A t \in Slaves : smap[t] # "idle"
    BY <2>1 DEF InState
  <2>4. MapInv'
    BY <1>1, <1>3, <2>2, <2>3 DEF MasterInv, MapInv, clusterVars
  <2>5. \A t \in Slaves : LinkInv(t)'
    BY <1>1, LinkFrame DEF clusterVars, ProtocolInv
  <2>6. \A t \in Slaves : UpInv(t)' /\ (Alive(t)' => ViewInv(t)')
    BY <1>1, <1>3, <2>2, <2>3, KeepSlave DEF clusterVars, ProtocolInv, SameLink
  <2> QED BY <1>1, <1>3, <2>2, <2>4, <2>5, <2>6
          DEF ProtocolInv, MasterInv, MasterGone, clusterVars
<1>6. CASE ~NoIdleSlave
  <2>1. pc # "assign"
    BY <1>6 DEF SampleAndAccumulate, NoNewSlave, NoIdleSlave, NoPendingSlave,
                UpdateResults, CheckInterrupt, WriteFinalResults
  <2>2. NoNewSlave => \A t \in Slaves : smap[t] # "new"
    BY DEF NoNewSlave, InState
  <2>3. pc = "find" => \A t \in Slaves : smap[t] # "eventpending"
    BY DEF SampleAndAccumulate, NoNewSlave, NoIdleSlave, NoPendingSlave,
           UpdateResults, CheckInterrupt, WriteFinalResults, InState
  <2>4. pc = "init" => NoNewSlave
    BY DEF SampleAndAccumulate, NoNewSlave, NoIdleSlave, NoPendingSlave,
           UpdateResults, CheckInterrupt, WriteFinalResults
  <2>5. MapInv => MapInv'
    BY <1>1, <1>2, <1>4, <2>1, <2>2, <2>3, <2>4 DEF MapInv, clusterVars
  <2>6. IdleMove
    BY <1>1, <1>2, <1>4, <2>1 DEF IdleMove
  <2> QED BY <1>1, <1>2, <1>3, <1>4, <2>5, <2>6, MoveStep DEF MasterGone
<1> QED BY <1>5, <1>6

(***************************************************************************)
(* Steps of the master: requests                                           *)
(***************************************************************************)

(* What a send leaves alone, and what it does to a slave that runs.        *)
LEMMA Sends ==
  ASSUME TypeOK, NEW s \in Slaves, NEW msgs, NEW v,
         SendAs(s, msgs, v) \/ SendFails(s),
         UNCHANGED <<up, slave, code, param>>
  PROVE  /\ \A t \in Slaves \ {s} : SameLink(t) /\ smap'[t] = smap[t]
         /\ Gone(s) => Gone(s)' /\ ~Alive(s)'
         /\ ~Gone(s) => down'[s] = down[s] \o msgs /\ smap'[s] = v
         /\ smap'[s] \in {v, "none"}
BY DEF SendAs, SendFails, Deliver, SameLink, TypeOK, ClusterTypeOK, Gone, Alive

LEMMA Stopped ==
  ASSUME NEW s \in Slaves, slave'[s] \notin {"off", "ready", "working"}
  PROVE  LinkInv(s)' /\ ~Alive(s)'
BY DEF LinkInv, Alive

LEMMA InitSlaveProtocol ==
  ASSUME TypeOK, ProtocolInv, NEW s \in Slaves, InitSlave(s)
  PROVE  ProtocolInv'
<1> USE DEF TypeOK, ClusterTypeOK
<1> DEFINE msgs == <<GetCode, GetParameter(point)>>
<1>1. /\ pc = "init" /\ pc' = "init" /\ point' = point /\ cur' = cur /\ smap[s] = "new"
      /\ UNCHANGED <<open, backlog, up, slave, code, param>>
      /\ SendAs(s, msgs, "idle") \/ SendFails(s)
  BY DEF InitSlave, sweepVars
<1>2. open /\ MasterInv /\ LinkInv(s) /\ UpInv(s) /\ (Alive(s) => ViewInv(s)) /\ cur = {}
  BY <1>1, AtWork DEF MasterGone, MasterInv
<1>3. up'[s] = <<>> /\ slave[s] # "off"
  BY <1>1, <1>2 DEF UpInv, BeingRead, BeingCharged, LinkInv
<1>4. \A t \in Slaves \ {s} : SameLink(t) /\ smap'[t] = smap[t]
  BY <1>1, Sends
<1>5. LinkInv(s)' /\ (Alive(s)' => ViewInv(s)')
  <2>1. CASE slave[s] \notin {"ready", "working"}
    BY <1>1, <1>3, <2>1, Stopped
  <2>2. CASE slave[s] \in {"ready", "working"}
    <3>1. slave[s] = "ready" /\ down[s] = <<>>
      BY <1>1, <1>2, <2>2 DEF ViewInv, Alive
    <3>2. down'[s] = <<>> \o msgs /\ smap'[s] = "idle"
      BY <1>1, <3>1, Sends DEF Gone
    <3>3. GetCode \in Request /\ GetParameter(point) \in Request
      BY DEF Request
    <3>4. down'[s] = msgs
      BY <3>2, <3>3, Appends
    <3>5. \A p \in Points : p = point => Configures(s, down[s], p)'
      BY <3>4 DEF Configures
    <3>6. Configures(s, down[s], point)'
      BY <1>1, <3>4 DEF Configures
    <3>7. LinkInv(s)'
      BY <1>1, <3>1, <3>5 DEF LinkInv
    <3>8. IdleInv(s)'
      BY <1>1, <3>1, <3>6 DEF IdleInv
    <3> QED BY <1>1, <3>2, <3>7, <3>8 DEF ViewInv, BeingRead, BeingCharged
  <2> QED BY <2>1, <2>2
<1>6. MasterInv'
  <2>1. smap'[s] \in {"idle", "none"}
    BY <1>1, Sends
  <2>2. s \notin backlog /\ ~Local
    BY <1>1, <1>2 DEF MasterInv, MapInv
  <2> QED BY <1>1, <1>2, <1>4, <2>1, <2>2 DEF MasterInv, MapInv
<1>7. UpInv(s)' /\ IdleMove /\ ~MasterGone'
  BY <1>1, <1>3 DEF UpInv, IdleMove, MasterGone
<1> QED BY <1>1, <1>2, <1>4, <1>5, <1>6, <1>7, DealStep

LEMMA WorkIdleSlaveProtocol ==
  ASSUME TypeOK, ProtocolInv, NEW s \in Slaves, WorkIdleSlave(s)
  PROVE  ProtocolInv'
<1> USE DEF TypeOK, ClusterTypeOK
<1>1. /\ pc = "assign" /\ pc' = "assign" /\ point' = point /\ cur' = cur
      /\ smap[s] = "idle" /\ UNCHANGED <<open, backlog, up, slave, code, param>>
      /\ SendAs(s, <<Work>>, "working") \/ SendFails(s)
  BY DEF WorkIdleSlave, sweepVars
<1>2. open /\ MasterInv /\ LinkInv(s) /\ UpInv(s) /\ (Alive(s) => ViewInv(s)) /\ cur = {}
  BY <1>1, AtWork DEF MasterGone, MasterInv
<1>3. up'[s] = <<>> /\ slave[s] # "off"
  BY <1>1, <1>2 DEF UpInv, BeingRead, BeingCharged, LinkInv
<1>4. \A t \in Slaves \ {s} : SameLink(t) /\ smap'[t] = smap[t]
  BY <1>1, Sends
<1>5. LinkInv(s)' /\ (Alive(s)' => ViewInv(s)')
  <2>1. CASE slave[s] \notin {"ready", "working"}
    BY <1>1, <1>3, <2>1, Stopped
  <2>2. CASE slave[s] \in {"ready", "working"}
    <3>1. slave[s] = "ready" /\ Configures(s, down[s], point)
      BY <1>1, <1>2, <2>2 DEF ViewInv, Alive, IdleInv
    <3>2. down'[s] = down[s] \o <<Work>> /\ smap'[s] = "working"
      BY <1>1, <3>1, Sends DEF Gone
    <3>3. GetCode \in Request /\ GetParameter(point) \in Request /\ Work \in Request
      BY DEF Request
    <3>4. Asked(s, point)'
      <4>1. PICK p \in Points : p = point
        OBVIOUS
      <4>2. CASE down[s] = <<>> /\ code[s] /\ param[s] = point
        BY <1>1, <3>2, <3>3, <4>2, Appends DEF Asked
      <4>3. CASE down[s] = <<GetParameter(point)>> /\ code[s]
        <5>1. down'[s] = <<GetParameter(p)>> \o <<Work>>
          BY <3>2, <4>1, <4>3
        <5>2. down'[s] = <<GetParameter(p), Work>>
          BY <3>3, <4>1, <5>1, AppendSecond
        <5> QED BY <1>1, <4>1, <4>3, <5>2 DEF Asked
      <4>4. CASE down[s] = <<GetCode, GetParameter(point)>>
        <5>1. down'[s] = <<GetCode, GetParameter(p)>> \o <<Work>>
          BY <3>2, <4>1, <4>4
        <5>2. down'[s] = <<GetCode, GetParameter(p), Work>>
          BY <3>3, <4>1, <5>1, AppendThird
        <5> QED BY <1>1, <4>1, <5>2 DEF Asked
      <4> QED BY <3>1, <4>2, <4>3, <4>4 DEF Configures
    <3>5. \A p \in Points : p = point => Asked(s, p)'
      BY <1>1, <3>4 DEF Asked
    <3>6. LinkInv(s)' /\ InWork(s)'
      BY <1>1, <1>3, <3>1, <3>5 DEF LinkInv, InWork
    <3> QED BY <1>1, <3>2, <3>6 DEF ViewInv, BeingRead, BeingCharged
  <2> QED BY <2>1, <2>2
<1>6. MasterInv'
  <2>1. smap'[s] \in {"working", "none"}
    BY <1>1, Sends
  <2>2. s \notin backlog /\ ~Local
    BY <1>1, <1>2 DEF MasterInv, MapInv
  <2> QED BY <1>1, <1>2, <1>4, <2>1, <2>2 DEF MasterInv, MapInv
<1>7. UpInv(s)' /\ IdleMove /\ ~MasterGone'
  BY <1>1, <1>3 DEF UpInv, IdleMove, MasterGone
<1> QED BY <1>1, <1>2, <1>4, <1>5, <1>6, <1>7, DealStep

(***************************************************************************)
(* Steps of the master: waiting and reading                                *)
(***************************************************************************)

(* Both ways of waiting make some accepted slave new, and leave or mark    *)
(* the working ones.                                                       *)
LEMMA WaitProtocol ==
  ASSUME TypeOK, ProtocolInv, pc \in {"wait", "accept"}, pc' = "find",
         cur' = cur, point' = point, UNCHANGED <<open, linkVars>>,
         NEW new \in SUBSET backlog, backlog' = backlog \ new,
         \A t \in new : smap'[t] = "new",
         \A t \in Slaves \ new : \/ smap'[t] = smap[t]
                                 \/ smap[t] # "none" /\ smap'[t] = "eventpending"
  PROVE  ProtocolInv'
<1> USE DEF TypeOK, ClusterTypeOK
<1>1. open /\ MasterInv /\ cur = {}
  BY AtWork DEF MasterGone, MasterInv
<1>2. \A t \in Slaves : smap[t] \in {"none", "working"}
  BY <1>1 DEF MasterInv, MapInv, MasterView
<1>3. ASSUME NEW t \in new
      PROVE  LinkInv(t)' /\ UpInv(t)' /\ (Alive(t)' => ViewInv(t)')
  <2>1. t \in Slaves /\ smap[t] = "none" /\ smap'[t] = "new"
    BY <1>1, <1>3 DEF MasterInv, MapInv
  <2>2. up'[t] = <<>> /\ slave[t] # "off"
    BY <1>1, <1>3, <2>1 DEF ProtocolInv, UpInv, LinkInv, BeingRead, BeingCharged, linkVars
  <2>3. Alive(t) => slave'[t] = "ready" /\ down'[t] = <<>>
    BY <1>1, <2>1 DEF ProtocolInv, ViewInv, linkVars
  <2>4. LinkInv(t)'
    BY <2>1, <2>2, <2>3 DEF LinkInv, Alive, linkVars
  <2> QED BY <1>1, <2>1, <2>2, <2>3, <2>4
          DEF UpInv, ViewInv, BeingRead, BeingCharged, Alive, linkVars
<1>4. ASSUME NEW t \in Slaves \ new
      PROVE  LinkInv(t)' /\ UpInv(t)' /\ (Alive(t)' => ViewInv(t)')
  <2>1. LinkInv(t) /\ UpInv(t) /\ (Alive(t) => ViewInv(t))
    BY <1>1 DEF ProtocolInv
  <2>2. SameLink(t)
    BY DEF SameLink, linkVars
  <2>3. CASE smap'[t] = smap[t]
    <3>1. LinkInv(t)'
      BY <2>1, <2>2, <2>3, LinkFrame DEF SameLink
    <3>2. UpInv(t)' /\ (Alive(t)' => ViewInv(t)')
      BY <1>1, <1>2, <2>1, <2>2, <2>3, KeepSlave
    <3> QED BY <3>1, <3>2
  <2>4. CASE smap[t] # "none" /\ smap'[t] = "eventpending"
    <3>1. smap[t] = "working"
      BY <1>2, <2>4
    <3>2. slave[t] # "off"
      BY <2>1, <2>4 DEF LinkInv
    <3>3. LinkInv(t)'
      BY <2>1, <2>2, <3>2 DEF LinkInv, SameLink, Sampling, Configures, Asked
    <3>4. UpInv(t)'
      BY <2>1, <2>2, <2>4, <1>1 DEF UpInv, SameLink, BeingRead, BeingCharged
    <3>5. Alive(t) => InWork(t)
      BY <2>1, <3>1 DEF ViewInv
    <3>6. Alive(t)' => InWork(t)'
      BY <2>2, <3>5 DEF InWork, Asked, Sampling, SameLink, Alive
    <3> QED BY <1>1, <2>4, <3>3, <3>4, <3>6 DEF ViewInv, BeingRead, BeingCharged
  <2> QED BY <2>3, <2>4
<1>5. MasterInv'
  <2>1. \A t \in backlog' : smap'[t] = "none"
    BY <1>1, <1>2 DEF MasterInv, MapInv
  <2>2. Local => backlog' = {} /\ \A t \in Slaves : smap'[t] = "none"
    BY <1>1 DEF MasterInv, MapInv
  <2> QED BY <1>1, <2>1, <2>2 DEF MasterInv, MapInv
<1> QED BY <1>1, <1>3, <1>4, <1>5 DEF ProtocolInv, MasterGone

LEMMA WaitsProtocol ==
  ASSUME TypeOK, ProtocolInv, MasterWait \/ \E s \in Slaves : MasterAccept(s)
  PROVE  ProtocolInv'
<1> USE DEF TypeOK, ClusterTypeOK
<1>1. CASE MasterWait
  <2>1. PICK new \in {{}} \cup {{s} : s \in backlog} :
          /\ smap' = [s \in Slaves |->
                        IF s \in new THEN "new"
                        ELSE IF s \in Readable THEN "eventpending"
                        ELSE smap[s]]
          /\ backlog' = backlog \ new
    BY <1>1 DEF MasterWait, WaitForEvent
  <2>2. new \in SUBSET backlog
    OBVIOUS
  <2>3. \A t \in Slaves \ new : \/ smap'[t] = smap[t]
                                \/ smap[t] # "none" /\ smap'[t] = "eventpending"
    BY <2>1 DEF Readable, Connected
  <2> QED BY <1>1, <2>1, <2>2, <2>3, WaitProtocol DEF MasterWait
<1>2. ASSUME NEW s \in Slaves, MasterAccept(s) PROVE ProtocolInv'
  <2>1. /\ s \in backlog /\ backlog' = backlog \ {s}
        /\ smap' = [t \in Slaves |-> IF t = s THEN "new"
                                    ELSE IF t \in Connected THEN "eventpending"
                                    ELSE "none"]
    BY <1>2 DEF MasterAccept, AcceptThenMarkAll
  <2>2. \A t \in Slaves \ {s} : \/ smap'[t] = smap[t]
                                \/ smap[t] # "none" /\ smap'[t] = "eventpending"
    BY <2>1 DEF Connected
  <2>3. /\ pc \in {"wait", "accept"} /\ pc' = "find" /\ cur' = cur /\ point' = point
        /\ UNCHANGED <<open, linkVars>>
    BY <1>2 DEF MasterAccept
  <2>4. PICK new \in SUBSET backlog : new = {s}
    BY <2>1
  <2>5. backlog' = backlog \ new /\ \A t \in new : smap'[t] = "new"
    BY <2>1, <2>4
  <2>6. \A t \in Slaves \ new : \/ smap'[t] = smap[t]
                                \/ smap[t] # "none" /\ smap'[t] = "eventpending"
    BY <2>2, <2>4
  <2> HIDE DEF TypeOK, ClusterTypeOK
  <2> QED BY <2>3, <2>5, <2>6, WaitProtocol
<1> QED BY <1>1, <1>2

LEMMA FindPendingSlaveProtocol ==
  ASSUME TypeOK, ProtocolInv, NEW s \in Slaves, FindPendingSlave(s)
  PROVE  ProtocolInv'
<1> USE DEF TypeOK, ClusterTypeOK
<1>1. /\ pc = "find" /\ pc' = "result" /\ point' = point /\ cur' = {s}
      /\ smap[s] = "eventpending" /\ smap'[s] = "idle"
      /\ UNCHANGED <<open, backlog, linkVars>>
      /\ \A t \in Slaves \ {s} : smap'[t] = smap[t]
  BY DEF FindPendingSlave
<1>2. open /\ MasterInv /\ LinkInv(s) /\ UpInv(s) /\ (Alive(s) => ViewInv(s)) /\ cur = {}
  BY <1>1, AtWork DEF MasterGone, MasterInv
<1>3. \A t \in Slaves : SameLink(t)
  BY <1>1 DEF SameLink, linkVars
<1>4. LinkInv(s)'
  BY <1>1, <1>2, <1>3 DEF LinkInv, SameLink, Sampling, Configures, Asked
<1>5. UpInv(s)'
  BY <1>1, <1>2, <1>3 DEF UpInv, SameLink, BeingRead, BeingCharged
<1>6. Alive(s)' => ViewInv(s)'
  <2>1. Alive(s) => InWork(s)
    BY <1>1, <1>2 DEF ViewInv
  <2>2. Alive(s)' => InWork(s)'
    BY <1>3, <2>1 DEF InWork, Asked, Sampling, SameLink, Alive
  <2> QED BY <1>1, <2>2 DEF ViewInv, BeingRead, BeingCharged
<1>7. MasterInv'
  BY <1>1, <1>2 DEF MasterInv, MapInv
<1>8. IdleMove /\ ~MasterGone'
  BY <1>1 DEF IdleMove, MasterGone
<1> QED BY <1>1, <1>2, <1>3, <1>4, <1>5, <1>6, <1>7, <1>8, DealStep

(***************************************************************************)
(* Steps of the master: replies                                            *)
(***************************************************************************)

(* The slave being read, when its reply is a result.                       *)
LEMMA ResultRead ==
  ASSUME TypeOK, ProtocolInv, NEW s \in Slaves, pc = "result", s \in cur,
         Receives(s, "result")
  PROVE  /\ open /\ MasterInv /\ LinkInv(s) /\ cur = {s} /\ smap[s] = "idle"
         /\ slave[s] # "off" /\ up'[s] = <<>>
         /\ Head(up[s]) \in Reply
         /\ Alive(s) => /\ slave[s] = "ready" /\ down[s] = <<>> /\ code[s]
                        /\ param[s] = Head(up[s]).point
<1> USE DEF TypeOK, ClusterTypeOK
<1>1. open /\ MasterInv /\ LinkInv(s) /\ UpInv(s) /\ (Alive(s) => ViewInv(s))
  BY AtWork DEF MasterGone
<1>2. cur = {s} /\ smap[s] = "idle" /\ BeingRead(s) /\ ~BeingCharged(s)
  BY <1>1 DEF MasterInv, BeingRead, BeingCharged
<1>3. up[s] # <<>> /\ up'[s] = Tail(up[s])
  BY DEF Receives
<1>4. PICK p \in 0..NumPoints, n \in Batches : up[s] = <<Result(p, n)>>
  BY <1>1, <1>2, <1>3 DEF UpInv
<1>5. up'[s] = <<>> /\ Head(up[s]) = Result(p, n)
  BY <1>3, <1>4, Tails
<1>6. ASSUME Alive(s)
      PROVE  /\ slave[s] = "ready" /\ down[s] = <<>> /\ code[s]
             /\ param[s] = Head(up[s]).point
  <2>1. InWork(s)
    BY <1>1, <1>2, <1>6 DEF ViewInv
  <2>2. PICK m \in Batches : /\ slave[s] = "ready" /\ down[s] = <<>> /\ code[s]
                             /\ up[s] = <<Result(param[s], m)>>
    BY <1>3, <2>1 DEF InWork
  <2>3. Head(up[s]) = Result(param[s], m)
    BY <2>2, Tails
  <2>4. param[s] \in 0..NumPoints
    OBVIOUS
  <2> QED BY <2>2, <2>3, <2>4, Tags
<1>7. slave[s] # "off" /\ Head(up[s]) \in Reply
  BY <1>1, <1>3, <1>5 DEF LinkInv, Reply
<1> QED BY <1>1, <1>2, <1>5, <1>6, <1>7

LEMMA DiscardResultProtocol ==
  ASSUME TypeOK, ProtocolInv, NEW s \in Slaves, DiscardResult(s)
  PROVE  ProtocolInv'
<1> USE DEF TypeOK, ClusterTypeOK
<1>1. /\ pc = "result" /\ pc' = "find" /\ point' = point /\ cur' = {} /\ s \in cur
      /\ smap' = [smap EXCEPT ![s] = "new"]
      /\ UNCHANGED <<open, backlog, down, slave, code, param>>
      /\ Receives(s, "result")
  BY DEF DiscardResult, ResetSlave
<1>2. /\ open /\ MasterInv /\ LinkInv(s) /\ cur = {s} /\ smap[s] = "idle"
      /\ slave[s] # "off" /\ up'[s] = <<>>
      /\ Alive(s) => slave[s] = "ready" /\ down[s] = <<>>
  BY <1>1, ResultRead
<1>3. \A t \in Slaves \ {s} : SameLink(t) /\ smap'[t] = smap[t]
  BY <1>1 DEF Receives, SameLink
<1>4. LinkInv(s)' /\ UpInv(s)' /\ (Alive(s)' => ViewInv(s)')
  BY <1>1, <1>2 DEF LinkInv, UpInv, ViewInv, BeingRead, BeingCharged, Alive
<1>5. MasterInv'
  BY <1>1, <1>2 DEF MasterInv, MapInv
<1>6. IdleMove /\ ~MasterGone'
  BY <1>1 DEF IdleMove, MasterGone
<1> QED BY <1>1, <1>2, <1>3, <1>4, <1>5, <1>6, DealStep

LEMMA AccumulateResultProtocol ==
  ASSUME TypeOK, ProtocolInv, NEW s \in Slaves, AccumulateResult(s)
  PROVE  ProtocolInv'
<1> USE DEF TypeOK, ClusterTypeOK
<1>1. /\ pc = "result" /\ point' = point /\ s \in cur
      /\ \/ SendAs(s, <<GetCpuTime>>, smap[s]) /\ pc' = "cputime" /\ cur' = cur
         \/ SendFails(s) /\ pc' = "find" /\ cur' = {}
      /\ UNCHANGED <<open, backlog, slave, code, param>>
      /\ Receives(s, "result") /\ Head(up[s]).point = point
  BY DEF AccumulateResult, CurrentResult
<1>2. /\ open /\ MasterInv /\ LinkInv(s) /\ cur = {s} /\ smap[s] = "idle"
      /\ slave[s] # "off" /\ up'[s] = <<>>
      /\ Alive(s) => /\ slave[s] = "ready" /\ down[s] = <<>> /\ code[s]
                     /\ param[s] = point
  BY <1>1, ResultRead
<1>3. \A t \in Slaves \ {s} : SameLink(t) /\ smap'[t] = smap[t]
  BY <1>1 DEF Receives, SameLink, SendAs, SendFails, Deliver
<1>4. IdleMove /\ ~MasterGone'
  BY <1>1 DEF IdleMove, MasterGone
<1>5. CASE Alive(s)
  <2>1. /\ down' = [down EXCEPT ![s] = @ \o <<GetCpuTime>>]
        /\ smap' = [smap EXCEPT ![s] = "idle"] /\ pc' = "cputime" /\ cur' = {s}
    BY <1>1, <1>2, <1>5 DEF SendAs, SendFails, Deliver, Gone, Alive
  <2>2. down'[s] = <<GetCpuTime>>
    BY <1>2, <1>5, <2>1, Appends
  <2>3. LinkInv(s)' /\ UpInv(s)' /\ ViewInv(s)'
    BY <1>1, <1>2, <1>5, <2>1, <2>2 DEF LinkInv, UpInv, ViewInv, BeingRead, BeingCharged
  <2>4. MasterInv'
    BY <1>1, <1>2, <2>1 DEF MasterInv, MapInv
  <2> QED BY <1>1, <1>2, <1>3, <1>4, <2>1, <2>3, <2>4, DealStep
<1>6. CASE ~Alive(s)
  <2>1. LinkInv(s)' /\ ~Alive(s)'
    BY <1>1, <1>2, <1>6, Stopped DEF Alive
  <2>2. UpInv(s)'
    BY <1>2 DEF UpInv
  <2>3. \/ smap'[s] = "idle" /\ pc' = "cputime" /\ cur' = {s}
        \/ smap'[s] = "none" /\ pc' = "find" /\ cur' = {}
    BY <1>1, <1>2 DEF SendAs, SendFails
  <2>4. MasterInv'
    BY <1>1, <1>2, <1>3, <2>3 DEF MasterInv, MapInv
  <2> QED BY <1>1, <1>2, <1>3, <1>4, <2>1, <2>2, <2>3, <2>4, DealStep
<1> QED BY <1>5, <1>6

LEMMA ReadCpuTimeProtocol ==
  ASSUME TypeOK, ProtocolInv, NEW s \in Slaves, ReadCpuTime(s)
  PROVE  ProtocolInv'
<1> USE DEF TypeOK, ClusterTypeOK
<1>1. /\ pc = "cputime" /\ pc' = "find" /\ point' = point /\ cur' = {} /\ s \in cur
      /\ UNCHANGED <<open, backlog, smap, down, slave, code, param>>
      /\ up[s] # <<>> /\ up' = [up EXCEPT ![s] = Tail(@)]
  BY DEF ReadCpuTime, Receives
<1>2. open /\ MasterInv /\ LinkInv(s) /\ UpInv(s) /\ (Alive(s) => ViewInv(s))
  BY <1>1, AtWork DEF MasterGone
<1>3. cur = {s} /\ smap[s] = "idle" /\ BeingCharged(s) /\ ~BeingRead(s)
  BY <1>1, <1>2 DEF MasterInv, BeingRead, BeingCharged
<1>4. up[s] = <<CpuTime>>
  BY <1>1, <1>2, <1>3 DEF UpInv
<1>5. up'[s] = <<>>
  BY <1>1, <1>4, Tails
<1>6. \A t \in Slaves \ {s} : SameLink(t) /\ smap'[t] = smap[t]
  BY <1>1 DEF SameLink
<1>7. slave[s] # "off"
  BY <1>2, <1>3 DEF LinkInv
<1>8. Alive(s) => /\ slave[s] = "ready" /\ code[s] /\ param[s] = point /\ down[s] = <<>>
  BY <1>1, <1>2, <1>3 DEF ViewInv
<1>9. LinkInv(s)' /\ UpInv(s)'
  BY <1>1, <1>5, <1>7, <1>8 DEF LinkInv, UpInv, Alive
<1>10. Alive(s)' => ViewInv(s)'
  BY <1>1, <1>3, <1>8 DEF ViewInv, IdleInv, BeingRead, BeingCharged, Alive
<1>11. MasterInv'
  BY <1>1, <1>2, <1>3 DEF MasterInv, MapInv
<1>12. IdleMove /\ ~MasterGone'
  BY <1>1 DEF IdleMove, MasterGone
<1> QED BY <1>1, <1>2, <1>3, <1>6, <1>9, <1>10, <1>11, <1>12, DealStep

LEMMA ReadFailsProtocol ==
  ASSUME TypeOK, ProtocolInv, NEW s \in Slaves, ReadFails(s)
  PROVE  ProtocolInv'
<1> USE DEF TypeOK, ClusterTypeOK
<1>1. /\ pc \in {"result", "cputime"} /\ pc' = "find" /\ point' = point /\ cur' = {}
      /\ s \in cur /\ Gone(s) /\ up[s] = <<>>
      /\ smap' = [smap EXCEPT ![s] = "none"] /\ UNCHANGED <<open, backlog, linkVars>>
  BY DEF ReadFails, ReceiveFails
<1>2. open /\ MasterInv /\ cur = {s} /\ smap[s] = "idle"
  BY <1>1, AtWork DEF MasterGone, MasterInv
<1>3. \A t \in Slaves : SameLink(t)
  BY <1>1 DEF SameLink, linkVars
<1>4. LinkInv(s)' /\ ~Alive(s)' /\ UpInv(s)'
  BY <1>1, <1>3, Stopped DEF SameLink, Gone, UpInv
<1>5. MasterInv'
  BY <1>1, <1>2 DEF MasterInv, MapInv
<1>6. IdleMove /\ ~MasterGone'
  BY <1>1 DEF IdleMove, MasterGone
<1> QED BY <1>1, <1>2, <1>3, <1>4, <1>5, <1>6, DealStep

(***************************************************************************)
(* Steps of the master: from one value to the next, and the end            *)
(***************************************************************************)
LEMMA StartEstimateProtocol ==
  ASSUME TypeOK, ProtocolInv, StartEstimate
  PROVE  ProtocolInv'
<1> USE DEF TypeOK, ClusterTypeOK
<1>1. /\ pc = "setup" /\ point' = point /\ cur' = cur /\ UNCHANGED <<open, backlog, linkVars>>
  BY DEF StartEstimate
<1>2. open /\ MasterInv /\ cur = {}
  BY <1>1, AtWork DEF MasterGone, MasterInv
<1>3. CASE Local
  <2>1. UNCHANGED clusterVars /\ pc' = "local"
    BY <1>1, <1>3 DEF StartEstimate, clusterVars, linkVars
  <2>2. MapInv => MapInv'
    BY <1>3, <2>1 DEF MapInv, clusterVars
  <2>3. \A t \in Slaves : smap[t] = "none"
    BY <1>2, <1>3 DEF MasterInv, MapInv
  <2>4. \A t \in Slaves : UpInv(t)' /\ (Alive(t)' => ViewInv(t)')
    BY <1>1, <1>2, <2>1, <2>3, KeepSlave DEF ProtocolInv, SameLink, clusterVars
  <2>5. \A t \in Slaves : LinkInv(t)'
    BY <2>1, LinkFrame DEF clusterVars, ProtocolInv
  <2> QED BY <1>1, <1>2, <2>1, <2>2, <2>4, <2>5 DEF ProtocolInv, MasterInv, MasterGone
<1>4. CASE ~Local
  <2>1. /\ pc' = "init"
        /\ \A t \in Slaves : smap'[t] = IF smap[t] = "idle" THEN "new" ELSE smap[t]
    BY <1>4 DEF StartEstimate, ResetSlaves
  <2>2. ASSUME NEW t \in Slaves
        PROVE  LinkInv(t)' /\ UpInv(t)' /\ (Alive(t)' => ViewInv(t)')
    <3>1. LinkInv(t) /\ UpInv(t) /\ (Alive(t) => ViewInv(t)) /\ SameLink(t)
      BY <1>1, <1>2 DEF ProtocolInv, SameLink, linkVars
    <3>2. CASE smap[t] = "idle"
      <4>1. slave[t] # "off" /\ up[t] = <<>> /\ (Alive(t) => IdleInv(t))
        BY <1>1, <1>2, <3>1, <3>2
           DEF LinkInv, UpInv, ViewInv, BeingRead, BeingCharged
      <4>2. Alive(t) => slave[t] = "ready" /\ down[t] = <<>>
        BY <1>1, <4>1 DEF IdleInv
      <4> QED BY <1>1, <1>2, <2>1, <3>1, <3>2, <4>1, <4>2
              DEF LinkInv, UpInv, ViewInv, BeingRead, BeingCharged, Alive, SameLink
    <3>3. CASE smap[t] # "idle"
      <4>1. LinkInv(t)'
        BY <1>1, <2>1, <3>1, <3>3, LinkFrame DEF SameLink
      <4>2. UpInv(t)' /\ (Alive(t)' => ViewInv(t)')
        BY <1>1, <1>2, <2>1, <3>1, <3>3, KeepSlave
      <4> QED BY <4>1, <4>2
    <3> QED BY <3>2, <3>3
  <2>3. MasterInv'
    BY <1>1, <1>2, <1>4, <2>1 DEF MasterInv, MapInv
  <2> QED BY <1>1, <1>2, <2>1, <2>2, <2>3 DEF ProtocolInv, MasterGone
<1> QED BY <1>3, <1>4

LEMMA NextPointProtocol ==
  ASSUME TypeOK, ProtocolInv, NextPoint
  PROVE  ProtocolInv'
<1>1. /\ pc = "next" /\ cur' = cur /\ UNCHANGED <<backlog, smap, linkVars>>
      /\ \/ pc' \in {"disable", "setup"} /\ open' = open
         \/ pc' = "aborted" /\ open' = FALSE
  BY DEF NextPoint
<1>2. open /\ MasterInv /\ cur = {}
  BY <1>1, AtWork DEF MasterGone, MasterInv
<1>3. CASE pc' \in {"disable", "setup"} /\ open' = open
  <2>1. UNCHANGED clusterVars
    BY <1>1, <1>3 DEF clusterVars, linkVars
  <2>2. MapInv => MapInv'
    BY <1>1, <1>3 DEF MapInv
  <2>3. IdleMove /\ ~MasterGone'
    BY <1>1, <1>3 DEF IdleMove, MasterGone
  <2> QED BY <1>1, <1>2, <1>3, <2>1, <2>2, <2>3, MoveStep
<1>4. CASE pc' = "aborted" /\ open' = FALSE
  BY <1>1, <1>4, GoneStep DEF MasterGone, SameLink, linkVars
<1> QED BY <1>1, <1>3, <1>4

LEMMA KillIdleSlaveProtocol ==
  ASSUME TypeOK, ProtocolInv, NEW s \in Slaves, KillIdleSlave(s)
  PROVE  ProtocolInv'
<1> USE DEF TypeOK, ClusterTypeOK
<1>1. /\ pc = "disable" /\ point' = point /\ cur' = cur /\ smap[s] = "idle"
      /\ UNCHANGED <<backlog, up, slave, code, param>>
      /\ \/ SendAs(s, <<Die>>, "working") /\ pc' = pc /\ open' = open
         \/ SendFails(s) /\ pc' = "aborted" /\ open' = FALSE
  BY DEF KillIdleSlave
<1>2. open /\ MasterInv /\ LinkInv(s) /\ UpInv(s) /\ (Alive(s) => ViewInv(s)) /\ cur = {}
  BY <1>1, AtWork DEF MasterGone, MasterInv
<1>3. up[s] = <<>> /\ slave[s] # "off"
  BY <1>1, <1>2 DEF UpInv, BeingRead, BeingCharged, LinkInv
<1>4. \A t \in Slaves \ {s} : SameLink(t) /\ smap'[t] = smap[t]
  BY <1>1, Sends
<1>5. CASE SendAs(s, <<Die>>, "working") /\ pc' = pc /\ open' = open
  <2>1. LinkInv(s)' /\ (Alive(s)' => ViewInv(s)')
    <3>1. CASE slave[s] \notin {"ready", "working"}
      BY <1>1, <1>3, <3>1, Stopped
    <3>2. CASE slave[s] \in {"ready", "working"}
      <4>1. slave[s] = "ready" /\ down[s] = <<>>
        BY <1>1, <1>2, <3>2 DEF ViewInv, IdleInv, Alive
      <4>2. down'[s] = <<>> \o <<Die>> /\ smap'[s] = "working"
        BY <1>1, <4>1, Sends, <1>5 DEF Gone, SendAs, Deliver
      <4>3. down'[s] = <<Die>>
        BY <4>2, Appends
      <4> QED BY <1>1, <1>2, <1>3, <1>5, <4>1, <4>2, <4>3
              DEF LinkInv, ViewInv, BeingRead, BeingCharged
    <3> QED BY <3>1, <3>2
  <2>2. MasterInv'
    BY <1>1, <1>2, <1>5 DEF MasterInv, MapInv, SendAs
  <2>3. UpInv(s)' /\ IdleMove /\ ~MasterGone'
    BY <1>1, <1>3, <1>5 DEF UpInv, IdleMove, MasterGone
  <2> QED BY <1>1, <1>2, <1>4, <1>5, <2>1, <2>2, <2>3, DealStep
<1>6. CASE SendFails(s) /\ pc' = "aborted" /\ open' = FALSE
  <2>1. SameLink(s)
    BY <1>1, <1>6 DEF SendFails, SameLink
  <2> QED BY <1>1, <1>3, <1>4, <1>6, <2>1, GoneStep DEF MasterGone
<1> QED BY <1>1, <1>5, <1>6

LEMMA ExitProtocol ==
  ASSUME TypeOK, ProtocolInv, Exit
  PROVE  ProtocolInv'
BY GoneStep DEF Exit, MasterGone, SameLink, linkVars

(***************************************************************************)
(* Steps of the user                                                       *)
(***************************************************************************)
LEMMA SigIntProtocol ==
  ASSUME TypeOK, ProtocolInv, SigInt
  PROVE  ProtocolInv'
<1>1. /\ ~MasterGone /\ cur' = cur /\ point' = point /\ UNCHANGED <<backlog, smap, linkVars>>
      /\ \/ pc' = pc /\ open' = open
         \/ pc = "wait" /\ pc' = "accept" /\ open' = open
         \/ pc' = "killed" /\ open' = FALSE
  BY DEF SigInt
<1>2. open /\ MasterInv
  BY <1>1, AtWork
<1>3. CASE pc' = pc /\ open' = open
  <2>1. \A t \in Slaves : UpInv(t)' /\ (Alive(t)' => ViewInv(t)')
    BY <1>1, <1>2, <1>3, ViewFrame DEF ProtocolInv, linkVars
  <2>2. \A t \in Slaves : LinkInv(t)'
    BY <1>1, LinkFrame DEF ProtocolInv, linkVars
  <2>3. MasterInv'
    BY <1>1, <1>2, <1>3 DEF MasterInv, MapInv
  <2> QED BY <1>1, <1>2, <1>3, <2>1, <2>2, <2>3 DEF ProtocolInv, MasterGone
<1>4. CASE pc = "wait" /\ pc' = "accept" /\ open' = open
  <2>1. UNCHANGED clusterVars
    BY <1>1, <1>4 DEF clusterVars, linkVars
  <2>2. cur = {} /\ (MapInv => MapInv')
    BY <1>1, <1>2, <1>4 DEF MasterInv, MapInv
  <2>3. IdleMove /\ ~MasterGone'
    BY <1>1, <1>4 DEF IdleMove, MasterGone
  <2> QED BY <1>1, <1>2, <1>4, <2>1, <2>2, <2>3, MoveStep
<1>5. CASE pc' = "killed" /\ open' = FALSE
  BY <1>1, <1>5, GoneStep DEF MasterGone, SameLink, linkVars
<1> QED BY <1>1, <1>3, <1>4, <1>5

(* Nothing the invariant is about changes.                                 *)
LEMMA ProtocolFrame ==
  ASSUME ProtocolInv, UNCHANGED <<clusterVars, sweepVars>>
  PROVE  ProtocolInv'
<1> USE DEF clusterVars, sweepVars
<1>1. \A t \in Slaves : LinkInv(t)'
  BY LinkFrame DEF ProtocolInv
<1>2. open => \A t \in Slaves : UpInv(t)' /\ (Alive(t)' => ViewInv(t)')
  BY ViewFrame DEF ProtocolInv
<1>3. open /\ MasterInv => MasterInv'
  BY DEF MasterInv, MapInv
<1> QED BY <1>1, <1>2, <1>3 DEF ProtocolInv, MasterGone

(***************************************************************************)
(* The invariant                                                           *)
(***************************************************************************)
LEMMA ProtocolInit ==
  ASSUME Init
  PROVE  ProtocolInv
<1>1. \A s \in Slaves : LinkInv(s) /\ UpInv(s) /\ ~Alive(s)
  BY DEF Init, ClusterInit, LinkInv, UpInv, Alive
<1>2. MasterInv
  BY DEF Init, ClusterInit, MasterInv, MapInv
<1> QED BY <1>1, <1>2 DEF Init, ClusterInit, ProtocolInv, MasterGone

LEMMA MasterProtocol ==
  ASSUME TypeOK, EstimateInv, ProtocolInv, MasterNext
  PROVE  ProtocolInv'
<1>1. CASE StartEstimate
  BY <1>1, StartEstimateProtocol
<1>2. CASE \/ SampleAndAccumulate \/ NoNewSlave \/ NoIdleSlave \/ NoPendingSlave
           \/ UpdateResults \/ CheckInterrupt \/ WriteFinalResults
  BY <1>2, MovesProtocol
<1>3. CASE \E s \in Slaves : InitSlave(s) \/ WorkIdleSlave(s)
  BY <1>3, InitSlaveProtocol, WorkIdleSlaveProtocol
<1>4. CASE MasterWait \/ \E s \in Slaves : MasterAccept(s)
  BY <1>4, WaitsProtocol
<1>5. CASE \E s \in Slaves : FindPendingSlave(s) \/ DiscardResult(s)
  BY <1>5, FindPendingSlaveProtocol, DiscardResultProtocol
<1>6. CASE \E s \in Slaves : AccumulateResult(s) \/ ReadCpuTime(s) \/ ReadFails(s)
  BY <1>6, AccumulateResultProtocol, ReadCpuTimeProtocol, ReadFailsProtocol
<1>7. CASE NextPoint
  BY <1>7, NextPointProtocol
<1>8. CASE (\E s \in Slaves : KillIdleSlave(s)) \/ Exit
  BY <1>8, KillIdleSlaveProtocol, ExitProtocol
<1> QED BY <1>1, <1>2, <1>3, <1>4, <1>5, <1>6, <1>7, <1>8 DEF MasterNext

LEMMA ProtocolStep ==
  ASSUME TypeOK, EstimateInv, ProtocolInv, [Next]_vars
  PROVE  ProtocolInv'
<1>1. CASE MasterNext
  BY <1>1, MasterProtocol
<1>2. CASE ~Local /\ \E s \in Slaves : SlaveNext(s) /\ UNCHANGED <<sweepVars, userVars>>
  BY <1>2, SlaveProtocol
<1>3. CASE \E k \in Keys : PressKey(k)
  BY <1>3, ProtocolFrame DEF PressKey
<1>4. CASE SigInt
  BY <1>4, SigIntProtocol
<1>5. CASE Finished \/ UNCHANGED vars
  BY <1>5, ProtocolFrame DEF Finished, vars
<1> QED BY <1>1, <1>2, <1>3, <1>4, <1>5 DEF Next

(***************************************************************************)
(* What a run checks of the protocol, and the user's interrupts            *)
(***************************************************************************)
LEMMA ProtocolInvariant == Spec => []ProtocolInv
<1>1. Init => ProtocolInv
  BY ProtocolInit
<1> QED BY <1>1, ProtocolStep, EstimateInvariant, TypeCorrect, PTL DEF Spec

(* The master never blocks in waitforevent while a slave it could give     *)
(* work to is idle, new or unread.                                         *)
THEOREM BusyWaiting == Spec => []BusyWhileWaiting
<1>1. TypeOK /\ ProtocolInv => BusyWhileWaiting
  <2> SUFFICES ASSUME TypeOK, ProtocolInv, pc \in {"wait", "accept"}, NEW s \in Connected
               PROVE  smap[s] = "working"
    BY DEF BusyWhileWaiting
  <2>1. MasterInv
    BY AtWork DEF MasterGone
  <2> QED BY <2>1 DEF MasterInv, MapInv, Connected, TypeOK, ClusterTypeOK, MasterView
<1> QED BY <1>1, ProtocolInvariant, TypeCorrect, PTL

(* The untyped reads of readpendingslaves and updatecputime always find    *)
(* the reply they are for.                                                 *)
THEOREM InStep == Spec => []RepliesInStep
<1>1. ProtocolInv => RepliesInStep
  <2> SUFFICES ASSUME ProtocolInv, NEW s \in cur, up[s] # <<>>
               PROVE  /\ pc = "result" => Head(up[s]).tag = "result"
                      /\ pc = "cputime" => Head(up[s]).tag = "cputime"
    BY DEF RepliesInStep
  <2>1. ASSUME pc = "result" PROVE Head(up[s]).tag = "result"
    <3>1. s \in Slaves /\ smap[s] = "idle" /\ UpInv(s)
      BY <2>1, AtWork DEF MasterGone, MasterInv
    <3>2. PICK p \in 0..NumPoints, n \in Batches : up[s] = <<Result(p, n)>>
      BY <2>1, <3>1 DEF UpInv, BeingCharged
    <3> QED BY <3>2, Tails, Tags
  <2>2. ASSUME pc = "cputime" PROVE Head(up[s]).tag = "cputime"
    <3>1. s \in Slaves /\ smap[s] = "idle" /\ UpInv(s)
      BY <2>2, AtWork DEF MasterGone, MasterInv
    <3>2. up[s] = <<CpuTime>>
      BY <2>2, <3>1 DEF UpInv, BeingRead
    <3> QED BY <3>2, Tails, Tags
  <2> QED BY <2>1, <2>2
<1> QED BY <1>1, ProtocolInvariant, PTL

(* slave_work never runs without a system or without a parameter.          *)
THEOREM Configured == Spec => []WorkersConfigured
<1>1. ProtocolInv => WorkersConfigured
  BY NumPointsAssumption DEF ProtocolInv, LinkInv, Sampling, WorkersConfigured, Points
<1> QED BY <1>1, ProtocolInvariant, PTL

(***************************************************************************)
(* The parameter of an idle slave                                          *)
(***************************************************************************)
LEMMA LastOfConfigures ==
  ASSUME NEW s \in Slaves, NEW p \in Points, Configures(s, down[s], p)
  PROVE  LastParameter(s) = p
<1> DEFINE sent == {i \in 1..Len(down[s]) : down[s][i].tag = "slave_getparameter"}
<1>1. CASE down[s] = <<>>
  <2>1. sent = {}
    BY <1>1
  <2>2. param[s] = p
    BY <1>1 DEF Configures
  <2> QED BY <2>1, <2>2 DEF LastParameter
<1>2. CASE down[s] = <<GetParameter(p)>>
  <2>1. sent = {1} /\ down[s][1].point = p
    BY <1>2, Tags
  <2>2. (CHOOSE i \in sent : \A j \in sent : j <= i) = 1
    BY <2>1
  <2> QED BY <2>1, <2>2 DEF LastParameter
<1>3. CASE down[s] = <<GetCode, GetParameter(p)>>
  <2>1. Len(down[s]) = 2 /\ down[s][1] = GetCode /\ down[s][2] = GetParameter(p)
    BY <1>3
  <2>2. sent = {2} /\ down[s][2].point = p
    BY <2>1, Tags
  <2>3. (CHOOSE i \in sent : \A j \in sent : j <= i) = 2
    BY <2>2
  <2> QED BY <2>2, <2>3 DEF LastParameter
<1> QED BY <1>1, <1>2, <1>3 DEF Configures

(* Work is only ever assigned for the value being simulated.               *)
THEOREM Assigned == Spec => []AssignedCurrent
<1>1. TypeOK /\ ProtocolInv => AssignedCurrent
  <2> SUFFICES ASSUME TypeOK, ProtocolInv, NEW s \in Slaves,
                      pc = "assign", smap[s] = "idle", Alive(s)
               PROVE  LastParameter(s) = point
    BY DEF AssignedCurrent
  <2>1. ViewInv(s) /\ cur = {}
    BY AtWork DEF MasterGone, MasterInv
  <2>2. Configures(s, down[s], point)
    BY <2>1 DEF ViewInv, IdleInv
  <2>3. PICK p \in Points : p = point
    BY DEF TypeOK
  <2> QED BY <2>2, <2>3, LastOfConfigures
<1> QED BY <1>1, ProtocolInvariant, TypeCorrect, PTL

(***************************************************************************)
(* Interrupts                                                              *)
(***************************************************************************)
LEMMA LatchType ==
  ASSUME TypeOK
  PROVE  Latch \in {"none", "hard", "soft"}
<1>1. CASE intr # "none"
  BY <1>1 DEF Latch, TypeOK
<1>2. CASE intr = "none" /\ sigint
  BY <1>2 DEF Latch
<1>3. CASE intr = "none" /\ ~sigint /\ keys = <<>>
  BY <1>3 DEF Latch
<1>4. CASE intr = "none" /\ ~sigint /\ keys # <<>>
  <2> DEFINE first == CASE Head(keys) = "q" -> "hard"
                        [] Head(keys) = "s" -> "soft"
                        [] OTHER -> "none"
  <2>1. first \in {"none", "hard", "soft"}
    OBVIOUS
  <2>2. Latch = first
    BY <1>4 DEF Latch
  <2> QED BY <2>1, <2>2
<1> QED BY <1>1, <1>2, <1>3, <1>4

LEMMA InterruptStep ==
  ASSUME TypeOK, InterruptInv, [Next]_vars
  PROVE  /\ InterruptInv'
         /\ intr # "none" =>
              /\ samples' = samples
              /\ point' # point => intr = "soft" /\ intr' = "none"
<1> DEFINE Spent == intr # "none" =>
                      /\ samples' = samples
                      /\ point' # point => intr = "soft" /\ intr' = "none"
<1> USE DEF InterruptInv, MasterGone
<1>1. CASE StartEstimate \/ SampleAndAccumulate
  BY <1>1 DEF StartEstimate, SampleAndAccumulate, userVars
<1>2. CASE \E s \in Slaves : InitSlave(s) \/ WorkIdleSlave(s)
  BY <1>2 DEF InitSlave, WorkIdleSlave, sweepVars, userVars
<1>3. CASE NoNewSlave \/ NoIdleSlave \/ MasterWait \/ \E s \in Slaves : MasterAccept(s)
  BY <1>3 DEF NoNewSlave, NoIdleSlave, MasterWait, MasterAccept, userVars
<1>4. CASE \E s \in Slaves : FindPendingSlave(s) \/ DiscardResult(s)
  BY <1>4 DEF FindPendingSlave, DiscardResult, userVars
<1>5. CASE \E s \in Slaves : AccumulateResult(s) \/ ReadCpuTime(s) \/ ReadFails(s)
  BY <1>5 DEF AccumulateResult, ReadCpuTime, ReadFails, userVars
<1>6. CASE NoPendingSlave \/ UpdateResults
  BY <1>6 DEF NoPendingSlave, UpdateResults, userVars
<1>7. CASE CheckInterrupt
  BY <1>7 DEF CheckInterrupt, EvaluateInterrupt, LoopEnds, Interrupted
<1>8. CASE WriteFinalResults
  BY <1>8 DEF WriteFinalResults, EvaluateInterrupt
<1>9. CASE NextPoint
  <2>1. intr # "none" => Latch = intr
    BY DEF Latch
  <2>2. /\ intr' = InterruptAfterPoint /\ samples' = samples
        /\ \/ pc' \in {"disable", "aborted"} /\ point' = point
           \/ pc' = "setup" /\ Latch # "hard"
    BY <1>9 DEF NextPoint
  <2>3. Latch \in {"none", "hard", "soft"}
    BY LatchType
  <2> QED BY <2>1, <2>2, <2>3 DEF InterruptAfterPoint
<1>10. CASE (\E s \in Slaves : KillIdleSlave(s)) \/ Exit
  BY <1>10 DEF KillIdleSlave, Exit, userVars
<1>11. CASE UNCHANGED <<sweepVars, userVars>> \/ Finished \/ UNCHANGED vars
  BY <1>11 DEF Finished, vars, sweepVars, userVars
<1>12. CASE (\E k \in Keys : PressKey(k)) \/ SigInt
  BY <1>12 DEF PressKey, SigInt, sweepVars
<1> QED BY <1>1, <1>2, <1>3, <1>4, <1>5, <1>6, <1>7, <1>8, <1>9, <1>10, <1>11, <1>12
        DEF Next, MasterNext

(* Once an interrupt is latched no sample is added, and it is spent with   *)
(* the value it stopped, whatever the slaves do meanwhile.                 *)
THEOREM Interrupts == Spec => InterruptSpent
<1>1. Init => InterruptInv
  BY DEF Init, InterruptInv
<1>2. TypeOK /\ InterruptInv /\ [Next]_vars
        => [intr # "none" =>
              /\ samples' = samples
              /\ point' # point => intr = "soft" /\ intr' = "none"]_vars
  BY InterruptStep
<1>3. TypeOK /\ InterruptInv /\ [Next]_vars => InterruptInv'
  BY InterruptStep
<1> QED BY <1>1, <1>2, <1>3, TypeCorrect, PTL DEF Spec, InterruptSpent

(***************************************************************************)
(* Batches outstanding                                                     *)
(***************************************************************************)
WorkSent(s) == Cardinality({i \in 1..Len(down[s]) : down[s][i].tag = "slave_work"})
ResultsSent(s) == Cardinality({i \in 1..Len(up[s]) : up[s][i].tag = "result"})

LEMMA NoWorkSent ==
  ASSUME NEW s \in Slaves, NEW p \in Points,
         down[s] \in {<<>>, <<GetCpuTime>>} \/ Configures(s, down[s], p)
  PROVE  WorkSent(s) = 0
<1> DEFINE asks == {i \in 1..Len(down[s]) : down[s][i].tag = "slave_work"}
<1>1. \/ down[s] = <<>> \/ down[s] = <<GetCpuTime>> \/ down[s] = <<GetParameter(p)>>
      \/ down[s] = <<GetCode, GetParameter(p)>>
  BY DEF Configures
<1>2. asks = {}
  <2>1. CASE down[s] = <<>>
    BY <2>1
  <2>2. CASE down[s] = <<GetCpuTime>>
    BY <2>2, Tags
  <2>3. CASE down[s] = <<GetParameter(p)>>
    BY <2>3, Tags
  <2>4. CASE down[s] = <<GetCode, GetParameter(p)>>
    <3>1. Len(down[s]) = 2 /\ down[s][1] = GetCode /\ down[s][2] = GetParameter(p)
      BY <2>4
    <3> QED BY <3>1, Tags
  <2> QED BY <1>1, <2>1, <2>2, <2>3, <2>4
<1> QED BY <1>2, FS_EmptySet DEF WorkSent

LEMMA OneWorkSent ==
  ASSUME NEW s \in Slaves, NEW p \in Points, Asked(s, p)
  PROVE  WorkSent(s) = 1
<1> DEFINE asks == {i \in 1..Len(down[s]) : down[s][i].tag = "slave_work"}
<1>1. CASE down[s] = <<Work>>
  <2>1. asks = {1}
    BY <1>1, Tags
  <2> QED BY <2>1, FS_Singleton DEF WorkSent
<1>2. CASE down[s] = <<GetParameter(p), Work>>
  <2>1. Len(down[s]) = 2 /\ down[s][1] = GetParameter(p) /\ down[s][2] = Work
    BY <1>2
  <2>2. asks = {2}
    BY <2>1, Tags
  <2> QED BY <2>2, FS_Singleton DEF WorkSent
<1>3. CASE down[s] = <<GetCode, GetParameter(p), Work>>
  <2>1. /\ Len(down[s]) = 3 /\ down[s][1] = GetCode /\ down[s][2] = GetParameter(p)
        /\ down[s][3] = Work
    BY <1>3
  <2>2. asks = {3}
    BY <2>1, Tags
  <2> QED BY <2>2, FS_Singleton DEF WorkSent
<1> QED BY <1>1, <1>2, <1>3 DEF Asked

LEMMA ResultsCounted ==
  ASSUME NEW s \in Slaves
  PROVE  /\ up[s] \in {<<>>, <<CpuTime>>} => ResultsSent(s) = 0
         /\ \A p \in 0..NumPoints, n \in Batches :
              up[s] = <<Result(p, n)>> => ResultsSent(s) = 1
<1> DEFINE given == {i \in 1..Len(up[s]) : up[s][i].tag = "result"}
<1>1. ASSUME up[s] \in {<<>>, <<CpuTime>>} PROVE given = {}
  BY <1>1, Tags
<1>2. ASSUME NEW p \in 0..NumPoints, NEW n \in Batches, up[s] = <<Result(p, n)>>
      PROVE  given = {1}
  BY <1>2, Tags
<1> QED BY <1>1, <1>2, FS_EmptySet, FS_Singleton DEF ResultsSent

LEMMA InWorkCounted ==
  ASSUME TypeOK, NEW s \in Slaves, InWork(s)
  PROVE  Outstanding(s) = 1
<1>1. Outstanding(s) = WorkSent(s) + ResultsSent(s) + (IF slave[s] = "working" THEN 1 ELSE 0)
  BY DEF Outstanding, WorkSent, ResultsSent
<1>2. PICK q \in Points : q = point
  BY DEF TypeOK
<1>3. CASE slave[s] = "ready" /\ up[s] = <<>> /\ \E p \in Points : Asked(s, p)
  BY <1>1, <1>3, OneWorkSent, ResultsCounted
<1>4. CASE up[s] = <<>> /\ Sampling(s)
  BY <1>1, <1>2, <1>4, NoWorkSent, ResultsCounted DEF Sampling
<1>5. CASE /\ slave[s] = "ready" /\ down[s] = <<>> /\ code[s]
           /\ \E n \in Batches : up[s] = <<Result(param[s], n)>>
  <2>1. param[s] \in 0..NumPoints
    BY DEF TypeOK, ClusterTypeOK
  <2> QED BY <1>1, <1>2, <1>5, <2>1, NoWorkSent, ResultsCounted
<1> QED BY <1>3, <1>4, <1>5 DEF InWork

(* The master's table never lies about a slave that runs: each one marked  *)
(* working owes exactly one batch, and any other owes none.                *)
THEOREM OneBatch == Spec => []OneBatchOutstanding
<1>1. TypeOK /\ ProtocolInv => OneBatchOutstanding
  <2> SUFFICES ASSUME TypeOK, ProtocolInv, NEW s \in Slaves,
                      open, pc # "disable", Alive(s)
               PROVE  Outstanding(s) = IF \/ smap[s] \in {"working", "eventpending"}
                                          \/ pc = "result" /\ s \in cur THEN 1 ELSE 0
    BY DEF OneBatchOutstanding
  <2>1. UpInv(s) /\ ViewInv(s) /\ MasterInv /\ smap[s] \in MasterView
    BY DEF ProtocolInv, TypeOK, ClusterTypeOK
  <2>2. CASE smap[s] \in {"working", "eventpending"} \/ BeingRead(s)
    <3>1. InWork(s)
      BY <2>1, <2>2 DEF ViewInv
    <3> QED BY <2>2, <3>1, InWorkCounted DEF BeingRead
  <2>3. CASE smap[s] \notin {"working", "eventpending"} /\ ~BeingRead(s)
    <3>1. PICK p \in Points : p = point
      BY DEF TypeOK
    <3>2. /\ slave[s] = "ready"
          /\ down[s] \in {<<>>, <<GetCpuTime>>} \/ Configures(s, down[s], point)
      <4>1. CASE smap[s] \in {"none", "new"}
        BY <2>1, <4>1 DEF ViewInv
      <4>2. CASE smap[s] = "idle" /\ s \notin cur
        BY <2>1, <4>2 DEF ViewInv, IdleInv
      <4>3. CASE s \in cur
        BY <2>1, <2>3, <4>3 DEF MasterInv, ViewInv, BeingCharged, BeingRead
      <4> QED BY <2>1, <2>3, <4>1, <4>2, <4>3 DEF MasterView
    <3>3. up[s] \in {<<>>, <<CpuTime>>}
      BY <2>1, <2>3 DEF UpInv
    <3>4. WorkSent(s) = 0
      BY <3>1, <3>2, NoWorkSent
    <3>5. ResultsSent(s) = 0
      BY <3>3, ResultsCounted
    <3> QED BY <2>3, <3>2, <3>4, <3>5 DEF Outstanding, WorkSent, ResultsSent, BeingRead
  <2> QED BY <2>2, <2>3
<1> QED BY <1>1, ProtocolInvariant, TypeCorrect, PTL

(***************************************************************************)
(* The rows of the sweep                                                   *)
(***************************************************************************)
LEMMA RowWritten ==
  ASSUME TypeOK, WriteFinalResults
  PROVE  /\ Len(rows) \in Nat
         /\ \/ samples = 0 /\ rows' = rows
            \/ /\ samples > 0
               /\ Len(rows') = Len(rows) + 1
               /\ \A i \in 1..Len(rows) : rows'[i] = rows[i]
               /\ rows'[Len(rows) + 1].point = point
               /\ rows'[Len(rows) + 1].samples = samples
               /\ rows'[Len(rows) + 1].est = est
               /\ rows'[Len(rows) + 1].converged = converged
<1> DEFINE r == [point |-> point, samples |-> samples, est |-> est,
                 converged |-> converged, state |-> Interrupted]
<1>1. r \in Row /\ rows \in Seq(Row) /\ Len(rows) \in Nat /\ samples \in Nat
  BY LenProperties DEF Row, Interrupted, TypeOK
<1>2. r.point = point /\ r.samples = samples /\ r.est = est /\ r.converged = converged
  OBVIOUS
<1>3. samples # 0 => rows' = Append(rows, r)
  BY DEF WriteFinalResults
<1>4. samples = 0 => rows' = rows
  BY DEF WriteFinalResults
<1> HIDE DEF r
<1>5. CASE samples # 0
  <2>1. /\ Len(rows') = Len(rows) + 1
        /\ \A i \in 1..Len(rows) : rows'[i] = rows[i]
        /\ rows'[Len(rows) + 1] = r
    BY <1>1, <1>3, <1>5, AppendProperties
  <2> QED BY <1>1, <1>2, <1>5, <2>1
<1> QED BY <1>1, <1>4, <1>5

(* A slave reads the request to die only when it was sent at the end.      *)
LEMMA DeathAwaited ==
  ASSUME TypeOK, ProtocolInv, open, NEW s \in Slaves, SlaveDie(s)
  PROVE  s \notin backlog /\ pc = "disable" /\ smap[s] = "working"
<1>1. /\ slave[s] = "ready" /\ down[s] # <<>> /\ Head(down[s]).tag = "die"
      /\ SlaveReads(s) /\ up'[s] = up[s] /\ slave'[s] = "ended"
  BY DEF SlaveDie, Reads, SlaveReads, TypeOK, ClusterTypeOK
<1>2. ViewInv(s) /\ MasterInv
  BY <1>1 DEF ProtocolInv, Alive
<1>3. ~(SlaveGetCode(s) \/ SlaveGetParameter(s) \/ SlaveWork(s) \/ SlaveSendCpuTime(s))
  BY DEF SlaveDie, SlaveGetCode, SlaveGetParameter, SlaveWork, SlaveSendCpuTime, Reads
<1>4. \A p \in Points : ~Configures(s, down[s], p) /\ ~Asked(s, p)
  BY <1>1, <1>3, ConfiguresStep, AskedStep
<1>5. down[s] # <<GetCpuTime>>
  BY <1>1, <1>3, LoneRequestStep
<1>6. ~InWork(s)
  BY <1>1, <1>4 DEF InWork, Sampling
<1>7. s \notin cur
  BY <1>1, <1>2, <1>5, <1>6 DEF ViewInv, MasterInv, BeingRead, BeingCharged
<1>8. smap[s] # "idle"
  BY <1>1, <1>2, <1>4, <1>7 DEF ViewInv, IdleInv, TypeOK, PC
<1>9. smap[s] \in {"working", "eventpending"} /\ pc = "disable"
  BY <1>1, <1>2, <1>6, <1>8 DEF ViewInv, TypeOK, ClusterTypeOK, MasterView
<1> QED BY <1>2, <1>9 DEF MasterInv, MapInv

LEMMA GoneSlaves ==
  ASSUME TypeOK, ProtocolInv, ~Local, "crash" \notin Faults,
         \A t \in Slaves : GoneInv(t),
         NEW s \in Slaves, SlaveNext(s), UNCHANGED <<sweepVars, userVars>>
  PROVE  \A t \in Slaves : GoneInv(t)'
<1> USE DEF TypeOK, ClusterTypeOK
<1>1. open' = open /\ pc' = pc /\ smap' = smap
  BY DEF SlaveNext, Connect, ConnectFails, SlaveProcess, SlaveGetCode,
         SlaveGetParameter, SlaveWork, SlaveReturn, SlaveSendCpuTime, SlaveDie,
         SlaveLosesMaster, Crash, Hang, sweepVars
<1>2. \A t \in Slaves \ {s} : slave'[t] = slave[t] /\ (t \in backlog' => t \in backlog)
  BY DEF SlaveNext, Connect, ConnectFails, SlaveProcess, SlaveGetCode,
         SlaveGetParameter, SlaveWork, SlaveReturn, SlaveSendCpuTime, SlaveDie,
         SlaveLosesMaster, Crash, Hang, Reads
<1>3. ASSUME open, Gone(s)' PROVE GoneInv(s)'
  <2>1. CASE ConnectFails(s)
    BY <1>1, <2>1 DEF ConnectFails, ProtocolInv, LinkInv, GoneInv
  <2>2. CASE SlaveDie(s)
    BY <1>1, <1>3, <2>2, DeathAwaited DEF SlaveDie, GoneInv
  <2>3. CASE ~ConnectFails(s) /\ ~SlaveDie(s)
    BY <1>3, <2>3
       DEF SlaveNext, Connect, SlaveProcess, SlaveGetCode, SlaveGetParameter, SlaveWork,
           SlaveReturn, SlaveSendCpuTime, SlaveLosesMaster, Crash, Hang, Reads, Gone
  <2> QED BY <2>1, <2>2, <2>3
<1> QED BY <1>1, <1>2, <1>3 DEF GoneInv, Gone

(* The master sends to and reads from slaves that are not gone.            *)
LEMMA NotGone ==
  ASSUME TypeOK, ProtocolInv, ~MasterGone, NEW s \in Slaves, GoneInv(s)
  PROVE  /\ s \in cur \/ smap[s] \in {"new", "idle", "eventpending"}
              \/ (smap[s] = "working" /\ pc # "disable")
              \/ s \in backlog => ~Gone(s)
         /\ s \in cur \/ smap[s] \in {"new", "idle"} => ~SendFails(s)
         /\ s \in cur => ~ReceiveFails(s)
<1>1. open /\ MasterInv
  BY DEF ProtocolInv
<1>2. s \in cur => smap[s] = "idle"
  BY <1>1 DEF MasterInv, TypeOK, PC
<1> QED BY <1>1, <1>2 DEF GoneInv, SendFails, ReceiveFails

LEMMA GoneMaster ==
  ASSUME TypeOK, ProtocolInv, \A t \in Slaves : GoneInv(t), MasterNext
  PROVE  \A t \in Slaves : GoneInv(t)'
<1> USE DEF TypeOK, ClusterTypeOK, MasterView, GoneInv
<1> SUFFICES ASSUME open, NEW t \in Slaves, Gone(t), open', Gone(t)'
             PROVE  GoneInv(t)'
  <2>1. slave' = slave
    BY DEF MasterNext, StartEstimate, SampleAndAccumulate, InitSlave, WorkIdleSlave,
           NoNewSlave, NoIdleSlave, MasterWait, MasterAccept, FindPendingSlave,
           DiscardResult, AccumulateResult, ReadCpuTime, ReadFails, NoPendingSlave,
           UpdateResults, CheckInterrupt, WriteFinalResults, NextPoint, KillIdleSlave,
           Exit, linkVars, clusterVars
  <2>2. ~open => ~open'
    BY DEF MasterNext, StartEstimate, SampleAndAccumulate, InitSlave, WorkIdleSlave,
           NoNewSlave, NoIdleSlave, MasterWait, MasterAccept, FindPendingSlave,
           DiscardResult, AccumulateResult, ReadCpuTime, ReadFails, NoPendingSlave,
           UpdateResults, CheckInterrupt, WriteFinalResults, NextPoint, KillIdleSlave,
           Exit, clusterVars
  <2> QED BY <2>1, <2>2 DEF Gone
<1>0. ~MasterGone /\ t \notin backlog /\ t \notin cur /\ MasterInv
  BY NotGone DEF ProtocolInv
<1>1. CASE StartEstimate
  BY <1>0, <1>1 DEF StartEstimate, ResetSlaves
<1>2. CASE SampleAndAccumulate \/ NoNewSlave \/ NoIdleSlave
  BY <1>0, <1>2 DEF SampleAndAccumulate, NoNewSlave, NoIdleSlave, clusterVars
<1>3. ASSUME NEW s \in Slaves, InitSlave(s) \/ WorkIdleSlave(s) PROVE GoneInv(t)'
  <2>1. smap[s] \in {"new", "idle"} /\ s # t
    BY <1>3, <1>0, NotGone DEF InitSlave, WorkIdleSlave
  <2>2. smap'[t] = smap[t] /\ backlog' = backlog /\ pc' = pc
    BY <1>3, <2>1 DEF InitSlave, WorkIdleSlave, SendAs, SendFails, sweepVars
  <2> QED BY <1>0, <2>2
<1>4. CASE MasterWait
  BY <1>0, <1>4 DEF MasterWait, WaitForEvent, Readable, Connected
<1>5. ASSUME NEW s \in Slaves, MasterAccept(s) PROVE GoneInv(t)'
  BY <1>0, <1>5 DEF MasterAccept, AcceptThenMarkAll, Connected
<1>6. ASSUME NEW s \in Slaves, FindPendingSlave(s) PROVE GoneInv(t)'
  BY <1>0, <1>6 DEF FindPendingSlave
<1>7. ASSUME NEW s \in Slaves, DiscardResult(s) \/ ReadFails(s) PROVE GoneInv(t)'
  <2>1. s # t
    BY <1>0, <1>7 DEF DiscardResult, ReadFails
  <2> QED BY <1>0, <1>7, <2>1 DEF DiscardResult, ReadFails, ResetSlave, ReceiveFails
<1>8. ASSUME NEW s \in Slaves, AccumulateResult(s) \/ ReadCpuTime(s) PROVE GoneInv(t)'
  <2>1. s # t
    BY <1>0, <1>8 DEF AccumulateResult, ReadCpuTime
  <2>2. smap'[t] = smap[t] /\ backlog' = backlog /\ pc # "disable"
    BY <1>8, <2>1 DEF AccumulateResult, ReadCpuTime, SendAs, SendFails
  <2> QED BY <1>0, <2>2
<1>9. CASE NoPendingSlave \/ UpdateResults \/ CheckInterrupt \/ WriteFinalResults
  BY <1>0, <1>9
     DEF NoPendingSlave, UpdateResults, CheckInterrupt, WriteFinalResults, clusterVars
<1>10. CASE NextPoint
  BY <1>0, <1>10 DEF NextPoint
<1>11. ASSUME NEW s \in Slaves, KillIdleSlave(s) PROVE GoneInv(t)'
  <2>1. s # t /\ ~SendFails(s)
    BY <1>0, <1>11, NotGone DEF KillIdleSlave
  <2> QED BY <1>0, <1>11, <2>1 DEF KillIdleSlave, SendAs
<1>12. CASE Exit
  BY <1>12 DEF Exit
<1> QED BY <1>1, <1>2, <1>3, <1>4, <1>5, <1>6, <1>7, <1>8, <1>9, <1>10, <1>11, <1>12
        DEF MasterNext

LEMMA RowsStep ==
  ASSUME TypeOK, ProtocolInv, Reliable, RowsInv, [Next]_vars
  PROVE  RowsInv'
<1> USE DEF RowsInv, MasterGone
<1>1. \A t \in Slaves : GoneInv(t)'
  <2>1. CASE MasterNext
    BY <2>1, GoneMaster
  <2>2. ASSUME ~Local, NEW s \in Slaves, SlaveNext(s), UNCHANGED <<sweepVars, userVars>>
        PROVE  \A t \in Slaves : GoneInv(t)'
    BY <2>2, GoneSlaves DEF Reliable
  <2>3. CASE (\E k \in Keys : PressKey(k)) \/ SigInt \/ Finished \/ UNCHANGED vars
    BY <2>3 DEF PressKey, SigInt, Finished, vars, clusterVars, linkVars, sweepVars,
                GoneInv, Gone
  <2> QED BY <2>1, <2>2, <2>3 DEF Next
<1> DEFINE Current == est # samples =>
                        MasterGone \/ pc = "cputime"
                          \/ (pc \in {"find", "result", "update"} /\ fresh)
<1> SUFFICES Current' /\ RowsReflectSamples'
  BY <1>1
<1>2. CASE StartEstimate \/ SampleAndAccumulate
  BY <1>2 DEF StartEstimate, SampleAndAccumulate, RowsReflectSamples
<1>3. ASSUME NEW s \in Slaves, InitSlave(s) \/ WorkIdleSlave(s)
      PROVE  Current' /\ RowsReflectSamples'
  BY <1>3 DEF InitSlave, WorkIdleSlave, sweepVars, RowsReflectSamples
<1>4. CASE NoNewSlave \/ NoIdleSlave \/ MasterWait \/ \E s \in Slaves : MasterAccept(s)
  BY <1>4 DEF NoNewSlave, NoIdleSlave, MasterWait, MasterAccept, RowsReflectSamples
<1>5. ASSUME NEW s \in Slaves, FindPendingSlave(s) \/ DiscardResult(s)
      PROVE  Current' /\ RowsReflectSamples'
  BY <1>5 DEF FindPendingSlave, DiscardResult, RowsReflectSamples
<1>6. ASSUME NEW s \in Slaves, AccumulateResult(s) PROVE Current' /\ RowsReflectSamples'
  <2>1. ~SendFails(s)
    BY <1>6, NotGone DEF AccumulateResult
  <2> QED BY <1>6, <2>1 DEF AccumulateResult, RowsReflectSamples
<1>7. ASSUME NEW s \in Slaves, ReadCpuTime(s) PROVE Current' /\ RowsReflectSamples'
  BY <1>7 DEF ReadCpuTime, RowsReflectSamples
<1>8. ASSUME NEW s \in Slaves PROVE ~ReadFails(s)
  BY <1>8, NotGone DEF ReadFails
<1>9. CASE NoPendingSlave
  BY <1>9 DEF NoPendingSlave, RowsReflectSamples
<1>10. CASE UpdateResults
  <2>1. samples' = samples /\ est' = samples /\ rows' = rows
    BY <1>10 DEF UpdateResults
  <2> QED BY <2>1 DEF RowsReflectSamples
<1>11. CASE CheckInterrupt
  BY <1>11 DEF CheckInterrupt, RowsReflectSamples
<1>12. CASE WriteFinalResults
  <2>1. est = samples /\ est' = est /\ samples' = samples
    BY <1>12 DEF WriteFinalResults
  <2>2. RowsReflectSamples'
    BY <1>12, <2>1, RowWritten DEF RowsReflectSamples
  <2> QED BY <2>1, <2>2
<1>13. CASE NextPoint
  BY <1>13 DEF NextPoint, RowsReflectSamples
<1>14. CASE (\E s \in Slaves : KillIdleSlave(s)) \/ Exit
  BY <1>14 DEF KillIdleSlave, Exit, RowsReflectSamples
<1>15. CASE UNCHANGED <<sweepVars, userVars>> \/ Finished \/ UNCHANGED vars
  BY <1>15 DEF Finished, vars, sweepVars, RowsReflectSamples
<1>16. CASE (\E k \in Keys : PressKey(k)) \/ SigInt
  BY <1>16 DEF PressKey, SigInt, sweepVars, RowsReflectSamples
<1> QED BY <1>2, <1>3, <1>4, <1>5, <1>6, <1>7, <1>8, <1>9, <1>10, <1>11, <1>12, <1>13,
           <1>14, <1>15, <1>16 DEF Next, MasterNext

LEMMA RowsInvariant == ASSUME Reliable PROVE Spec => []RowsInv
<1>1. Init => RowsInv
  BY DEF Init, ClusterInit, RowsInv, GoneInv, Gone, RowsReflectSamples
<1>2. TypeOK /\ ProtocolInv /\ RowsInv /\ [Next]_vars => RowsInv'
  BY RowsStep
<1> QED BY <1>1, <1>2, ProtocolInvariant, TypeCorrect, PTL DEF Spec

(* As long as no slave crashes, the estimate of every row was made from    *)
(* all the samples that the row counts: a batch whose CPU time cannot be   *)
(* read is the only one that updateresults overlooks.                      *)
THEOREM RowsReflect == ASSUME Reliable PROVE Spec => []RowsReflectSamples
<1>1. RowsInv => RowsReflectSamples
  BY DEF RowsInv
<1> QED BY <1>1, RowsInvariant, PTL

LEMMA FloorStep ==
  ASSUME TypeOK, ProtocolInv, RowsInv, Unfloored, FloorInv, [Next]_vars
  PROVE  FloorInv'
<1> USE DEF FloorInv
<1>1. CASE StartEstimate
  BY <1>1 DEF StartEstimate
<1>2. CASE SampleAndAccumulate
  BY <1>2 DEF SampleAndAccumulate, TypeOK
<1>3. ASSUME NEW s \in Slaves, InitSlave(s) \/ WorkIdleSlave(s) PROVE FloorInv'
  BY <1>3 DEF InitSlave, WorkIdleSlave, sweepVars
<1>4. CASE NoNewSlave \/ NoIdleSlave \/ MasterWait \/ \E s \in Slaves : MasterAccept(s)
  BY <1>4 DEF NoNewSlave, NoIdleSlave, MasterWait, MasterAccept
<1>5. ASSUME NEW s \in Slaves,
             FindPendingSlave(s) \/ DiscardResult(s) \/ AccumulateResult(s)
               \/ ReadCpuTime(s) \/ ReadFails(s)
      PROVE  FloorInv'
  BY <1>5 DEF FindPendingSlave, DiscardResult, AccumulateResult, ReadCpuTime, ReadFails
<1>6. CASE NoPendingSlave
  BY <1>6 DEF NoPendingSlave
<1>7. CASE UpdateResults
  BY <1>7 DEF UpdateResults
<1>8. CASE CheckInterrupt
  BY <1>8 DEF CheckInterrupt, LoopHead
<1>9. CASE WriteFinalResults
  BY <1>9 DEF WriteFinalResults
<1>10. CASE NextPoint
  BY <1>10 DEF NextPoint, Unfloored
<1>11. ASSUME NEW s \in Slaves, KillIdleSlave(s) PROVE FloorInv'
  <2>1. ~SendFails(s)
    BY <1>11, NotGone DEF KillIdleSlave, RowsInv, MasterGone
  <2> QED BY <1>11, <2>1 DEF KillIdleSlave
<1>12. CASE Exit
  BY <1>12 DEF Exit
<1>13. CASE UNCHANGED <<sweepVars, userVars>> \/ Finished \/ UNCHANGED vars
  BY <1>13 DEF Finished, vars, sweepVars
<1>14. CASE (\E k \in Keys : PressKey(k)) \/ SigInt
  BY <1>14 DEF PressKey, SigInt, sweepVars, MasterGone
<1> QED BY <1>1, <1>2, <1>3, <1>4, <1>5, <1>6, <1>7, <1>8, <1>9, <1>10, <1>11, <1>12,
           <1>13, <1>14 DEF Next, MasterNext

(* No assertion stops the sweep without a cluster, whatever the floor and  *)
(* the user; nor with one, when no floor is given and no slave crashes.    *)
THEOREM SweepNotAborted == ASSUME Unfloored PROVE Spec => []NeverAborts
<1>1. Init => FloorInv
  BY DEF Init, FloorInv
<1>2. TypeOK /\ ProtocolInv /\ RowsInv /\ FloorInv /\ [Next]_vars => FloorInv'
  BY FloorStep
<1>3. FloorInv => NeverAborts
  BY DEF FloorInv, NeverAborts
<1>4. Reliable
  BY DEF Unfloored, Reliable
<1>5. Spec => []RowsInv
  BY <1>4, RowsInvariant
<1> QED BY <1>1, <1>2, <1>3, <1>5, ProtocolInvariant, TypeCorrect, PTL DEF Spec

(* The rows only grow, so that a value once closed stays closed.           *)
LEMMA Skips ==
  ASSUME NoPointSkipped, presses' = 0 /\ ~sigint' => presses = 0 /\ ~sigint,
         Len(rows) \in Nat, Len(rows') \in Nat, Len(rows') >= Len(rows),
         \A i \in 1..Len(rows) : rows'[i] = rows[i],
         \/ point' = point /\ (pc' \in {"next", "disable", "exited"}
                                 => pc \in {"next", "disable", "exited"})
         \/ point' = point + 1 /\ pc = "next" /\ pc' = "setup",
         point \in Nat
  PROVE  NoPointSkipped'
<1> SUFFICES ASSUME presses' = 0, ~sigint', NEW p \in Points,
                    p < point' \/ (p = point' /\ pc' \in {"next", "disable", "exited"})
             PROVE  \E i \in 1..Len(rows') : rows'[i].point = p /\ rows'[i].converged
  BY DEF NoPointSkipped
<1>1. p < point \/ (p = point /\ pc \in {"next", "disable", "exited"})
  BY DEF Points
<1>2. PICK i \in 1..Len(rows) : rows[i].point = p /\ rows[i].converged
  BY <1>1 DEF NoPointSkipped
<1>3. i \in 1..Len(rows') /\ rows'[i] = rows[i]
  BY <1>2
<1> QED BY <1>2, <1>3

LEMMA SkipStep ==
  ASSUME TypeOK, EstimateInv, SkipInv, [Next]_vars
  PROVE  SkipInv'
<1> DEFINE Quiet == Undisturbed => keys = <<>> /\ intr = "none"
                                   /\ (pc = "final" => converged)
<1> SUFFICES Quiet' /\ NoPointSkipped'
  BY DEF SkipInv
<1>0. Quiet /\ NoPointSkipped /\ point \in Nat /\ Len(rows) \in Nat
  BY LenProperties DEF SkipInv, TypeOK, Points
<1> USE DEF Undisturbed
<1>1. CASE StartEstimate \/ SampleAndAccumulate
  BY <1>0, <1>1, Skips DEF StartEstimate, SampleAndAccumulate, userVars
<1>2. ASSUME NEW s \in Slaves, InitSlave(s) \/ WorkIdleSlave(s)
      PROVE  Quiet' /\ NoPointSkipped'
  BY <1>0, <1>2, Skips DEF InitSlave, WorkIdleSlave, sweepVars, userVars
<1>3. CASE NoNewSlave \/ NoIdleSlave \/ MasterWait \/ \E s \in Slaves : MasterAccept(s)
  BY <1>0, <1>3, Skips DEF NoNewSlave, NoIdleSlave, MasterWait, MasterAccept, userVars
<1>4. ASSUME NEW s \in Slaves,
             FindPendingSlave(s) \/ DiscardResult(s) \/ AccumulateResult(s)
               \/ ReadCpuTime(s) \/ ReadFails(s)
      PROVE  Quiet' /\ NoPointSkipped'
  BY <1>0, <1>4, Skips
     DEF FindPendingSlave, DiscardResult, AccumulateResult, ReadCpuTime, ReadFails,
         userVars
<1>5. CASE NoPendingSlave
  BY <1>0, <1>5, Skips DEF NoPendingSlave, userVars
<1>6. CASE UpdateResults
  BY <1>0, <1>6, Skips DEF UpdateResults, userVars
<1>7. Undisturbed => Latch = "none"
  BY <1>0 DEF Latch
<1>8. CASE CheckInterrupt
  <2>1. Quiet'
    BY <1>0, <1>7, <1>8
       DEF CheckInterrupt, EvaluateInterrupt, ReadKeys, LoopEnds, Interrupted, LoopHead
  <2>2. NoPointSkipped'
    BY <1>0, <1>8, Skips DEF CheckInterrupt, EvaluateInterrupt, LoopHead
  <2> QED BY <2>1, <2>2
<1>9. CASE WriteFinalResults
  <2>1. Quiet'
    BY <1>0, <1>7, <1>9 DEF WriteFinalResults, EvaluateInterrupt, ReadKeys
  <2>2. NoPointSkipped'
    <3> SUFFICES ASSUME presses' = 0, ~sigint', NEW p \in Points,
                        p < point \/ p = point
                 PROVE  \E i \in 1..Len(rows') : rows'[i].point = p /\ rows'[i].converged
      BY <1>9 DEF WriteFinalResults, NoPointSkipped
    <3>1. pc = "final" /\ presses = 0 /\ ~sigint
      BY <1>9 DEF WriteFinalResults, EvaluateInterrupt
    <3>2. converged /\ samples >= MinSamples
      BY <1>0, <3>1 DEF EstimateInv
    <3>3. samples > 0
      BY <3>2, SamplesAssumption DEF TypeOK
    <3>4. /\ Len(rows') = Len(rows) + 1
          /\ \A i \in 1..Len(rows) : rows'[i] = rows[i]
          /\ rows'[Len(rows) + 1].point = point
          /\ rows'[Len(rows) + 1].converged = converged
      BY <1>9, <3>3, RowWritten
    <3>5. CASE p = point
      <4>1. Len(rows) + 1 \in 1..Len(rows')
        BY <1>0, <3>4
      <4>2. rows'[Len(rows) + 1].point = p /\ rows'[Len(rows) + 1].converged
        BY <3>2, <3>4, <3>5
      <4> QED BY <4>1, <4>2
    <3>6. CASE p < point
      <4>1. PICK i \in 1..Len(rows) : rows[i].point = p /\ rows[i].converged
        BY <3>1, <3>6 DEF SkipInv, NoPointSkipped
      <4> QED BY <1>0, <3>4, <4>1
    <3> QED BY <3>5, <3>6
  <2> QED BY <2>1, <2>2
<1>10. CASE NextPoint
  <2>1. Quiet'
    BY <1>0, <1>7, <1>10 DEF NextPoint, ReadKeys, InterruptAfterPoint
  <2>2. NoPointSkipped'
    BY <1>0, <1>10, Skips DEF NextPoint
  <2> QED BY <2>1, <2>2
<1>11. ASSUME NEW s \in Slaves, KillIdleSlave(s) PROVE Quiet' /\ NoPointSkipped'
  BY <1>0, <1>11, Skips DEF KillIdleSlave, userVars
<1>12. CASE Exit
  BY <1>0, <1>12, Skips DEF Exit, userVars
<1>13. CASE UNCHANGED <<sweepVars, userVars>> \/ Finished \/ UNCHANGED vars
  BY <1>0, <1>13, Skips DEF Finished, vars, sweepVars, userVars
<1>14. ASSUME NEW k \in Keys, PressKey(k) PROVE Quiet' /\ NoPointSkipped'
  BY <1>0, <1>14, Skips DEF PressKey, sweepVars, TypeOK
<1>15. CASE SigInt
  BY <1>0, <1>15, Skips DEF SigInt
<1> QED BY <1>1, <1>2, <1>3, <1>4, <1>5, <1>6, <1>8, <1>9, <1>10, <1>11, <1>12, <1>13,
           <1>14, <1>15 DEF Next, MasterNext

(* A user who does not interfere gets a converged row for every value the  *)
(* sweep has left behind, whatever the slaves do and the floor says.       *)
THEOREM PointsNotSkipped == Spec => []NoPointSkipped
<1>1. Init => SkipInv
  BY DEF Init, SkipInv, Undisturbed, NoPointSkipped, Points
<1>2. TypeOK /\ EstimateInv /\ SkipInv /\ [Next]_vars => SkipInv'
  BY SkipStep
<1>3. SkipInv => NoPointSkipped
  BY DEF SkipInv
<1> QED BY <1>1, <1>2, <1>3, EstimateInvariant, TypeCorrect, PTL DEF Spec

(***************************************************************************)
(* What a slave was last told                                              *)
(***************************************************************************)
LastTold(q, p) ==
  LET sent == {i \in 1..Len(q) : q[i].tag = "slave_getparameter"}
  IN  IF sent = {} THEN p
      ELSE q[CHOOSE i \in sent : \A j \in sent : j <= i].point

(* After reading q, a slave whose parameter is p has parameter v.          *)
Tells(q, p, v) ==
  \/ v = p /\ \A i \in 1..Len(q) : q[i].tag # "slave_getparameter"
  \/ \E i \in 1..Len(q) :
       /\ q[i].tag = "slave_getparameter" /\ q[i].point = v
       /\ \A j \in 1..Len(q) : q[j].tag = "slave_getparameter" => j <= i

LEMMA LastTells ==
  ASSUME NEW q \in Seq(Request), NEW p
  PROVE  /\ Tells(q, p, LastTold(q, p))
         /\ \A v : Tells(q, p, v) => v = LastTold(q, p)
<1> DEFINE sent == {i \in 1..Len(q) : q[i].tag = "slave_getparameter"}
           last == CHOOSE i \in sent : \A j \in sent : j <= i
<1>1. CASE sent = {}
  BY <1>1 DEF LastTold, Tells
<1>2. CASE sent # {}
  <2>1. sent \subseteq 1..Len(q) /\ Len(q) \in Nat
    BY LenProperties
  <2>2. \E i \in sent : \A j \in sent : j <= i
    <3> HIDE DEF sent
    <3> QED BY <1>2, <2>1, LargestMember
  <2>3. last \in sent /\ \A j \in sent : j <= last
    BY <2>2
  <2>4. LastTold(q, p) = q[last].point
    BY <1>2 DEF LastTold
  <2>5. Tells(q, p, LastTold(q, p))
    <3> HIDE DEF last
    <3> QED BY <2>3, <2>4 DEF Tells
  <2>6. ASSUME NEW v, Tells(q, p, v) PROVE v = LastTold(q, p)
    <3>1. PICK i \in sent : q[i].point = v /\ \A j \in sent : j <= i
      BY <1>2, <2>6 DEF Tells
    <3>2. i = last
      <4> HIDE DEF last
      <4>1. i <= last /\ last <= i /\ i \in Nat /\ last \in Nat
        BY <2>1, <2>3, <3>1
      <4> QED BY <4>1
    <3> QED BY <2>4, <3>1, <3>2
  <2> QED BY <2>5, <2>6
<1> QED BY <1>1, <1>2

LEMMA TellsFirst ==
  ASSUME NEW q \in Seq(Request), NEW p, NEW v, Tells(q, p, v), q # <<>>
  PROVE  IF Head(q).tag = "slave_getparameter" THEN Tells(Tail(q), Head(q).point, v)
         ELSE Tells(Tail(q), p, v)
<1>1. /\ Len(q) \in Nat \ {0} /\ Len(Tail(q)) = Len(q) - 1 /\ Head(q) = q[1]
      /\ \A i \in 1..Len(Tail(q)) : Tail(q)[i] = q[i + 1] /\ i + 1 \in 1..Len(q)
  OBVIOUS
<1> DEFINE r == Tail(q)
<1> HIDE DEF r
<1>2. /\ Len(r) = Len(q) - 1
      /\ \A i \in 1..Len(r) : r[i] = q[i + 1] /\ i + 1 \in 1..Len(q)
      /\ 1 \in 1..Len(q)
  BY <1>1 DEF r
<1>3. \A i \in 1..Len(q) : i # 1 => i - 1 \in 1..Len(r) /\ r[i - 1] = q[i]
  BY <1>1, <1>2
<1>4. CASE \A i \in 1..Len(q) : q[i].tag # "slave_getparameter"
  BY <1>1, <1>2, <1>4 DEF Tells, r
<1>5. ASSUME NEW i \in 1..Len(q),
             q[i].tag = "slave_getparameter", q[i].point = v,
             \A j \in 1..Len(q) : q[j].tag = "slave_getparameter" => j <= i
      PROVE  IF Head(q).tag = "slave_getparameter" THEN Tells(r, Head(q).point, v)
             ELSE Tells(r, p, v)
  <2>1. \A j \in 1..Len(r) : r[j].tag = "slave_getparameter" => j <= i - 1
    BY <1>2, <1>5
  <2>2. CASE i = 1
    <3>1. \A j \in 1..Len(r) : r[j].tag # "slave_getparameter"
      BY <2>1, <2>2, <1>1, <1>2
    <3> QED BY <1>1, <1>5, <2>2, <3>1 DEF Tells
  <2>3. CASE i # 1
    <3>1. i - 1 \in 1..Len(r) /\ r[i - 1] = q[i]
      BY <1>3, <2>3
    <3>2. \A x : Tells(r, x, v)
      BY <1>5, <2>1, <3>1 DEF Tells
    <3> QED BY <3>2
  <2> QED BY <2>2, <2>3
<1> QED BY <1>4, <1>5 DEF Tells, r

LEMMA TellsLone ==
  ASSUME NEW q \in Seq(Request), NEW p, NEW v, Tells(q, p, v),
         NEW m \in Request, m.tag # "slave_getparameter"
  PROVE  Tells(q \o <<m>>, p, v)
<1> DEFINE r == q \o <<m>>
<1>1. /\ Len(q) \in Nat /\ Len(r) = Len(q) + 1
      /\ \A i \in 1..Len(q) : r[i] = q[i]
      /\ r[Len(q) + 1] = m
  OBVIOUS
<1> HIDE DEF r
<1>2. \A j \in 1..Len(r) : j \in 1..Len(q) \/ j = Len(q) + 1
  BY <1>1
<1>3. \A j \in 1..Len(r) :
        r[j].tag = "slave_getparameter" => j \in 1..Len(q) /\ q[j] = r[j]
  BY <1>1, <1>2
<1>4. \A i \in 1..Len(q) : i \in 1..Len(r)
  BY <1>1
<1>5. Tells(r, p, v)
  BY <1>1, <1>3, <1>4 DEF Tells
<1> QED BY <1>5 DEF r

LEMMA TellsNew ==
  ASSUME NEW q \in Seq(Request), NEW p, NEW v \in Points
  PROVE  Tells(q \o <<GetCode, GetParameter(v)>>, p, v)
<1> DEFINE r == q \o <<GetCode, GetParameter(v)>>
<1>0. GetCode \in Request /\ GetParameter(v) \in Request
  BY RequestTypes
<1>1. /\ Len(q) \in Nat /\ Len(r) = Len(q) + 2
      /\ r[Len(q) + 2] = GetParameter(v)
  BY <1>0
<1> HIDE DEF r
<1>2. Len(q) + 2 \in 1..Len(r) /\ \A j \in 1..Len(r) : j <= Len(q) + 2
  BY <1>1
<1>3. Tells(r, p, v)
  BY <1>1, <1>2, Tags DEF Tells
<1> QED BY <1>3 DEF r
LEMMA LastIs ==
  ASSUME NEW t \in Slaves
  PROVE  /\ LastParameter(t) = LastTold(down[t], param[t])
         /\ LastParameter(t)' = LastTold(down'[t], param'[t])
BY DEF LastParameter, LastTold

LEMMA LastNat ==
  ASSUME TypeOK, NEW t \in Slaves
  PROVE  LastParameter(t) \in Nat
<1>1. down[t] \in Seq(Request) /\ param[t] \in Nat
  BY DEF TypeOK, ClusterTypeOK
<1>2. \A m \in Request : m.point \in Nat
  BY DEF Request, GetCode, Work, GetCpuTime, Die, GetParameter, Points
<1>3. \A i \in 1..Len(down[t]) : down[t][i] \in Request
  BY <1>1
<1>4. Tells(down[t], param[t], LastParameter(t))
  BY <1>1, LastTells, LastIs
<1> QED BY <1>1, <1>2, <1>3, <1>4 DEF Tells

LEMMA ToldFrame ==
  ASSUME TypeOK, NEW t \in Slaves, ToldInv(t),
         down'[t] = down[t], param'[t] = param[t], up'[t] = up[t],
         slave'[t] = slave[t], open' => open, point' = point,
         pc' = "setup" => pc = "setup",
         smap'[t] \in {"none", "new"}
           => pc = "setup" \/ smap[t] \in {"none", "new"} \/ Gone(t)
  PROVE  ToldInv(t)'
<1>1. LastParameter(t)' = LastParameter(t)
  BY LastIs
<1> QED BY <1>1 DEF ToldInv, Gone

(* A request that changes no parameter, and a new value.                   *)
LEMMA ToldLone ==
  ASSUME TypeOK, NEW t \in Slaves, NEW m \in Request, m.tag # "slave_getparameter",
         down'[t] = down[t] \o <<m>>, param'[t] = param[t]
  PROVE  LastParameter(t)' = LastParameter(t)
<1>1. down[t] \in Seq(Request) /\ down'[t] \in Seq(Request)
  BY ConcatProperties DEF TypeOK, ClusterTypeOK
<1>2. Tells(down[t], param[t], LastParameter(t))
  BY <1>1, LastTells, LastIs
<1>3. Tells(down'[t], param[t], LastParameter(t))
  BY <1>1, <1>2, TellsLone
<1> QED BY <1>1, <1>3, LastTells, LastIs

LEMMA ToldNew ==
  ASSUME TypeOK, NEW t \in Slaves, NEW v \in Points,
         down'[t] = down[t] \o <<GetCode, GetParameter(v)>>
  PROVE  LastParameter(t)' = v
<1>1. <<GetCode, GetParameter(v)>> \in Seq(Request)
  BY RequestTypes
<1>2. down[t] \in Seq(Request) /\ down'[t] \in Seq(Request)
  BY <1>1, ConcatProperties DEF TypeOK, ClusterTypeOK
<1>3. Tells(down'[t], param'[t], v)
  BY <1>2, TellsNew
<1> QED BY <1>2, <1>3, LastTells, LastIs

(* A slave that reads keeps its last parameter, or has it to be told anew. *)
LEMMA ToldRead ==
  ASSUME TypeOK, NEW s \in Slaves, SlaveReads(s)
  PROVE  LastParameter(s)' \in {LastParameter(s), 0}
<1> USE DEF TypeOK, ClusterTypeOK
<1>0. down[s] \in Seq(Request) /\ down[s] # <<>> /\ down'[s] = Tail(down[s])
  BY DEF SlaveReads, SlaveGetCode, SlaveGetParameter, SlaveWork, SlaveSendCpuTime,
         SlaveDie, Reads
<1>1. /\ down[s] \in Seq(Request) /\ down[s] # <<>> /\ down'[s] = Tail(down[s])
      /\ down'[s] \in Seq(Request)
  BY <1>0, HeadTailProperties
<1>2. Tells(down[s], param[s], LastParameter(s))
  BY <1>1, LastTells, LastIs
<1>3. CASE SlaveGetParameter(s)
  <2>1. Head(down[s]).tag = "slave_getparameter" /\ param'[s] = Head(down[s]).point
    BY <1>3 DEF SlaveGetParameter, Reads
  <2>2. Tells(down'[s], param'[s], LastParameter(s))
    BY <1>1, <1>2, <2>1, TellsFirst
  <2> QED BY <1>1, <2>2, LastTells, LastIs
<1>4. CASE SlaveGetCode(s)
  <2>1. Head(down[s]).tag # "slave_getparameter" /\ param'[s] = 0
    BY <1>4 DEF SlaveGetCode, Reads
  <2>2. Tells(down'[s], param[s], LastParameter(s))
    BY <1>1, <1>2, <2>1, TellsFirst
  <2>3. Tells(down'[s], 0, LastParameter(s)) \/ Tells(down'[s], 0, 0)
    BY <2>2 DEF Tells
  <2> QED BY <1>1, <2>1, <2>3, LastTells, LastIs
<1>5. CASE SlaveWork(s) \/ SlaveSendCpuTime(s) \/ SlaveDie(s)
  <2>1. Head(down[s]).tag # "slave_getparameter" /\ param'[s] = param[s]
    BY <1>5 DEF SlaveWork, SlaveSendCpuTime, SlaveDie, Reads
  <2>2. Tells(down'[s], param[s], LastParameter(s))
    BY <1>1, <1>2, <2>1, TellsFirst
  <2> QED BY <1>1, <2>1, <2>2, LastTells, LastIs
<1> QED BY <1>3, <1>4, <1>5 DEF SlaveReads

(* A slave that reads a request has no result under way.                   *)
LEMMA NothingUnderWay ==
  ASSUME TypeOK, ProtocolInv, open, NEW s \in Slaves, slave[s] = "ready",
         down[s] # <<>>
  PROVE  up[s] = <<>>
<1>1. UpInv(s) /\ ViewInv(s) /\ MasterInv
  BY DEF ProtocolInv, Alive
<1>2. InWork(s) => up[s] = <<>>
  BY DEF InWork
<1>3. smap[s] \in {"working", "eventpending"} \/ BeingRead(s) => up[s] = <<>>
  BY <1>1, <1>2 DEF ViewInv
<1>4. BeingCharged(s) => up[s] = <<>>
  BY <1>1 DEF ViewInv
<1> QED BY <1>1, <1>3, <1>4 DEF UpInv

(* The batch that slave_work returns is the slave's only one.              *)
LEMMA Returned ==
  ASSUME TypeOK, ProtocolInv, NEW s \in Slaves, NEW n \in Batches, SlaveReturn(s, n)
  PROVE  /\ up[s] = <<>> /\ up'[s] = <<Result(param[s], n)>>
         /\ param[s] \in Points
<1> USE DEF TypeOK, ClusterTypeOK
<1>1. slave[s] = "working" /\ open
  BY DEF SlaveReturn
<1>2. Sampling(s) /\ UpInv(s) /\ ViewInv(s) /\ MasterInv
  BY <1>1 DEF ProtocolInv, LinkInv, Alive
<1>3. up[s] = <<>>
  <2>1. ASSUME up[s] # <<>>
        PROVE  smap[s] \in {"working", "eventpending"} \/ BeingRead(s) \/ BeingCharged(s)
    BY <1>2, <2>1 DEF UpInv
  <2>2. ~BeingCharged(s)
    BY <1>1, <1>2 DEF ViewInv
  <2>3. up[s] # <<>> => InWork(s)
    BY <1>1, <1>2, <2>1, <2>2 DEF ViewInv
  <2> QED BY <1>1, <2>3 DEF InWork
<1>4. Result(param[s], n) \in Reply
  BY DEF Reply
<1>5. up'[s] = <<Result(param[s], n)>>
  BY <1>3, <1>4, Appends DEF SlaveReturn
<1> QED BY <1>2, <1>3, <1>5 DEF Sampling

LEMMA ToldSlave ==
  ASSUME TypeOK, ProtocolInv, \A t \in Slaves : ToldInv(t),
         NEW s \in Slaves, SlaveNext(s), UNCHANGED <<sweepVars, userVars>>
  PROVE  \A t \in Slaves : ToldInv(t)'
<1> USE DEF TypeOK, ClusterTypeOK
<1>1. /\ open' = open /\ smap' = smap /\ pc' = pc /\ point' = point
      /\ \A t \in Slaves \ {s} : /\ down'[t] = down[t] /\ up'[t] = up[t]
                                 /\ slave'[t] = slave[t] /\ param'[t] = param[t]
  BY DEF SlaveNext, Connect, ConnectFails, SlaveProcess, SlaveGetCode,
         SlaveGetParameter, SlaveWork, SlaveReturn, SlaveSendCpuTime, SlaveDie,
         SlaveLosesMaster, Crash, Hang, Reads, sweepVars
<1>2. \A t \in Slaves \ {s} : ToldInv(t)'
  BY <1>1, ToldFrame
<1>3. ASSUME open, ~Gone(s)' PROVE ToldInv(s)'
  <2>0. ~Gone(s)
    BY <1>3 DEF SlaveNext, Connect, ConnectFails, SlaveProcess, SlaveGetCode,
         SlaveGetParameter, SlaveWork, SlaveReturn, SlaveSendCpuTime, SlaveDie,
         SlaveLosesMaster, Crash, Hang, Reads, Gone, Alive
  <2>1. point \in Nat /\ LastParameter(s) \in Nat /\ point > 0
    BY LastNat DEF Points
  <2>2. CASE Connect(s) \/ Hang(s)
    <3>1. LastParameter(s)' = LastParameter(s) /\ up' = up
      BY <2>2, LastIs DEF Connect, Hang
    <3> QED BY <1>1, <1>3, <2>0, <3>1 DEF ToldInv
  <2>3. CASE SlaveReads(s)
    <3>1. slave[s] = "ready" /\ down[s] # <<>>
      BY <2>3 DEF SlaveReads, SlaveGetCode, SlaveGetParameter, SlaveWork,
                  SlaveSendCpuTime, SlaveDie, Reads
    <3>2. up[s] = <<>>
      BY <1>3, <3>1, NothingUnderWay
    <3>3. up'[s] = <<>> \/ up'[s] = <<CpuTime>>
      BY <2>3, <3>2, Appends DEF SlaveReads, SlaveGetCode, SlaveGetParameter, SlaveWork,
                                 SlaveSendCpuTime, SlaveDie
    <3>4. \A i \in 1..Len(up'[s]) : up'[s][i].tag # "result"
      BY <3>3, Tags
    <3>5. LastParameter(s)' \in {LastParameter(s), 0}
      BY <2>3, ToldRead
    <3> QED BY <1>1, <1>3, <2>0, <2>1, <3>4, <3>5 DEF ToldInv
  <2>4. ASSUME NEW n \in Batches, SlaveReturn(s, n) PROVE ToldInv(s)'
    <3>1. up'[s] = <<Result(param[s], n)>>
      BY <2>4, Returned
    <3>2. down[s] = <<>> /\ down' = down /\ param' = param
      BY <2>4 DEF SlaveReturn, ProtocolInv, LinkInv, Sampling
    <3>3. LastParameter(s)' = LastParameter(s) /\ LastParameter(s) = param[s]
      <4>1. LastParameter(s)' = LastParameter(s)
        BY <3>2, LastIs
      <4>2. Tells(down[s], param[s], param[s])
        BY <3>2 DEF Tells
      <4> QED BY <4>1, <4>2, LastTells, LastIs
    <3>4. \A i \in 1..Len(up'[s]) : up'[s][i].point = param[s]
      BY <3>1, Tags
    <3> QED BY <1>1, <1>3, <2>0, <3>3, <3>4 DEF ToldInv
  <2>5. ~ConnectFails(s) /\ ~SlaveLosesMaster(s) /\ ~Crash(s)
    BY <1>3 DEF ConnectFails, SlaveLosesMaster, Crash, Gone
  <2> QED BY <2>2, <2>3, <2>4, <2>5 DEF SlaveNext, SlaveProcess, SlaveReads
<1> QED BY <1>1, <1>2, <1>3 DEF ToldInv
(* A reply has been read.                                                  *)
LEMMA ToldReply ==
  ASSUME TypeOK, NEW t \in Slaves, NEW tag, Receives(t, tag), ToldInv(t), ~Gone(t), open
  PROVE  /\ tag = "result" => Head(up[t]).point = LastParameter(t)
         /\ \A i \in 1..Len(up'[t]) :
              up'[t][i].tag = "result" => up'[t][i].point = LastParameter(t)
<1>1. up[t] \in Seq(Reply) /\ up[t] # <<>> /\ Head(up[t]).tag = tag /\ up'[t] = Tail(up[t])
  BY DEF Receives, TypeOK, ClusterTypeOK
<1>2. /\ Head(up[t]) = up[t][1] /\ 1 \in 1..Len(up[t])
      /\ \A i \in 1..Len(up'[t]) : up'[t][i] = up[t][i + 1] /\ i + 1 \in 1..Len(up[t])
  BY <1>1
<1> QED BY <1>1, <1>2 DEF ToldInv

LEMMA ToldMaster ==
  ASSUME TypeOK, ProtocolInv, \A t \in Slaves : ToldInv(t), MasterNext
  PROVE  \A t \in Slaves : ToldInv(t)'
<1> USE DEF TypeOK, ClusterTypeOK, MasterView
<1>0. ~MasterGone /\ open /\ MasterInv /\ slave' = slave
  <2>1. ~MasterGone
    BY DEF MasterGone, MasterNext, StartEstimate, SampleAndAccumulate, InitSlave,
           WorkIdleSlave, NoNewSlave, NoIdleSlave, MasterWait, MasterAccept,
           FindPendingSlave, DiscardResult, AccumulateResult, ReadCpuTime, ReadFails,
           NoPendingSlave, UpdateResults, CheckInterrupt, WriteFinalResults, NextPoint,
           KillIdleSlave, Exit
  <2>2. slave' = slave
    BY DEF MasterNext, StartEstimate, SampleAndAccumulate, InitSlave, WorkIdleSlave,
           NoNewSlave, NoIdleSlave, MasterWait, MasterAccept, FindPendingSlave,
           DiscardResult, AccumulateResult, ReadCpuTime, ReadFails, NoPendingSlave,
           UpdateResults, CheckInterrupt, WriteFinalResults, NextPoint, KillIdleSlave,
           Exit, linkVars, clusterVars
  <2> QED BY <2>1, <2>2 DEF ProtocolInv
<1> SUFFICES ASSUME NEW t \in Slaves, ~Gone(t) PROVE ToldInv(t)'
  BY <1>0 DEF ToldInv, Gone
<1>1. /\ point \in Nat /\ LastParameter(t) \in Nat /\ point \in Points
      /\ GetCpuTime \in Request /\ Work \in Request /\ Die \in Request
  BY LastNat, RequestTypes DEF Points
<1>2. CASE StartEstimate
  <2>1. LastParameter(t)' = LastParameter(t)
    BY <1>2, LastIs DEF StartEstimate, linkVars
  <2> QED BY <1>0, <1>2, <2>1 DEF StartEstimate, linkVars, ToldInv, Gone
<1>3. CASE SampleAndAccumulate \/ NoNewSlave \/ NoIdleSlave \/ NoPendingSlave
             \/ UpdateResults \/ CheckInterrupt \/ WriteFinalResults
  BY <1>0, <1>3, ToldFrame
     DEF SampleAndAccumulate, NoNewSlave, NoIdleSlave, NoPendingSlave, UpdateResults,
         CheckInterrupt, WriteFinalResults, clusterVars, LoopHead
<1>4. ASSUME NEW s \in Slaves, InitSlave(s) PROVE ToldInv(t)'
  <2>1. CASE s = t
    <3>1. /\ down'[t] = down[t] \o <<GetCode, GetParameter(point)>> /\ smap'[t] = "idle"
          /\ pc' = pc /\ pc = "init" /\ point' = point /\ up' = up
      BY <1>4, <2>1 DEF InitSlave, SendAs, SendFails, Deliver, sweepVars
    <3>2. LastParameter(t)' = point
      BY <1>1, <3>1, ToldNew
    <3>3. up[t] = <<>>
      BY <1>0, <1>4, <2>1 DEF InitSlave, ProtocolInv, UpInv, MasterInv, BeingRead, BeingCharged
    <3> QED BY <1>0, <1>1, <3>1, <3>2, <3>3 DEF ToldInv
  <2>2. CASE s # t
    BY <1>0, <1>4, <2>2, ToldFrame DEF InitSlave, SendAs, SendFails, Deliver, sweepVars
  <2> QED BY <2>1, <2>2
<1>5. ASSUME NEW s \in Slaves, WorkIdleSlave(s) PROVE ToldInv(t)'
  <2>1. CASE s = t
    <3>1. /\ down'[t] = down[t] \o <<Work>> /\ smap'[t] = "working" /\ param' = param
          /\ pc' = pc /\ pc = "assign" /\ point' = point /\ up' = up
      BY <1>5, <2>1 DEF WorkIdleSlave, SendAs, SendFails, Deliver, sweepVars
    <3>2. LastParameter(t)' = LastParameter(t)
      BY <1>1, <3>1, ToldLone, Tags
    <3> QED BY <1>0, <1>1, <3>1, <3>2 DEF ToldInv
  <2>2. CASE s # t
    BY <1>0, <1>5, <2>2, ToldFrame DEF WorkIdleSlave, SendAs, SendFails, Deliver, sweepVars
  <2> QED BY <2>1, <2>2
<1>6. CASE MasterWait
  <2>1. smap'[t] \in {"none", "new"} => smap[t] \in {"none", "new"}
    BY <1>0, <1>6 DEF MasterWait, WaitForEvent, MasterInv, MapInv
  <2> QED BY <1>0, <1>6, <2>1, ToldFrame DEF MasterWait, linkVars
<1>7. ASSUME NEW s \in Slaves, MasterAccept(s) PROVE ToldInv(t)'
  <2>1. smap'[t] \in {"none", "new"} => smap[t] \in {"none", "new"}
    BY <1>0, <1>7 DEF MasterAccept, AcceptThenMarkAll, MasterInv, MapInv, Connected
  <2> QED BY <1>0, <1>7, <2>1, ToldFrame DEF MasterAccept, linkVars
<1>8. ASSUME NEW s \in Slaves, FindPendingSlave(s) PROVE ToldInv(t)'
  BY <1>0, <1>8, ToldFrame DEF FindPendingSlave, linkVars
<1>9. ASSUME NEW s \in Slaves, DiscardResult(s) PROVE ToldInv(t)'
  <2>1. CASE s = t
    <3>1. /\ LastParameter(t)' = LastParameter(t) /\ Receives(t, "result")
          /\ Head(up[t]).point # point /\ pc' = "find" /\ point' = point
      BY <1>9, <2>1, LastIs DEF DiscardResult, CurrentResult
    <3>2. /\ Head(up[t]).point = LastParameter(t)
          /\ \A i \in 1..Len(up'[t]) :
               up'[t][i].tag = "result" => up'[t][i].point = LastParameter(t)
      BY <1>0, <3>1, ToldReply
    <3>3. LastParameter(t) <= point
      BY <1>0 DEF ToldInv
    <3>4. LastParameter(t) < point
      BY <1>1, <3>1, <3>2, <3>3
    <3> QED BY <3>1, <3>2, <3>3, <3>4 DEF ToldInv
  <2>2. CASE s # t
    BY <1>0, <1>9, <2>2, ToldFrame DEF DiscardResult, Receives, ResetSlave
  <2> QED BY <2>1, <2>2
<1>10. ASSUME NEW s \in Slaves, AccumulateResult(s) PROVE ToldInv(t)'
  <2>1. CASE s = t
    <3>1. /\ down'[t] = down[t] \o <<GetCpuTime>> /\ smap'[t] = smap[t] /\ param' = param
          /\ pc' = "cputime" /\ point' = point /\ Receives(t, "result")
      BY <1>10, <2>1 DEF AccumulateResult, SendAs, SendFails, Deliver
    <3>2. LastParameter(t)' = LastParameter(t)
      BY <1>1, <3>1, ToldLone, Tags
    <3> QED BY <1>0, <1>1, <3>1, <3>2, ToldReply DEF ToldInv
  <2>2. CASE s # t
    BY <1>0, <1>10, <2>2, ToldFrame
       DEF AccumulateResult, Receives, SendAs, SendFails, Deliver
  <2> QED BY <2>1, <2>2
<1>11. ASSUME NEW s \in Slaves, ReadCpuTime(s) PROVE ToldInv(t)'
  <2>1. CASE s = t
    <3>1. /\ LastParameter(t)' = LastParameter(t) /\ Receives(t, "cputime")
          /\ pc' = "find" /\ point' = point /\ smap' = smap
      BY <1>11, <2>1, LastIs DEF ReadCpuTime
    <3> QED BY <1>0, <1>1, <3>1, ToldReply DEF ToldInv
  <2>2. CASE s # t
    BY <1>0, <1>11, <2>2, ToldFrame DEF ReadCpuTime, Receives
  <2> QED BY <2>1, <2>2
<1>12. ASSUME NEW s \in Slaves, ReadFails(s) PROVE ToldInv(t)'
  <2>1. s # t
    BY <1>12 DEF ReadFails, ReceiveFails
  <2> QED BY <1>0, <1>12, <2>1, ToldFrame DEF ReadFails, ReceiveFails, linkVars
<1>13. CASE NextPoint
  <2>1. /\ LastParameter(t)' = LastParameter(t) /\ up' = up /\ smap' = smap
        /\ \/ point' = point /\ pc' \in {"disable", "aborted"}
           \/ point' = point + 1 /\ pc' = "setup"
    BY <1>13, LastIs DEF NextPoint, linkVars
  <2>2. CASE point' = point /\ pc' \in {"disable", "aborted"}
    BY <1>0, <2>1, <2>2 DEF ToldInv
  <2>3. CASE point' = point + 1 /\ pc' = "setup"
    BY <1>0, <1>1, <2>1, <2>3 DEF ToldInv
  <2> QED BY <2>1, <2>2, <2>3
<1>14. ASSUME NEW s \in Slaves, KillIdleSlave(s) PROVE ToldInv(t)'
  <2>1. CASE s = t
    <3>1. /\ down'[t] = down[t] \o <<Die>> /\ smap'[t] = "working" /\ param' = param
          /\ pc' = "disable" /\ point' = point /\ up' = up
      BY <1>14, <2>1 DEF KillIdleSlave, SendAs, SendFails, Deliver
    <3>2. LastParameter(t)' = LastParameter(t)
      BY <1>1, <3>1, ToldLone, Tags
    <3> QED BY <1>0, <1>1, <3>1, <3>2 DEF ToldInv
  <2>2. CASE s # t
    BY <1>0, <1>14, <2>2, ToldFrame DEF KillIdleSlave, SendAs, SendFails, Deliver
  <2> QED BY <2>1, <2>2
<1>15. CASE Exit
  BY <1>0, <1>15, ToldFrame DEF Exit, linkVars
<1> QED BY <1>2, <1>3, <1>4, <1>5, <1>6, <1>7, <1>8, <1>9, <1>10, <1>11, <1>12, <1>13,
           <1>14, <1>15 DEF MasterNext

LEMMA ToldStep ==
  ASSUME TypeOK, ProtocolInv, \A t \in Slaves : ToldInv(t), [Next]_vars
  PROVE  \A t \in Slaves : ToldInv(t)'
<1>1. CASE MasterNext
  BY <1>1, ToldMaster
<1>2. CASE \E s \in Slaves : SlaveNext(s) /\ UNCHANGED <<sweepVars, userVars>>
  BY <1>2, ToldSlave
<1>3. CASE (\E k \in Keys : PressKey(k)) \/ SigInt \/ Finished \/ UNCHANGED vars
  <2>1. /\ down' = down /\ param' = param /\ up' = up /\ slave' = slave /\ smap' = smap
        /\ point' = point /\ (pc' = "setup" => pc = "setup")
    BY <1>3 DEF PressKey, SigInt, Finished, vars, clusterVars, linkVars, sweepVars
  <2>2. open' => open
    BY <1>3 DEF PressKey, SigInt, Finished, vars, clusterVars
  <2> QED BY <2>1, <2>2, ToldFrame
<1> QED BY <1>1, <1>2, <1>3 DEF Next

(* Only initnewslaves sends more than one request at once, and only to a   *)
(* slave that is new.                                                      *)
LEMMA TwoRequests ==
  ASSUME TypeOK, [Next]_vars, NEW s \in Slaves, Len(down'[s]) > Len(down[s]) + 1
  PROVE  InitSlave(s) /\ ~Gone(s)
<1> USE DEF TypeOK, ClusterTypeOK
<1>1. down[s] \in Seq(Request) /\ Len(down[s]) \in Nat
  BY LenProperties
<1>2. ASSUME NEW t \in Slaves, NEW m \in Request, NEW v, SendAs(t, <<m>>, v) \/ SendFails(t)
      PROVE  FALSE
  <2>1. down'[s] = down[s] \/ down'[s] = down[s] \o <<m>>
    BY <1>2 DEF SendAs, SendFails, Deliver
  <2>2. Len(down[s] \o <<m>>) = Len(down[s]) + 1
    BY <1>1, ConcatProperties
  <2> QED BY <1>1, <2>1, <2>2
<1>3. ASSUME NEW t \in Slaves, SlaveNext(t) PROVE FALSE
  <2>1. down'[s] = down[s] \/ down'[s] = <<>> \/ (down[s] # <<>> /\ down'[s] = Tail(down[s]))
    BY <1>3 DEF SlaveNext, Connect, ConnectFails, SlaveProcess, SlaveGetCode,
         SlaveGetParameter, SlaveWork, SlaveReturn, SlaveSendCpuTime, SlaveDie,
         SlaveLosesMaster, Crash, Hang, Reads
  <2>2. down[s] # <<>> => Len(Tail(down[s])) = Len(down[s]) - 1
    BY <1>1, HeadTailProperties
  <2> QED BY <1>1, <2>1, <2>2
<1>4. ASSUME NEW t \in Slaves, InitSlave(t) PROVE t = s /\ ~Gone(s)
  BY <1>1, <1>4 DEF InitSlave, SendAs, SendFails, Deliver
<1>5. ~\E t \in Slaves : WorkIdleSlave(t) \/ AccumulateResult(t) \/ KillIdleSlave(t)
  BY <1>2, RequestTypes DEF WorkIdleSlave, AccumulateResult, KillIdleSlave
<1>6. down' # down
  BY <1>1
<1>7. \E t \in Slaves : InitSlave(t)
  BY <1>3, <1>5, <1>6
     DEF Next, MasterNext, StartEstimate, SampleAndAccumulate, NoNewSlave, NoIdleSlave,
         MasterWait, MasterAccept, FindPendingSlave, DiscardResult, ReadCpuTime, ReadFails,
         NoPendingSlave, UpdateResults, CheckInterrupt, WriteFinalResults, NextPoint, Exit,
         PressKey, SigInt, Finished, vars, clusterVars, linkVars
<1> QED BY <1>4, <1>7

(* No slave is initialised twice for one value, so none ever repeats the   *)
(* samples it has returned: neither a late answer nor a hang, a crash or   *)
(* an interrupt makes the master forget whom it has seeded.                *)
THEOREM NotRepeated == Spec => StreamsNotRepeated
<1>1. ASSUME Init PROVE \A t \in Slaves : ToldInv(t)
  <2> SUFFICES ASSUME NEW t \in Slaves PROVE ToldInv(t)
    OBVIOUS
  <2>1. down[t] = <<>> /\ up[t] = <<>> /\ param[t] = 0 /\ point = 1
    BY <1>1 DEF Init, ClusterInit
  <2>2. LastParameter(t) = 0
    BY <2>1 DEF LastParameter
  <2> QED BY <2>1, <2>2 DEF ToldInv
<1>2. /\ TypeOK /\ ProtocolInv /\ (\A t \in Slaves : ToldInv(t)) /\ [Next]_vars
        => (\A t \in Slaves : ToldInv(t))'
  BY ToldStep
<1>3. TypeOK /\ ProtocolInv /\ (\A t \in Slaves : ToldInv(t)) /\ [Next]_vars
        => [\A s \in Slaves :
              Len(down'[s]) > Len(down[s]) + 1 => LastParameter(s) # point]_vars
  <2> SUFFICES ASSUME TypeOK, ProtocolInv, \A t \in Slaves : ToldInv(t), [Next]_vars,
                      NEW s \in Slaves, Len(down'[s]) > Len(down[s]) + 1
               PROVE  LastParameter(s) # point
    OBVIOUS
  <2>1. InitSlave(s) /\ ~Gone(s)
    BY TwoRequests
  <2>2. open /\ smap[s] = "new"
    BY <2>1 DEF InitSlave, ProtocolInv, MasterGone
  <2>3. LastParameter(s) < point /\ LastParameter(s) \in Nat /\ point \in Nat
    BY <2>1, <2>2, LastNat DEF ToldInv, TypeOK, Points
  <2> QED BY <2>3
<1> QED BY <1>1, <1>2, <1>3, ProtocolInvariant, TypeCorrect, PTL
        DEF Spec, StreamsNotRepeated

(***************************************************************************)
(* Streams                                                                 *)
(***************************************************************************)
LEMMA BelowTail ==
  ASSUME NEW S, NEW q \in Seq(S), q # <<>>, NEW p \in Nat, Below(q, p)
  PROVE  Head(q).point <= p /\ Below(Tail(q), p)
<1>1. Len(q) \in Nat \ {0}
  OBVIOUS
<1>2. Head(q) = q[1] /\ Len(Tail(q)) = Len(q) - 1
  BY <1>1
<1>3. \A i \in 1..Len(Tail(q)) : Tail(q)[i] = q[i + 1] /\ i + 1 \in 1..Len(q)
  BY <1>1, <1>2
<1> QED BY <1>1, <1>2, <1>3 DEF Below

LEMMA BelowConcat ==
  ASSUME NEW S, NEW q \in Seq(S), NEW r \in Seq(S), NEW p \in Nat,
         Below(q, p), Below(r, p)
  PROVE  Below(q \o r, p)
<1>1. /\ Len(q \o r) = Len(q) + Len(r) /\ Len(q) \in Nat /\ Len(r) \in Nat
      /\ \A i \in 1..(Len(q) + Len(r)) :
           (q \o r)[i] = IF i <= Len(q) THEN q[i] ELSE r[i - Len(q)]
  BY ConcatProperties
<1>2. ASSUME NEW i \in 1..Len(q \o r) PROVE (q \o r)[i].point <= p
  <2>1. CASE i <= Len(q)
    BY <1>1, <2>1 DEF Below
  <2>2. CASE ~(i <= Len(q))
    <3>1. i - Len(q) \in 1..Len(r) /\ (q \o r)[i] = r[i - Len(q)]
      BY <1>1, <2>2
    <3> QED BY <3>1 DEF Below
  <2> QED BY <2>1, <2>2
<1> QED BY <1>2 DEF Below

LEMMA BelowMore ==
  ASSUME NEW S, NEW q \in Seq(S), NEW p \in Nat, NEW r \in Nat, p <= r, Below(q, p),
         \A e \in S : e.point \in Nat
  PROVE  Below(q, r)
<1>1. \A i \in 1..Len(q) : q[i] \in S
  OBVIOUS
<1> QED BY <1>1 DEF Below

LEMMA RequestPoints == \A m \in Request : m.point \in Nat
BY NumPointsAssumption DEF Request, GetCode, Work, GetCpuTime, Die, GetParameter, Points

(* The batches of a stream that gets a token, or loses some of its tokens. *)
LEMMA NoBatches ==
  ASSUME NEW s \in Slaves, up[s] = <<>>
  PROVE  BatchesOf(s) = {}
BY DEF BatchesOf

LEMMA OneBatchOf ==
  ASSUME NEW s \in Slaves, NEW p \in 0..NumPoints, NEW n \in Batches,
         up[s] = <<Result(p, n)>>
  PROVE  BatchesOf(s) = {[point |-> p, count |-> n]}
<1>1. Len(up[s]) = 1 /\ up[s][1] = Result(p, n)
  OBVIOUS
<1>2. {j \in 1..Len(up[s]) : up[s][j].tag = "result"} = {1}
  BY <1>1 DEF Result
<1> QED BY <1>1, <1>2 DEF BatchesOf, Result

LEMMA BatchesPrefix ==
  ASSUME TypeOK, NEW s \in Slaves, OneResult(s), NEW k \in 0..Len(up[s]),
         up'[s] = SubSeq(up[s], 1, k)
  PROVE  OneResult(s)' /\ BatchesOf(s)' \in {{}, BatchesOf(s)}
<1>1. /\ up[s] \in Seq(Reply) /\ Len(up[s]) \in Nat
      /\ Len(up'[s]) = k /\ \A i \in 1..k : up'[s][i] = up[s][i]
  BY SubSeqProperties DEF TypeOK, ClusterTypeOK
<1>2. OneResult(s)'
  BY <1>1 DEF OneResult
<1>3. BatchesOf(s)' # {} => BatchesOf(s)' = BatchesOf(s)
  <2> SUFFICES ASSUME BatchesOf(s)' # {} PROVE BatchesOf(s)' = BatchesOf(s)
    OBVIOUS
  <2>1. PICK i \in 1..k : up[s][i].tag = "result" /\ i \in 1..Len(up[s])
    BY <1>1 DEF BatchesOf
  <2>2. {j \in 1..Len(up'[s]) : up'[s][j].tag = "result"} = {i}
    BY <1>1, <1>2, <2>1 DEF OneResult
  <2>3. {j \in 1..Len(up[s]) : up[s][j].tag = "result"} = {i}
    BY <1>1, <2>1 DEF OneResult
  <2>4. BatchesOf(s) = {[point |-> up[s][i].point, count |-> up[s][i].count]}
    BY <2>3 DEF BatchesOf
  <2>5. BatchesOf(s)' = {[point |-> up'[s][i].point, count |-> up'[s][i].count]}
    BY <2>2 DEF BatchesOf
  <2> QED BY <1>1, <2>4, <2>5
<1> QED BY <1>2, <1>3

LEMMA BatchesCpuTime ==
  ASSUME TypeOK, NEW s \in Slaves, OneResult(s), up'[s] = Append(up[s], CpuTime)
  PROVE  OneResult(s)' /\ BatchesOf(s)' = BatchesOf(s)
<1>1. /\ up[s] \in Seq(Reply) /\ Len(up[s]) \in Nat /\ CpuTime \in Reply
  <2>1. CpuTime \in Reply
    BY DEF Reply
  <2> QED BY <2>1 DEF TypeOK, ClusterTypeOK
<1>2. /\ Len(up'[s]) = Len(up[s]) + 1 /\ up'[s][Len(up[s]) + 1] = CpuTime
      /\ \A i \in 1..Len(up[s]) : up'[s][i] = up[s][i]
  BY <1>1, AppendProperties
<1>3. CpuTime.tag # "result"
  BY DEF CpuTime
<1>4. {j \in 1..Len(up'[s]) : up'[s][j].tag = "result"}
        = {j \in 1..Len(up[s]) : up[s][j].tag = "result"}
  BY <1>1, <1>2, <1>3
<1>5. OneResult(s)'
  BY <1>1, <1>2, <1>3 DEF OneResult
<1>6. BatchesOf(s)' = BatchesOf(s)
  <2> DEFINE given == {j \in 1..Len(up[s]) : up[s][j].tag = "result"}
             batch(q, i) == [point |-> q[i].point, count |-> q[i].count]
  <2>1. \A i \in given : batch(up'[s], i) = batch(up[s], i)
    BY <1>2
  <2>2. BatchesOf(s) = {batch(up[s], i) : i \in given}
    BY DEF BatchesOf
  <2>3. BatchesOf(s)' = {batch(up'[s], i) : i \in given}
    BY <1>4 DEF BatchesOf
  <2> HIDE DEF given, batch
  <2> QED BY <2>1, <2>2, <2>3
<1> QED BY <1>5, <1>6

(***************************************************************************)
(* SweepInv                                                                *)
(***************************************************************************)
PointBound == point \in Nat /\ point' \in Nat /\ point <= point'

LEMMA BoundStep ==
  ASSUME TypeOK, [Next]_vars
  PROVE  PointBound
<1>1. TypeOK'
  BY StepTypes
<1>2. point' = point \/ point' = point + 1
  BY DEF Next, MasterNext, StartEstimate, SampleAndAccumulate, InitSlave, WorkIdleSlave,
         NoNewSlave, NoIdleSlave, MasterWait, MasterAccept, FindPendingSlave,
         DiscardResult, AccumulateResult, ReadCpuTime, ReadFails, NoPendingSlave,
         UpdateResults, CheckInterrupt, WriteFinalResults, NextPoint, KillIdleSlave,
         Exit, PressKey, SigInt, Finished, vars, sweepVars
<1>3. point \in Nat /\ point' \in Nat
  BY <1>1, NumPointsAssumption DEF TypeOK, Points
<1> QED BY <1>2, <1>3 DEF PointBound

LEMMA PlaceStep ==
  ASSUME SweepInv, [Next]_vars, handler \in BOOLEAN
  PROVE  /\ pc' = "setup" /\ ~handler' => samples' = 0
         /\ pc' = "local" => Local
<1>1. pc' = "setup" /\ ~handler' => pc = "setup" /\ handler' = handler /\ samples' = samples
  BY DEF Next, MasterNext, StartEstimate, SampleAndAccumulate, InitSlave, WorkIdleSlave,
         NoNewSlave, NoIdleSlave, MasterWait, MasterAccept, FindPendingSlave,
         DiscardResult, AccumulateResult, ReadCpuTime, ReadFails, NoPendingSlave,
         UpdateResults, CheckInterrupt, WriteFinalResults, NextPoint, KillIdleSlave,
         Exit, PressKey, SigInt, Finished, vars, sweepVars, userVars, LoopHead
<1>2. pc' = "local" => pc = "local" \/ Local
  BY DEF Next, MasterNext, StartEstimate, SampleAndAccumulate, InitSlave, WorkIdleSlave,
         NoNewSlave, NoIdleSlave, MasterWait, MasterAccept, FindPendingSlave,
         DiscardResult, AccumulateResult, ReadCpuTime, ReadFails, NoPendingSlave,
         UpdateResults, CheckInterrupt, WriteFinalResults, NextPoint, KillIdleSlave,
         Exit, PressKey, SigInt, Finished, vars, sweepVars, userVars, LoopHead
<1> QED BY <1>1, <1>2 DEF SweepInv

(* The streams and parameters that a step leaves as they are.              *)
LEMMA KeepReach ==
  ASSUME TypeOK, SweepInv, PointBound, NEW t \in Slaves,
         down'[t] = down[t], up'[t] = up[t], param'[t] = param[t]
  PROVE  param'[t] <= point' /\ Below(down[t], point)' /\ OneResult(t)'
<1>1. param[t] <= point /\ Below(down[t], point) /\ OneResult(t)
  BY DEF SweepInv
<1>2. Below(down[t], point')
  BY <1>1, BelowMore, RequestPoints DEF PointBound, TypeOK, ClusterTypeOK
<1>3. param[t] <= point'
  BY <1>1 DEF PointBound, TypeOK, ClusterTypeOK
<1> QED BY <1>1, <1>2, <1>3 DEF OneResult, Below

(* Only slave s, its streams and its parameter are touched.                *)
LEMMA ReachStep ==
  ASSUME TypeOK, SweepInv, PointBound, [Next]_vars, NEW s \in Slaves,
         \A t \in Slaves \ {s} :
           down'[t] = down[t] /\ up'[t] = up[t] /\ param'[t] = param[t],
         param'[s] <= point', Below(down[s], point)', OneResult(s)'
  PROVE  SweepInv'
<1>1. \A t \in Slaves \ {s} : param'[t] <= point' /\ Below(down[t], point)' /\ OneResult(t)'
  BY KeepReach
<1>2. handler \in BOOLEAN
  BY DEF TypeOK
<1> QED BY <1>1, <1>2, PlaceStep DEF SweepInv

LEMMA QuietReach ==
  ASSUME TypeOK, SweepInv, PointBound, [Next]_vars, UNCHANGED linkVars
  PROVE  SweepInv'
<1>1. \A t \in Slaves : param'[t] <= point' /\ Below(down[t], point)' /\ OneResult(t)'
  BY KeepReach DEF linkVars
<1>2. handler \in BOOLEAN
  BY DEF TypeOK
<1> QED BY <1>1, <1>2, PlaceStep DEF SweepInv

(* A request sent for the current value, or a failed send.                 *)
LEMMA SendReach ==
  ASSUME TypeOK, SweepInv, point' = point, NEW s \in Slaves, NEW msgs \in Seq(Request),
         Below(msgs, point), Deliver(s, msgs) \/ UNCHANGED down
  PROVE  Below(down[s], point)'
<1> USE DEF TypeOK, ClusterTypeOK
<1>1. down[s] \in Seq(Request) /\ Below(down[s], point) /\ point \in Nat
  BY NumPointsAssumption DEF SweepInv, Points
<1>2. down'[s] = down[s] \/ down'[s] = down[s] \o msgs
  BY DEF Deliver
<1>3. Below(down[s] \o msgs, point)
  BY <1>1, BelowConcat
<1>4. Below(down'[s], point)
  BY <1>1, <1>2, <1>3
<1> QED BY <1>4 DEF Below

LEMMA RequestsReach ==
  ASSUME TypeOK
  PROVE  /\ \A m \in {Work, GetCpuTime, Die} : <<m>> \in Seq(Request) /\ Below(<<m>>, point)
         /\ <<GetCode, GetParameter(point)>> \in Seq(Request)
         /\ Below(<<GetCode, GetParameter(point)>>, point)
<1>1. point \in Points /\ point \in Nat /\ point >= 0
  BY NumPointsAssumption DEF TypeOK, Points
<1>2. \A m \in {Work, GetCpuTime, Die, GetCode} : m \in Request /\ m.point = 0
  BY DEF Request, Work, GetCpuTime, Die, GetCode
<1>3. GetParameter(point) \in Request /\ GetParameter(point).point = point
  BY <1>1 DEF Request, GetParameter
<1>4. \A m \in {Work, GetCpuTime, Die} : <<m>> \in Seq(Request) /\ Below(<<m>>, point)
  BY <1>1, <1>2 DEF Below
<1>5. Below(<<GetCode, GetParameter(point)>>, point)
  <2> DEFINE q == <<GetCode, GetParameter(point)>>
  <2>1. Len(q) = 2 /\ q[1] = GetCode /\ q[2] = GetParameter(point)
    OBVIOUS
  <2>2. \A i \in 1..2 : q[i].point <= point
    BY <1>1, <1>2, <1>3, <2>1
  <2> QED BY <2>1, <2>2 DEF Below
<1> QED BY <1>2, <1>3, <1>4, <1>5

LEMMA EmptyReach ==
  ASSUME NEW s \in Slaves, up'[s] = <<>>
  PROVE  OneResult(s)' /\ BatchesOf(s)' = {}
BY DEF OneResult, BatchesOf

(* The slave being charged, when its CPU time arrives.                     *)
LEMMA CpuTimeRead ==
  ASSUME TypeOK, ProtocolInv, NEW s \in Slaves, pc = "cputime", s \in cur,
         Receives(s, "cputime")
  PROVE  up[s] = <<CpuTime>> /\ up'[s] = <<>>
<1>1. MasterInv /\ UpInv(s) /\ up[s] # <<>> /\ up'[s] = Tail(up[s])
  BY AtWork DEF MasterGone, Receives, TypeOK, ClusterTypeOK
<1>2. smap[s] = "idle" /\ ~BeingRead(s)
  BY <1>1 DEF MasterInv, BeingRead
<1>3. up[s] = <<CpuTime>>
  BY <1>1, <1>2 DEF UpInv
<1> QED BY <1>1, <1>3, Tails

LEMMA MasterReach ==
  ASSUME TypeOK, ProtocolInv, SweepInv, PointBound, MasterNext, [Next]_vars
  PROVE  SweepInv'
<1> USE DEF TypeOK, ClusterTypeOK
<1>1. CASE UNCHANGED linkVars
  BY <1>1, QuietReach
<1>2. ASSUME NEW s \in Slaves, InitSlave(s) \/ WorkIdleSlave(s) \/ KillIdleSlave(s)
      PROVE  SweepInv'
  <2>1. /\ UNCHANGED <<up, param, point>>
        /\ \/ Deliver(s, <<GetCode, GetParameter(point)>>) \/ Deliver(s, <<Work>>)
           \/ Deliver(s, <<Die>>) \/ UNCHANGED down
    BY <1>2 DEF InitSlave, WorkIdleSlave, KillIdleSlave, sweepVars, SendAs, SendFails
  <2>2. Below(down[s], point)'
    BY <2>1, SendReach, RequestsReach
  <2>3. \A t \in Slaves \ {s} : down'[t] = down[t]
    BY <2>1 DEF Deliver
  <2>4. param'[s] <= point' /\ OneResult(s)'
    BY <2>1 DEF SweepInv, OneResult
  <2> QED BY <2>1, <2>2, <2>3, <2>4, ReachStep
<1>3. ASSUME NEW s \in Slaves, DiscardResult(s) PROVE SweepInv'
  <2>1. /\ UNCHANGED <<down, param, point>> /\ Receives(s, "result")
        /\ pc = "result" /\ s \in cur
    BY <1>3 DEF DiscardResult
  <2>2. up'[s] = <<>> /\ \A t \in Slaves \ {s} : up'[t] = up[t]
    BY <2>1, ResultRead DEF Receives
  <2>3. param'[s] <= point' /\ Below(down[s], point)' /\ OneResult(s)'
    BY <2>1, <2>2, EmptyReach DEF SweepInv, Below
  <2> QED BY <2>1, <2>2, <2>3, ReachStep
<1>4. ASSUME NEW s \in Slaves, AccumulateResult(s) PROVE SweepInv'
  <2>1. /\ UNCHANGED <<param, point>> /\ Receives(s, "result")
        /\ pc = "result" /\ s \in cur
        /\ Deliver(s, <<GetCpuTime>>) \/ UNCHANGED down
    BY <1>4 DEF AccumulateResult, SendAs, SendFails
  <2>2. up'[s] = <<>> /\ \A t \in Slaves \ {s} : up'[t] = up[t] /\ down'[t] = down[t]
    BY <2>1, ResultRead DEF Receives, Deliver
  <2>3. Below(down[s], point)'
    BY <2>1, SendReach, RequestsReach
  <2>4. param'[s] <= point' /\ OneResult(s)'
    BY <2>1, <2>2, EmptyReach DEF SweepInv
  <2> QED BY <2>1, <2>2, <2>3, <2>4, ReachStep
<1>5. ASSUME NEW s \in Slaves, ReadCpuTime(s) PROVE SweepInv'
  <2>1. /\ UNCHANGED <<down, param, point>> /\ Receives(s, "cputime")
        /\ pc = "cputime" /\ s \in cur
    BY <1>5 DEF ReadCpuTime
  <2>2. up'[s] = <<>> /\ \A t \in Slaves \ {s} : up'[t] = up[t]
    BY <2>1, CpuTimeRead DEF Receives
  <2>3. param'[s] <= point' /\ Below(down[s], point)' /\ OneResult(s)'
    BY <2>1, <2>2, EmptyReach DEF SweepInv, Below
  <2> QED BY <2>1, <2>2, <2>3, ReachStep
<1>6. \/ UNCHANGED linkVars
      \/ \E s \in Slaves : InitSlave(s) \/ WorkIdleSlave(s) \/ KillIdleSlave(s)
      \/ \E s \in Slaves : DiscardResult(s)
      \/ \E s \in Slaves : AccumulateResult(s) \/ ReadCpuTime(s)
  BY DEF MasterNext, StartEstimate, SampleAndAccumulate, NoNewSlave, NoIdleSlave,
         MasterWait, MasterAccept, FindPendingSlave, ReadFails, NoPendingSlave,
         UpdateResults, CheckInterrupt, WriteFinalResults, NextPoint, Exit, clusterVars,
         linkVars
<1> QED BY <1>1, <1>2, <1>3, <1>4, <1>5, <1>6

LEMMA SlaveReach ==
  ASSUME TypeOK, ProtocolInv, SweepInv, PointBound, [Next]_vars,
         NEW s \in Slaves, SlaveNext(s), UNCHANGED <<sweepVars, userVars>>
  PROVE  SweepInv'
<1> USE DEF TypeOK, ClusterTypeOK
<1>1. point' = point /\ point \in Nat
  BY DEF sweepVars, PointBound
<1>2. param[s] <= point /\ Below(down[s], point) /\ OneResult(s)
  BY DEF SweepInv
<1>3. CASE UNCHANGED <<down, up, param>>
  BY <1>3, QuietReach, KeepReach, PlaceStep DEF SweepInv
<1>4. CASE SlaveReads(s)
  <2>1. /\ down[s] # <<>> /\ down' = [down EXCEPT ![s] = Tail(@)]
        /\ up' = up \/ up' = [up EXCEPT ![s] = Append(@, CpuTime)]
        /\ \/ param' = param \/ param' = [param EXCEPT ![s] = 0]
           \/ param' = [param EXCEPT ![s] = Head(down[s]).point]
    BY <1>4 DEF SlaveReads, SlaveGetCode, SlaveGetParameter, SlaveWork,
                SlaveSendCpuTime, SlaveDie, Reads
  <2>2. Head(down[s]).point <= point /\ Below(Tail(down[s]), point)
    BY <1>1, <1>2, <2>1, BelowTail
  <2>3. Below(down[s], point)'
    BY <1>1, <2>1, <2>2 DEF Below
  <2>4. param'[s] <= point'
    BY <1>1, <1>2, <2>1, <2>2
  <2>5. OneResult(s)'
    <3>1. CASE up'[s] = up[s]
      BY <1>2, <3>1 DEF OneResult
    <3>2. CASE up'[s] = Append(up[s], CpuTime)
      BY <1>2, <3>2, BatchesCpuTime
    <3> QED BY <2>1, <3>1, <3>2
  <2> QED BY <2>1, <2>3, <2>4, <2>5, ReachStep
<1>5. ASSUME NEW n \in Batches, SlaveReturn(s, n) PROVE SweepInv'
  <2>1. UNCHANGED <<down, param>> /\ \A t \in Slaves \ {s} : up'[t] = up[t]
    BY <1>5 DEF SlaveReturn
  <2>2. OneResult(s)'
    <3>1. up'[s] = <<Result(param[s], n)>>
      BY <1>5, Returned
    <3> QED BY <3>1 DEF OneResult
  <2>3. param'[s] <= point' /\ Below(down[s], point)'
    BY <1>1, <1>2, <2>1 DEF Below
  <2> QED BY <2>1, <2>2, <2>3, ReachStep
<1>6. CASE Crash(s) \/ SlaveLosesMaster(s)
  <2>1. /\ down' = [down EXCEPT ![s] = <<>>] /\ param' = param
        /\ \A t \in Slaves \ {s} : up'[t] = up[t]
        /\ up'[s] = up[s] \/ \E k \in 0..Len(up[s]) : up'[s] = SubSeq(up[s], 1, k)
    BY <1>6 DEF Crash, SlaveLosesMaster
  <2>2. OneResult(s)'
    <3>1. CASE up'[s] = up[s]
      BY <1>2, <3>1 DEF OneResult
    <3>2. ASSUME NEW k \in 0..Len(up[s]), up'[s] = SubSeq(up[s], 1, k)
          PROVE  OneResult(s)'
      BY <1>2, <3>2, BatchesPrefix
    <3> QED BY <2>1, <3>1, <3>2
  <2>3. param'[s] <= point' /\ Below(down[s], point)'
    BY <1>1, <1>2, <2>1 DEF Below
  <2> QED BY <2>1, <2>2, <2>3, ReachStep
<1> QED BY <1>3, <1>4, <1>5, <1>6
        DEF SlaveNext, SlaveProcess, SlaveReads, Connect, ConnectFails, Hang

LEMMA SweepInvariant == Spec => []SweepInv
<1>1. Init => SweepInv
  BY NumPointsAssumption DEF Init, ClusterInit, SweepInv, Below, OneResult
<1>2. TypeOK /\ ProtocolInv /\ SweepInv /\ [Next]_vars => SweepInv'
  <2> SUFFICES ASSUME TypeOK, ProtocolInv, SweepInv, [Next]_vars PROVE SweepInv'
    OBVIOUS
  <2>1. PointBound
    BY BoundStep
  <2>2. CASE MasterNext
    BY <2>1, <2>2, MasterReach
  <2>3. CASE \E s \in Slaves : SlaveNext(s) /\ UNCHANGED <<sweepVars, userVars>>
    BY <2>1, <2>3, SlaveReach
  <2>4. CASE (\E k \in Keys : PressKey(k)) \/ SigInt \/ Finished \/ UNCHANGED vars
    <3>1. UNCHANGED linkVars
      BY <2>4 DEF PressKey, SigInt, Finished, vars, clusterVars, linkVars
    <3> QED BY <2>1, <3>1, QuietReach
  <2> QED BY <2>2, <2>3, <2>4 DEF Next
<1> QED BY <1>1, <1>2, ProtocolInvariant, TypeCorrect, PTL DEF Spec

(***************************************************************************)
(* The simulation                                                          *)
(***************************************************************************)

(* Nothing that Sweep has changes.                                         *)
LEMMA Stutters ==
  ASSUME \A t \in Slaves : BatchesOf(t)' = BatchesOf(t),
         point' = point, Phase' = Phase, Total' = Total, rows' = rows
  PROVE  UNCHANGED Abstract!vars
<1>1. Made' = Made
  BY DEF Made
<1>2. Published' = Published
  BY DEF Published
<1> QED BY <1>1, <1>2 DEF Abstract!vars

LEMMA SameBatches ==
  ASSUME NEW t \in Slaves, up'[t] = up[t]
  PROVE  BatchesOf(t)' = BatchesOf(t)
BY DEF BatchesOf

LEMMA Drops ==
  ASSUME NEW s \in Slaves, \A t \in Slaves \ {s} : up'[t] = up[t],
         BatchesOf(s)' = {},
         point' = point, Phase' = Phase, Total' = Total, rows' = rows
  PROVE  Abstract!Drop(s)
<1>1. \A t \in Slaves \ {s} : BatchesOf(t)' = BatchesOf(t)
  BY SameBatches
<1>2. Made' = [Made EXCEPT ![s] = {}]
  BY <1>1 DEF Made
<1>3. Published' = Published
  BY DEF Published
<1> QED BY <1>2, <1>3 DEF Abstract!Drop

LEMMA ResultBatch ==
  ASSUME TypeOK, ProtocolInv, NEW s \in Slaves, pc = "result", s \in cur,
         Receives(s, "result")
  PROVE  BatchesOf(s) = {[point |-> Head(up[s]).point, count |-> Head(up[s]).count]}
<1>1. MasterInv /\ UpInv(s) /\ up[s] # <<>>
  BY AtWork DEF MasterGone, Receives
<1>2. ~BeingCharged(s)
  BY DEF BeingCharged
<1>3. PICK p \in 0..NumPoints, n \in Batches : up[s] = <<Result(p, n)>>
  BY <1>1, <1>2 DEF UpInv
<1>4. BatchesOf(s) = {[point |-> p, count |-> n]}
  BY <1>3, OneBatchOf
<1>5. Head(up[s]) = Result(p, n)
  BY <1>3, Tails
<1>6. Head(up[s]).point = p /\ Head(up[s]).count = n
  BY <1>5 DEF Result
<1> QED BY <1>4, <1>6

LEMMA AddStep ==
  ASSUME TypeOK, ProtocolInv, NEW s \in Slaves, AccumulateResult(s)
  PROVE  Abstract!Add(s)
<1>1. /\ pc = "result" /\ s \in cur /\ Receives(s, "result")
      /\ Head(up[s]).point = point /\ samples' = samples + Head(up[s]).count
      /\ pc' \in {"cputime", "find"} /\ point' = point /\ rows' = rows
  BY DEF AccumulateResult, CurrentResult
<1>2. up'[s] = <<>> /\ \A t \in Slaves \ {s} : up'[t] = up[t]
  BY <1>1, ResultRead DEF Receives, TypeOK, ClusterTypeOK
<1>3. Made' = [Made EXCEPT ![s] = {}]
  <2>1. BatchesOf(s)' = {} /\ \A t \in Slaves \ {s} : BatchesOf(t)' = BatchesOf(t)
    BY <1>2, EmptyReach, SameBatches
  <2> QED BY <2>1 DEF Made
<1>4. \E b \in Made[s] : b.point = point /\ Total' = Total + b.count
  <2>1. Made[s] = {[point |-> Head(up[s]).point, count |-> Head(up[s]).count]}
    BY <1>1, ResultBatch DEF Made
  <2>2. Total' = Total + Head(up[s]).count
    BY <1>1 DEF Total
  <2> QED BY <1>1, <2>1, <2>2
<1>5. Phase = "sampling" /\ Phase' = Phase
  BY <1>1 DEF Phase, MasterGone
<1>6. Published' = Published
  BY <1>1 DEF Published
<1> QED BY <1>1, <1>3, <1>4, <1>5, <1>6 DEF Abstract!Add

LEMMA DrawStep ==
  ASSUME SweepInv, SampleAndAccumulate
  PROVE  Abstract!Draw
<1>1. /\ Local /\ pc = "local" /\ pc' = "update" /\ samples' = samples + 1
      /\ point' = point /\ rows' = rows /\ up' = up
  BY DEF SampleAndAccumulate, SweepInv, clusterVars
<1>2. Made' = Made
  BY <1>1, SameBatches DEF Made
<1>3. Published' = Published /\ Phase = "sampling" /\ Phase' = Phase /\ Total' = Total + 1
  BY <1>1 DEF Published, Phase, Total, MasterGone
<1> QED BY <1>1, <1>2, <1>3 DEF Abstract!Draw

LEMMA CloseStep ==
  ASSUME TypeOK, EstimateInv, WriteFinalResults
  PROVE  Abstract!Close
<1>1. /\ pc = "final" /\ pc' = "next" /\ samples' = samples /\ point' = point /\ up' = up
  BY DEF WriteFinalResults, clusterVars
<1>2. Made' = Made
  BY <1>1, SameBatches DEF Made
<1>3. Phase = "sampling" /\ Phase' = "closed" /\ Total = samples /\ Total' = Total
  BY <1>1 DEF Phase, Total, MasterGone
<1>4. converged \in {FALSE} \cup {samples >= MinSamples}
  BY <1>1 DEF EstimateInv, TypeOK
<1>5. Published' = IF samples = 0 THEN Published
                   ELSE Append(Published, [point |-> point, samples |-> samples,
                                           converged |-> converged])
  <2>1. CASE samples = 0
    BY <2>1 DEF WriteFinalResults, Published
  <2>2. CASE samples # 0
    <3> DEFINE r == [point |-> point, samples |-> samples, est |-> est,
                     converged |-> converged, state |-> Interrupted]
               row == [point |-> point, samples |-> samples, converged |-> converged]
               pub(q) == [i \in 1..Len(q) |-> [point |-> q[i].point,
                            samples |-> q[i].samples, converged |-> q[i].converged]]
    <3>1. rows' = Append(rows, r) /\ r \in Row /\ rows \in Seq(Row)
      BY <2>2 DEF WriteFinalResults, Row, Interrupted, TypeOK
    <3>2. r.point = row.point /\ r.samples = row.samples /\ r.converged = row.converged
      OBVIOUS
    <3> HIDE DEF r
    <3>3. /\ Len(rows') = Len(rows) + 1 /\ Len(rows) \in Nat
          /\ \A i \in 1..Len(rows) : rows'[i] = rows[i]
          /\ rows'[Len(rows) + 1] = r
      BY <3>1, AppendProperties
    <3>4. pub(rows) \in Seq({[point |-> rows[i].point, samples |-> rows[i].samples,
                              converged |-> rows[i].converged] : i \in 1..Len(rows)})
      BY <3>3
    <3>5. Len(pub(rows)) = Len(rows)
      BY <3>3
    <3>6. Append(pub(rows), row)
            = [i \in 1..(Len(rows) + 1) |-> IF i = Len(rows) + 1 THEN row ELSE pub(rows)[i]]
      BY <3>3, <3>4, <3>5
    <3>7. \A i \in 1..(Len(rows) + 1) :
            [point |-> rows'[i].point, samples |-> rows'[i].samples,
             converged |-> rows'[i].converged]
              = IF i = Len(rows) + 1 THEN row ELSE pub(rows)[i]
      BY <3>2, <3>3
    <3>8. pub(rows') = [i \in 1..(Len(rows) + 1) |->
                         IF i = Len(rows) + 1 THEN row ELSE pub(rows)[i]]
      BY <3>3, <3>7
    <3>9. pub(rows') = Append(pub(rows), row)
      BY <3>6, <3>8
    <3> QED BY <2>2, <3>9 DEF Published
  <2> QED BY <2>1, <2>2
<1> QED BY <1>1, <1>2, <1>3, <1>4, <1>5 DEF Abstract!Close

LEMMA NextPointStep ==
  ASSUME TypeOK, NextPoint
  PROVE  Abstract!Advance \/ Abstract!Stop
<1>1. /\ pc = "next" /\ samples' = samples /\ rows' = rows /\ up' = up
      /\ \/ pc' \in {"disable", "aborted"} /\ point' = point
         \/ pc' = "setup" /\ point' = point + 1 /\ point < NumPoints
  BY DEF NextPoint, MorePoints, linkVars
<1>2. Made' = Made
  BY <1>1, SameBatches DEF Made
<1>3. Published' = Published
  BY <1>1 DEF Published
<1>4. CASE pc' \in {"disable", "aborted"} /\ point' = point
  BY <1>1, <1>2, <1>3, <1>4 DEF Phase, Total, MasterGone, Abstract!Stop
<1>5. CASE pc' = "setup" /\ point' = point + 1 /\ point < NumPoints
  BY <1>1, <1>2, <1>3, <1>5 DEF Phase, Total, MasterGone, Abstract!Advance
<1> QED BY <1>1, <1>4, <1>5

LEMMA SigIntStep ==
  ASSUME TypeOK, SweepInv, SigInt
  PROVE  [Abstract!Next]_Abstract!vars
<1>1. /\ ~MasterGone /\ samples' = samples /\ rows' = rows /\ up' = up /\ point' = point
      /\ \/ pc' = pc
         \/ pc = "wait" /\ pc' = "accept"
         \/ pc' = "killed" /\ ~handler
  BY DEF SigInt, linkVars
<1>2. \A t \in Slaves : BatchesOf(t)' = BatchesOf(t)
  BY <1>1, SameBatches
<1>3. CASE pc' = pc \/ (pc = "wait" /\ pc' = "accept")
  <2>1. Phase' = Phase /\ Total' = Total
    BY <1>1, <1>3 DEF Phase, Total, MasterGone
  <2> QED BY <1>1, <1>2, <2>1, Stutters
<1>4. CASE pc' = "killed" /\ ~handler
  <2>1. Phase' = "stopped" /\ Total' = Total
    BY <1>1, <1>4 DEF Phase, Total, MasterGone, SweepInv
  <2>2. Made' = Made /\ Published' = Published
    BY <1>1, <1>2 DEF Made, Published
  <2>3. Abstract!Stop
    BY <1>1, <2>1, <2>2 DEF Abstract!Stop
  <2> QED BY <2>3 DEF Abstract!Next
<1> QED BY <1>1, <1>3, <1>4

LEMMA MasterSweep ==
  ASSUME TypeOK, ProtocolInv, EstimateInv, SweepInv, MasterNext
  PROVE  [Abstract!Next]_Abstract!vars
<1>1. ASSUME UNCHANGED <<up, point, rows>>, Phase' = Phase, Total' = Total
      PROVE  UNCHANGED Abstract!vars
  BY <1>1, SameBatches, Stutters
<1>2. CASE StartEstimate \/ NoNewSlave \/ NoIdleSlave \/ NoPendingSlave \/ UpdateResults
             \/ CheckInterrupt \/ MasterWait \/ Exit
  <2>1. UNCHANGED <<up, point, rows>> /\ Phase' = Phase /\ Total' = Total
    BY <1>2 DEF StartEstimate, NoNewSlave, NoIdleSlave, NoPendingSlave, UpdateResults,
                CheckInterrupt, LoopHead, MasterWait, Exit, clusterVars, linkVars,
                Phase, Total, MasterGone
  <2> QED BY <1>1, <2>1
<1>3. ASSUME NEW s \in Slaves,
             InitSlave(s) \/ WorkIdleSlave(s) \/ MasterAccept(s) \/ FindPendingSlave(s)
               \/ ReadFails(s) \/ KillIdleSlave(s)
      PROVE  UNCHANGED Abstract!vars
  <2>1. UNCHANGED <<up, point, rows>> /\ Phase' = Phase /\ Total' = Total
    BY <1>3 DEF InitSlave, WorkIdleSlave, MasterAccept, FindPendingSlave, ReadFails,
                KillIdleSlave, sweepVars, linkVars, Phase, Total, MasterGone
  <2> QED BY <1>1, <2>1
<1>4. ASSUME NEW s \in Slaves, DiscardResult(s) \/ ReadCpuTime(s)
      PROVE  Abstract!Drop(s)
  <2>1. /\ UNCHANGED <<point, rows>> /\ Phase' = Phase /\ Total' = Total /\ s \in cur
        /\ \/ pc = "result" /\ Receives(s, "result")
           \/ pc = "cputime" /\ Receives(s, "cputime")
    BY <1>4 DEF DiscardResult, ReadCpuTime, Phase, Total, MasterGone
  <2>2. up'[s] = <<>>
    BY <2>1, ResultRead, CpuTimeRead
  <2>3. \A t \in Slaves \ {s} : up'[t] = up[t]
    BY <2>1 DEF Receives, TypeOK, ClusterTypeOK
  <2>4. BatchesOf(s)' = {}
    BY <2>2, EmptyReach
  <2> QED BY <2>1, <2>3, <2>4, Drops
<1>5. ASSUME NEW s \in Slaves, AccumulateResult(s) PROVE Abstract!Add(s)
  BY <1>5, AddStep
<1>6. CASE SampleAndAccumulate
  BY <1>6, DrawStep DEF Abstract!Next
<1>7. CASE WriteFinalResults
  BY <1>7, CloseStep DEF Abstract!Next
<1>8. CASE NextPoint
  BY <1>8, NextPointStep DEF Abstract!Next
<1> QED BY <1>2, <1>3, <1>4, <1>5, <1>6, <1>7, <1>8 DEF MasterNext, Abstract!Next

LEMMA SlaveSweep ==
  ASSUME TypeOK, ProtocolInv, SweepInv, NEW s \in Slaves, SlaveNext(s),
         UNCHANGED <<sweepVars, userVars>>
  PROVE  [Abstract!Next]_Abstract!vars
<1>1. point' = point /\ rows' = rows /\ Phase' = Phase /\ Total' = Total
  BY DEF sweepVars, Phase, Total, MasterGone
<1>2. ASSUME \A t \in Slaves \ {s} : up'[t] = up[t], BatchesOf(s)' = BatchesOf(s)
      PROVE  UNCHANGED Abstract!vars
  BY <1>1, <1>2, SameBatches, Stutters
<1>3. CASE UNCHANGED up
  BY <1>2, <1>3, SameBatches
<1>4. CASE SlaveSendCpuTime(s)
  <2>1. up'[s] = Append(up[s], CpuTime) /\ \A t \in Slaves \ {s} : up'[t] = up[t]
    BY <1>4 DEF SlaveSendCpuTime, TypeOK, ClusterTypeOK
  <2> QED BY <1>2, <2>1, BatchesCpuTime DEF SweepInv
<1>5. ASSUME NEW n \in Batches, SlaveReturn(s, n) PROVE Abstract!Make(s)
  <2>1. up[s] = <<>> /\ up'[s] = <<Result(param[s], n)>> /\ param[s] \in Points
    BY <1>5, Returned
  <2>2. \A t \in Slaves \ {s} : up'[t] = up[t]
    BY <1>5 DEF SlaveReturn, TypeOK, ClusterTypeOK
  <2>3. param[s] \in 1..point /\ param[s] \in 0..NumPoints
    BY <2>1, NumPointsAssumption DEF SweepInv, TypeOK, Points
  <2>4. BatchesOf(s) = {} /\ BatchesOf(s)' = {[point |-> param[s], count |-> n]}
    <3>1. BatchesOf(s) = {}
      BY <2>1, NoBatches
    <3>2. Len(up'[s]) = 1 /\ up'[s][1] = Result(param[s], n)
      BY <2>1
    <3>3. {j \in 1..Len(up'[s]) : up'[s][j].tag = "result"} = {1}
      BY <3>2 DEF Result
    <3> QED BY <3>1, <3>2, <3>3 DEF BatchesOf, Result
  <2>5. Made[s] = {} /\ Made' = [Made EXCEPT ![s] = {[point |-> param[s], count |-> n]}]
    <3>1. \A t \in Slaves \ {s} : BatchesOf(t)' = BatchesOf(t)
      BY <2>2, SameBatches
    <3> QED BY <2>4, <3>1 DEF Made
  <2>6. Published' = Published
    BY <1>1 DEF Published
  <2> QED BY <1>1, <2>3, <2>5, <2>6 DEF Abstract!Make
<1>6. CASE Crash(s)
  <2>1. PICK k \in 0..Len(up[s]) : up'[s] = SubSeq(up[s], 1, k)
    BY <1>6 DEF Crash, TypeOK, ClusterTypeOK
  <2>2. \A t \in Slaves \ {s} : up'[t] = up[t]
    BY <1>6 DEF Crash, TypeOK, ClusterTypeOK
  <2>3. BatchesOf(s)' \in {{}, BatchesOf(s)}
    BY <2>1, BatchesPrefix DEF SweepInv
  <2>4. CASE BatchesOf(s)' = {}
    <3>1. Abstract!Drop(s)
      BY <1>1, <2>2, <2>4, Drops
    <3> QED BY <3>1 DEF Abstract!Next
  <2>5. CASE BatchesOf(s)' = BatchesOf(s)
    BY <1>2, <2>2, <2>5
  <2> QED BY <2>3, <2>4, <2>5
<1> QED BY <1>3, <1>4, <1>5, <1>6
        DEF SlaveNext, SlaveProcess, Connect, ConnectFails, SlaveGetCode,
            SlaveGetParameter, SlaveWork, SlaveDie, SlaveLosesMaster, Hang, Abstract!Next

(* Every behaviour of the master with any number of slaves, whatever       *)
(* crashes or locks up and whatever the user does, is one of Sweep: each   *)
(* batch is added at most once and only to the value it was made for, and  *)
(* a row holds exactly what was added.                                     *)
THEOREM Implementation == Spec => ImplementsSweep
<1>1. Init => Abstract!Init
  <2> SUFFICES ASSUME Init PROVE Abstract!Init
    OBVIOUS
  <2>1. Made = [s \in Slaves |-> {}]
    BY NoBatches DEF Init, ClusterInit, Made
  <2>2. Published = <<>>
    BY DEF Init, Published
  <2>3. Phase = "sampling" /\ Total = 0 /\ point = 1
    BY DEF Init, Phase, Total, MasterGone
  <2> QED BY <2>1, <2>2, <2>3 DEF Abstract!Init
<1>2. TypeOK /\ ProtocolInv /\ EstimateInv /\ SweepInv /\ [Next]_vars
        => [Abstract!Next]_Abstract!vars
  <2> SUFFICES ASSUME TypeOK, ProtocolInv, EstimateInv, SweepInv, [Next]_vars
               PROVE  [Abstract!Next]_Abstract!vars
    OBVIOUS
  <2>1. CASE MasterNext
    BY <2>1, MasterSweep
  <2>2. CASE \E s \in Slaves : SlaveNext(s) /\ UNCHANGED <<sweepVars, userVars>>
    BY <2>2, SlaveSweep
  <2>3. CASE SigInt
    BY <2>3, SigIntStep
  <2>4. CASE (\E k \in Keys : PressKey(k)) \/ Finished \/ UNCHANGED vars
    <3>1. UNCHANGED <<up, sweepVars>>
      BY <2>4 DEF PressKey, Finished, vars, clusterVars
    <3>2. point' = point /\ rows' = rows /\ Phase' = Phase /\ Total' = Total
      BY <3>1 DEF sweepVars, Phase, Total, MasterGone
    <3>3. UNCHANGED Abstract!vars
      BY <3>1, <3>2, SameBatches, Stutters
    <3> QED BY <3>3
  <2> QED BY <2>1, <2>2, <2>3, <2>4 DEF Next
<1> QED BY <1>1, <1>2, TypeCorrect, ProtocolInvariant, EstimateInvariant, SweepInvariant,
           PTL DEF Spec, ImplementsSweep, Abstract!Spec
=============================================================================
