------------------------ MODULE StreamSimulator_proofs ------------------------
(***************************************************************************)
(* Lemmas on the stages of a communication system; the proof that the      *)
(* simulator of block transmission keeps sender and receiver in step; and  *)
(* the proof that what the simulator of stream transmission relies on      *)
(* holds for every frame length, range of drifts, state space and number   *)
(* of frames.                                                              *)
(***************************************************************************)
EXTENDS StreamSimulator_inv, CommsysSimulator, Induction,
        SequenceTheorems

(***************************************************************************)
(* The stages of a system                                                  *)
(***************************************************************************)

LEMMA ProcessTypes ==
  ASSUME NEW p \in Process
  PROVE  /\ MarkAsDirty(p) \in Process /\ MarkAsClean(p) \in Process
         /\ AdvanceAlways(p) \in Process /\ AdvanceIfDirty(p) \in Process
         /\ Receive(p) \in Process
<1>1. ASSUME NEW q \in Process
      PROVE  MarkAsDirty(q) \in Process /\ MarkAsClean(q) \in Process
  BY <1>1 DEF Process, MarkAsDirty, MarkAsClean
<1>2. AdvanceAlways(p) \in Process /\ AdvanceIfDirty(p) \in Process
  BY DEF Process, AdvanceAlways, AdvanceIfDirty
<1> QED BY <1>1, <1>2 DEF Receive

(* What a reception does to the table and to the flag.                     *)
LEMMA ProcessSteps ==
  ASSUME NEW p \in Process
  PROVE  /\ Receive(p).table = IF p.dirty THEN p.table + 1 ELSE p.table
         /\ Receive(p).dirty
         /\ MarkAsClean(p).table = p.table /\ ~ MarkAsClean(p).dirty
         /\ AdvanceAlways(p).table = p.table + 1 /\ ~ AdvanceAlways(p).dirty
<1>1. AdvanceIfDirty(p).table = IF p.dirty THEN p.table + 1 ELSE p.table
  BY DEF AdvanceIfDirty, AdvanceAlways
<1>2. AdvanceIfDirty(p) \in Process
  BY ProcessTypes
<1>3. \A q \in Process : MarkAsDirty(q).table = q.table /\ MarkAsDirty(q).dirty
  BY DEF MarkAsDirty, Process
<1>4. MarkAsClean(p).table = p.table /\ ~ MarkAsClean(p).dirty
  BY DEF MarkAsClean, Process
<1> QED BY <1>1, <1>2, <1>3, <1>4 DEF Receive, AdvanceAlways

LEMMA CodecTypes ==
  ASSUME NEW c \in Codec
  PROVE  Encode(c) \in Codec /\ Decode(c) \in Codec /\ CodecTable(c) \in Nat
<1>1. c.inter \in Nat /\ c.inter + TablesPerBlock(c) \in Nat
  BY BlocksAssumption DEF Codec, TablesPerBlock
<1>2. Encode(c) \in Codec
  BY <1>1 DEF Encode, Codec
<1>3. Decode(c) \in Codec
  BY <1>1 DEF Decode, Codec
<1>4. CodecTable(c) \in Nat
  BY <1>1 DEF CodecTable
<1> QED BY <1>2, <1>3, <1>4

LEMMA MapperTypes ==
  ASSUME NEW m \in Mapper
  PROVE  /\ MapperClean(m) \in Mapper /\ MapperAdvance(m) \in Mapper
         /\ Transform(m) \in Mapper /\ InverseMap(m) \in Mapper
<1>1. m.sub \in Process
  BY DEF Mapper
<1>2. MapperClean(m) \in Mapper
  BY <1>1, ProcessTypes DEF MapperClean, Mapper
<1>3. ASSUME NEW n \in Mapper PROVE MapperAdvance(n) \in Mapper
  BY ProcessTypes DEF MapperAdvance, Mapper
<1>4. Transform(m) \in Mapper
  BY <1>3, ProcessTypes DEF Transform, Mapper
<1>5. InverseMap(m) \in Mapper
  BY <1>3, ProcessTypes DEF InverseMap, Mapper
<1> QED BY <1>2, <1>3, <1>4, <1>5

LEMMA SystemTypes ==
  ASSUME NEW s \in System
  PROVE  /\ SeedFrom(s) \in System /\ EncodePath(s) \in System
         /\ TablesOf(s) \in Tables
         /\ \A t \in System : Shared(s, t) \in System
<1>1. s.cdc \in Codec /\ s.map \in Mapper /\ s.mdm \in Process
  BY DEF System
<1>2. SeedFrom(s) \in System
  BY <1>1 DEF SeedFrom, System, Codec, Mapper, Process
<1>3. EncodePath(s) \in System
  BY <1>1, CodecTypes, MapperTypes, ProcessTypes DEF EncodePath, System
<1>4. TablesOf(s) \in Tables
  BY <1>1, CodecTypes DEF TablesOf, Tables, Mapper, Process
<1>5. ASSUME NEW t \in System PROVE Shared(s, t) \in System
  <2>1. t.cdc \in Codec /\ t.map \in Mapper
    BY DEF System
  <2> QED BY <1>1, <2>1 DEF Shared, System, Codec, Mapper
<1> QED BY <1>2, <1>3, <1>4, <1>5

(***************************************************************************)
(* What becomes of the tables and of the flags                             *)
(***************************************************************************)

LEMMA Kinds ==
  ASSUME NEW s \in System
  PROVE  /\ SeedFrom(s).cdc.kind = s.cdc.kind /\ SeedFrom(s).map.kind = s.map.kind
         /\ EncodePath(s).cdc.kind = s.cdc.kind
         /\ EncodePath(s).map.kind = s.map.kind
         /\ \A t \in System : /\ Shared(s, t).cdc.kind = s.cdc.kind
                              /\ Shared(s, t).map.kind = s.map.kind
<1>1. s.cdc \in Codec /\ s.map \in Mapper
  BY DEF System
<1>2. \A m \in Mapper : MapperAdvance(m).kind = m.kind
  BY DEF MapperAdvance, Mapper
<1>3. Transform(s.map).kind = s.map.kind
  BY <1>1, <1>2, MapperTypes DEF Transform, Mapper
<1>4. EncodePath(s).cdc.kind = s.cdc.kind /\ EncodePath(s).map.kind = s.map.kind
  BY <1>1, <1>3 DEF EncodePath, Encode, Codec
<1>5. SeedFrom(s).cdc.kind = s.cdc.kind /\ SeedFrom(s).map.kind = s.map.kind
  BY <1>1 DEF SeedFrom, Codec, Mapper
<1>6. ASSUME NEW t \in System
      PROVE  Shared(s, t).cdc.kind = s.cdc.kind /\ Shared(s, t).map.kind = s.map.kind
  BY <1>1 DEF Shared, System, Codec, Mapper
<1> QED BY <1>4, <1>5, <1>6

(* The inverse of a mapper, the table of which is advanced when it is      *)
(* dirty, once if its part is not dirty otherwise.                         *)
LEMMA InverseTables ==
  ASSUME NEW m \in Mapper, m.dirty \/ ~ m.sub.dirty
  PROVE  LET n == InverseMap(m)
         IN  /\ n.sub.table = IF m.dirty THEN m.sub.table + 1 ELSE m.sub.table
             /\ n.dirty /\ n.sub.dirty
<1> DEFINE current == IF m.dirty THEN MapperAdvance(m) ELSE m
<1>1. m.sub \in Process
  BY DEF Mapper
<1>2. MapperAdvance(m).sub = AdvanceAlways(m.sub)
  BY DEF MapperAdvance, Mapper
<1>3. current \in Mapper
  BY MapperTypes
<1>4. current.sub \in Process /\ ~ current.sub.dirty
  <2>1. CASE m.dirty
    <3>1. AdvanceAlways(m.sub) \in Process /\ ~ AdvanceAlways(m.sub).dirty
      BY <1>1, ProcessTypes, ProcessSteps
    <3> QED BY <1>2, <2>1, <3>1
  <2>2. CASE ~ m.dirty
    BY <1>1, <2>2
  <2> QED BY <2>1, <2>2
<1>5. current.sub.table = IF m.dirty THEN m.sub.table + 1 ELSE m.sub.table
  BY <1>1, <1>2, ProcessSteps
<1>6. Receive(current.sub).table = current.sub.table /\ Receive(current.sub).dirty
  BY <1>4, ProcessSteps
<1>7. InverseMap(m) = [current EXCEPT !.dirty = TRUE, !.sub = Receive(@)]
  BY DEF InverseMap
<1> HIDE DEF current
<1>8. InverseMap(m).sub = Receive(current.sub) /\ InverseMap(m).dirty
  BY <1>3, <1>7 DEF Mapper
<1> QED BY <1>5, <1>6, <1>8

LEMMA CleanTables ==
  ASSUME NEW m \in Mapper
  PROVE  LET n == MapperClean(m)
         IN  n.sub.table = m.sub.table /\ ~ n.dirty /\ ~ n.sub.dirty
<1>1. MapperClean(m).sub = MarkAsClean(m.sub) /\ ~ MapperClean(m).dirty
  BY DEF MapperClean, Mapper
<1> QED BY <1>1, ProcessSteps DEF Mapper

(* Sending leaves every stage clean, so that a reception does not advance  *)
(* it again.                                                               *)
LEMMA SentStages ==
  ASSUME NEW s \in System
  PROVE  LET t == EncodePath(s)
         IN  ~ t.mdm.dirty /\ ~ t.map.dirty /\ ~ t.map.sub.dirty /\ ~ t.cdc.dirty
<1>1. s.cdc \in Codec /\ s.map \in Mapper
  BY DEF System
<1>2. ~ Encode(s.cdc).dirty
  BY <1>1 DEF Encode, Codec
<1>3. ~ Transform(s.map).dirty /\ ~ Transform(s.map).sub.dirty
  BY <1>1 DEF Transform, MapperAdvance, AdvanceAlways, Mapper
<1> QED BY <1>2, <1>3 DEF EncodePath, AdvanceAlways

(* A codec that is clean is at the table it encoded with; codec_multiblock *)
(* moves on by the blocks it aggregates.                                   *)
LEMMA DecodeTables ==
  ASSUME NEW c \in Codec
  PROVE  /\ Decode(c).kind = c.kind
         /\ c.kind # "multiblock" /\ ~ c.dirty =>
              CodecTable(Decode(c)) = CodecTable(c)
         /\ c.kind = "multiblock" =>
              CodecTable(Decode(c)) = CodecTable(c) + Blocks
<1>1. Decode(c).kind = c.kind
  BY DEF Decode, Codec
<1>2. ASSUME c.kind # "multiblock", ~ c.dirty
      PROVE  CodecTable(Decode(c)) = CodecTable(c)
  <2>1. Decode(c).inter = c.inter
    BY <1>2 DEF Decode, Codec
  <2> QED BY <1>1, <2>1 DEF CodecTable
<1>3. ASSUME c.kind = "multiblock"
      PROVE  CodecTable(Decode(c)) = CodecTable(c) + Blocks
  <2>1. Decode(c).inter = c.inter + Blocks
    BY <1>3 DEF Decode, TablesPerBlock, Codec
  <2> QED BY <1>1, <1>3, <2>1 DEF CodecTable
<1> QED BY <1>1, <1>2, <1>3

(***************************************************************************)
(* The receptions of a block                                               *)
(***************************************************************************)

(* However often commsys_iterative demodulates a block, it does so with    *)
(* the table the block was modulated with.                                 *)
LEMMA DemodulatedTables ==
  ASSUME NEW p \in Process, ~ p.dirty, iter \in Nat
  PROVE  LET q == DemodulatedRepeatedly(p)
         IN  q \in Process /\ q.table = p.table /\ q.dirty
<1> DEFINE Def(g) == [n \in 0..iter |-> IF n = 0 THEN p ELSE MarkAsClean(Receive(g[n - 1]))]
           f == CHOOSE g : g = Def(g)
           S == {n \in Nat : n \in 0..iter =>
                   f[n] \in Process /\ f[n].table = p.table /\ ~ f[n].dirty}
<1>1. \E g : g = Def(g)
  <2> DEFINE h == [x \in Nat \X Process |-> MarkAsClean(Receive(x[2]))]
  <2>1. h \in [Nat \X Process -> Process]
    BY ProcessTypes
  <2>2. PICK g \in [0..iter -> Process] :
          g[0] = p /\ \A n \in 1..iter : g[n] = h[<<n, g[n - 1]>>]
    <3> HIDE DEF h, Def, f, S
    <3>1. Recursion(Process, p, h, iter) # {}
      BY <2>1, RecursionExists
    <3> QED BY <3>1 DEF Recursion
  <2>3. \A n \in 1..iter : g[n - 1] \in Process /\ n \in Nat
    OBVIOUS
  <2>4. \A n \in 1..iter : g[n] = MarkAsClean(Receive(g[n - 1]))
    BY <2>2, <2>3
  <2>5. g = Def(g)
    BY <2>2, <2>4
  <2> QED BY <2>5
<1>2. f = Def(f)
  <2> HIDE DEF Def
  <2> QED BY <1>1
<1>3. 0 \in S
  <2> HIDE DEF f
  <2>1. f[0] = p
    BY <1>2
  <2> QED BY <2>1
<1>4. ASSUME NEW n \in Nat, n \in S PROVE n + 1 \in S
  <2> SUFFICES ASSUME n + 1 \in 0..iter
               PROVE  /\ f[n + 1] \in Process /\ f[n + 1].table = p.table
                      /\ ~ f[n + 1].dirty
    OBVIOUS
  <2>1. f[n + 1] = MarkAsClean(Receive(f[n]))
    <3> HIDE DEF f
    <3> QED BY <1>2
  <2> HIDE DEF f
  <2>2. f[n] \in Process /\ f[n].table = p.table /\ ~ f[n].dirty
    BY <1>4
  <2>3. Receive(f[n]) \in Process /\ Receive(f[n]).table = p.table
    BY <2>2, ProcessTypes, ProcessSteps
  <2> DEFINE q == Receive(f[n])
  <2>4. MarkAsClean(q) \in Process /\ MarkAsClean(q).table = q.table /\ ~ MarkAsClean(q).dirty
    <3> HIDE DEF q
    <3> QED BY <2>3, ProcessTypes, ProcessSteps DEF q
  <2> QED BY <2>1, <2>3, <2>4
<1>5. f[iter] \in Process /\ f[iter].table = p.table
  <2>1. iter \in S
    <3> HIDE DEF S
    <3> QED BY <1>3, <1>4, SetInduction
  <2> HIDE DEF f
  <2> QED BY <2>1
<1>6. DemodulatedRepeatedly(p) = MarkAsDirty(f[iter])
  BY DEF DemodulatedRepeatedly
<1> HIDE DEF f
<1> QED BY <1>5, <1>6, ProcessTypes DEF MarkAsDirty, Process

(***************************************************************************)
(* The inductive invariant                                                 *)
(***************************************************************************)

Multiblock == commsys.cdc.kind = "multiblock"

(* The codec has received the blocks of a codec_multiblock n times.        *)
ReceivedTimes(n) ==
  Multiblock => CodecTable(commsys.cdc) = sent.cdc + Blocks * n

(* The block is sent and no stage has received it: none is dirty.          *)
Awaiting ==
  /\ commsys.mdm.table = sent.mdm /\ ~ commsys.mdm.dirty
  /\ commsys.map.sub.table = sent.map
  /\ ~ commsys.map.dirty /\ ~ commsys.map.sub.dirty
  /\ CodecTable(commsys.cdc) = sent.cdc
  /\ ~ Multiblock => ~ commsys.cdc.dirty

(* The tables of the last reception are those the system is at.            *)
Received ==
  used.mdm = sent.mdm /\ used.map = sent.map /\ used.cdc = CodecTable(commsys.cdc)

(* Between two iterations of commsys_fulliter the modem and the mapper are *)
(* clean and at the table of the block; so is the mapper within one.       *)
Cycling ==
  /\ cur_cdc_iter \in 0..CodecIterations - 1
  /\ cur_mdm_iter \in 0..iter
  /\ decodes = CodecIterations * cur_mdm_iter + cur_cdc_iter
  /\ decodes = 0 => Awaiting
  /\ commsys.mdm.table = sent.mdm /\ commsys.map.sub.table = sent.map
  /\ cur_mdm_iter < iter => ~ commsys.map.dirty /\ ~ commsys.map.sub.dirty
  /\ cur_mdm_iter < iter /\ cur_cdc_iter = 0 => ~ commsys.mdm.dirty
  /\ decodes > 0 => Received
  /\ ReceivedTimes(decodes)
  /\ ~ Multiblock /\ decodes <= CodecIterations => CodecTable(commsys.cdc) = sent.cdc

BlockInv ==
  /\ BlockTypeOK
  /\ step # "idle" => blocks < MaxBlocks
  /\ step = "sent" => Awaiting
  /\ step = "received" => decodes <= NumIter
  /\ step = "received" /\ sysclass = "commsys_fulliter" => Cycling
  /\ step = "received" /\ sysclass # "commsys_fulliter" =>
       /\ Received /\ ReceivedTimes(1)
       /\ ~ Multiblock => CodecTable(commsys.cdc) = sent.cdc

LEMMA BlockInitInv == BlockInit => BlockInv
<1> SUFFICES ASSUME BlockInit PROVE BlockInv
  OBVIOUS
<1>1. PICK c \in CodecKinds, m \in MapperKinds : commsys = SeedFrom(NewSystem(c, m))
  BY DEF BlockInit
<1> DEFINE new == NewSystem(c, m)
<1>2. new \in System
  <2>1. Fresh \in Process /\ Fresh.dirty
    BY DEF Fresh, Process
  <2> QED BY <2>1 DEF NewSystem, NewCodec, NewMapper, System, Codec, Mapper
<1>3. commsys \in System
  BY <1>1, <1>2, SystemTypes
<1>5. BlockTypeOK
  <2>1. NoTables \in Tables
    BY DEF NoTables, Tables
  <2> QED BY <1>3, <2>1, SimulatorAssumption DEF BlockInit, BlockTypeOK
<1> QED BY <1>5 DEF BlockInit, BlockInv

LEMMA CodecIterationsType == CodecIterations \in Nat \ {0}
BY SimulatorAssumption DEF CodecIterations

LEMMA PositiveProduct ==
  ASSUME NEW c \in Nat \ {0}, NEW m \in Nat \ {0}
  PROVE  c * m \in Nat \ {0} /\ c * (m - 1) + c = c * m
OBVIOUS

(* As long as calls are left, so is an iteration of the system; and the    *)
(* call that ends one counts for all of its codec's.                       *)
LEMMA IterationsLeft ==
  ASSUME NEW c \in Nat \ {0}, NEW m \in Nat, NEW n \in Nat, NEW k \in Nat,
         c * m + k < c * n
  PROVE  m < n
<1> SUFFICES ASSUME m >= n PROVE FALSE
  OBVIOUS
<1>1. c * m >= c * n
  <2>1. m = n + (m - n) /\ m - n \in Nat
    OBVIOUS
  <2>2. c * m = c * n + c * (m - n)
    BY <2>1
  <2>3. c * (m - n) \in Nat /\ c * n \in Nat
    BY <2>1
  <2> QED BY <2>2, <2>3
<1> QED BY <1>1

LEMMA CycleTypes ==
  ASSUME NEW s \in System, NEW again \in BOOLEAN
  PROVE  InnerCode(s) \in System /\ Feedback(s, again) \in System
<1>1. s.cdc \in Codec /\ s.map \in Mapper /\ s.mdm \in Process
  BY DEF System
<1>2. InverseMap(s.map) \in Mapper /\ MapperClean(InverseMap(s.map)) \in Mapper
  BY <1>1, MapperTypes
<1>3. Receive(s.mdm) \in Process /\ MarkAsClean(s.mdm) \in Process
  BY <1>1, ProcessTypes
<1>4. InnerCode(s) \in System
  BY <1>1, <1>2, <1>3, CodecTypes DEF InnerCode, System
<1>5. Feedback(s, again) \in System
  <2>1. CASE again
    BY <1>1, <1>2, <1>3, <2>1 DEF Feedback, System
  <2>2. CASE ~ again
    BY <1>1, <1>2, <1>3, <2>2 DEF Feedback, System
  <2> QED BY <2>1, <2>2
<1> QED BY <1>4, <1>5

(* A full-system iteration begins with clean stages and uses the tables    *)
(* they are at.                                                            *)
LEMMA InnerCodeTables ==
  ASSUME NEW s \in System, ~ s.map.dirty, ~ s.map.sub.dirty, ~ s.mdm.dirty
  PROVE  LET t == InnerCode(s)
         IN  /\ t.cdc = Decode(s.cdc)
             /\ t.mdm.table = s.mdm.table
             /\ t.map.sub.table = s.map.sub.table
             /\ ~ t.map.dirty /\ ~ t.map.sub.dirty
<1>1. s.map \in Mapper /\ s.mdm \in Process
  BY DEF System
<1>2. InverseMap(s.map).sub.table = s.map.sub.table /\ InverseMap(s.map) \in Mapper
  BY <1>1, InverseTables, MapperTypes
<1> DEFINE inverse == InverseMap(s.map)
<1>3. /\ MapperClean(inverse).sub.table = inverse.sub.table
      /\ ~ MapperClean(inverse).dirty /\ ~ MapperClean(inverse).sub.dirty
  <2> HIDE DEF inverse
  <2> QED BY <1>2, CleanTables DEF inverse
<1>4. Receive(s.mdm).table = s.mdm.table
  BY <1>1, ProcessSteps
<1> QED BY <1>2, <1>3, <1>4 DEF InnerCode

LEMMA FeedbackTables ==
  ASSUME NEW s \in System, NEW again \in BOOLEAN, ~ s.map.dirty, ~ s.map.sub.dirty
  PROVE  LET t == Feedback(s, again)
         IN  /\ t.cdc = s.cdc
             /\ t.mdm.table = s.mdm.table
             /\ t.map.sub.table = s.map.sub.table
             /\ again => ~ t.map.dirty /\ ~ t.map.sub.dirty /\ ~ t.mdm.dirty
<1>1. s.map \in Mapper /\ s.mdm \in Process
  BY DEF System
<1>2. InverseMap(s.map).sub.table = s.map.sub.table /\ InverseMap(s.map) \in Mapper
  BY <1>1, InverseTables, MapperTypes
<1> DEFINE inverse == InverseMap(s.map)
<1>3. /\ MapperClean(inverse).sub.table = inverse.sub.table
      /\ ~ MapperClean(inverse).dirty /\ ~ MapperClean(inverse).sub.dirty
  <2> HIDE DEF inverse
  <2> QED BY <1>2, CleanTables DEF inverse
<1>4. MarkAsClean(s.mdm).table = s.mdm.table /\ ~ MarkAsClean(s.mdm).dirty
  BY <1>1, ProcessSteps
<1>5. /\ Feedback(s, again).cdc = s.cdc
      /\ Feedback(s, again).map = IF again THEN MapperClean(inverse) ELSE inverse
      /\ Feedback(s, again).mdm = IF again THEN MarkAsClean(s.mdm) ELSE s.mdm
  BY DEF Feedback, System
<1> QED BY <1>2, <1>3, <1>4, <1>5

(***************************************************************************)
(* One lemma for each action                                               *)
(***************************************************************************)

LEMMA SendBlockStep == BlockInv /\ SendBlock => BlockInv'
<1> SUFFICES ASSUME BlockInv, SendBlock PROVE BlockInv'
  OBVIOUS
<1>1. commsys \in System /\ step = "idle" /\ blocks < MaxBlocks
  BY DEF BlockInv, BlockTypeOK, SendBlock
<1>2. /\ commsys' = EncodePath(commsys) /\ sent' = TablesOf(commsys')
      /\ used' = NoTables /\ step' = "sent"
      /\ UNCHANGED <<sysclass, iter, cur_mdm_iter, cur_cdc_iter, decodes, blocks>>
  BY DEF SendBlock
<1>3. commsys' \in System /\ commsys'.cdc.kind = commsys.cdc.kind
  BY <1>1, <1>2, SystemTypes, Kinds
<1>4. BlockTypeOK'
  <2>1. NoTables \in Tables
    BY DEF NoTables, Tables
  <2>2. sent' \in Tables
    BY <1>2, <1>3, SystemTypes
  <2> QED BY <1>2, <1>3, <2>1, <2>2 DEF BlockInv, BlockTypeOK
<1>5. Awaiting'
  <2>1. /\ ~ commsys'.mdm.dirty /\ ~ commsys'.map.dirty
        /\ ~ commsys'.map.sub.dirty /\ ~ commsys'.cdc.dirty
    BY <1>1, <1>2, SentStages
  <2>2. /\ sent'.mdm = commsys'.mdm.table /\ sent'.map = commsys'.map.sub.table
        /\ sent'.cdc = CodecTable(commsys'.cdc)
    BY <1>2 DEF TablesOf
  <2> QED BY <2>1, <2>2 DEF Awaiting
<1> QED BY <1>1, <1>2, <1>4, <1>5 DEF BlockInv

LEMMA ReceivePathStep == BlockInv /\ ReceivePath => BlockInv'
<1> SUFFICES ASSUME BlockInv, ReceivePath PROVE BlockInv'
  OBVIOUS
<1>1. /\ commsys \in System /\ step = "sent" /\ Awaiting
      /\ sysclass # "commsys_fulliter" /\ iter \in Nat \ {0}
      /\ blocks < MaxBlocks
  BY SimulatorAssumption DEF BlockInv, BlockTypeOK, ReceivePath
<1>2. /\ commsys.cdc \in Codec /\ commsys.map \in Mapper /\ commsys.mdm \in Process
      /\ commsys.map.sub \in Process
  BY <1>1 DEF System, Mapper
<1>3. /\ used' = TablesOf(commsys') /\ step' = "received" /\ decodes' = 0
      /\ UNCHANGED <<sysclass, iter, sent, cur_mdm_iter, cur_cdc_iter, blocks>>
      /\ commsys'.cdc = Decode(commsys.cdc)
      /\ commsys'.map = InverseMap(commsys.map)
      /\ commsys'.mdm = IF sysclass = "commsys" THEN Receive(commsys.mdm)
                        ELSE DemodulatedRepeatedly(commsys.mdm)
      /\ commsys' = [cdc |-> commsys'.cdc, map |-> commsys'.map, mdm |-> commsys'.mdm]
  BY DEF ReceivePath
<1>4. commsys'.mdm \in Process /\ commsys'.mdm.table = sent.mdm
  <2>1. Receive(commsys.mdm) \in Process /\ Receive(commsys.mdm).table = sent.mdm
    BY <1>1, <1>2, ProcessTypes, ProcessSteps DEF Awaiting
  <2>2. /\ DemodulatedRepeatedly(commsys.mdm) \in Process
        /\ DemodulatedRepeatedly(commsys.mdm).table = sent.mdm
    BY <1>1, <1>2, DemodulatedTables DEF Awaiting
  <2> QED BY <1>3, <2>1, <2>2
<1>5. commsys'.map \in Mapper /\ commsys'.map.sub.table = sent.map
  BY <1>1, <1>2, <1>3, MapperTypes, InverseTables DEF Awaiting
<1>6. commsys'.cdc \in Codec /\ commsys'.cdc.kind = commsys.cdc.kind
  BY <1>2, <1>3, CodecTypes, DecodeTables
<1>7. commsys' \in System
  BY <1>3, <1>4, <1>5, <1>6 DEF System
<1>8. /\ ReceivedTimes(1)'
      /\ (~ Multiblock)' => CodecTable(commsys'.cdc) = sent'.cdc
  <2>1. CASE Multiblock
    <3>1. CodecTable(commsys'.cdc) = sent.cdc + Blocks
      BY <1>1, <1>2, <1>3, <2>1, DecodeTables DEF Awaiting, Multiblock
    <3>2. Blocks * 1 = Blocks
      BY BlocksAssumption
    <3> QED BY <1>3, <1>6, <2>1, <3>1, <3>2 DEF ReceivedTimes, Multiblock
  <2>2. CASE ~ Multiblock
    BY <1>1, <1>2, <1>3, <1>6, <2>2, DecodeTables
    DEF Awaiting, Multiblock, ReceivedTimes
  <2> QED BY <2>1, <2>2
<1>9. used' \in Tables
  BY <1>3, <1>7, SystemTypes
<1>10. Received'
  BY <1>3, <1>4, <1>5 DEF TablesOf, Received
<1>11. BlockTypeOK'
  BY <1>3, <1>7, <1>9 DEF BlockInv, BlockTypeOK
<1>12. decodes' <= NumIter'
  <2>1. CodecIterations' = CodecIterations
    BY <1>6 DEF CodecIterations
  <2>2. NumIter' = CodecIterations * 1
    BY <1>1, <1>3, <2>1 DEF NumIter
  <2> QED BY <1>3, <2>2, CodecIterationsType
<1> QED BY <1>1, <1>3, <1>8, <1>10, <1>11, <1>12 DEF BlockInv

LEMMA StoreReceivedStep == BlockInv /\ StoreReceived => BlockInv'
<1> SUFFICES ASSUME BlockInv, StoreReceived PROVE BlockInv'
  OBVIOUS
<1>1. /\ Awaiting /\ blocks < MaxBlocks /\ sysclass = "commsys_fulliter"
      /\ BlockTypeOK /\ iter \in Nat \ {0}
  BY SimulatorAssumption DEF BlockInv, BlockTypeOK, StoreReceived
<1>2. /\ cur_mdm_iter' = 0 /\ cur_cdc_iter' = 0 /\ decodes' = 0 /\ step' = "received"
      /\ UNCHANGED <<sysclass, iter, commsys, sent, used, blocks>>
  BY DEF StoreReceived
<1>3. Awaiting' /\ CodecIterations' = CodecIterations
  BY <1>1, <1>2 DEF Awaiting, Multiblock, CodecIterations
<1>4. Cycling'
  <2>1. CodecIterations * 0 + 0 = 0
    BY CodecIterationsType
  <2>2. sent'.cdc + Blocks * 0 = sent'.cdc
    BY <1>1, <1>2, BlocksAssumption DEF BlockTypeOK, Tables
  <2>3. ReceivedTimes(0)'
    BY <1>3, <2>2 DEF ReceivedTimes, Awaiting
  <2> QED BY <1>1, <1>2, <1>3, <2>1, <2>3, CodecIterationsType DEF Cycling, Awaiting
<1>5. decodes' <= NumIter'
  <2>1. NumIter' = CodecIterations * iter
    BY <1>1, <1>2, <1>3 DEF NumIter
  <2>2. CodecIterations * iter \in Nat
    BY <1>1, CodecIterationsType
  <2> QED BY <1>2, <2>1, <2>2
<1>6. BlockTypeOK'
  BY <1>1, <1>2 DEF BlockTypeOK
<1> QED BY <1>1, <1>2, <1>4, <1>5, <1>6 DEF BlockInv

LEMMA DecodeBlockStep == BlockInv /\ DecodeBlock => BlockInv'
<1> SUFFICES ASSUME BlockInv, DecodeBlock PROVE BlockInv'
  OBVIOUS
<1>1. /\ step = "received" /\ sysclass # "commsys_fulliter" /\ decodes < NumIter
      /\ decodes' = decodes + 1
      /\ UNCHANGED <<sysclass, iter, commsys, step, sent, used, cur_mdm_iter,
                     cur_cdc_iter, blocks>>
  BY DEF DecodeBlock, Decoded
<1>2. BlockTypeOK'
  BY <1>1 DEF BlockInv, BlockTypeOK
<1>3. decodes' <= NumIter'
  <2>1. NumIter' = CodecIterations * 1 /\ NumIter = CodecIterations * 1
    BY <1>1 DEF NumIter, CodecIterations
  <2> QED BY <1>1, <2>1, CodecIterationsType DEF BlockInv, BlockTypeOK
<1>4. /\ Received' /\ ReceivedTimes(1)'
      /\ (~ Multiblock)' => CodecTable(commsys'.cdc) = sent'.cdc
  BY <1>1 DEF BlockInv, Received, ReceivedTimes, Multiblock
<1> QED BY <1>1, <1>2, <1>3, <1>4 DEF BlockInv

LEMMA BlockDoneStep == BlockInv /\ BlockDone => BlockInv'
<1> SUFFICES ASSUME BlockInv, BlockDone PROVE BlockInv'
  OBVIOUS
<1>1. /\ step = "received" /\ step' = "idle" /\ blocks' = blocks + 1
      /\ decodes = NumIter /\ blocks < MaxBlocks
      /\ UNCHANGED <<sysclass, iter, commsys, sent, used, cur_mdm_iter,
                     cur_cdc_iter, decodes>>
  BY DEF BlockDone, BlockInv
<1>2. BlockTypeOK'
  BY <1>1, SimulatorAssumption DEF BlockInv, BlockTypeOK
<1> QED BY <1>1, <1>2 DEF BlockInv

LEMMA DecodeCycleStep == BlockInv /\ DecodeCycle => BlockInv'
<1> SUFFICES ASSUME BlockInv, DecodeCycle PROVE BlockInv'
  OBVIOUS
<1> DEFINE c == CodecIterations
           m == cur_mdm_iter
           k == cur_cdc_iter
           demodulated == IF k = 0 THEN InnerCode(commsys) ELSE commsys
           last == k + 1 = c
           again == m + 1 < iter
<1>1. /\ BlockTypeOK /\ Cycling /\ blocks < MaxBlocks
      /\ step = "received" /\ sysclass = "commsys_fulliter" /\ decodes < NumIter
  BY DEF BlockInv, DecodeCycle
<1>2. /\ commsys' = IF last THEN Feedback(demodulated, again) ELSE demodulated
      /\ used' = TablesOf(commsys')
      /\ k' = (IF last THEN 0 ELSE k + 1)
      /\ m' = (IF last THEN m + 1 ELSE m)
      /\ decodes' = decodes + 1
      /\ UNCHANGED <<sysclass, iter, step, sent, blocks>>
  BY DEF DecodeCycle, Decoded
<1>3. /\ c \in Nat \ {0} /\ m \in 0..iter /\ k \in 0..c - 1 /\ iter \in Nat \ {0}
      /\ decodes = c * m + k /\ commsys \in System
  BY <1>1, CodecIterationsType, SimulatorAssumption DEF Cycling, BlockTypeOK
<1>4. m < iter
  <2>1. c * m + k < c * iter
    BY <1>1, <1>3 DEF NumIter
  <2> HIDE DEF c, m, k
  <2> QED BY <1>3, <2>1, IterationsLeft
<1>5. /\ ~ commsys.map.dirty /\ ~ commsys.map.sub.dirty
      /\ k = 0 => ~ commsys.mdm.dirty
      /\ commsys.mdm.table = sent.mdm /\ commsys.map.sub.table = sent.map
  BY <1>1, <1>4 DEF Cycling
<1>6. /\ demodulated \in System
      /\ demodulated.mdm.table = sent.mdm /\ demodulated.map.sub.table = sent.map
      /\ ~ demodulated.map.dirty /\ ~ demodulated.map.sub.dirty
      /\ demodulated.cdc = IF k = 0 THEN Decode(commsys.cdc) ELSE commsys.cdc
  <2>1. CASE k = 0
    <3>1. InnerCode(commsys) \in System
      BY <1>3, CycleTypes
    <3> QED BY <1>3, <1>5, <2>1, <3>1, InnerCodeTables
  <2>2. CASE k # 0
    BY <1>3, <1>5, <2>2
  <2> QED BY <2>1, <2>2
<1>7. /\ commsys' \in System
      /\ commsys'.mdm.table = sent.mdm /\ commsys'.map.sub.table = sent.map
      /\ commsys'.cdc = demodulated.cdc
      /\ last => (again => /\ ~ commsys'.map.dirty /\ ~ commsys'.map.sub.dirty
                           /\ ~ commsys'.mdm.dirty)
      /\ ~ last => ~ commsys'.map.dirty /\ ~ commsys'.map.sub.dirty
  <2>1. again \in BOOLEAN
    OBVIOUS
  <2> HIDE DEF demodulated, again
  <2>2. CASE last
    BY <1>2, <1>6, <2>1, <2>2, CycleTypes, FeedbackTables
  <2>3. CASE ~ last
    BY <1>2, <1>6, <2>3
  <2> QED BY <2>2, <2>3
<1>8. commsys.cdc \in Codec
  BY <1>3 DEF System
<1>9. /\ commsys'.cdc.kind = commsys.cdc.kind /\ c' = c
      /\ (Multiblock' <=> Multiblock)
  <2>1. commsys'.cdc.kind = commsys.cdc.kind
    BY <1>6, <1>7, <1>8, DecodeTables
  <2> QED BY <1>2, <2>1 DEF CodecIterations, Multiblock
<1>10. Received'
  BY <1>2, <1>7 DEF TablesOf, Received
<1>11. decodes' = c * m' + k' /\ m' \in 0..iter /\ k' \in 0..c - 1
  <2>1. CASE last
    <3>1. c * m + c = c * (m + 1)
      BY <1>3
    <3>2. c * m \in Nat
      BY <1>3
    <3> HIDE DEF c, m, k
    <3> QED BY <1>2, <1>3, <1>4, <2>1, <3>1, <3>2
  <2>2. CASE ~ last
    <3>1. c * m \in Nat
      BY <1>3
    <3> HIDE DEF c, m, k
    <3> QED BY <1>2, <1>3, <1>4, <2>2, <3>1
  <2> QED BY <2>1, <2>2
<1>12. /\ m' < iter => ~ commsys'.map.dirty /\ ~ commsys'.map.sub.dirty
       /\ m' < iter /\ k' = 0 => ~ commsys'.mdm.dirty
  <2>1. CASE last
    BY <1>2, <1>7, <2>1
  <2>2. CASE ~ last
    BY <1>2, <1>3, <1>7, <2>2
  <2> QED BY <2>1, <2>2
<1>13. ReceivedTimes(decodes)'
  <2> SUFFICES ASSUME Multiblock
               PROVE  CodecTable(commsys'.cdc) = sent.cdc + Blocks * (decodes + 1)
    BY <1>2, <1>9 DEF ReceivedTimes
  <2>1. c = 1 /\ k = 0
    BY <1>3 DEF CodecIterations, Multiblock
  <2>2. commsys'.cdc = Decode(commsys.cdc)
    BY <1>6, <1>7, <2>1
  <2>3. CodecTable(commsys'.cdc) = CodecTable(commsys.cdc) + Blocks
    BY <1>8, <2>2, DecodeTables DEF Multiblock
  <2>4. CodecTable(commsys.cdc) = sent.cdc + Blocks * decodes
    BY <1>1 DEF Cycling, ReceivedTimes
  <2>5. sent.cdc \in Nat /\ decodes \in Nat /\ Blocks \in Nat
    BY <1>1, BlocksAssumption DEF BlockTypeOK, Tables
  <2> QED BY <2>3, <2>4, <2>5
<1>14. ASSUME ~ Multiblock, decodes' <= c PROVE CodecTable(commsys'.cdc) = sent.cdc
  <2>1. c * m + k < c * 1
    BY <1>2, <1>3, <1>14
  <2>2. m = 0
    <3>1. m < 1
      <4> HIDE DEF c, m, k
      <4> QED BY <1>3, <2>1, IterationsLeft
    <3> QED BY <1>3, <3>1
  <2>3. CASE k = 0
    <3>1. decodes = 0
      BY <1>3, <2>2, <2>3
    <3>2. ~ commsys.cdc.dirty /\ CodecTable(commsys.cdc) = sent.cdc
      BY <1>1, <1>14, <3>1 DEF Cycling, Awaiting
    <3> QED BY <1>6, <1>7, <1>8, <1>14, <2>3, <3>2, DecodeTables DEF Multiblock
  <2>4. CASE k # 0
    <3>1. decodes > 0 /\ decodes <= c
      BY <1>2, <1>3, <1>14, <2>2, <2>4
    <3>2. CodecTable(commsys.cdc) = sent.cdc
      BY <1>1, <1>14, <3>1 DEF Cycling
    <3> QED BY <1>6, <1>7, <2>4, <3>2
  <2> QED BY <2>3, <2>4
<1>15. decodes' > 0 /\ decodes' <= NumIter'
  <2>1. NumIter' = NumIter /\ NumIter = c * iter
    BY <1>1, <1>2, <1>9 DEF NumIter
  <2>2. c * iter \in Nat /\ decodes \in Nat
    BY <1>1, <1>3 DEF BlockTypeOK
  <2> QED BY <1>1, <1>2, <2>1, <2>2
<1>17. Cycling'
  BY <1>2, <1>7, <1>9, <1>10, <1>11, <1>12, <1>13, <1>14, <1>15 DEF Cycling
<1>18. BlockTypeOK'
  <2>1. used' \in Tables
    BY <1>2, <1>7, SystemTypes
  <2> QED BY <1>1, <1>2, <1>3, <1>7, <2>1 DEF BlockTypeOK
<1> QED BY <1>1, <1>2, <1>15, <1>17, <1>18 DEF BlockInv

(***************************************************************************)
(* The invariant and what follows from it                                  *)
(***************************************************************************)

LEMMA BlockInvariant == BlockSpec => []BlockInv
<1>1. BlockInv /\ [BlockNext]_blockvars => BlockInv'
  <2>1. BlockInv /\ BlockNext => BlockInv'
    BY SendBlockStep, ReceivePathStep, StoreReceivedStep, DecodeBlockStep,
       DecodeCycleStep, BlockDoneStep DEF BlockNext
  <2>2. BlockInv /\ UNCHANGED blockvars => BlockInv'
    BY DEF blockvars, BlockInv, BlockTypeOK, Awaiting, Received, ReceivedTimes,
           Cycling, Multiblock, NumIter, CodecIterations
  <2> QED BY <2>1, <2>2
<1> QED BY <1>1, BlockInitInv, PTL DEF BlockSpec

(* No variable of the block simulator leaves its range.                    *)
THEOREM BlockTypeCorrect == BlockSpec => []BlockTypeOK
<1>1. BlockInv => BlockTypeOK
  BY DEF BlockInv
<1> QED BY <1>1, BlockInvariant, PTL

(* Every reception of a block, however often the system demodulates and    *)
(* decodes it, uses the modem and mapper tables the block was sent with;   *)
(* the first uses the codec's too, except that of codec_multiblock.        *)
THEOREM BlocksInStep == BlockSpec => []BlockInStep
<1>1. BlockInv => BlockInStep
  <2> SUFFICES ASSUME BlockInv, step = "received", decodes > 0
               PROVE  /\ used.mdm = sent.mdm /\ used.map = sent.map
                      /\ /\ ~ Multiblock
                         /\ \/ sysclass # "commsys_fulliter"
                            \/ iter = 1
                            \/ decodes <= CodecIterations
                         => used.cdc = sent.cdc
    BY DEF BlockInStep, Receiving, Multiblock
  <2>1. CASE sysclass # "commsys_fulliter"
    BY <2>1 DEF BlockInv, Received
  <2>2. CASE sysclass = "commsys_fulliter"
    <3>1. Cycling
      BY <2>2 DEF BlockInv
    <3>2. iter = 1 => decodes <= CodecIterations
      BY <2>2, CodecIterationsType DEF BlockInv, NumIter
    <3> QED BY <2>2, <3>1, <3>2 DEF Cycling, Received
  <2> QED BY <2>1, <2>2
<1> QED BY <1>1, BlockInvariant, PTL

(* codec_multiblock, whose copy for encoding has taken the interleavers    *)
(* on, receives every block with later tables than those it was sent with. *)
THEOREM MultiblockOutOfStep == BlockSpec => []MultiblockAhead
<1>1. BlockInv => MultiblockAhead
  <2> SUFFICES ASSUME BlockInv, step = "received", decodes > 0, Multiblock
               PROVE  used.cdc = sent.cdc + Blocks * Receptions
    BY DEF MultiblockAhead, Receiving, Multiblock
  <2>1. CASE sysclass # "commsys_fulliter"
    BY <2>1 DEF BlockInv, Received, ReceivedTimes, Receptions
  <2>2. CASE sysclass = "commsys_fulliter"
    BY <2>2 DEF BlockInv, Cycling, Received, ReceivedTimes, Receptions
  <2> QED BY <2>1, <2>2
<1> QED BY <1>1, BlockInvariant, PTL

(***************************************************************************)
(* Seeding, sending, receiving and sharing a system, stage by stage        *)
(***************************************************************************)

LEMMA IterationTypes ==
  ASSUME NEW s \in System, NEW last \in BOOLEAN
  PROVE  /\ Iteration(s, last) \in System
         /\ Iteration(s, last).cdc.kind = s.cdc.kind
         /\ Iteration(s, last).map.kind = s.map.kind
<1>1. s.cdc \in Codec /\ s.map \in Mapper /\ s.mdm \in Process
  BY DEF System
<1> DEFINE map == InverseMap(MapperClean(InverseMap(s.map)))
<1>2. map \in Mapper /\ MapperClean(map) \in Mapper
  BY <1>1, MapperTypes
<1>3. Receive(s.mdm) \in Process /\ MarkAsClean(Receive(s.mdm)) \in Process
  BY <1>1, ProcessTypes
<1>4. Iteration(s, last) \in System
  BY <1>1, <1>2, <1>3, CodecTypes DEF Iteration, System
<1>5. \A m \in Mapper : InverseMap(m).kind = m.kind /\ MapperClean(m).kind = m.kind
  BY MapperTypes DEF InverseMap, MapperAdvance, MapperClean, Mapper
<1>6. map.kind = s.map.kind /\ MapperClean(map).kind = s.map.kind
  <2>1. InverseMap(s.map) \in Mapper /\ MapperClean(InverseMap(s.map)) \in Mapper
    BY <1>1, MapperTypes
  <2> QED BY <1>1, <1>2, <1>5, <2>1
<1> QED BY <1>1, <1>4, <1>6 DEF Iteration, Decode, Codec

(* The modem takes the next table when it is dirty.                        *)
LEMMA ModemTables ==
  ASSUME NEW s \in System
  PROVE  /\ SeedFrom(s).mdm.table = 0 /\ SeedFrom(s).mdm.dirty = s.mdm.dirty
         /\ EncodePath(s).mdm.table = s.mdm.table + 1
         /\ \A t : Shared(s, t).mdm = s.mdm
         /\ \A last \in BOOLEAN :
              /\ Iteration(s, last).mdm.table =
                   IF s.mdm.dirty THEN s.mdm.table + 1 ELSE s.mdm.table
              /\ Iteration(s, last).mdm.dirty = last
<1>1. s.mdm \in Process /\ Receive(s.mdm) \in Process
  BY ProcessTypes DEF System
<1>2. SeedFrom(s).mdm.table = 0 /\ SeedFrom(s).mdm.dirty = s.mdm.dirty
  BY <1>1 DEF SeedFrom, Process
<1>3. EncodePath(s).mdm.table = s.mdm.table + 1
  BY DEF EncodePath, AdvanceAlways
<1>4. \A t : Shared(s, t).mdm = s.mdm
  BY DEF Shared, System
<1>5. ASSUME NEW last \in BOOLEAN
      PROVE  /\ Iteration(s, last).mdm.table =
                   IF s.mdm.dirty THEN s.mdm.table + 1 ELSE s.mdm.table
             /\ Iteration(s, last).mdm.dirty = last
  <2>1. CASE last
    BY <1>1, <2>1, ProcessSteps DEF Iteration, Process
  <2>2. CASE ~ last
    <3>1. Iteration(s, last).mdm = MarkAsClean(Receive(s.mdm))
      BY <2>2 DEF Iteration
    <3>2. MarkAsClean(Receive(s.mdm)) \in Process
      BY <1>1, ProcessTypes
    <3>3. Iteration(s, last).mdm.dirty = FALSE
      BY <1>1, <3>1, <3>2, ProcessSteps DEF Process
    <3>4. Iteration(s, last).mdm.table = Receive(s.mdm).table
      BY <1>1, <3>1, ProcessSteps
    <3> QED BY <1>1, <2>2, <3>3, <3>4, ProcessSteps
  <2> QED BY <2>1, <2>2
<1> QED BY <1>2, <1>3, <1>4, <1>5

(* So does a mapper that keeps its table by value, in all the inverse      *)
(* transforms of an iteration.                                             *)
LEMMA MapperTables ==
  ASSUME NEW s \in System, s.map.kind = "interleaved"
  PROVE  /\ SeedFrom(s).map.sub.table = 0
         /\ SeedFrom(s).map.dirty = s.map.dirty
         /\ SeedFrom(s).map.sub.dirty = s.map.sub.dirty
         /\ EncodePath(s).map.sub.table = s.map.sub.table + 1
         /\ \A t : Shared(s, t).map = s.map
         /\ \A last \in BOOLEAN : (s.map.dirty \/ ~ s.map.sub.dirty) =>
              LET map == Iteration(s, last).map
              IN  /\ map.sub.table = IF s.map.dirty THEN s.map.sub.table + 1
                                     ELSE s.map.sub.table
                  /\ map.dirty = last
                  /\ map.sub.dirty = last
<1>1. s.map \in Mapper /\ s.map.sub \in Process
  BY DEF System, Mapper
<1>2. /\ SeedFrom(s).map.sub.table = 0
      /\ SeedFrom(s).map.dirty = s.map.dirty
      /\ SeedFrom(s).map.sub.dirty = s.map.sub.dirty
  BY <1>1 DEF SeedFrom, Mapper, Process
<1>3. EncodePath(s).map.sub.table = s.map.sub.table + 1
  BY <1>1 DEF EncodePath, Transform, MapperAdvance, AdvanceAlways, Mapper
<1>4. \A t : Shared(s, t).map = s.map
  BY <1>1 DEF Shared, System, Mapper
<1>5. ASSUME NEW last \in BOOLEAN, s.map.dirty \/ ~ s.map.sub.dirty
      PROVE  LET map == Iteration(s, last).map
             IN  /\ map.sub.table = IF s.map.dirty THEN s.map.sub.table + 1
                                    ELSE s.map.sub.table
                 /\ map.dirty = last
                 /\ map.sub.dirty = last
  <2> DEFINE t == IF s.map.dirty THEN s.map.sub.table + 1 ELSE s.map.sub.table
             first == InverseMap(s.map)
             clean == MapperClean(first)
             second == InverseMap(clean)
  <2>1. first \in Mapper /\ clean \in Mapper /\ second \in Mapper
    BY <1>1, MapperTypes
  <2>2. first.sub.table = t /\ first.dirty /\ first.sub.dirty
    BY <1>1, <1>5, InverseTables
  <2>3. clean.sub.table = t /\ ~ clean.dirty /\ ~ clean.sub.dirty
    BY <2>1, <2>2, CleanTables
  <2>4. second.sub.table = t /\ second.dirty /\ second.sub.dirty
    BY <2>1, <2>3, InverseTables
  <2>5. /\ MapperClean(second).sub.table = t
        /\ ~ MapperClean(second).dirty /\ ~ MapperClean(second).sub.dirty
    BY <2>1, <2>4, CleanTables
  <2>6. Iteration(s, last).map = IF last THEN second ELSE MapperClean(second)
    BY DEF Iteration
  <2>7. /\ second.dirty \in BOOLEAN /\ second.sub.dirty \in BOOLEAN
        /\ MapperClean(second).dirty \in BOOLEAN
        /\ MapperClean(second).sub.dirty \in BOOLEAN
    BY <2>1, MapperTypes DEF Mapper, Process
  <2> HIDE DEF second
  <2>8. CASE last
    BY <2>4, <2>6, <2>7, <2>8
  <2>9. CASE ~ last
    BY <2>5, <2>6, <2>7, <2>9
  <2> QED BY <2>8, <2>9
<1> QED BY <1>2, <1>3, <1>4, <1>5

(***************************************************************************)
(* The list of frames                                                      *)
(***************************************************************************)

LEMMA FrameList ==
  ASSUME NEW s \in Seq(Frame)
  PROVE  /\ \A f \in Frame :
              /\ Append(s, f) \in Seq(Frame) /\ Append(s, f) # <<>>
              /\ Len(Append(s, f)) = Len(s) + 1
              /\ \A i \in 1..Len(s) : Append(s, f)[i] = s[i]
              /\ Append(s, f)[Len(s) + 1] = f
              /\ s # <<>> => Head(Append(s, f)) = Head(s)
         /\ s # <<>> =>
              /\ Head(s) = s[1] /\ Head(s) \in Frame
              /\ Tail(s) \in Seq(Frame) /\ Len(Tail(s)) = Len(s) - 1
              /\ \A i \in 1..Len(s) - 1 : Tail(s)[i] = s[i + 1]
         /\ Len(s) \in Nat /\ (s = <<>> <=> Len(s) = 0)
<1>1. ASSUME NEW f \in Frame
      PROVE  /\ Append(s, f) \in Seq(Frame) /\ Append(s, f) # <<>>
             /\ Len(Append(s, f)) = Len(s) + 1
             /\ \A i \in 1..Len(s) : Append(s, f)[i] = s[i]
             /\ Append(s, f)[Len(s) + 1] = f
             /\ s # <<>> => Head(Append(s, f)) = Head(s)
  BY AppendProperties
<1>2. ASSUME s # <<>>
      PROVE  /\ Head(s) = s[1] /\ Head(s) \in Frame
             /\ Tail(s) \in Seq(Frame) /\ Len(Tail(s)) = Len(s) - 1
             /\ \A i \in 1..Len(s) - 1 : Tail(s)[i] = s[i + 1]
  BY <1>2, HeadTailProperties
<1>3. Len(s) \in Nat /\ (s = <<>> <=> Len(s) = 0)
  BY EmptySeq
<1> QED BY <1>1, <1>2, <1>3

(***************************************************************************)
(* Types                                                                   *)
(***************************************************************************)

LEMMA Parameters == [StreamNext]_streamvars => UNCHANGED parameters
BY DEF StreamNext, SeedStream, BeginFrame, ComputePriors, TransmitFrame,
       ExtractSegment, ReceiveFrame, EndFrame, streamvars

(* Where the end of the frame is fixed is an index of the state space.     *)
LEMMA ClosestIndexRange ==
  ASSUME offset \in Nat, prior_size \in Nat \ {0}, NEW drift \in Int
  PROVE  /\ ClosestIndex(drift) \in 0..prior_size - 1
         /\ drift + offset < ClosestIndex(drift) => ClosestIndex(drift) = 0
         /\ drift + offset > ClosestIndex(drift) =>
              ClosestIndex(drift) = prior_size - 1
BY DEF ClosestIndex

LEMMA StreamTypeStep ==
  ASSUME StreamTypeOK, KindsInv, WindowInv, SourceInv, [StreamNext]_streamvars
  PROVE  StreamTypeOK'
<1> USE StreamAssumption DEF StreamTypeOK
<1>0. UNCHANGED parameters
  BY Parameters
<1>1. CASE SeedStream
  <2>1. SeedFrom(sys) \in System
    BY SystemTypes
  <2> QED BY <1>0, <1>1, <2>1 DEF SeedStream, Cleared, parameters
<1>2. CASE BeginFrame
  <2>1. CASE stream_mode # "open" /\ frames_decoded >= N
    BY <1>0, <1>2, <2>1, EmptySeq DEF BeginFrame, Cleared, Parts, parameters
  <2>2. CASE ~ (stream_mode # "open" /\ frames_decoded >= N)
    BY <1>0, <1>2, <2>2, SMTT(40) DEF BeginFrame, Parts, parameters
  <2> QED BY <2>1, <2>2
<1>3. CASE ComputePriors
  <2>1. PICK new \in 0..MaxOffset, top \in 0..MaxTop :
          offset' = new /\ prior_size' = new + top + 1 /\ StreamAdvance(new)
    BY <1>3 DEF ComputePriors
  <2>2. received' \in [base : Int, size : Nat]
    BY <2>1 DEF StreamAdvance, SegmentStart
  <2>3. at' \in Parts
    BY <2>1 DEF StreamAdvance, Parts
  <2> QED BY <1>0, <1>3, <2>1, <2>2, <2>3 DEF ComputePriors, parameters
<1>4. CASE TransmitFrame
  <2>1. sys_enc' \in System /\ sys' \in System
    BY <1>4, SystemTypes DEF TransmitFrame
  <2>2. PICK drift \in Drifts :
          /\ source' = Append(source, [id |-> frames_encoded + 1,
                                       sent |-> TablesOf(sys_enc'),
                                       drift |-> drift])
          /\ received' = [received EXCEPT !.size = @ + Tau + drift]
    BY <1>4 DEF TransmitFrame
  <2>3. received.size + Tau + drift \in Nat
    OBVIOUS
  <2>4. [id |-> frames_encoded + 1, sent |-> TablesOf(sys_enc'), drift |-> drift] \in Frame
    BY <2>1, SystemTypes DEF Frame
  <2>5. source' \in Seq(Frame)
    BY <2>2, <2>4, FrameList
  <2>6. received' \in [base : Int, size : Nat]
    BY <2>2, <2>3
  <2>7. /\ frames_encoded' = frames_encoded + 1
        /\ UNCHANGED <<parameters, at, eof_size, offset, old_offset, prior_size,
                       pinned, estimated_drift, drift_error, frames_decoded,
                       iter_modem, tables, true_start, taken, seeds>>
    BY <1>4 DEF TransmitFrame
  <2> QED BY <2>1, <2>5, <2>6, <2>7 DEF parameters
<1>5. CASE ExtractSegment
  <2>1. prior_size \in Nat \ {0} /\ offset \in Nat
    BY <1>5 DEF ExtractSegment, WindowInv, Sized
  <2>2. source # <<>>
    BY <1>5 DEF ExtractSegment, FramesNeeded
  <2>3. Head(source) \in Frame
    BY <2>2, FrameList
  <2>4. EndDrift \in Int
    BY <2>3 DEF EndDrift, Frame
  <2>5. ClosestIndex(EndDrift) \in 0..prior_size - 1
    BY <2>1, <2>4, ClosestIndexRange
  <2>6. pinned' \in -1..MaxOffset + MaxTop
    BY <1>5, <2>1, <2>5 DEF ExtractSegment
  <2> QED BY <1>0, <1>5, <2>6 DEF ExtractSegment, Parts, parameters
<1>6. CASE ReceiveFrame
  <2>1. sys' \in System
    BY <1>6, IterationTypes DEF ReceiveFrame
  <2>2. sys_enc' \in System /\ tables' \in Tables
    BY <1>6, <2>1, SystemTypes DEF ReceiveFrame
  <2> QED BY <1>0, <1>6, <2>1, <2>2 DEF ReceiveFrame, parameters
<1>7. CASE EndFrame
  <2>1. source # <<>>
    BY <1>7 DEF EndFrame, SourceInv
  <2>a. Head(source) \in Frame /\ Tail(source) \in Seq(Frame)
    BY <2>1, FrameList
  <2>2. Head(source).drift \in Int /\ Tail(source) \in Seq(Frame)
    BY <2>a DEF Frame
  <2>3. PICK i \in EofIndices : /\ estimated_drift' = i - offset
                                /\ drift_error' = DriftErrorAfter(i - offset)
    BY <1>7 DEF EndFrame
  <2>4. i \in Int
    BY DEF EofIndices
  <2>5. taken + 1 \in 0..MaxFrames
    BY <1>7 DEF EndFrame, KindsInv
  <2>6. estimated_drift' \in Int /\ drift_error' \in Int
    BY <2>2, <2>3, <2>4 DEF DriftErrorAfter
  <2>7. true_start + Tau + Head(source).drift \in Int
    BY <2>2
  <2> QED
    BY <1>0, <1>7, <2>2, <2>5, <2>6, <2>7 DEF EndFrame, Parts, parameters
<1>8. CASE UNCHANGED streamvars
  BY <1>8 DEF streamvars, parameters
<1> QED BY <1>1, <1>2, <1>3, <1>4, <1>5, <1>6, <1>7, <1>8 DEF StreamNext

LEMMA KindsStep ==
  ASSUME StreamTypeOK, KindsInv, [StreamNext]_streamvars
  PROVE  /\ KindsInv'
         /\ sys'.cdc.kind = sys.cdc.kind /\ sys'.map.kind = sys.map.kind
<1> USE DEF KindsInv
<1>0. sys_iter' = sys_iter /\ sys_iter \in Nat \ {0} /\ iter_modem \in Nat
  BY Parameters DEF StreamTypeOK, parameters
<1>1. CASE SeedStream
  BY <1>0, <1>1, Kinds DEF SeedStream, Cleared, StreamTypeOK
<1>2. CASE BeginFrame
  BY <1>0, <1>2 DEF BeginFrame, Cleared
<1>3. CASE ComputePriors
  BY <1>0, <1>3 DEF ComputePriors, StreamAdvance
<1>4. CASE TransmitFrame
  <2>1. /\ sys_enc' \in System
        /\ sys_enc'.cdc.kind = sys_enc.cdc.kind
        /\ sys_enc'.map.kind = sys_enc.map.kind
    BY <1>4, SystemTypes, Kinds DEF TransmitFrame, StreamTypeOK
  <2>2. sys'.cdc.kind = sys.cdc.kind /\ sys'.map.kind = sys.map.kind
    BY <1>4, <2>1, Kinds DEF TransmitFrame, StreamTypeOK
  <2> QED BY <1>0, <1>4, <2>1, <2>2 DEF TransmitFrame
<1>5. CASE ExtractSegment
  BY <1>0, <1>5 DEF ExtractSegment
<1>6. CASE ReceiveFrame
  <2>1. /\ sys' \in System
        /\ sys'.cdc.kind = sys.cdc.kind /\ sys'.map.kind = sys.map.kind
    BY <1>6, IterationTypes DEF ReceiveFrame, StreamTypeOK
  <2>2. /\ sys_enc'.cdc.kind = sys_enc.cdc.kind
        /\ sys_enc'.map.kind = sys_enc.map.kind
    BY <1>6, <2>1, Kinds DEF ReceiveFrame, StreamTypeOK
  <2> QED BY <1>0, <1>6, <2>1, <2>2 DEF ReceiveFrame
<1>7. CASE EndFrame
  BY <1>0, <1>7 DEF EndFrame
<1>8. CASE UNCHANGED streamvars
  BY <1>8 DEF streamvars, parameters
<1> QED BY <1>1, <1>2, <1>3, <1>4, <1>5, <1>6, <1>7, <1>8 DEF StreamNext

(***************************************************************************)
(* The window on what was received                                         *)
(***************************************************************************)

LEMMA WindowStep ==
  ASSUME StreamTypeOK, KindsInv, WindowInv, SourceInv, [StreamNext]_streamvars
  PROVE  WindowInv'
<1> USE StreamAssumption
<1>0. /\ UNCHANGED parameters
      /\ N \in Nat \ {0} /\ lookahead \in Nat /\ frames_decoded \in Nat
      /\ received.base \in Int /\ received.size \in Nat
      /\ offset \in Nat /\ prior_size \in Nat /\ estimated_drift \in Int
      /\ drift_error \in Int /\ true_start \in Int /\ old_offset \in Nat
      /\ received \in [base : Int, size : Nat]
  BY Parameters DEF StreamTypeOK
<1>1. CASE SeedStream
  BY <1>1 DEF SeedStream, Cleared, WindowInv, Unused
<1>2. CASE BeginFrame
  <2>1. CASE stream_mode # "open" /\ frames_decoded >= N
    BY <1>2, <2>1 DEF BeginFrame, Cleared, WindowInv, Unused
  <2>2. CASE ~ (stream_mode # "open" /\ frames_decoded >= N)
    BY <1>0, <1>2, <2>2
    DEF BeginFrame, WindowInv, Unused, Estimated, parameters
  <2> QED BY <2>1, <2>2
<1>3. CASE ComputePriors
  <2>1. PICK new \in 0..MaxOffset, top \in 0..MaxTop :
          offset' = new /\ prior_size' = new + top + 1 /\ StreamAdvance(new)
    BY <1>3 DEF ComputePriors
  <2>2. /\ at' \in {"transmit", "abort"}
        /\ UNCHANGED <<true_start, drift_error>>
    BY <1>3, <2>1 DEF ComputePriors, StreamAdvance
  <2>3. ASSUME at' = "transmit" PROVE Sized'
    <3>1. prior_size' >= offset' + 1
      BY <2>1
    <3>2. CASE received.size = 0
      <4>1. received' = [base |-> -new, size |-> new]
        BY <2>1, <3>2 DEF StreamAdvance
      <4>2. frames_decoded = 0
        BY <1>0, <1>3, <3>2 DEF ComputePriors, WindowInv, Estimated
      <4>3. true_start = 0 /\ drift_error = 0
        BY <1>3, <4>2 DEF ComputePriors, WindowInv, Unused
      <4> QED BY <2>1, <2>2, <3>1, <4>1, <4>3 DEF Sized
    <3>3. CASE received.size # 0
      <4>1. received' = [base |-> received.base + SegmentStart(new),
                         size |-> received.size - SegmentStart(new)]
        BY <2>1, <2>3, <3>3 DEF StreamAdvance
      <4>2. frames_decoded > 0
        BY <1>0, <1>3, <3>3 DEF ComputePriors, WindowInv, Unused
      <4>3. received.base + old_offset + Tau + estimated_drift =
              true_start + drift_error
        BY <1>3, <4>2 DEF ComputePriors, WindowInv, Estimated
      <4>4. received'.base + new = true_start + drift_error
        BY <1>0, <4>1, <4>3 DEF SegmentStart
      <4> QED BY <2>1, <2>2, <3>1, <4>4 DEF Sized
    <3> QED BY <3>2, <3>3
  <2> QED BY <2>2, <2>3 DEF WindowInv
<1>4. CASE TransmitFrame
  <2>1. received'.base = received.base
    BY <1>0, <1>4 DEF TransmitFrame
  <2>2. /\ at = "transmit"
        /\ UNCHANGED <<at, offset, prior_size, drift_error, true_start>>
    BY <1>4 DEF TransmitFrame
  <2> QED BY <2>1, <2>2 DEF WindowInv, Sized
<1>5. CASE ExtractSegment
  <2>1. /\ at = "transmit" /\ source # <<>> /\ SegmentLength <= received.size
        /\ UNCHANGED <<parameters, source, received, offset, prior_size,
                       drift_error, frames_decoded, true_start>>
        /\ pinned' = IF stream_mode = "terminated" /\ frames_decoded = N - 1
                     THEN ClosestIndex(EndDrift) ELSE -1
    BY <1>0, <1>5 DEF ExtractSegment, FramesNeeded, SegmentLength
  <2>2. Sized /\ Sized'
    BY <2>1 DEF WindowInv, Sized
  <2>3. EndDrift \in Int
    <3>1. Head(source) \in Frame
      BY <2>1, FrameList DEF StreamTypeOK
    <3> QED BY <1>0, <3>1 DEF EndDrift, Frame
  <2>4. ClosestIndex(EndDrift) < prior_size
    BY <1>0, <2>2, <2>3, ClosestIndexRange DEF Sized
  <2>5. pinned' < prior_size'
    BY <1>0, <2>1, <2>2, <2>4 DEF Sized
  <2>6. ClosestIndex(EndDrift)' = ClosestIndex(EndDrift)
    BY <2>1 DEF ClosestIndex, EndDrift
  <2>7. (stream_mode = "terminated" /\ frames_decoded = N - 1 =>
           pinned = ClosestIndex(EndDrift))'
    BY <2>1, <2>6 DEF parameters
  <2>8. SegmentLength' <= received'.size
    BY <2>1 DEF SegmentLength, parameters
  <2>9. at' = "receive" \/ at' = "abort"
    BY <1>5 DEF ExtractSegment
  <2>10. received'.size >= SegmentLength'
    BY <1>0, <2>1, <2>8 DEF SegmentLength, parameters
  <2> QED BY <2>2, <2>5, <2>7, <2>9, <2>10 DEF WindowInv
<1>6. CASE ReceiveFrame
  <2>1. UNCHANGED <<parameters, at, source, received, offset, prior_size, pinned,
                    drift_error, frames_decoded, true_start>> /\ at = "receive"
    BY <1>6 DEF ReceiveFrame
  <2>2. ClosestIndex(EndDrift)' = ClosestIndex(EndDrift)
    BY <2>1 DEF ClosestIndex, EndDrift
  <2>3. SegmentLength' = SegmentLength /\ (Sized <=> Sized')
    BY <2>1 DEF SegmentLength, Sized, parameters
  <2> QED BY <2>1, <2>2, <2>3 DEF WindowInv, parameters
<1>7. CASE EndFrame
  <2>1. PICK i \in EofIndices : /\ estimated_drift' = i - offset
                                /\ drift_error' = DriftErrorAfter(i - offset)
    BY <1>7 DEF EndFrame
  <2>2. /\ at = "receive" /\ at' = "idle"
        /\ UNCHANGED <<received, offset, prior_size, lookahead>>
        /\ true_start' = true_start + Tau + Head(source).drift
        /\ frames_decoded' = frames_decoded + 1
    BY <1>7 DEF EndFrame, parameters
  <2>3. i \in 0..prior_size - 1
    BY <1>0, <2>2 DEF EofIndices, WindowInv, StreamTypeOK
  <2>4. received.base + offset = true_start + drift_error
    BY <2>2 DEF WindowInv, Sized
  <2>5. Head(source).drift \in Int
    <3>1. Head(source) \in Frame
      BY <2>2, FrameList DEF StreamTypeOK, SourceInv
    <3> QED BY <3>1 DEF Frame
  <2>6. received.base + offset + Tau + estimated_drift' = true_start' + drift_error'
    BY <1>0, <2>1, <2>2, <2>3, <2>4, <2>5 DEF DriftErrorAfter
  <2>7. estimated_drift' + offset \in 0..prior_size - 1
    BY <1>0, <2>1, <2>3
  <2>8. received.size >= Tau + lookahead + prior_size - 1
    BY <2>2 DEF WindowInv, SegmentLength
  <2>9. Estimated(offset)'
    BY <2>2, <2>6, <2>7, <2>8 DEF Estimated
  <2> QED BY <1>0, <2>2, <2>9 DEF WindowInv
<1>8. CASE UNCHANGED streamvars
  BY <1>8 DEF streamvars, parameters, WindowInv, Unused, Estimated, Sized,
              SegmentLength, ClosestIndex, EndDrift
<1> QED BY <1>1, <1>2, <1>3, <1>4, <1>5, <1>6, <1>7, <1>8 DEF StreamNext

(***************************************************************************)
(* The list of frames and the tables                                       *)
(***************************************************************************)

(* A frame is sent with the tables of the copy, of which the stages that   *)
(* are shared are those of the system too.                                 *)
LEMMA TransmittedFrame ==
  ASSUME StreamTypeOK, TransmitFrame
  PROVE  /\ sys_enc' = EncodePath(sys_enc) /\ sys_enc' \in System
         /\ sys' = Shared(sys, sys_enc')
         /\ \E f \in Frame : /\ source' = Append(source, f)
                             /\ f.id = frames_encoded + 1
                             /\ f.sent = TablesOf(sys_enc')
<1>1. sys_enc' = EncodePath(sys_enc) /\ sys' = Shared(sys, sys_enc')
  BY DEF TransmitFrame
<1>2. sys_enc' \in System
  BY <1>1, SystemTypes DEF StreamTypeOK
<1>3. PICK drift \in Drifts :
        source' = Append(source, [id |-> frames_encoded + 1,
                                  sent |-> TablesOf(sys_enc'),
                                  drift |-> drift])
  BY DEF TransmitFrame
<1>4. drift \in Int /\ frames_encoded \in Nat
  BY StreamAssumption DEF StreamTypeOK
<1>5. [id |-> frames_encoded + 1, sent |-> TablesOf(sys_enc'), drift |-> drift]
        \in Frame
  BY <1>2, <1>4, SystemTypes DEF Frame
<1> QED BY <1>1, <1>2, <1>3, <1>5

LEMMA SourceStep ==
  ASSUME StreamTypeOK, SourceInv, [StreamNext]_streamvars
  PROVE  SourceInv'
<1>0. /\ source \in Seq(Frame)
      /\ frames_encoded \in Nat /\ frames_decoded \in Nat
  BY DEF StreamTypeOK
<1> DEFINE numbered(s, n) == \A i \in 1..Len(s) : s[i].id = n + i
<1>1. ASSUME source' = <<>>, frames_encoded' = 0, frames_decoded' = 0, at' # "receive"
      PROVE  SourceInv'
  BY <1>1 DEF SourceInv
<1>2. CASE SeedStream
  BY <1>1, <1>2 DEF SeedStream, Cleared
<1>3. CASE BeginFrame
  <2>1. CASE stream_mode # "open" /\ frames_decoded >= N
    BY <1>1, <1>3, <2>1 DEF BeginFrame, Cleared
  <2>2. CASE ~ (stream_mode # "open" /\ frames_decoded >= N)
    BY <1>3, <2>2 DEF BeginFrame, SourceInv
  <2> QED BY <2>1, <2>2
<1>4. CASE ComputePriors
  BY <1>4 DEF ComputePriors, StreamAdvance, SourceInv
<1>5. CASE TransmitFrame
  <2>1. PICK f \in Frame : source' = Append(source, f) /\ f.id = frames_encoded + 1
    BY <1>5, TransmittedFrame
  <2>2. /\ at = "transmit"
        /\ frames_encoded' = frames_encoded + 1
        /\ UNCHANGED <<at, frames_decoded>>
    BY <1>5 DEF TransmitFrame
  <2>3. Len(source') = Len(source) + 1 /\ Len(source) \in Nat
    BY <1>0, <2>1, FrameList
  <2>4. numbered(source', frames_decoded)
    <3> SUFFICES ASSUME NEW i \in 1..Len(source') PROVE source'[i].id = frames_decoded + i
      OBVIOUS
    <3>1. CASE i \in 1..Len(source)
      BY <1>0, <2>1, <3>1, FrameList DEF SourceInv
    <3>2. CASE i = Len(source) + 1
      BY <1>0, <2>1, <2>3, <3>2, FrameList DEF SourceInv
    <3> QED BY <2>3, <3>1, <3>2
  <2> QED BY <1>0, <2>2, <2>3, <2>4 DEF SourceInv
<1>6. CASE ExtractSegment
  BY <1>6 DEF ExtractSegment, FramesNeeded, SourceInv
<1>7. CASE ReceiveFrame
  BY <1>7 DEF ReceiveFrame, SourceInv
<1>8. CASE EndFrame
  <2>1. source # <<>> /\ source' = Tail(source)
    BY <1>8 DEF EndFrame, SourceInv
  <2>2. /\ Len(source') = Len(source) - 1 /\ Len(source) \in Nat
        /\ \A i \in 1..Len(source) - 1 : source'[i] = source[i + 1]
    BY <1>0, <2>1, FrameList
  <2>3. /\ frames_decoded' = frames_decoded + 1 /\ UNCHANGED frames_encoded
        /\ at' = "idle"
    BY <1>8 DEF EndFrame
  <2>4. numbered(source', frames_decoded')
    <3> SUFFICES ASSUME NEW i \in 1..Len(source) - 1
                 PROVE  source'[i].id = frames_decoded + 1 + i
      BY <1>0, <2>2, <2>3
    <3>1. source[i + 1].id = frames_decoded + (i + 1)
      BY <2>2 DEF SourceInv
    <3> QED BY <1>0, <2>2, <3>1
  <2> QED BY <1>0, <2>2, <2>3, <2>4 DEF SourceInv
<1>9. CASE UNCHANGED streamvars
  BY <1>9 DEF streamvars, SourceInv
<1> QED
  BY <1>2, <1>3, <1>4, <1>5, <1>6, <1>7, <1>8, <1>9 DEF StreamNext

LEMMA ModemStep ==
  ASSUME StreamTypeOK, KindsInv, SourceInv, ModemInv, [StreamNext]_streamvars
  PROVE  ModemInv'
<1>a. /\ source \in Seq(Frame) /\ Len(source) \in Nat
      /\ sys \in System /\ sys_enc \in System
      /\ sys.mdm.table \in Nat /\ sys_enc.mdm.table \in Nat
  BY FrameList DEF StreamTypeOK, System, Mapper, Process
<1>b. /\ iter_modem \in Nat /\ sys_iter \in Nat \ {0} /\ sys_iter' = sys_iter
  BY Parameters DEF StreamTypeOK, parameters
<1>c. ModemBase \in Int /\ Begun \in 0..1
  BY <1>a DEF ModemBase, Begun
<1>d. /\ \A i \in 1..Len(source) : source[i].sent.mdm = ModemBase + i
      /\ sys_enc.mdm.table = ModemBase + Len(source)
      /\ sys.mdm.dirty = Advancing
      /\ Iterating => tables.mdm = sys.mdm.table
  BY DEF ModemInv
<1>e. ASSUME \A i \in 1..Len(source') : source'[i].sent.mdm = ModemBase' + i,
             sys_enc'.mdm.table = ModemBase' + Len(source'),
             UNCHANGED <<sys, tables>>, Advancing, ~ Iterating'
      PROVE  ModemInv'
  BY <1>d, <1>e DEF ModemInv, Advancing
<1>f. ASSUME ~ Iterating, ~ Iterating', UNCHANGED <<source, sys, sys_enc, tables>>
      PROVE  ModemInv'
  <2>1. ModemBase' = ModemBase /\ Advancing
    BY <1>f DEF ModemBase, Begun, Advancing
  <2> QED BY <1>d, <1>e, <1>f, <2>1
<1>1. CASE SeedStream
  <2>1. /\ sys'.mdm.table = 0 /\ sys_enc'.mdm.table = 0
        /\ sys'.mdm.dirty = sys.mdm.dirty
    BY <1>a, <1>1, ModemTables DEF SeedStream, Cleared
  <2>2. source' = <<>> /\ ~ Iterating /\ ~ Iterating'
    BY <1>1 DEF SeedStream, Cleared, Iterating
  <2>3. Begun' = 0 /\ Advancing /\ Advancing'
    BY <2>2 DEF Begun, Advancing
  <2>4. ModemBase' = 0
    BY <2>1, <2>3 DEF ModemBase
  <2> QED BY <1>d, <1>1, <2>1, <2>2, <2>3, <2>4 DEF ModemInv
<1>2. CASE BeginFrame
  <2>1. ~ Iterating /\ ~ Iterating' /\ Advancing /\ UNCHANGED <<sys, tables>>
    BY <1>2 DEF BeginFrame, Iterating, Advancing
  <2>2. CASE stream_mode # "open" /\ frames_decoded >= N
    <3>1. source' = <<>> /\ sys_enc' = sys
      BY <1>2, <2>2 DEF BeginFrame, Cleared
    <3>2. ModemBase' = sys.mdm.table
      BY <1>a, <2>1 DEF ModemBase, Begun
    <3> QED BY <1>a, <1>e, <2>1, <3>1, <3>2
  <2>3. CASE ~ (stream_mode # "open" /\ frames_decoded >= N)
    BY <1>2, <1>f, <2>1, <2>3 DEF BeginFrame
  <2> QED BY <2>2, <2>3
<1>3. CASE ComputePriors
  <2>1. ~ Iterating /\ ~ Iterating' /\ UNCHANGED <<source, sys, sys_enc, tables>>
    BY <1>3 DEF ComputePriors, StreamAdvance, Iterating
  <2> QED BY <1>f, <2>1
<1>4. CASE TransmitFrame
  <2>1. PICK f \in Frame : source' = Append(source, f) /\ f.sent = TablesOf(sys_enc')
    BY <1>4, TransmittedFrame
  <2>2. sys'.mdm = sys.mdm /\ sys_enc'.mdm.table = sys_enc.mdm.table + 1
    <3>1. sys_enc' = EncodePath(sys_enc) /\ sys' = Shared(sys, sys_enc')
      BY <1>4, TransmittedFrame
    <3> QED BY <1>a, <3>1, ModemTables
  <2>3. /\ Len(source') = Len(source) + 1
        /\ \A i \in 1..Len(source) : source'[i] = source[i]
        /\ source'[Len(source) + 1] = f
    BY <1>a, <2>1, FrameList
  <2>4. f.sent.mdm = sys_enc'.mdm.table
    BY <2>1 DEF TablesOf
  <2>5. ~ Iterating /\ ~ Iterating' /\ UNCHANGED tables
    BY <1>4 DEF TransmitFrame, Iterating
  <2>6. ModemBase' = ModemBase
    BY <2>2, <2>5 DEF ModemBase, Begun
  <2>7. ASSUME NEW i \in 1..Len(source')
        PROVE  source'[i].sent.mdm = ModemBase + i
    <3>1. CASE i \in 1..Len(source)
      BY <1>d, <2>3, <3>1
    <3>2. CASE i = Len(source) + 1
      BY <1>a, <1>c, <1>d, <2>2, <2>3, <2>4, <3>2
    <3> QED BY <1>a, <2>3, <3>1, <3>2
  <2>8. sys_enc'.mdm.table = ModemBase + Len(source')
    BY <1>a, <1>c, <1>d, <2>2, <2>3
  <2> QED BY <1>d, <2>2, <2>5, <2>6, <2>7, <2>8 DEF ModemInv, Advancing
<1>5. CASE ExtractSegment
  <2>1. ~ Iterating /\ ~ Iterating' /\ UNCHANGED <<source, sys, sys_enc, tables>>
    BY <1>5 DEF ExtractSegment, Iterating, KindsInv
  <2> QED BY <1>f, <2>1
<1>6. CASE ReceiveFrame
  <2> DEFINE last == iter_modem + 1 = sys_iter
  <2>1. /\ at = "receive" /\ iter_modem < sys_iter
        /\ iter_modem' = iter_modem + 1
        /\ UNCHANGED <<at, source>>
        /\ sys' = Iteration(sys, last) /\ sys_enc' = Shared(sys_enc, sys')
        /\ tables' = TablesOf(sys')
    BY <1>6 DEF ReceiveFrame
  <2>2. Iterating' /\ (Advancing' <=> last) /\ (Advancing <=> iter_modem = 0)
    BY <1>b, <2>1 DEF Iterating, Advancing
  <2>4. /\ sys'.mdm.table = IF sys.mdm.dirty THEN sys.mdm.table + 1
                            ELSE sys.mdm.table
        /\ sys'.mdm.dirty = last
    BY <1>a, <2>1, ModemTables
  <2>5. sys_enc'.mdm = sys_enc.mdm /\ tables'.mdm = sys'.mdm.table
    BY <1>a, <2>1, ModemTables DEF TablesOf
  <2>6. ModemBase' = ModemBase
    <3>1. Begun' = 1 /\ Begun = IF iter_modem = 0 THEN 0 ELSE 1
      BY <1>b, <2>1, <2>2 DEF Begun, Iterating
    <3>2. sys'.mdm.table = sys.mdm.table + 1 - Begun
      BY <1>a, <1>d, <2>2, <2>4, <3>1
    <3> QED BY <1>a, <1>c, <3>1, <3>2 DEF ModemBase
  <2>7. sys'.mdm.dirty = Advancing'
    BY <2>2, <2>4 DEF Advancing
  <2> QED BY <1>d, <2>1, <2>2, <2>4, <2>5, <2>6, <2>7 DEF ModemInv
<1>7. CASE EndFrame
  <2>1. source # <<>> /\ source' = Tail(source) /\ at = "receive" /\ at' = "idle"
    BY <1>7 DEF EndFrame, SourceInv
  <2>2. /\ Len(source') = Len(source) - 1
        /\ \A i \in 1..Len(source) - 1 : source'[i] = source[i + 1]
    BY <1>a, <2>1, FrameList
  <2>3. iter_modem = sys_iter /\ UNCHANGED <<sys, sys_enc, iter_modem, tables>>
    BY <1>7 DEF EndFrame
  <2>4. Iterating /\ ~ Iterating' /\ Advancing
    BY <1>b, <2>1, <2>3 DEF Iterating, Advancing
  <2>5. ModemBase' = ModemBase + 1
    BY <1>a, <2>3, <2>4 DEF ModemBase, Begun
  <2>6. ASSUME NEW i \in 1..Len(source')
        PROVE  source'[i].sent.mdm = ModemBase' + i
    <3>1. source[i + 1].sent.mdm = ModemBase + (i + 1)
      BY <1>a, <1>d, <2>2
    <3> QED BY <1>a, <1>c, <2>2, <2>5, <3>1
  <2>7. sys_enc'.mdm.table = ModemBase' + Len(source')
    BY <1>a, <1>c, <1>d, <2>2, <2>3, <2>5
  <2> QED BY <1>e, <2>3, <2>4, <2>6, <2>7
<1>8. CASE UNCHANGED streamvars
  <2>1. /\ UNCHANGED <<source, sys, sys_enc, tables>>
        /\ ModemBase' = ModemBase /\ Advancing' = Advancing /\ Iterating' = Iterating
    BY <1>8 DEF streamvars, parameters, ModemBase, Begun, Iterating, Advancing
  <2> QED BY <1>d, <2>1 DEF ModemInv
<1> QED BY <1>1, <1>2, <1>3, <1>4, <1>5, <1>6, <1>7, <1>8 DEF StreamNext

LEMMA MapperStep ==
  ASSUME StreamTypeOK, KindsInv, SourceInv, MapperInv, [StreamNext]_streamvars
  PROVE  MapperInv'
<1> SUFFICES ASSUME sys'.map.kind = "interleaved" PROVE MapperInv'
  BY DEF MapperInv
<1>k. sys.map.kind = "interleaved" /\ sys_enc.map.kind = "interleaved"
  BY KindsStep DEF KindsInv
<1>a. /\ source \in Seq(Frame) /\ Len(source) \in Nat
      /\ sys \in System /\ sys_enc \in System
      /\ sys.map.sub.table \in Nat /\ sys_enc.map.sub.table \in Nat
  BY FrameList DEF StreamTypeOK, System, Mapper, Process
<1>b. /\ iter_modem \in Nat /\ sys_iter \in Nat \ {0} /\ sys_iter' = sys_iter
  BY Parameters DEF StreamTypeOK, parameters
<1>c. MapperBase \in Int /\ Begun \in 0..1
  BY <1>a DEF MapperBase, Begun
<1>d. /\ \A i \in 1..Len(source) : source[i].sent.map = MapperBase + i
      /\ sys_enc.map.sub.table = MapperBase + Len(source)
      /\ sys.map.dirty = Advancing
      /\ ~ Advancing => ~ sys.map.sub.dirty
      /\ Iterating => tables.map = sys.map.sub.table
  BY <1>k DEF MapperInv
<1>e. ASSUME \A i \in 1..Len(source') : source'[i].sent.map = MapperBase' + i,
             sys_enc'.map.sub.table = MapperBase' + Len(source'),
             UNCHANGED <<sys, tables>>, Advancing, ~ Iterating'
      PROVE  MapperInv'
  BY <1>d, <1>e DEF MapperInv, Advancing
<1>f. ASSUME ~ Iterating, ~ Iterating', UNCHANGED <<source, sys, sys_enc, tables>>
      PROVE  MapperInv'
  <2>1. MapperBase' = MapperBase /\ Advancing
    BY <1>f DEF MapperBase, Begun, Advancing
  <2> QED BY <1>d, <1>e, <1>f, <2>1
<1>1. CASE SeedStream
  <2>1. /\ sys'.map.sub.table = 0 /\ sys_enc'.map.sub.table = 0
        /\ sys'.map.dirty = sys.map.dirty /\ sys'.map.sub.dirty = sys.map.sub.dirty
    BY <1>a, <1>k, <1>1, MapperTables DEF SeedStream, Cleared
  <2>2. source' = <<>> /\ ~ Iterating /\ ~ Iterating'
    BY <1>1 DEF SeedStream, Cleared, Iterating
  <2>3. Begun' = 0 /\ Advancing /\ Advancing'
    BY <2>2 DEF Begun, Advancing
  <2>4. MapperBase' = 0
    BY <2>1, <2>3 DEF MapperBase
  <2> QED BY <1>d, <1>1, <2>1, <2>2, <2>3, <2>4 DEF MapperInv
<1>2. CASE BeginFrame
  <2>1. ~ Iterating /\ ~ Iterating' /\ Advancing /\ UNCHANGED <<sys, tables>>
    BY <1>2 DEF BeginFrame, Iterating, Advancing
  <2>2. CASE stream_mode # "open" /\ frames_decoded >= N
    <3>1. source' = <<>> /\ sys_enc' = sys
      BY <1>2, <2>2 DEF BeginFrame, Cleared
    <3>2. MapperBase' = sys.map.sub.table
      BY <1>a, <2>1 DEF MapperBase, Begun
    <3> QED BY <1>a, <1>e, <2>1, <3>1, <3>2
  <2>3. CASE ~ (stream_mode # "open" /\ frames_decoded >= N)
    BY <1>2, <1>f, <2>1, <2>3 DEF BeginFrame
  <2> QED BY <2>2, <2>3
<1>3. CASE ComputePriors
  <2>1. ~ Iterating /\ ~ Iterating' /\ UNCHANGED <<source, sys, sys_enc, tables>>
    BY <1>3 DEF ComputePriors, StreamAdvance, Iterating
  <2> QED BY <1>f, <2>1
<1>4. CASE TransmitFrame
  <2>1. PICK f \in Frame : source' = Append(source, f) /\ f.sent = TablesOf(sys_enc')
    BY <1>4, TransmittedFrame
  <2>2. sys'.map = sys.map /\ sys_enc'.map.sub.table = sys_enc.map.sub.table + 1
    <3>1. sys_enc' = EncodePath(sys_enc) /\ sys' = Shared(sys, sys_enc')
      BY <1>4, TransmittedFrame
    <3> QED BY <1>a, <1>k, <3>1, MapperTables
  <2>3. /\ Len(source') = Len(source) + 1
        /\ \A i \in 1..Len(source) : source'[i] = source[i]
        /\ source'[Len(source) + 1] = f
    BY <1>a, <2>1, FrameList
  <2>4. f.sent.map = sys_enc'.map.sub.table
    BY <2>1 DEF TablesOf
  <2>5. ~ Iterating /\ ~ Iterating' /\ UNCHANGED tables
    BY <1>4 DEF TransmitFrame, Iterating
  <2>6. MapperBase' = MapperBase
    BY <2>2, <2>5 DEF MapperBase, Begun
  <2>7. ASSUME NEW i \in 1..Len(source')
        PROVE  source'[i].sent.map = MapperBase + i
    <3>1. CASE i \in 1..Len(source)
      BY <1>d, <2>3, <3>1
    <3>2. CASE i = Len(source) + 1
      BY <1>a, <1>c, <1>d, <2>2, <2>3, <2>4, <3>2
    <3> QED BY <1>a, <2>3, <3>1, <3>2
  <2>8. sys_enc'.map.sub.table = MapperBase + Len(source')
    BY <1>a, <1>c, <1>d, <2>2, <2>3
  <2> QED BY <1>d, <2>2, <2>5, <2>6, <2>7, <2>8 DEF MapperInv, Advancing
<1>5. CASE ExtractSegment
  <2>1. ~ Iterating /\ ~ Iterating' /\ UNCHANGED <<source, sys, sys_enc, tables>>
    BY <1>5 DEF ExtractSegment, Iterating, KindsInv
  <2> QED BY <1>f, <2>1
<1>6. CASE ReceiveFrame
  <2> DEFINE last == iter_modem + 1 = sys_iter
  <2>1. /\ at = "receive" /\ iter_modem < sys_iter
        /\ iter_modem' = iter_modem + 1
        /\ UNCHANGED <<at, source>>
        /\ sys' = Iteration(sys, last) /\ sys_enc' = Shared(sys_enc, sys')
        /\ tables' = TablesOf(sys')
    BY <1>6 DEF ReceiveFrame
  <2>2. Iterating' /\ (Advancing' <=> last) /\ (Advancing <=> iter_modem = 0)
    BY <1>b, <2>1 DEF Iterating, Advancing
  <2>3. sys.map.dirty \/ ~ sys.map.sub.dirty
    BY <1>d
  <2>4. /\ sys'.map.sub.table = IF sys.map.dirty THEN sys.map.sub.table + 1
                                ELSE sys.map.sub.table
        /\ sys'.map.dirty = last /\ sys'.map.sub.dirty = last
    <3>1. last \in BOOLEAN
      OBVIOUS
    <3> HIDE DEF last
    <3> QED BY <1>a, <1>k, <2>1, <2>3, <3>1, MapperTables
  <2>5. sys_enc'.map = sys_enc.map /\ tables'.map = sys'.map.sub.table
    BY <1>a, <1>k, <2>1, MapperTables DEF TablesOf
  <2>6. MapperBase' = MapperBase
    <3>1. Begun' = 1 /\ Begun = IF iter_modem = 0 THEN 0 ELSE 1
      BY <1>b, <2>1, <2>2 DEF Begun, Iterating
    <3>2. sys'.map.sub.table = sys.map.sub.table + 1 - Begun
      BY <1>a, <1>d, <2>2, <2>4, <3>1
    <3> QED BY <1>a, <1>c, <3>1, <3>2 DEF MapperBase
  <2>7. sys'.map.dirty = Advancing'
    BY <2>2, <2>4 DEF Advancing
  <2> QED BY <1>d, <2>1, <2>2, <2>4, <2>5, <2>6, <2>7 DEF MapperInv
<1>7. CASE EndFrame
  <2>1. source # <<>> /\ source' = Tail(source) /\ at = "receive" /\ at' = "idle"
    BY <1>7 DEF EndFrame, SourceInv
  <2>2. /\ Len(source') = Len(source) - 1
        /\ \A i \in 1..Len(source) - 1 : source'[i] = source[i + 1]
    BY <1>a, <2>1, FrameList
  <2>3. iter_modem = sys_iter /\ UNCHANGED <<sys, sys_enc, iter_modem, tables>>
    BY <1>7 DEF EndFrame
  <2>4. Iterating /\ ~ Iterating' /\ Advancing
    BY <1>b, <2>1, <2>3 DEF Iterating, Advancing
  <2>5. MapperBase' = MapperBase + 1
    BY <1>a, <2>3, <2>4 DEF MapperBase, Begun
  <2>6. ASSUME NEW i \in 1..Len(source')
        PROVE  source'[i].sent.map = MapperBase' + i
    <3>1. source[i + 1].sent.map = MapperBase + (i + 1)
      BY <1>a, <1>d, <2>2
    <3> QED BY <1>a, <1>c, <2>2, <2>5, <3>1
  <2>7. sys_enc'.map.sub.table = MapperBase' + Len(source')
    BY <1>a, <1>c, <1>d, <2>2, <2>3, <2>5
  <2> QED BY <1>e, <2>3, <2>4, <2>6, <2>7
<1>8. CASE UNCHANGED streamvars
  <2>1. /\ UNCHANGED <<source, sys, sys_enc, tables>>
        /\ MapperBase' = MapperBase /\ Advancing' = Advancing /\ Iterating' = Iterating
    BY <1>8 DEF streamvars, parameters, MapperBase, Begun, Iterating, Advancing
  <2> QED BY <1>d, <2>1 DEF MapperInv
<1> QED BY <1>1, <1>2, <1>3, <1>4, <1>5, <1>6, <1>7, <1>8 DEF StreamNext

(***************************************************************************)
(* The end of a terminated stream, and the segments                        *)
(***************************************************************************)

LEMMA EndKnownStep ==
  ASSUME StreamTypeOK, KindsInv, WindowInv, SourceInv, TerminatedEndKnown,
         [StreamNext]_streamvars
  PROVE  TerminatedEndKnown'
<1>a. /\ N \in Nat \ {0} /\ N' = N /\ stream_mode' = stream_mode
      /\ lookahead' = lookahead
  BY Parameters DEF StreamTypeOK, parameters
<1>b. ASSUME frames_decoded' = 0 PROVE TerminatedEndKnown'
  BY <1>a, <1>b DEF TerminatedEndKnown
<1>1. CASE SeedStream
  BY <1>b, <1>1 DEF SeedStream, Cleared
<1>2. CASE BeginFrame
  BY <1>2 DEF BeginFrame, TerminatedEndKnown
<1>3. CASE ComputePriors
  BY <1>3 DEF ComputePriors, StreamAdvance, TerminatedEndKnown
<1>4. CASE TransmitFrame
  BY <1>4 DEF TransmitFrame, TerminatedEndKnown
<1>5. CASE ExtractSegment
  BY <1>5 DEF ExtractSegment, TerminatedEndKnown
<1>6. CASE ReceiveFrame
  BY <1>6 DEF ReceiveFrame, TerminatedEndKnown
<1>7. CASE EndFrame
  <2> SUFFICES ASSUME stream_mode = "terminated", frames_decoded' = N, lookahead = 0
               PROVE  /\ drift_error' > 0 => pinned' = 0
                      /\ drift_error' < 0 => pinned' = prior_size' - 1
    BY <1>a DEF TerminatedEndKnown
  <2>1. PICK i \in EofIndices : drift_error' = DriftErrorAfter(i - offset)
    BY <1>7 DEF EndFrame
  <2>2. /\ frames_decoded = N - 1 /\ at = "receive"
        /\ UNCHANGED <<pinned, prior_size>>
    BY <1>7, <1>a DEF EndFrame, StreamTypeOK
  <2>3. pinned = ClosestIndex(EndDrift)
    BY <2>2 DEF WindowInv
  <2>4. Head(source).drift \in Int
    <3>1. Head(source) \in Frame
      BY <2>2, FrameList DEF StreamTypeOK, SourceInv
    <3> QED BY <3>1 DEF Frame
  <2>5. EndDrift \in Int
    <3>1. drift_error \in Int
      BY DEF StreamTypeOK
    <3> QED BY <2>4, <3>1 DEF EndDrift
  <2>6. offset \in Nat /\ prior_size \in Nat \ {0}
    BY <2>2, StreamAssumption DEF StreamTypeOK, WindowInv, Sized
  <2>7. i = ClosestIndex(EndDrift) /\ ClosestIndex(EndDrift) \in 0..prior_size - 1
    BY <2>3, <2>5, <2>6, ClosestIndexRange DEF EofIndices
  <2>8. drift_error' = i - (EndDrift + offset)
    <3>1. i \in Int /\ drift_error \in Int
      BY <2>6, <2>7 DEF StreamTypeOK
    <3> QED BY <2>1, <2>4, <2>6, <3>1 DEF DriftErrorAfter, EndDrift
  <2> QED BY <2>2, <2>3, <2>5, <2>6, <2>7, <2>8, ClosestIndexRange
<1>8. CASE UNCHANGED streamvars
  BY <1>8 DEF streamvars, parameters, TerminatedEndKnown
<1> QED BY <1>1, <1>2, <1>3, <1>4, <1>5, <1>6, <1>7, <1>8 DEF StreamNext

(* The segment of the next frame starts within the window as long as the   *)
(* state space is no wider than a frame: the estimate is one of the        *)
(* indices of the last state space.                                        *)
LEMMA SegmentInWindow ==
  ASSUME StreamTypeOK, WindowInv, at = "priors", MaxOffset <= Tau,
         received.size # 0, NEW new \in 0..MaxOffset
  PROVE  SegmentStart(new) \in 0..received.size
<1>1. /\ received.size \in Nat /\ old_offset \in Nat /\ prior_size \in Nat
      /\ lookahead \in Nat /\ estimated_drift \in Int /\ Tau \in Nat /\ new \in Nat
      /\ MaxOffset \in Nat /\ frames_decoded \in Nat
  BY StreamAssumption DEF StreamTypeOK
<1>2. frames_decoded > 0
  BY <1>1 DEF WindowInv, Unused
<1>3. /\ estimated_drift + old_offset \in 0..prior_size - 1
      /\ received.size >= Tau + lookahead + prior_size - 1
  BY <1>2 DEF WindowInv, Estimated
<1> QED BY <1>1, <1>3 DEF SegmentStart

LEMMA NeverAbortsStep ==
  ASSUME StreamTypeOK, KindsInv, WindowInv, NeverAbortsInStream,
         [StreamNext]_streamvars
  PROVE  NeverAbortsInStream'
<1> SUFFICES ASSUME MaxOffset <= Tau PROVE at' # "abort"
  BY DEF NeverAbortsInStream
<1>0. at # "abort"
  BY DEF NeverAbortsInStream
<1>1. CASE SeedStream
  BY <1>0, <1>1 DEF SeedStream
<1>2. CASE BeginFrame
  BY <1>2 DEF BeginFrame
<1>3. CASE ComputePriors
  <2>1. PICK new \in 0..MaxOffset : StreamAdvance(new)
    BY <1>3 DEF ComputePriors
  <2>2. received.size = 0 \/ SegmentStart(new) \in 0..received.size
    BY <1>3, SegmentInWindow DEF ComputePriors
  <2>3. received.size \in Nat
    BY DEF StreamTypeOK
  <2> QED BY <2>1, <2>2, <2>3 DEF StreamAdvance
<1>4. CASE TransmitFrame
  BY <1>0, <1>4 DEF TransmitFrame
<1>5. CASE ExtractSegment
  BY <1>5 DEF ExtractSegment, FramesNeeded
<1>6. CASE ReceiveFrame
  BY <1>0, <1>6 DEF ReceiveFrame
<1>7. CASE EndFrame
  BY <1>7 DEF EndFrame
<1>8. CASE UNCHANGED streamvars
  BY <1>0, <1>8 DEF streamvars
<1> QED BY <1>1, <1>2, <1>3, <1>4, <1>5, <1>6, <1>7, <1>8 DEF StreamNext

(***************************************************************************)
(* The invariant and what follows from it                                  *)
(***************************************************************************)

LEMMA StreamInitInv == StreamInit => StreamInv
<1> SUFFICES ASSUME StreamInit PROVE StreamInv
  OBVIOUS
<1> USE StreamAssumption
<1>1. PICK k \in StreamKinds : sys = SeedFrom(NewSystem(k[1], k[2]))
  BY DEF StreamInit
<1>2. k[1] \in CodecKinds /\ k[2] \in MapperKinds
  OBVIOUS
<1> DEFINE new == NewSystem(k[1], k[2])
<1>3. new \in System /\ new.mdm.dirty /\ new.map.dirty
      /\ new.map.sub.dirty
  <2>1. Fresh \in Process /\ Fresh.dirty
    BY DEF Fresh, Process
  <2> QED BY <1>2, <2>1 DEF NewSystem, NewCodec, NewMapper, System, Codec, Mapper
<1> HIDE DEF new
<1>4. sys = SeedFrom(new) /\ sys_enc = SeedFrom(new) /\ sys \in System
  BY <1>1, <1>3, SystemTypes DEF StreamInit, new
<1>5. source = <<>> /\ source \in Seq(Frame) /\ Len(source) = 0
  BY EmptySeq DEF StreamInit
<1>6. StreamTypeOK
  <2>1. N \in 1..MaxN
    BY DEF StreamInit
  <2>2. tables \in Tables
    BY DEF StreamInit, NoTables, Tables
  <2> QED BY <1>4, <1>5, <2>1, <2>2 DEF StreamInit, StreamTypeOK, Parts
<1>7. KindsInv /\ WindowInv /\ SourceInv /\ TerminatedEndKnown /\ NeverAbortsInStream
  <2>1. KindsInv /\ WindowInv /\ NeverAbortsInStream
    BY <1>4 DEF StreamInit, KindsInv, WindowInv, Unused, NeverAbortsInStream
  <2>2. SourceInv
    BY <1>5 DEF StreamInit, SourceInv
  <2>3. TerminatedEndKnown
    BY <1>6 DEF StreamInit, StreamTypeOK, TerminatedEndKnown
  <2> QED BY <2>1, <2>2, <2>3
<1>8. at = "idle" /\ ~ Iterating /\ Advancing /\ Begun = 0
  BY DEF StreamInit, Iterating, Advancing, Begun
<1>9. ModemInv
  <2>1. sys.mdm.table = 0 /\ sys_enc.mdm.table = 0 /\ sys.mdm.dirty = new.mdm.dirty
    BY <1>3, <1>4, ModemTables
  <2>2. new.mdm.dirty = TRUE
    BY <1>3 DEF System, Process
  <2>3. ModemBase = 0 /\ sys_enc.mdm.table = ModemBase + Len(source)
    BY <1>5, <1>8, <2>1 DEF ModemBase
  <2>4. \A i \in 1..Len(source) : source[i].sent.mdm = ModemBase + i
    BY <1>5
  <2> QED BY <1>8, <2>1, <2>2, <2>3, <2>4 DEF ModemInv, Advancing
<1>10. MapperInv
  <2> SUFFICES ASSUME sys.map.kind = "interleaved" PROVE MapperInv
    BY DEF MapperInv
  <2>1. new.map.kind = "interleaved"
    BY <1>3, <1>4, Kinds
  <2>2. /\ sys.map.sub.table = 0 /\ sys_enc.map.sub.table = 0
        /\ sys.map.dirty = new.map.dirty
    BY <1>3, <1>4, <2>1, MapperTables
  <2>3. new.map.dirty = TRUE
    BY <1>3 DEF System, Mapper
  <2>4. MapperBase = 0 /\ sys_enc.map.sub.table = MapperBase + Len(source)
    BY <1>5, <1>8, <2>2 DEF MapperBase
  <2>5. \A i \in 1..Len(source) : source[i].sent.map = MapperBase + i
    BY <1>5
  <2> QED BY <1>8, <2>2, <2>3, <2>4, <2>5 DEF MapperInv, Advancing
<1> QED BY <1>6, <1>7, <1>9, <1>10 DEF StreamInv

LEMMA StreamInvStep == StreamInv /\ [StreamNext]_streamvars => StreamInv'
BY StreamTypeStep, KindsStep, WindowStep, SourceStep, ModemStep, MapperStep,
   EndKnownStep, NeverAbortsStep DEF StreamInv

LEMMA StreamInvariant == StreamSpec => []StreamInv
BY StreamInitInv, StreamInvStep, PTL DEF StreamSpec

(* No variable of the stream simulator leaves its range.                   *)
THEOREM StreamTypeCorrect == StreamSpec => []StreamTypeOK
<1>1. StreamInv => StreamTypeOK
  BY DEF StreamInv
<1> QED BY <1>1, StreamInvariant, PTL

(* drift_error is the distance of the receiver's start of the frame from   *)
(* the true one, whatever the frame length, the drifts, the state spaces   *)
(* that are chosen and the estimates.                                      *)
THEOREM DriftErrorIsTrue == StreamSpec => []DriftErrorTrue
<1>1. StreamInv => DriftErrorTrue
  <2>1. ASSUME StreamInv, at = "idle", frames_decoded > 0
        PROVE  received.base + offset + Tau + estimated_drift =
                 true_start + drift_error
    BY <2>1 DEF StreamInv, WindowInv, Estimated
  <2>2. ASSUME StreamInv, at \in {"transmit", "receive"}
        PROVE  received.base + offset = true_start + drift_error
    BY <2>2 DEF StreamInv, WindowInv, Sized
  <2> QED BY <2>1, <2>2 DEF DriftErrorTrue
<1> QED BY <1>1, StreamInvariant, PTL

(* A decoded frame is compared with the frame that was sent in its place,  *)
(* however far the sender has run ahead.                                   *)
THEOREM OwnFrameCompared == StreamSpec => []ComparesOwnFrame
<1>1. StreamInv => ComparesOwnFrame
  <2> SUFFICES ASSUME StreamInv, at = "receive"
               PROVE  source # <<>> /\ Head(source).id = frames_decoded + 1
    BY DEF ComparesOwnFrame
  <2>1. source # <<>> /\ source \in Seq(Frame)
    BY DEF StreamInv, SourceInv, StreamTypeOK
  <2>2. Head(source) = source[1] /\ 1 \in 1..Len(source)
    BY <2>1, FrameList
  <2> QED BY <2>1, <2>2 DEF StreamInv, SourceInv
<1> QED BY <1>1, StreamInvariant, PTL

(* Each frame is received with the modem and mapper tables it was sent     *)
(* with, for any number of frames in flight.                               *)
THEOREM FramesInStep == StreamSpec => []FrameInStep
<1>1. StreamInv => FrameInStep
  <2> SUFFICES ASSUME StreamInv, at = "receive", iter_modem > 0
               PROVE  FrameInStep
    BY DEF FrameInStep
  <2>1. source # <<>> /\ source \in Seq(Frame)
    BY DEF StreamInv, SourceInv, StreamTypeOK
  <2>2. Head(source) = source[1] /\ 1 \in 1..Len(source)
    BY <2>1, FrameList
  <2>3. Iterating /\ Begun = 1
    BY DEF Iterating, Begun
  <2>4. tables.mdm = Head(source).sent.mdm
    <3>1. sys.mdm.table \in Nat
      BY DEF StreamInv, StreamTypeOK, System, Process
    <3>2. source[1].sent.mdm = ModemBase + 1 /\ tables.mdm = sys.mdm.table
      BY <2>2, <2>3 DEF StreamInv, ModemInv
    <3> QED BY <2>2, <2>3, <3>1, <3>2 DEF ModemBase
  <2>5. ASSUME sys.map.kind = "interleaved"
        PROVE  tables.map = Head(source).sent.map
    <3>1. sys.map.sub.table \in Nat
      BY DEF StreamInv, StreamTypeOK, System, Mapper, Process
    <3>2. source[1].sent.map = MapperBase + 1 /\ tables.map = sys.map.sub.table
      BY <2>2, <2>3, <2>5 DEF StreamInv, MapperInv
    <3> QED BY <2>2, <2>3, <3>1, <3>2 DEF MapperBase
  <2> QED BY <2>4, <2>5 DEF FrameInStep
<1> QED BY <1>1, StreamInvariant, PTL

(* Without look-ahead the end of a terminated stream is known to the       *)
(* receiver, unless it lies outside the range of drifts.                   *)
THEOREM EndOfStreamKnown == StreamSpec => []TerminatedEndKnown
<1>1. StreamInv => TerminatedEndKnown
  BY DEF StreamInv
<1> QED BY <1>1, StreamInvariant, PTL

(* sample() never extracts a segment that is not in the received stream,   *)
(* while the state space is no wider than a frame.                         *)
THEOREM SegmentsReceived == StreamSpec => []NeverAbortsInStream
<1>1. StreamInv => NeverAbortsInStream
  BY DEF StreamInv
<1> QED BY <1>1, StreamInvariant, PTL
=============================================================================
