--------------------------- MODULE CommsysSimulator ---------------------------
(***************************************************************************)
(* The simulator of block transmission (experiment/binomial/               *)
(* commsys_simulator.cpp) over the three communication systems: commsys,   *)
(* commsys_iterative, which repeats the demodulation, and                  *)
(* commsys_fulliter, which repeats demodulation and decoding.  One system  *)
(* sends a block and then receives it.                                     *)
(***************************************************************************)
EXTENDS Commsys

CONSTANTS
  CodecIter,    \* num_iter() of a turbo codec
  MaxIter,      \* bound: demodulations, or full-system iterations
  MaxBlocks     \* bound: samples

ASSUME SimulatorAssumption ==
  CodecIter \in Nat \ {0} /\ MaxIter \in Nat \ {0} /\ MaxBlocks \in Nat

VARIABLES
  sysclass,       \* the class of the system
  iter,           \* its number of iterations
  commsys,            \* its stages
  step,           \* where sample() is
  sent,           \* the tables the block was sent with
  used,           \* the tables the last reception of the block used
  cur_mdm_iter, cur_cdc_iter,
  decodes,        \* calls of decode() for the block
  blocks          \* samples taken

blockvars == <<sysclass, iter, commsys, step, sent, used, cur_mdm_iter,
               cur_cdc_iter, decodes, blocks>>

Classes == {"commsys", "commsys_iterative", "commsys_fulliter"}

BlockTypeOK ==
  /\ sysclass \in Classes
  /\ iter \in 1..MaxIter
  /\ commsys \in System
  /\ step \in {"idle", "sent", "received"}
  /\ sent \in Tables
  /\ used \in Tables
  /\ cur_mdm_iter \in Nat
  /\ cur_cdc_iter \in Nat
  /\ decodes \in Nat
  /\ blocks \in 0..MaxBlocks

BlockInit ==
  /\ sysclass \in Classes
  /\ iter \in IF sysclass = "commsys" THEN {1} ELSE 1..MaxIter
  /\ \E c \in CodecKinds, m \in MapperKinds : commsys = SeedFrom(NewSystem(c, m))
  /\ step = "idle"
  /\ sent = NoTables
  /\ used = NoTables
  /\ cur_mdm_iter = 0
  /\ cur_cdc_iter = 0
  /\ decodes = 0
  /\ blocks = 0

CodecIterations == IF commsys.cdc.kind = "turbo" THEN CodecIter ELSE 1

(* commsys_fulliter takes the codec's iterations in each of its own.       *)
NumIter == CodecIterations * (IF sysclass = "commsys_fulliter" THEN iter ELSE 1)

(* encode_path.                                                            *)
SendBlock ==
  /\ step = "idle"
  /\ blocks < MaxBlocks
  /\ commsys' = EncodePath(commsys)
  /\ sent' = TablesOf(commsys')
  /\ used' = NoTables
  /\ step' = "sent"
  /\ UNCHANGED <<sysclass, iter, cur_mdm_iter, cur_cdc_iter, decodes, blocks>>

(* commsys_iterative marks the modem as clean after each demodulation, and *)
(* as dirty after the last.                                                *)
DemodulatedRepeatedly(p) ==
  LET f[n \in 0..iter] == IF n = 0 THEN p ELSE MarkAsClean(Receive(f[n - 1]))
  IN  MarkAsDirty(f[iter])

(* receive_path of commsys and commsys_iterative.                          *)
ReceivePath ==
  /\ step = "sent"
  /\ sysclass # "commsys_fulliter"
  /\ commsys' = [cdc |-> Decode(commsys.cdc),
             map |-> InverseMap(commsys.map),
             mdm |-> IF sysclass = "commsys" THEN Receive(commsys.mdm)
                     ELSE DemodulatedRepeatedly(commsys.mdm)]
  /\ used' = TablesOf(commsys')
  /\ step' = "received"
  /\ decodes' = 0
  /\ UNCHANGED <<sysclass, iter, sent, cur_mdm_iter, cur_cdc_iter, blocks>>

(* receive_path of commsys_fulliter keeps what was received.               *)
StoreReceived ==
  /\ step = "sent"
  /\ sysclass = "commsys_fulliter"
  /\ cur_mdm_iter' = 0
  /\ cur_cdc_iter' = 0
  /\ step' = "received"
  /\ decodes' = 0
  /\ UNCHANGED <<sysclass, iter, commsys, sent, used, blocks>>

Decoded == decodes' = decodes + 1

(* decode of commsys and commsys_iterative: an iteration of the codec.     *)
DecodeBlock ==
  /\ step = "received"
  /\ sysclass # "commsys_fulliter"
  /\ decodes < NumIter
  /\ Decoded
  /\ UNCHANGED <<sysclass, iter, commsys, step, sent, used, cur_mdm_iter,
                 cur_cdc_iter, blocks>>

(* The first part of a full-system iteration: demodulation, the inverse of *)
(* the mapper, which is marked as clean, and init_decoder.                 *)
InnerCode(s) ==
  [cdc |-> Decode(s.cdc), map |-> MapperClean(InverseMap(s.map)),
   mdm |-> Receive(s.mdm)]

(* Mutant: the components are not marked.                                  *)
FeedbackUnmarked(s, again) == [s EXCEPT !.map = InverseMap(@)]

(* The last part: the mapper is used again and, if another iteration is to *)
(* follow, modem and mapper are marked as clean.                           *)
Feedback(s, again) ==
  LET inverse == InverseMap(s.map)
  IN  [s EXCEPT !.map = IF again THEN MapperClean(inverse) ELSE inverse,
                !.mdm = IF again THEN MarkAsClean(@) ELSE @]

(* decode of commsys_fulliter.                                             *)
DecodeCycle ==
  /\ step = "received"
  /\ sysclass = "commsys_fulliter"
  /\ decodes < NumIter
  /\ LET demodulated == IF cur_cdc_iter = 0 THEN InnerCode(commsys) ELSE commsys
         last == cur_cdc_iter + 1 = CodecIterations
     IN  /\ commsys' = IF last THEN Feedback(demodulated, cur_mdm_iter + 1 < iter)
                   ELSE demodulated
         /\ used' = TablesOf(commsys')
         /\ cur_cdc_iter' = IF last THEN 0 ELSE cur_cdc_iter + 1
         /\ cur_mdm_iter' = IF last THEN cur_mdm_iter + 1 ELSE cur_mdm_iter
  /\ Decoded
  /\ UNCHANGED <<sysclass, iter, step, sent, blocks>>

BlockDone ==
  /\ step = "received"
  /\ decodes = NumIter
  /\ blocks' = blocks + 1
  /\ step' = "idle"
  /\ UNCHANGED <<sysclass, iter, commsys, sent, used, cur_mdm_iter,
                 cur_cdc_iter, decodes>>

BlockNext ==
  \/ SendBlock
  \/ ReceivePath
  \/ StoreReceived
  \/ DecodeBlock
  \/ DecodeCycle
  \/ BlockDone

BlockSpec == BlockInit /\ [][BlockNext]_blockvars

(***************************************************************************)
(* What a receiver needs                                                   *)
(***************************************************************************)

Receiving == step = "received" /\ decodes > 0

(* A block is demodulated and unmapped with the tables it was modulated    *)
(* and mapped with, in every iteration and for every class of system: the  *)
(* dirty flags keep sender and receiver, which are one object, in step.    *)
(* The codec is in step too when the system takes one iteration, and in    *)
(* the first of several, unless it is a codec_multiblock, whose two codecs *)
(* are not one object and yet share their interleavers.                    *)
BlockInStep ==
  Receiving =>
    /\ used.mdm = sent.mdm
    /\ used.map = sent.map
    /\ /\ commsys.cdc.kind # "multiblock"
       /\ sysclass # "commsys_fulliter" \/ iter = 1 \/ decodes <= CodecIterations
       => used.cdc = sent.cdc

(* What codec_multiblock does instead: each reception of its blocks takes  *)
(* the interleavers on by as many tables as there are blocks, so that the  *)
(* tables of the transmission are never used again.                        *)
Receptions == IF sysclass = "commsys_fulliter" THEN decodes ELSE 1

MultiblockAhead ==
  Receiving /\ commsys.cdc.kind = "multiblock" =>
    used.cdc = sent.cdc + Blocks * Receptions
=============================================================================
