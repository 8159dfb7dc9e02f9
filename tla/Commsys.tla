------------------------------- MODULE Commsys -------------------------------
(***************************************************************************)
(* A communication system (Libcomm/commsys.cpp) as the sequence of the     *)
(* tables its stages use: a codec, a mapper and a modem change their       *)
(* interleaver, permutation or codebook from one block to the next, and    *)
(* the receiver works only with the tables the block was sent with.        *)
(*                                                                         *)
(* A table is the number of times its generator was advanced since it was  *)
(* seeded.  Each stage carries the dirty flag of blockprocess.h.           *)
(***************************************************************************)
EXTENDS Naturals

CONSTANT Blocks     \* blocks that a codec_multiblock aggregates

ASSUME BlocksAssumption == Blocks \in Nat \ {0}

CodecKinds == {"static", "turbo", "multiblock"}
MapperKinds == {"interleaved", "concatenated"}

Process == [table : Nat, dirty : BOOLEAN]

(* The stages of a system.  A codec that is static has no table.  The      *)
(* interleavers of turbo (and of repacc) are held by shared_ptr, so that   *)
(* cdc_enc, the copy that codec_multiblock encodes with, has those of cdc, *)
(* the codec it decodes with: inter stands for them in every codec.  The   *)
(* mappers of map_concatenated, held by shared_ptr too, move together and  *)
(* stand as one, sub.                                                      *)
Codec == [kind : CodecKinds, dirty : BOOLEAN, inter : Nat]
Mapper == [kind : MapperKinds, dirty : BOOLEAN, sub : Process]
System == [cdc : Codec, map : Mapper, mdm : Process]

(***************************************************************************)
(* blockprocess                                                            *)
(***************************************************************************)
Fresh == [table |-> 0, dirty |-> TRUE]

MarkAsDirty(p) == [p EXCEPT !.dirty = TRUE]
MarkAsClean(p) == [p EXCEPT !.dirty = FALSE]
AdvanceAlways(p) == [table |-> p.table + 1, dirty |-> FALSE]
AdvanceIfDirty(p) == IF p.dirty THEN AdvanceAlways(p) ELSE p

(* A block of reception: demodulate, init_decoder or inverse of a stage.   *)
Receive(p) == MarkAsDirty(AdvanceIfDirty(p))

(***************************************************************************)
(* The codec                                                               *)
(***************************************************************************)
(* The tables a block takes: codec_multiblock encodes and decodes its      *)
(* blocks one after another.                                               *)
TablesPerBlock(c) == IF c.kind = "multiblock" THEN Blocks ELSE 1

Encode(c) == [c EXCEPT !.dirty = FALSE, !.inter = @ + TablesPerBlock(c)]

(* init_decoder, and the decoding that follows it.  The cdc of a           *)
(* codec_multiblock encodes nothing, so it is dirty whenever it receives   *)
(* one of the blocks, and advances for each.                               *)
Decode(c) ==
  [c EXCEPT !.dirty = TRUE,
            !.inter = IF c.kind = "multiblock" \/ c.dirty
                      THEN @ + TablesPerBlock(c) ELSE @]

(* The table of the codec; of codec_multiblock, that of its last block.    *)
CodecTable(c) == IF c.kind = "static" THEN 0 ELSE c.inter

(***************************************************************************)
(* The mapper: status_changed gives the mappers of a map_concatenated the  *)
(* status of the whole                                                     *)
(***************************************************************************)
MapperClean(m) == [m EXCEPT !.dirty = FALSE, !.sub = MarkAsClean(@)]
MapperAdvance(m) == [m EXCEPT !.dirty = FALSE, !.sub = AdvanceAlways(@)]

(* The hard transform: that of map_concatenated calls the hard transform   *)
(* of each of its mappers after having advanced it.  The soft one changes  *)
(* no status.                                                              *)
Transform(m) ==
  LET advanced == MapperAdvance(m)
  IN  IF m.kind = "concatenated"
      THEN [advanced EXCEPT !.sub = AdvanceAlways(@)]
      ELSE advanced

InverseMap(m) ==
  LET current == IF m.dirty THEN MapperAdvance(m) ELSE m
  IN  [current EXCEPT !.dirty = TRUE, !.sub = Receive(@)]

(***************************************************************************)
(* The system                                                              *)
(***************************************************************************)
NewCodec(kind) == [kind |-> kind, dirty |-> TRUE, inter |-> 0]
NewMapper(kind) == [kind |-> kind, dirty |-> TRUE, sub |-> Fresh]
NewSystem(ckind, mkind) ==
  [cdc |-> NewCodec(ckind), map |-> NewMapper(mkind), mdm |-> Fresh]

(* seedfrom: the generators restart, the flags stay.  The copy for         *)
(* encoding that codec_multiblock then makes of its codec has the same     *)
(* generators.                                                             *)
SeedFrom(s) ==
  [s EXCEPT !.cdc.inter = 0, !.map.sub.table = 0, !.mdm.table = 0]

EncodePath(s) ==
  [cdc |-> Encode(s.cdc), map |-> Transform(s.map), mdm |-> AdvanceAlways(s.mdm)]

Tables == [cdc : Nat, map : Nat, mdm : Nat]
NoTables == [cdc |-> 0, map |-> 0, mdm |-> 0]

(* The tables a block is sent with, after encode_path, or received with,   *)
(* after receive_path.                                                     *)
TablesOf(s) ==
  [cdc |-> CodecTable(s.cdc), map |-> s.map.sub.table, mdm |-> s.mdm.table]

(* What a clone shares with its original, whose copy constructor copies    *)
(* the pointer: to, after from has changed.                                *)
Shared(to, from) ==
  [to EXCEPT !.cdc.inter = IF to.cdc.kind # "static" THEN from.cdc.inter ELSE @,
             !.map.sub = IF to.map.kind = "concatenated" THEN from.map.sub ELSE @]
=============================================================================
