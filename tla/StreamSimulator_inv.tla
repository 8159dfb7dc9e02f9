-------------------------- MODULE StreamSimulator_inv --------------------------
(***************************************************************************)
(* The inductive invariant of StreamSimulator: how the window on what was  *)
(* received, the list of frames that were sent, and the tables of sender   *)
(* and receiver go together at each point of sample().                     *)
(***************************************************************************)
EXTENDS StreamSimulator

(* Nothing was received since the stream began.                            *)
Unused ==
  /\ received = [base |-> 0, size |-> 0] /\ source = <<>>
  /\ offset = 0 /\ estimated_drift = 0 /\ drift_error = 0 /\ true_start = 0

(* Between two frames the estimate is one of the indices of the state      *)
(* space, and the window still holds the segment it was made from, whose   *)
(* state space began at o.                                                 *)
Estimated(o) ==
  /\ received.base + o + Tau + estimated_drift = true_start + drift_error
  /\ estimated_drift + o \in 0..prior_size - 1
  /\ received.size >= Tau + lookahead + prior_size - 1

Sized ==
  /\ prior_size >= offset + 1
  /\ received.base + offset = true_start + drift_error

WindowInv ==
  /\ at \in {"idle", "priors"} /\ frames_decoded = 0 => Unused
  /\ at = "idle" /\ frames_decoded > 0 => Estimated(offset)
  /\ at = "priors" =>
       /\ old_offset = offset
       /\ frames_decoded > 0 => Estimated(old_offset)
  /\ at \in {"transmit", "receive"} => Sized
  /\ at = "receive" =>
       /\ received.size >= SegmentLength
       /\ pinned < prior_size
       /\ stream_mode = "terminated" /\ frames_decoded = N - 1 =>
            pinned = ClosestIndex(EndDrift)

(* The frames of the list are numbered from the one to decode.             *)
SourceInv ==
  /\ frames_encoded = frames_decoded + Len(source)
  /\ \A i \in 1..Len(source) : source[i].id = frames_decoded + i
  /\ at = "receive" => source # <<>>

Iterating == at = "receive" /\ iter_modem > 0

(* The frames of the list the receiver has taken tables for.               *)
Begun == IF Iterating THEN 1 ELSE 0

(* The receiver's modem and mapper are dirty when the next reception is    *)
(* that of a new frame.                                                    *)
Advancing == ~ Iterating \/ iter_modem = sys_iter

(* A table that is advanced for every frame: the receiver has used that of *)
(* the first frame of the list or is going to use it, and the sender is at *)
(* that of the last.                                                       *)
ModemBase == sys.mdm.table - Begun

ModemInv ==
  /\ \A i \in 1..Len(source) : source[i].sent.mdm = ModemBase + i
  /\ sys_enc.mdm.table = ModemBase + Len(source)
  /\ sys.mdm.dirty = Advancing
  /\ Iterating => tables.mdm = sys.mdm.table

MapperBase == sys.map.sub.table - Begun

MapperInv ==
  sys.map.kind = "interleaved" =>
    /\ \A i \in 1..Len(source) : source[i].sent.map = MapperBase + i
    /\ sys_enc.map.sub.table = MapperBase + Len(source)
    /\ sys.map.dirty = Advancing
    /\ ~ Advancing => ~ sys.map.sub.dirty
    /\ Iterating => tables.map = sys.map.sub.table

KindsInv ==
  /\ sys_enc.cdc.kind = sys.cdc.kind
  /\ sys_enc.map.kind = sys.map.kind
  /\ at = "idle" => iter_modem \in {0, sys_iter}
  /\ at \in {"priors", "transmit"} => iter_modem = 0
  /\ at = "receive" => iter_modem <= sys_iter
  /\ at # "idle" => taken < MaxFrames

StreamInv ==
  /\ StreamTypeOK
  /\ KindsInv /\ WindowInv /\ SourceInv
  /\ ModemInv /\ MapperInv
  /\ TerminatedEndKnown
  /\ NeverAbortsInStream
=============================================================================
