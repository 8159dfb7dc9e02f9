---------------------------- MODULE StreamSimulator ----------------------------
(***************************************************************************)
(* The simulator of stream transmission                                    *)
(* (experiment/binomial/commsys_stream_simulator) over commsys_stream and  *)
(* a channel that inserts and deletes symbols.  Each sample() decodes one  *)
(* frame; the sender, a copy of the system, runs ahead of the receiver by  *)
(* as many frames as the received segment takes.                           *)
(*                                                                         *)
(* Only the lengths of sequences matter here.  received is a window on the *)
(* stream of received symbols: base is the position in that stream of its  *)
(* first symbol, which the program does not know.                          *)
(***************************************************************************)
EXTENDS Commsys, Integers, Sequences

CONSTANTS
  Tau,          \* symbols of a transmitted frame
  MaxLookahead, \* bound: get_suggested_lookahead() of the modem
  Drifts,       \* changes of length the channel may make to a frame
  MaxOffset,    \* mtau_min of a state space is at least -MaxOffset
  MaxTop,       \* mtau_max of a state space is at most MaxTop
  StreamKinds,  \* the codecs and mappers, as pairs
  MaxSysIter,   \* bound: full-system iterations
  MaxN,         \* bound: frames to reset or end of stream
  MaxFrames,    \* bound: samples taken
  MaxSeeds      \* bound: calls of seedfrom after the first

ASSUME StreamAssumption ==
  /\ Tau \in Nat \ {0} /\ MaxLookahead \in Nat
  /\ Drifts \subseteq Int /\ \A d \in Drifts : Tau + d >= 0
  /\ MaxOffset \in Nat /\ MaxTop \in Nat
  /\ StreamKinds \subseteq CodecKinds \X MapperKinds
  /\ MaxSysIter \in Nat \ {0} /\ MaxN \in Nat \ {0}
  /\ MaxFrames \in Nat /\ MaxSeeds \in Nat

VARIABLES
  stream_mode, N, sys_iter, lookahead,    \* user-defined parameters
  at,                           \* where sample() is
  sys, sys_enc,                 \* the system and its copy
  source,                       \* frames sent and not yet decoded
  received,                     \* the window: base and size
  eof_size,                     \* size of eof_post, 0 when it is empty
  offset,
  old_offset,                   \* the offset of the last frame
  prior_size,                   \* size of sof_prior and eof_prior
  pinned,                       \* the index eof_prior is fixed to, or -1
  estimated_drift, drift_error,
  frames_encoded, frames_decoded,
  iter_modem,
  tables,                       \* those of the last reception of the frame
  true_start,                   \* position of the frame to decode
  taken, seeds

parameters == <<stream_mode, N, sys_iter, lookahead>>

streamvars == <<parameters, at, sys, sys_enc, source, received, eof_size,
                offset, old_offset, prior_size, pinned, estimated_drift,
                drift_error, frames_encoded, frames_decoded, iter_modem,
                tables, true_start, taken, seeds>>

Modes == {"open", "reset", "terminated"}
Parts == {"idle", "priors", "transmit", "receive", "abort"}

(* A frame: its number in the stream, what it was sent with, and its       *)
(* actual_drift.                                                           *)
Frame == [id : Nat, sent : Tables, drift : Int]

StreamTypeOK ==
  /\ stream_mode \in Modes
  /\ N \in 1..MaxN
  /\ sys_iter \in 1..MaxSysIter
  /\ lookahead \in 0..MaxLookahead
  /\ at \in Parts
  /\ sys \in System
  /\ sys_enc \in System
  /\ source \in Seq(Frame)
  /\ received \in [base : Int, size : Nat]
  /\ eof_size \in 0..MaxOffset + MaxTop + 1
  /\ offset \in 0..MaxOffset
  /\ old_offset \in 0..MaxOffset
  /\ prior_size \in 0..MaxOffset + MaxTop + 1
  /\ pinned \in -1..MaxOffset + MaxTop
  /\ estimated_drift \in Int
  /\ drift_error \in Int
  /\ frames_encoded \in Nat
  /\ frames_decoded \in Nat
  /\ iter_modem \in 0..MaxSysIter
  /\ tables \in Tables
  /\ true_start \in Int
  /\ taken \in 0..MaxFrames
  /\ seeds \in 0..MaxSeeds

(* Mutant: the frames sent before stay in the list.                        *)
ClearedButSource(s) ==
  /\ source' = source
  /\ received' = [base |-> 0, size |-> 0]
  /\ eof_size' = 0
  /\ offset' = 0
  /\ estimated_drift' = 0
  /\ drift_error' = 0
  /\ sys_enc' = s
  /\ frames_encoded' = 0
  /\ frames_decoded' = 0
  /\ true_start' = 0

(* reset(), with s the system to be cloned.                                *)
Cleared(s) ==
  /\ source' = <<>>
  /\ received' = [base |-> 0, size |-> 0]
  /\ eof_size' = 0
  /\ offset' = 0
  /\ estimated_drift' = 0
  /\ drift_error' = 0
  /\ sys_enc' = s
  /\ frames_encoded' = 0
  /\ frames_decoded' = 0
  /\ true_start' = 0

StreamInit ==
  /\ stream_mode \in Modes
  /\ N \in IF stream_mode = "open" THEN {1} ELSE 1..MaxN
  /\ sys_iter \in 1..MaxSysIter
  /\ lookahead \in 0..MaxLookahead
  /\ at = "idle"
  /\ \E k \in StreamKinds : sys = SeedFrom(NewSystem(k[1], k[2]))
  /\ sys_enc = sys
  /\ source = <<>>
  /\ received = [base |-> 0, size |-> 0]
  /\ eof_size = 0
  /\ offset = 0
  /\ old_offset = 0
  /\ prior_size = 0
  /\ pinned = -1
  /\ estimated_drift = 0
  /\ drift_error = 0
  /\ frames_encoded = 0
  /\ frames_decoded = 0
  /\ iter_modem = 0
  /\ tables = NoTables
  /\ true_start = 0
  /\ taken = 0
  /\ seeds = 0

(* seedfrom, which a simulation may call between samples.                  *)
SeedStream ==
  /\ at = "idle"
  /\ seeds < MaxSeeds
  /\ seeds' = seeds + 1
  /\ sys' = SeedFrom(sys)
  /\ Cleared(SeedFrom(sys))
  /\ UNCHANGED <<parameters, at, old_offset, prior_size, pinned, iter_modem,
                 tables, taken>>

(***************************************************************************)
(* sample()                                                                *)
(***************************************************************************)

(* The stream starts anew once N of its frames are decoded.                *)
BeginFrame ==
  /\ at = "idle"
  /\ taken < MaxFrames
  /\ IF stream_mode # "open" /\ frames_decoded >= N
     THEN /\ Cleared(sys)
          /\ old_offset' = 0
     ELSE /\ old_offset' = offset
          /\ UNCHANGED <<sys_enc, source, received, eof_size, offset,
                         estimated_drift, drift_error, frames_encoded,
                         frames_decoded, true_start>>
  /\ pinned' = -1
  /\ iter_modem' = 0
  /\ at' = "priors"
  /\ UNCHANGED <<parameters, sys, prior_size, tables, taken, seeds>>

(* Mutant: the offsets are swapped.                                        *)
SegmentStartSwapped(new) == Tau + estimated_drift + new - old_offset

(* Where in the window the segment for the next frame starts.              *)
SegmentStart(new) == Tau + estimated_drift + old_offset - new

(* stream_advance; extract aborts on a segment that is not in the window.  *)
StreamAdvance(new) ==
  LET start == SegmentStart(new)
  IN  IF received.size = 0
      THEN /\ received' = [base |-> -new, size |-> new]
           /\ at' = "transmit"
      ELSE IF start < 0 \/ start > received.size
      THEN /\ at' = "abort"
           /\ UNCHANGED received
      ELSE /\ received' = [base |-> received.base + start,
                           size |-> received.size - start]
           /\ at' = "transmit"

(* compute_priors chooses a state space that includes no drift; then       *)
(* stream_advance.                                                         *)
ComputePriors ==
  /\ at = "priors"
  /\ \E new \in 0..MaxOffset, top \in 0..MaxTop :
       /\ offset' = new
       /\ prior_size' = new + top + 1
       /\ StreamAdvance(new)
  /\ UNCHANGED <<parameters, sys, sys_enc, source, eof_size, old_offset,
                 pinned, estimated_drift, drift_error, frames_encoded,
                 frames_decoded, iter_modem, tables, true_start, taken, seeds>>

SegmentLength == Tau + lookahead + prior_size - 1

FramesNeeded == SegmentLength > received.size \/ source = <<>>

(* A frame goes through encode_path of the copy and the channel of the     *)
(* system.                                                                 *)
TransmitFrame ==
  /\ at = "transmit"
  /\ FramesNeeded
  /\ \E drift \in Drifts :
       /\ sys_enc' = EncodePath(sys_enc)
       /\ source' = Append(source, [id |-> frames_encoded + 1,
                                    sent |-> TablesOf(sys_enc'),
                                    drift |-> drift])
       /\ received' = [received EXCEPT !.size = @ + Tau + drift]
  /\ sys' = Shared(sys, sys_enc')
  /\ frames_encoded' = frames_encoded + 1
  /\ UNCHANGED <<parameters, at, eof_size, offset, old_offset, prior_size,
                 pinned, estimated_drift, drift_error, frames_decoded,
                 iter_modem, tables, true_start, taken, seeds>>

(* Mutant: the error in the start of the frame is not accounted for.       *)
EndDriftUncorrected == Head(source).drift

(* The drift at the end of the frame as the receiver counts it.            *)
EndDrift == Head(source).drift - drift_error

(* The index of eof_prior for a drift, or the closest one.                 *)
ClosestIndex(drift) ==
  IF drift + offset < 0 THEN 0
  ELSE IF drift + offset >= prior_size THEN prior_size - 1
  ELSE drift + offset

(* With enough received, the end of the last frame of a terminated stream  *)
(* is fixed, and the segment extracted.                                    *)
ExtractSegment ==
  /\ at = "transmit"
  /\ ~ FramesNeeded
  /\ pinned' = IF stream_mode = "terminated" /\ frames_decoded = N - 1
               THEN ClosestIndex(EndDrift) ELSE -1
  /\ at' = IF SegmentLength > received.size THEN "abort" ELSE "receive"
  /\ UNCHANGED <<parameters, sys, sys_enc, source, received, eof_size, offset,
                 old_offset, prior_size, estimated_drift, drift_error,
                 frames_encoded, frames_decoded, iter_modem, tables,
                 true_start, taken, seeds>>

(* Mutant: the mapper is not marked when it is to be used again.           *)
IterationUnmarked(s, last) ==
  LET map == InverseMap(InverseMap(s.map))
  IN  [cdc |-> Decode(s.cdc),
       map |-> IF last THEN map ELSE MapperClean(map),
       mdm |-> IF last THEN Receive(s.mdm) ELSE MarkAsClean(Receive(s.mdm))]

(* A full-system iteration: demodulate, the inverse of the mapper (which   *)
(* is then marked as clean), init_decoder and the codec's iterations, and  *)
(* the inverse again; if another iteration follows, modem and mapper are   *)
(* marked as clean.                                                        *)
Iteration(s, last) ==
  LET map == InverseMap(MapperClean(InverseMap(s.map)))
  IN  [cdc |-> Decode(s.cdc),
       map |-> IF last THEN map ELSE MapperClean(map),
       mdm |-> IF last THEN Receive(s.mdm) ELSE MarkAsClean(Receive(s.mdm))]

ReceiveFrame ==
  /\ at = "receive"
  /\ iter_modem < sys_iter
  /\ sys' = Iteration(sys, iter_modem + 1 = sys_iter)
  /\ sys_enc' = Shared(sys_enc, sys')
  /\ tables' = TablesOf(sys')
  /\ iter_modem' = iter_modem + 1
  /\ UNCHANGED <<parameters, at, source, received, eof_size, offset,
                 old_offset, prior_size, pinned, estimated_drift, drift_error,
                 frames_encoded, frames_decoded, true_start, taken, seeds>>

(* Where eof_post may have its maximum.  Without look-ahead the end of the *)
(* segment is the end of the frame, and a prior with one index leaves no   *)
(* other; with look-ahead the modem recomputes eof_post at the end of the  *)
(* frame.                                                                  *)
EofIndices ==
  IF pinned >= 0 /\ lookahead = 0 THEN {pinned} ELSE 0..prior_size - 1

(* Mutant: the error of this frame replaces that of the stream.            *)
DriftErrorOfFrame(estimate) == estimate - Head(source).drift

DriftErrorAfter(estimate) == drift_error + estimate - Head(source).drift

EndFrame ==
  /\ at = "receive"
  /\ iter_modem = sys_iter
  /\ \E i \in EofIndices :
       /\ estimated_drift' = i - offset
       /\ drift_error' = DriftErrorAfter(i - offset)
  /\ eof_size' = prior_size
  /\ source' = Tail(source)
  /\ true_start' = true_start + Tau + Head(source).drift
  /\ frames_decoded' = frames_decoded + 1
  /\ taken' = taken + 1
  /\ at' = "idle"
  /\ UNCHANGED <<parameters, sys, sys_enc, received, offset, old_offset,
                 prior_size, pinned, frames_encoded, iter_modem, tables,
                 seeds>>

StreamNext ==
  \/ SeedStream
  \/ BeginFrame
  \/ ComputePriors
  \/ TransmitFrame
  \/ ExtractSegment
  \/ ReceiveFrame
  \/ EndFrame

StreamSpec == StreamInit /\ [][StreamNext]_streamvars

(***************************************************************************)
(* What the simulation relies on                                           *)
(***************************************************************************)

(* drift_error is what its comment says, however state spaces, estimates   *)
(* and resets follow each other: the distance of the receiver's start of   *)
(* the frame from the true one.                                            *)
DriftErrorTrue ==
  /\ at \in {"transmit", "receive"} =>
       received.base + offset = true_start + drift_error
  /\ at = "idle" /\ frames_decoded > 0 =>
       received.base + offset + Tau + estimated_drift = true_start + drift_error

(* The list of sources starts with the frame that is decoded, and it was   *)
(* sent: results compare a frame with itself.                              *)
ComparesOwnFrame ==
  at = "receive" => source # <<>> /\ Head(source).id = frames_decoded + 1

(* Sender and receiver are out of step by whole frames but use, for each   *)
(* frame, the same modem and mapper tables in every iteration, as long as  *)
(* the mapper keeps its tables by value.                                   *)
FrameInStep ==
  at = "receive" /\ iter_modem > 0 =>
    /\ tables.mdm = Head(source).sent.mdm
    /\ sys.map.kind = "interleaved" => tables.map = Head(source).sent.map

(* After the last frame of a terminated stream no error is left, if the    *)
(* range of drifts includes the one there was and there is no look-ahead.  *)
TerminatedEndKnown ==
  at = "idle" /\ stream_mode = "terminated" /\ frames_decoded = N /\ lookahead = 0
    => /\ drift_error > 0 => pinned = 0
       /\ drift_error < 0 => pinned = prior_size - 1

(* No segment is asked for that is not in the received stream, while the   *)
(* state space is no wider than a frame.                                   *)
NeverAbortsInStream == MaxOffset <= Tau => at # "abort"

(* The copy of the system sends every frame with the tables the system     *)
(* itself is to receive it with, whatever the codec and the mapper.        *)
CopyInStep ==
  at = "receive" /\ iter_modem = 1 => tables = Head(source).sent
=============================================================================
