----------------------------- MODULE InsDelChannel -----------------------------
(***************************************************************************)
(* The channels that insert and delete symbols: qids, any number of        *)
(* insertions before each symbol, with optional caps; bpmr and dids, the   *)
(* drift of a Markov chain between two limits.  transmit() is a machine    *)
(* that takes a step for each random event; the receivers of qids are      *)
(* functions of what was sent and received.                                *)
(*                                                                         *)
(* A received symbol is the number of the symbol it comes from, 0 for one  *)
(* the channel makes up; substitutions do not change where symbols are.    *)
(***************************************************************************)
EXTENDS QidsReceiver

CONSTANTS
  MaxTau,       \* bound: symbols transmitted
  MaxIns,       \* bound: insertions before a symbol
  Caps,         \* values of Icap and Scap, 0 for none
  Zmins, Zmaxs, \* limits of the Markov chain
  DriftLimits,  \* limits that the receivers of qids are given
  MaxFrame      \* bound: symbols sent and received of frames that they get

ASSUME ChannelAssumption ==
  /\ MaxTau \in Nat \ {0} /\ MaxIns \in Nat /\ Caps \subseteq Nat
  /\ \A z \in Zmins : z \in Int /\ z <= 0
  /\ \A z \in Zmaxs : z \in Nat
  /\ \A lim \in DriftLimits :
       lim.min \in Int /\ lim.min <= 0 /\ lim.max \in Nat /\ lim.top \in Nat

VARIABLES
  channel,      \* the channel: its kind and parameters
  tau,          \* symbols to be transmitted
  state_ins,    \* insertions before each symbol, so far
  state_tx,     \* whether each symbol was transmitted
  Z,            \* drift after each use of the channel
  output        \* the received sequence, once it is complete

channelvars == <<channel, tau, state_ins, state_tx, Z, output>>

(* A cap is applied in transmission only if there is one.                  *)
Qids == {c \in [kind : {"qids"}, Icap : Caps, Scap : Caps,
                tx_Icap : BOOLEAN, tx_Scap : BOOLEAN] :
           (c.tx_Icap => c.Icap > 0) /\ (c.tx_Scap => c.Scap > 0)}
Markov == [kind : {"bpmr", "dids"}, Zmin : Zmins, Zmax : Zmaxs]

ChannelInit ==
  /\ channel \in Qids \union Markov
  /\ tau \in 1..MaxTau
  /\ state_ins = <<>>
  /\ state_tx = <<>>
  /\ Z = <<>>
  /\ output = <<>>

(***************************************************************************)
(* qids                                                                    *)
(***************************************************************************)

(* Mutant: a deleted symbol is counted from the symbol after it.           *)
DriftLate(t) ==
  LET d[i \in 0..t] ==
        IF i = 0 THEN 0
        ELSE d[i - 1] + state_ins[i]
               - (IF i = 1 \/ state_tx[i - 1] THEN 0 ELSE 1)
  IN  d[t]

(* get_drift(t): the symbol in progress counts its insertions from the     *)
(* next symbol on.                                                         *)
Drift(t) ==
  LET d[i \in 0..t] ==
        IF i = 0 THEN 0
        ELSE d[i - 1] + state_ins[i] - (IF state_tx[i] THEN 0 ELSE 1)
  IN  d[t]

\* Symbols whose events are complete.
Sent == Len(state_tx)
Inserted == IF Len(state_ins) > Sent THEN state_ins[Sent + 1] ELSE 0

(* Mutant: the cap on drift is not applied.                                *)
InsertionUncapped == channel.tx_Icap /\ Inserted = channel.Icap

InsertionProhibited ==
  \/ channel.tx_Icap /\ Inserted = channel.Icap
  \/ channel.tx_Scap /\ Drift(Sent) = channel.Scap

DeletionProhibited == channel.tx_Scap /\ Drift(Sent) = - channel.Scap

InsertSymbol ==
  /\ channel.kind = "qids"
  /\ Sent < tau
  /\ ~ InsertionProhibited
  /\ Inserted < MaxIns
  /\ state_ins' = Append(SubSeq(state_ins, 1, Sent), Inserted + 1)
  /\ UNCHANGED <<channel, tau, state_tx, Z, output>>

(* The insertions end, and the symbol is transmitted or deleted.           *)
PassSymbol(transmitted) ==
  /\ channel.kind = "qids"
  /\ Sent < tau
  /\ state_ins' = Append(SubSeq(state_ins, 1, Sent), Inserted)
  /\ state_tx' = Append(state_tx, transmitted)
  /\ UNCHANGED <<channel, tau, Z, output>>

TransmitSymbol == PassSymbol(TRUE)
DeleteSymbol ==
  channel.kind = "qids" /\ ~ DeletionProhibited /\ PassSymbol(FALSE)

(* The received sequence: before each symbol what was inserted.            *)
ReceivedSymbols ==
  LET r[i \in 0..tau] ==
        IF i = 0 THEN <<>>
        ELSE r[i - 1] \o [k \in 1..state_ins[i] |-> 0]
               \o (IF state_tx[i] THEN <<i>> ELSE <<>>)
  IN  r[tau]

(***************************************************************************)
(* bpmr and dids                                                           *)
(***************************************************************************)
Uses == Len(Z)
DriftBefore(n) == IF Uses >= n THEN Z[Uses - n + 1] ELSE 0

(* dids does not insert a bit twice.                                       *)
InsertionPossible(z1, z2) == channel.kind = "bpmr" \/ z1 - z2 < 1

(* generate_state_sequence: one use of the channel.                        *)
NextDrifts(z1, z2) ==
  LET stays == {z1}
      down == {z1 - 1}
      up == IF InsertionPossible(z1, z2) THEN {z1 + 1} ELSE {}
  IN  IF z1 = channel.Zmax THEN stays \union down
      ELSE IF z1 = channel.Zmin THEN stays \union up
      ELSE stays \union down \union up

UseChannel ==
  /\ channel.kind \in {"bpmr", "dids"}
  /\ Uses < tau
  /\ \E z \in NextDrifts(DriftBefore(1), DriftBefore(2)) : Z' = Append(Z, z)
  /\ UNCHANGED <<channel, tau, state_ins, state_tx, output>>

(* An index before the first is made up, one after the last repeats it.    *)
ReceivedBits ==
  [i \in 1..tau |->
    LET j == i - Z[i] IN IF j < 1 THEN 0 ELSE IF j > tau THEN tau ELSE j]

(***************************************************************************)
(* The transmission                                                        *)
(***************************************************************************)
EndTransmission ==
  /\ output = <<>>
  /\ \/ channel.kind = "qids" /\ Sent = tau /\ output' = ReceivedSymbols
     \/ channel.kind # "qids" /\ Uses = tau /\ output' = ReceivedBits
  /\ UNCHANGED <<channel, tau, state_ins, state_tx, Z>>

ChannelNext ==
  \/ InsertSymbol
  \/ TransmitSymbol
  \/ DeleteSymbol
  \/ UseChannel
  \/ EndTransmission

ChannelSpec == ChannelInit /\ [][ChannelNext]_channelvars

(***************************************************************************)
(* What modems and receivers rely on                                       *)
(***************************************************************************)

(* get_drift tells where in the received sequence of qids a symbol is, and *)
(* how long the sequence is, whatever was inserted and deleted before.     *)
SymbolsLocated ==
  channel.kind = "qids" /\ output # <<>> =>
    /\ Len(output) = tau + Drift(tau)
    /\ \A t \in 1..tau :
         state_tx[t] => output[t + Drift(t - 1) + state_ins[t]] = t

(* Frames that are received from a channel without caps: any symbols sent, *)
(* and 0 where the channel made one up.                                    *)
FramesReceived ==
  IF /\ channel.kind = "qids" /\ channel.Icap = 0 /\ channel.Scap = 0
     /\ output # <<>>
     /\ tau <= MaxFrame /\ Len(output) <= MaxFrame
  THEN {[tx |-> tx,
         rx |-> [j \in DOMAIN output |->
                  IF output[j] = 0 THEN 0 ELSE tx[output[j]]]] :
          tx \in [1..tau -> {0, 1}]}
  ELSE {}

(* Whatever the channel did, each receiver gives every change of length    *)
(* the weight of all the ways it comes about within its limits.  The       *)
(* lattice has none; the trellis covers the change that happened; the      *)
(* corridor is asked only where its lower edge is not reached before the   *)
(* last symbol: at the edge the code reads F[j-1] as it was in the row     *)
(* before, and adds the weight of paths that left the corridor.            *)
ReceiversExact ==
  \A f \in FramesReceived, lim \in DriftLimits :
    /\ LatticeExact(f.tx, f.rx, lim)
    /\ Len(output) - tau \in lim.min..lim.max => TrellisExact(f.tx, f.rx, lim)
    /\ lim.min <= 1 - tau => CorridorExact(f.tx, f.rx, lim)

(* The drift never leaves the limits that the receiver is told: those of   *)
(* the Markov chain, if it has more than one state, and the cap that is    *)
(* applied in transmission, if that allows one insertion at a time.  And   *)
(* dids inserts no bit twice, at a limit or away from it.                  *)
DriftWithinLimits ==
  IF channel.kind = "qids"
  THEN channel.tx_Scap /\ channel.tx_Icap /\ channel.Icap = 1 =>
         \A t \in 0..Sent : Drift(t) \in - channel.Scap..channel.Scap
  ELSE /\ channel.Zmin < channel.Zmax =>
            \A i \in 1..Uses : Z[i] \in channel.Zmin..channel.Zmax
       /\ channel.kind = "dids" =>
            \A i \in 3..Uses : ~ (Z[i] > Z[i - 1] /\ Z[i - 1] > Z[i - 2])
=============================================================================
