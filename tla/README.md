# Formal models of SimCommsys

SimCommsys simulates error-control codes over communication channels.  A
*simulator* (`SimCommsys/simcommsys`) estimates error rates by Monte Carlo
sampling over a range of channel parameter values; a master process shares the
sampling among slave processes connected over TCP, and writes what it finds to
a results file that it rewrites in place.  This directory holds TLA+ models of
that program, the TLC configurations that check them on small instances, and
proofs, checked by TLAPS, of what holds for every instance.

Paths below are relative to `src/`; `LB` is `Libraries/Libbase`, `LC` is
`Libraries/Libcomm`.

## 1. The system

### 1.1 Parts, state and interaction

| Component | State it keeps | Operations | Interacts with | What makes it correct |
|---|---|---|---|---|
| **Master-slave layer** `LB/masterslave.cpp`, `LB/socket.cpp` | `smap`: a state (new, idle, working, event pending) for each connected socket; the listening socket; the CPU-time counter | `enable`, `disable`, `waitforevent`, `find_*_slave`, `resetslave(s)`, `send`, `receive`, `updatecputime`; on the slave `slaveprocess`, `gettag`, `sendcputime` | called by `montecarlo`; two byte streams per slave, untyped on the way up | the table agrees with what each slave does; reads and writes stay in step; no slave is forgotten or asked twice |
| **Estimation loop** `LC/montecarlo.cpp` | `results_available`, `converged`, the system with its accumulators, the output file; on the slave the deserialised system | `estimate`, `initnewslaves`, `workidleslaves`, `readpendingslaves`, `updateresults`, `slave_getcode`, `slave_getparameter`, `slave_work` | master-slave layer below, results file and experiment beside it, interrupts from the program above | only results of the current value are added; every one once; a converged row is based on enough of them; the loop ends |
| **Simulator program** `SimCommsys/SimCommsys/simcommsys.cpp` | list of values, `hard_int`, `soft_int`, floors | `main`, `interrupt`, `interrupt_was_soft`, `display` | runs the loop once for each value | no value is skipped unless the user says so; interrupts are honoured and do not leak |
| **Console and signals** `LB/config.cpp` | `interrupt_caught`, handler installed or not | `keypressed`, `readkey`, `interrupted`, `catch_signal` | polled by the program | Ctrl-C ends the run |
| **Results file** `LC/resultsfile.cpp` and the writers of `montecarlo.cpp` | `fileptr`, `filedigest`, `headerwritten`; the file itself, shared with the user and with later runs | `init`, `setupfile`, `writeinterimresults`, `writefinalresults`, `checkformodifications`, `truncate`, `lookforstate` | called by the loop; the file outlives the process | final rows and the user's lines survive; interim rows are replaced; saved states are found again |
| **Experiment accumulators** `LC/experiment*.h/.cpp` | sample count, sums | `reset`, `accumulate`, `get_state`, `accumulate_state`, `estimate` | used by loop and slaves | state exchanged is the state accumulated |
| **Stream simulation** `LC/commsys_stream*`, `commsys_stream_simulator` | frames in flight, estimated drift and offsets | `sample`, `reset` | one kind of experiment | frames are compared with what was sent |
| **Block simulation** `LC/commsys*.cpp`, collectors | last frame | `sample`, collectors' `updateresults` | experiments | stages agree on sizes and order |
| **Codecs, BCJR, modems, mappers, channels, sources, interleavers, FSMs** `LC/codec`, `LC/modem`, ... | tables, per-frame work arrays | encode, translate, decode | composed by block and stream simulation | inverse pairs, bounds, permutations |
| **Serializer** `LB/serializer*` | static registry | create by name | reads every system file | what is written is read back |
| **Numerics and containers** `LB/gf*`, `vector.h`, `random*`, `timer*`, ... | values | pure operations, timers | everywhere | algebraic laws, bounds |
| **Images, stego, Windows, tools, scripts, CUDA, MPI** | | | around the libraries | |

`PROJECT.json` lists every component with its status and the reason when it is
not modelled.

### 1.2 The hard behaviours

* **Interleaving and ordering.**  Slaves join, die, lock up and answer late
  while the master goes from one parameter value to the next.  Nothing in a
  result identifies the request it answers except the system digest and the
  parameter sent along with it (`LC/montecarlo.cpp:371`), and results and CPU
  times share one stream without tags.
* **Partial failure.**  A failing socket erases the slave from the table in the
  middle of whatever the master is doing and unwinds to the caller, after part
  of the effect has taken place.
* **Interrupts.**  Keys and Ctrl-C are polled at three points of the loop; the
  answer is latched at one, used at another and reset at a third; a signal also
  cuts `select()` short.
* **In-place file writes.**  Rows and saved states are written over the
  previous ones line by line, then the file is truncated; the user may edit in
  between, and a crash may fall between any two lines.
* **Liveness.**  The master blocks in `select`, `accept` and `recv`.
* **State that moves with every block.**  Interleavers, permutations and
  codebooks are drawn anew for each block; sender and receiver stay in step
  only through dirty flags, through copies of the system, and because each
  stage is called once per block.  In stream simulation the sender is several
  frames ahead, and the receiver's idea of where a frame starts is an estimate.
* **Metrics that outlive a frame.**  The decoders for insertions and deletions
  keep tables in memory that is allocated once and marked for reuse; on a
  graphics processor kernels of several streams share it.
* **Numeric edges.**  Limits on drift, first and last columns of lattices,
  rank-deficient matrices, powers of zero, bit fields of length zero.

`PROJECT.json` lists each hazard with its line and the properties that cover it.

## 2. The modules

| Module | Models | Built on |
|---|---|---|
| `Cluster` | master-slave layer, sockets, the slave process, faults | |
| `MonteCarlo` | `main`'s loop, `estimate` and its helpers, interrupts | extends `Cluster` |
| `Sweep` | abstract specification: workers make batches, batches are added or dropped, values are closed by rows | |
| `MonteCarloSweep` | refinement mapping: `MonteCarlo` implements `Sweep` | extends `MonteCarlo`, instantiates `Sweep` |
| `ResultsFile` | the results file over several runs | |
| `Commsys` | the stages of a communication system and the tables each uses | |
| `CommsysSimulator` | block simulation with the three classes of system | extends `Commsys` |
| `StreamSimulator` | stream simulation: window, offsets, drifts, frames in flight | extends `Commsys` |
| `QidsReceiver`, `InsDelChannel` | insertion-deletion channels: the receivers of qids, and what qids, bpmr and dids do to a sequence | the second extends the first |
| `ForwardBackward`, `DeviceDecoder` | the forward-backward decoders for such channels, on the host and on a graphics processor | the second extends the first |
| `Serialization` | factory, reading and writing of all serialised classes | |
| `GaloisField`, `Matrix`, `LinearCode`, `BitField` | fields, elimination, codes from matrices, bit fields (operators) | each extends the one before, but for `BitField` |
| `FSM`, `Bcjr`, `ConvCodecs` | encoders as state machines, the BCJR algorithm on their trellises, and the codecs made of both | each extends the one before |
| `Ldpc`, `ReedSolomon` | LDPC decoding by two algorithms; Reed-Solomon | extend `LinearCode` |
| `SymbolMapper` | mappers (operators) | |
| `Interleaver` | interleavers as a machine that is seeded and advanced | |
| `MCMonteCarlo`, `MCResultsFile`, `MCCommsys`, `MCCodes` | instances for TLC; the last two run several independent machines in one state space | |
| `Induction` | induction and recursion on the naturals, finite sums and products, sums over walks, in a form a proof can cite | |
| `MonteCarlo_inv`, `StreamSimulator_inv` | inductive invariants | extend the model |
| `MonteCarlo_proofs` (the refinement too), `ResultsFile_proofs`, `StreamSimulator_proofs` (block simulation too), `InsDelChannel_proofs` (channels and receivers), `DeviceDecoder_proofs` (host and device), `Interleaver_proofs`, `FSM_proofs` | the theorems of section 4 | extend the model, its invariant, `Induction` where needed |

### 2.1 Cluster

One member of `Slaves` is one slave process with the one connection it opens
(`masterslave::connect` connects once); a restarted slave is another member.
A state of a slave process is where it is in `slaveprocess`: `ready` (in
`gettag`), `working` (in `slave_work`), `ended` (told to die), `failed`
(`exit(1)` after a socket error, or killed) or `hung`.

| Variable | Code |
|---|---|
| `smap` | `masterslave::smap`; `"none"` is "not a key".  `working` is also the state of a slave told to die |
| `down[s]`, `up[s]` | what has been written and not read on the two streams of a connection |
| `backlog` | connections in the listener's queue |
| `code[s]`, `param[s]` | `montecarlo::system` on the slave, and its parameter (0 before `set_parameter`) |
| `open` | the master process exists |

A token stands for the group of writes of one call: a tag with the key and
argument that follow, or digest, parameter, sample count and state of a result.
A reader that finds the beginning of a group blocks for the rest and fails if
the peer dies, which is the same as finding the group gone; a lock-up in the
middle of a group is like one before it (the hazard list says what that loses).
`SendAs`/`SendFails` and `Receives`/`ReceiveFails` are the two outcomes of
`masterslave::send` and `receive`: a write to a dead peer may still be taken by
the local TCP stack, a read finds what is left of the stream before its end.
On `Crash` any suffix of what the slave sent may be lost.

`WaitForEvent` is `waitforevent(true, 0.5)`: at most one connection is
accepted, and every readable socket is marked, whatever its state was.
`AcceptThenMarkAll` is the same code after a `select()` that a signal cut
short, whose return value `LB/socket.cpp:221` does not look at.

### 2.2 MonteCarlo

`pc` is the place in `main`'s loop and in `estimate`:

| `pc` | Code | Actions |
|---|---|---|
| `setup` | `estimate` up to the loop | `StartEstimate` (resets accumulators and `resetslaves`) |
| `local` | loop body without a cluster | `SampleAndAccumulate` |
| `init` | `initnewslaves` | `InitSlave`, `NoNewSlave` |
| `assign` | `workidleslaves` | `WorkIdleSlave`, `NoIdleSlave` |
| `wait`, `accept` | `waitforevent` | `MasterWait`, `MasterAccept` |
| `find`, `result`, `cputime` | `readpendingslaves` | `FindPendingSlave`, `DiscardResult`, `AccumulateResult`, `ReadCpuTime`, `ReadFails`, `NoPendingSlave` |
| `update` | `updateresults` and the accuracy test | `UpdateResults` |
| `check` | the loop's condition, with `interrupt()` | `CheckInterrupt` |
| `final` | `writefinalresults` | `WriteFinalResults` |
| `next` | the rest of `main`'s iteration: interrupts, floors | `NextPoint` |
| `disable` | `disable()` in the destructor | `KillIdleSlave`, `Exit` |
| `exited`, `aborted`, `killed` | the process is gone | |

One step of the master is one loop iteration of a helper, that is, what lies
between two calls that depend on a slave; slaves and the user move in between.
The state in `smap` is changed in the step in which the code changes it: for
instance `find_idle_slave` has made a slave working before the request is sent.

Abstractions: samples are counted, not drawn.  The accuracy test is a Boolean
that may be anything from `MinSamples` samples on and is true from `MaxSamples`
on (estimates converge; `MaxSamples` is the only bound on the samples of one
value).  `est` is the sample count that the vectors `result` and `errormargin`
reflect.  `origin` is a history variable: the parameter values whose batches
are in the running totals.  `MaxKeys` bounds the keys a user presses.

### 2.3 ResultsFile

The file is a sequence of lines and a position counts lines.  A line written
over older text covers some lines and may leave the rest of one, a `torn` line
that no reader recognises: `Overwritten` gives the three cases that a longer,
equal or shorter new line makes.  A digest stands for the contents.  Each line
is one action, because each is flushed with `endl` and a crash may come after
it; `Truncate` and `UpdateDigest` finish the write.  `kept` is a history
variable: the rows that were final and the lines the user added and has not
deleted.  A run starts with any system and any first value, and may end after
any final write.

### 2.4 Sweep and the refinement

`Sweep` has no connections or messages: a worker holds at most one batch, made
for some value already announced; a batch is added once and only to its own
value, or dropped; closing a value publishes a row with exactly what was
added.  `ImplementsSweep` (in `MonteCarloSweep`) maps a worker's batch to the
result in its stream to the master.

### 2.5 Block and stream simulation

A *table* is what a stage draws for a block: the interleavers of a turbo codec,
the permutation of a mapper, the codebook of a time-varying modem.  It appears
as the number of times its generator was advanced since it was seeded, so two
equal numbers are two equal tables.  `Commsys` gives each stage the dirty flag
of `LC/blockprocess.h` and its operations (`AdvanceIfDirty`, `MarkAsDirty`,
`MarkAsClean`).  `map_concatenated` has a mapper within.  `codec_multiblock`
has one codec to decode with and a copy of it to encode with, but the copy is a
plain one (`LC/codec/codec_multiblock.h:94`, `LB/serializer.h:170`) and the
interleavers of `turbo` and `repacc`, the codecs modelled within, are held by
`shared_ptr`: both codecs have the same interleavers, and every block that either
encodes or decodes advances them (`TablesPerBlock`).

`CommsysSimulator` has one action per call of `sample()`: `SendBlock`,
`ReceivePath`, `StoreReceived`, `DecodeBlock` or (for `commsys_fulliter`)
`DecodeCycle`, `BlockDone`.

`StreamSimulator` follows `sample()` of `commsys_stream_simulator` frame by
frame: the priors and the state space, sending as many frames as the segment
needs, extraction of the segment, and each iteration of the receiver.  Sequences
appear as lengths.  `received.base` is a history variable: where the window of
received symbols really starts.  With it `true_start`, the true start of the
next frame, can be compared with what the receiver estimated.

### 2.6 Channels and their receivers

`InsDelChannel` makes one step of each random event of `transmit()`: an
insertion, a transmission, a deletion, or a use of the Markov chain.  A received
symbol is the number of the symbol it comes from.  `Drift` is
`qids::get_drift`, which modems use to find symbols.  `QidsReceiver` has the
three receivers of qids (trellis, lattice, corridor) with integer weights for
probabilities, so that sums are exact; their reference is the sum over all ways
a received sequence comes about.

`ForwardBackward` models `fba2` and `fba2_fss` with their memory: metrics in
advance or lazily, global or per codeword, pruned or not, over several frames.
`DeviceDecoder` models the CUDA decoder as a host that queues kernels on streams
and a device that runs any kernels that nothing orders.

### 2.7 Codes

`FSM` runs the implementations of one encoder side by side (`gnrcc`/`grscc`
over elements, `nrcc`/`rscc` over bits, the table of `cached_fsm`, `dvbcrsc`)
through resets, steps, tails and circulation.  `Bcjr` and `ConvCodecs` decode
(`mapcc`, `turbo`, `repacc`), with weights that are integers.  `Ldpc` runs the
two sum-product algorithms on the same word.  The rest are operators, checked
against reference definitions by the actions of `MCCodes` (`CallsExact`).

`Interleaver` has the whole family as tables and the two transforms; a machine
owns a sequence of them, which it seeds and advances.

### 2.8 Serialization

A stream of tokens is read by a stack of readers, one for each object begun, as
the nested calls of `serialize` are; then the object is written and what was
written is read again.  Every class has a list of what it writes and one of what
it reads, each from its own function, with versions.

## 3. The runs

| Run | Instance | Shows |
|---|---|---|
| `sweep` | 3 slaves (symmetric), 2 values, crashes, queue of 1 | `BusyWhileWaiting`, `RepliesInStep`, `OneBatchOutstanding`, `WorkersConfigured`, `AssignedCurrent`, `OwnResultsOnly`, `ConvergedRowsSound`, `NoPointSkipped`, `StreamsNotRepeated`, types |
| `user` | 2 slaves, 2 values, crashes, lock-ups, Ctrl-C, 2 keys (`s` or one without meaning; `q` is in `live` and `local`), a floor | `InterruptSpent`; `ImplementsSweep` |
| `live` | 2 slaves, 2 values, crashes, one key, fairness | `SweepEnds`, `QuitHonoured`, `SlavesStop`, `SlavesServed` |
| `local` | no cluster, 3 values, a floor, 2 keys | `RowsReflectSamples`, `NeverAborts` |
| `file` | results file: 2 runs over 2 values, with at most 1 edit and 1 crash | `LinesKept`, `NoDetritus`, `InterimReplaced`, `SavedStateWhole` |
| `simulate` | block and stream simulation, channels, decoders, files | `BlockInStep`, `FrameInStep`, `ComparesOwnFrame`, `DriftErrorTrue`, `TerminatedEndKnown`, `NeverAbortsInStream`, `DriftWithinLimits`, `SymbolsLocated`, `ReceiversExact`, `PosteriorsExact`, `ReadsBack` |
| `codes` | encoders, codecs, LDPC, interleavers, operators | `EncodersAgree`, `PassesClose`, `PosteriorExact`, `DecodesConsistently`, `LdpcPosteriorsExact`, `LikelihoodsFollow`, `CallsExact` |
| `lostcpu`, `ctrlc`, `lockup`, `reload`, `copied` | the smallest instances | the divergences of section 5.1 |

**Bounds.**  *Cluster*: three slaves are enough for every kind of slave to
coexist (one working for an old value, one being read, one new in the queue);
the protocol invariant speaks of one slave at a time, and the proofs remove the
bound.  Two values give one change of value, which is when slaves carry over;
late results can only be of an earlier value, and the third value in `local` is
for interrupts that must not leak.  A queue of one makes both a waiting and a
refused connection possible.  `MinSamples` 2 with batches of 1 makes a loop that
must not end with the first result.

*File*: one crash separates the lines of one write from the next run, which then
starts from what it left; one edit is made at any place and in any pause between
writes (with a crash or an edit, values have one sample, which halves the
states; undisturbed runs have two).  The proofs remove these bounds.

*Simulation*: two iterations of modem and codec, two blocks aggregated, two
blocks or three frames of two symbols with drifts of one either way, look-ahead
of at most one symbol, streams of at most two frames that end; the look-ahead
keeps a second frame in flight, and the third frame is decoded after offsets
have changed twice.  Channels send up to four symbols with at most two
insertions in a row, caps and limits from 0 to 2; distinct primes as weights tell
apart which events a receiver counted.  Decoders have two or three codewords of
a binary alphabet.  All serialised classes are read, with fields of one or two
elements.

*Codes*: four steps before a tail, memories up to two, fields of two and four
elements, messages of two to four symbols, two decodings of each, two blocks
where state outlives one, all LDPC messages from a few distinct weights,
two calls of `seedfrom`.

**Deadlock** is checked in `sweep`, `live`, `local`, `lostcpu`, `file` and
`reload`.  It is not in `user`, `ctrlc` and `lockup`: with a locked-up slave or
after an interrupted wait the master really may block for ever, and that is the
subject of two findings.  In `simulate`, `copied` and `codes` a machine stops
when it has made the calls its bound allows.  `Finished` is the deliberate stop
of a finished sweep.

**Fairness** (run `live` and the liveness findings): the master takes a step
whenever it is not blocked in a call (`WF_vars(MasterNext)`): it is one thread
that is runnable unless it waits in `accept` or `recv`, and `select` has a
timeout, so `MasterWait` is always enabled.  Each slave process is weakly fair
in the same sense.  Nothing is assumed of the user, of slaves that might still
be started, or of faults.  A slave that is locked up is not fair: its actions
are not enabled.

## 4. The proofs

Assumptions: the named `ASSUME`s of the modules and no others (positive numbers
of values, blocks and symbols; `MinSamples` positive and not above `MaxSamples`;
faults and keys arbitrary subsets; `Slaves` any set, finite or not).  Of codes
they say what `ccfsm::init` asserts (`EncodersAssumption`), and that the loop of
`initcsct` that looks for a period ends (`PeriodAssumption`).  Of decoders they say
what `init` asserts of sizes and limits and what `get_instance` takes for flags
(`DecodersAssumption`); of frames, that the words of a codeword have one length and
that priors are not negative (`FramesAssumption`).  Three theorems have a hypothesis
of their own, given in the table.

| Theorem | Establishes, for every instance |
|---|---|
| `TypeCorrect`, `BlockTypeCorrect`, `StreamTypeCorrect`, `FileTypeCorrect` | types |
| `OwnResults`, `ConvergedRows` | `OwnResultsOnly`, `ConvergedRowsSound` |
| `BusyWaiting`, `InStep`, `Configured`, `Assigned`, `OneBatch` | `BusyWhileWaiting`, `RepliesInStep`, `WorkersConfigured`, `AssignedCurrent`, `OneBatchOutstanding` |
| `Interrupts` | `Spec => InterruptSpent` |
| `RowsReflect` | `RowsReflectSamples`, if `Reliable`: no cluster, or no crashes (run `lostcpu` violates it with one) |
| `SweepNotAborted` | `NeverAborts`, if `Unfloored`: no cluster, or no floor and no crashes |
| `PointsNotSkipped`, `NotRepeated` | `NoPointSkipped`, `StreamsNotRepeated` |
| `Implementation` | `Spec => ImplementsSweep`: the master with its slaves implements `Sweep` |
| `LinesAreKept`, `TruncationIsClean`, `InterimRowsReplaced`, `SavedStatesAreWhole` | `LinesKept`, `NoDetritus`, `InterimReplaced`, `SavedStateWhole`, over any number of runs, edits and crashes |
| `BlocksInStep`, `MultiblockOutOfStep` | `BlockInStep`; `MultiblockAhead`: how far `codec_multiblock` is out of step (section 5.2) |
| `DriftErrorIsTrue`, `OwnFrameCompared`, `FramesInStep`, `EndOfStreamKnown`, `SegmentsReceived` | `DriftErrorTrue`, `ComparesOwnFrame`, `FrameInStep`, `TerminatedEndKnown`, `NeverAbortsInStream` |
| `DriftKeepsToLimits`, `SymbolsAreLocated` | `DriftWithinLimits`, `SymbolsLocated`, for frames of any length and any numbers of insertions |
| `ReceiversAreExact` | `ReceiversExact`, for frames and received sequences of any length, any limits and weights |
| `PosteriorsAlwaysExact` | `PosteriorsExact`, for any sizes, limits, pruning, priors and frames, in every storage mode, any number of frames, and any number of streams on the device |
| `LikelihoodsFollowSymbols` | `LikelihoodsFollow`, for machines of any number of interleavers of any size that are `SoundMachine`s |
| `EncodersAlwaysAgree` | `EncodersAgree`, for any set of codes over any GF(2^m), with any number of inputs, outputs and registers |

Each inductive invariant was an invariant of a TLC run before it was proved, but
those of the decoders, which say of functions that they exist; there the run has
only the property.

**The estimate.**  `ConvergedRowsSound` is not inductive: that the row is
sound depends on `converged` having been computed from the present `samples`.
`EstimateInv` adds that `converged` is false everywhere in the loop and, from
`check` to `final`, implies `est = samples >= MinSamples`.

**The protocol.**  None of the protocol properties is inductive, since each is
about one place in the loop and depends on what the streams held earlier.
`ProtocolInv` (module `MonteCarlo_inv`) says, for every slave, what may be in
its two streams:

* `LinkInv`: what a running slave has before it is a configuration, a
  configuration followed by one request to work, a request for the CPU time, or
  a request to die; one that works has an empty stream, a system and a
  parameter;
* `UpInv`: what it has sent is nothing, one result, or one CPU time that the
  master is waiting for;
* `ViewInv`: what the master's state of the slave says about it: new means
  ready with nothing before it; idle means configured (or about to be) for the
  current value, except before `resetslaves` and after the loop; working means
  that exactly one batch is asked for, being made, or returned (`InWork`);
* `MasterInv`: which states can occur at which place of the loop.

`ViewInv` is asked only of slaves that run, and the whole only while the master
exists.  The proof has one lemma per action of master, slave and user, over
frame lemmas for the slaves an action does not touch (`LinkStep`, `DealStep`,
`MoveStep`, `GoneStep`).  Leaving `assign` with no idle slave needs
`~converged`, which comes from `EstimateInv`.

**Rows and values.**  `RowsInv`: the estimate lags behind the samples only
between an accumulated result and the `updateresults` that follows, and while
that is so `fresh` is set; a slave that crashes between the two breaks it, hence
`Reliable`.  `FloorInv`: without a cluster each pass draws samples before the
floor is tested.  `SkipInv`: a user who has pressed nothing has left no key and no
interrupt, so a value's loop ends only converged.  `ToldInv`: no slave has been
told a later value than the current one, nor this one while it is new or the
value is being set up; so `InitSlave` and `resetslaves` never configure a slave
twice for one value.

**The refinement.**  Each action of `MonteCarlo` is mapped to one of `Sweep` or
to a stutter: a slave's answer to `Make`, a discarded or lost one to `Drop`, an
accumulated one to `Add`, a final row to `Close`, `NextPoint` to `Advance` or
`Stop`, the end of the process to `Stop`.  `SweepInv` adds what this needs: no
request or parameter is of a value that the sweep has not reached, which makes
every batch one that `Make` allows; a stream holds one result at most, also
after the master is gone, so that a worker's batch is one batch; a signal can
kill the master only within its first value, when there are no samples to lose.
That `Add` takes a batch of the current value is the test that tells
`AccumulateResult` from `DiscardResult`; that it takes the only one is
`ProtocolInv`.

**The results file** (`FileInv`).  `WriteInv`: the lines from `fileptr` to the
position are those of the write in progress.  `KeptInv`: every line that must
stay lies before `fileptr` while a write is going on; between writes, either the
file is not the one of the digest, in which case the next write goes to its end,
or the lines that were there then lie before `fileptr`.  That notes are numbered
ties the digest to the contents.  `TornInv`: without crashes remains of covered
lines lie only behind the position.  `RowInv` and `StateInv`: undisturbed, a row
that is not final can only follow `fileptr`, and the lines of states come in
whole blocks behind their rows.

**Systems.**  `BlockInv` follows one block through the dirty flags: none is set
once it is sent (`Awaiting`); between the iterations of `commsys_fulliter` modem
and mapper are clean and at the table of the block (`Cycling`); and
`codec_multiblock` has moved on by its blocks once for each reception
(`ReceivedTimes`).
`StreamInv` (module `StreamSimulator_inv`) relates the receiver, the sender and
the frames between them: the frames in the list are numbered from the one to be
decoded, the receiver's tables are one before that of the first and the sender's
are that of the last (`ModemInv`, `MapperInv`); the window, its true
start and the estimate satisfy one equation between frames and another within
one (`WindowInv`), from which the drift error and the bounds of the segment
follow.

**Channels.**  `get_drift` sums over a prefix, and a step of `transmit()` appends
to the sequences it sums over.  That a prefix has the same sum in the longer
sequence, and where the received symbols of a prefix end, is proved by induction
on its length.

**Receivers.**  A likelihood sums the weights of all events of `n` symbols that
leave a length.  `InsDelChannel_proofs` defines that sum for the first `m`
symbols and any set of steps that are allowed (`Total`), and shows how it grows with a
symbol more (`TotalGrows`): by what may happen to it, for each length before it.
The recursions by rows gather the insertions of a symbol along the row (`InRow`):
the value of a column is one insertion more than in the column before it, or the
end of the symbol before (`InRowGrows`, `TotalFromRow`).  Every set of columns
with the rule `NextRow` then holds totals (`RowsGiveTotals`); the lattice takes
all columns, the corridor those between its limits, where the row that is
overwritten still holds the row above.  The trellis takes the step from drift to
drift at once, with the two ways an entry of its table counts (`TrellisWays`),
and leaves out drifts that no path of the limits has (`TotalOutside`).  The
corridor needs `lim.min <= 1 - tau`, as the property says (section 5.2); the
trellis turned out not to need the hypothesis that the change which happened is
within its limits.  That limits hold the drift 0 is an assumption on
`DriftLimits`: the code starts from it, at an index of an array that goes from
limit to limit (`LC/channel/qids.cpp:154`).

**Decoders.**  `PosteriorsExact` compares what a decoder leaves with sums over all
paths of a frame, through whatever memory its metrics went.  The proof has four
parts.

* *Sums over paths.*  `Induction` has walks on a finite set of states: the two
  recursions of a forward and a backward pass, and the sum over whole walks that
  they give where they meet (`Meets`), with walks held inside a set of states at each
  boundary.  `DeviceSums` and `HostSymbols` carry this to `PathWeight` and `Branch`.
  The two decoders prune differently, so they keep different sets: the host prunes
  both passes by `alpha`, the device each pass by its own metrics.  Where a row
  without weight is replaced by ones, the host is exact only if some path survives
  the pruning, which is the hypothesis of `HostExact`: that path keeps every row
  from being replaced (`PlainRows`).  A row of `fba2_fss` without weight, which it
  asserts not to be, means that the frame has no path (`NoPath`).
* *The host* (`HostInv`).  Each stage has made the rows that come before it
  (`Stage`), and memory is `Sound`: an entry is the metric of this frame wherever it
  is valid, and without lazy computation an entry of global storage is valid from
  the start.  Entries of the frame before are gone because `ResetCache` is part of
  `DecodeFrame` and of each codeword of local storage; the mutant that leaves them
  valid is what run `simulate` catches.  Configuring between frames keeps memory only
  if its sizes are the same.
* *The queue* (`Contract`).  For any number of codewords and streams: kernels of
  which one writes what the other uses (`Clash`) are ordered by `After`; each user of
  metrics finds, as the last to fill its slot, the kernel of its own codeword
  (`Fresh`); each row and each posterior is made by one kernel, after what it needs
  (`Makers`).  The global path is ordered by its synchronisations and two streams
  (`GlobalPlan`).  On the local path a stage waits for the event of the stage before
  it, and so follows all of that stage but its message (`Turns`, `LocalPlan`).  That
  is enough, because a row is used by the next stage and no later one of its pass,
  and metrics share a slot only with those a multiple of `depth` away, which are on
  the same stream.  The rows of `alpha` and `beta` are stored for all codewords
  in both modes; with local storage the first pass ends in a synchronisation before
  the second fills the slots again.
* *The device* (`DeviceInv`).  A kernel begins after all that it must follow has
  ended (`Progress`); so kernels that run do not clash (`RunningApart`), and what a
  kernel that has ended made is still there and is what it should be (`Values`,
  `InSlots`), whichever kernel ends next.

**Interleavers.**  Every table is a permutation of its first positions followed
by forced tails (`Permutes`), shown for each kind by arithmetic on rows and
columns; then both transforms and the inverse follow, by position.  `InterInv`
says when the tables that are drawn have been.  `SoundMachine` leaves out what
does not hold in the code (section 5.2): helical interleavers with a common
factor, Berrou's of sizes 2 and 4, pads that are terminated or of more than two
symbols, and a second pad that keeps its key.

**Encoders.**  `FsmInv` (the machine, its bits and its table are in one state,
`MachinesAgree`) is inductive once every state reached is one of as many field
elements as there are places in the registers.  What it rests on:

* *numbers*: the digits of a state written as a number are read back
  (`ConvertedBack`), because the sum of distinct powers of two meets every number
  below the next one once (`ToIntBijective`); so the row of the table that
  `cached_fsm` looks up is the one that was filled from this state;
* *places*: `Slots` lists every place of every register once, whatever lengths
  the registers have (`SlotsListed`), which makes `Reset` the inverse of `State`;
* *bits*: over GF(2) a sum is a parity (`SumOverIsParity`), so the convolution of
  elements is that of bit fields (`ConvolutionIs`), for feedback, tail and output
  (`BitAdvanceAgrees`, `BitOutputAgrees`);
* *circulation*: the product of the table's matrix and the state is again a state.
  `TimesClosed` shows that multiplication of polynomials stays in the field, and
  that carries through products, powers and elimination of matrices
  (`InverseBlock`, `CirculationTyped`); the entries of the DVB table are numbers of
  states (`DvbCirculation`).

**Induction.**  A proof cannot instantiate a theorem that takes a predicate as
parameter.  `Induction` states what is needed for sets instead: a set of naturals
that holds 0 and the successor of each member holds all of them (`SetInduction`),
a set of naturals with a member has a least one, and one that is bounded a
greatest; and a function that is defined by recursion on `0..n` exists and
satisfies its equations (`RecursionExists`, `Recursion`).  Each follows from the
well-foundedness of inclusion among the sets `0..n`.  From these, sums and
products over finite sets: that the folds of the community modules have a value
for a finite set whatever order they take, that a sum splits over a partition
and follows a renaming of what is summed over, and that a factor comes out.

**Only model-checked.**

* `SweepEnds`, `QuitHonoured`, `SlavesStop`, `SlavesServed`, `CtrlCHonoured`:
  liveness under fairness, with `ENABLED`.
* `ReadsBack`: the reader uses recursive operators.
* `PassesClose`: the second pass from the circulation state closes because
  elimination inverts a matrix and multiplication is associative in the field
  (`poly` irreducible); the proofs show that results stay in the field, not these
  laws.  The tail ends at zero only for a code whose feedback has a tap on the
  input, which `grscc` does not test.
* `PosteriorExact`, `LdpcPosteriorsExact`, `DecodesConsistently`: equalities
  between recursions and sums over sets of words.  The walks of `Induction` serve the
  first as they do for `ForwardBackward`; for LDPC codes the sums go over a graph, and
  the equality holds only where that has no cycles.
* `CallsExact`: a list of small cases of pure operators.

## 5. Where code and documentation differ

### 5.1 With a run that ends in a counterexample

* `reload`: a saved state is never loaded.  `writestate` writes `## System: `
  and the digest; `lookforstate` compares the rest of the line after
  `## System:`, blank included (`LC/montecarlo.cpp:198`).
* `ctrlc`: a SIGINT during `select()` makes the master call `accept()` with no
  connection to accept (`LB/socket.cpp:221`): it blocks until some slave
  connects.
* `lostcpu`: when a slave dies between result and CPU time, the result has
  been accumulated but `results_available` is not set; a row written after an
  interrupt counts samples its estimates do not include
  (`LC/montecarlo.cpp:384`).
* `lockup`: a slave that locks up after its result blocks the master in
  `updatecputime` (`LB/masterslave.cpp:502`), although the loop is written so
  that locked-up machines do not matter.
* `copied`: the copy of a system that sends a stream shares the objects that
  `turbo`, `codec_multiblock` and `map_concatenated` hold by `shared_ptr`
  (`LC/codec/turbo.h:102`), and sender and receiver both advance them.  (Within
  one system `codec_multiblock` makes a copy with the same fault, see 5.2.)

### 5.2 Met while modelling, and modelled as the code is

*Simulation.*  `commsys_fulliter` does not mark the codec clean between
iterations (`LC/commsys_fulliter.cpp:119`): a turbo codec takes the interleavers
of the next block from the second iteration on, so `BlockInStep` claims the
first only.  `codec_multiblock` encodes with a copy of its codec that shares the
interleavers of `turbo` or `repacc` (`LC/codec/codec_multiblock.h:94`): its N
blocks are sent with tables 1 to N and received with N+1 to 2N, already in the
first iteration of plain `commsys`.  With interleavers that change from block to
block it therefore never decodes with what it encoded with; `BlockInStep` and
`FrameInStep` leave its codec out, and `MultiblockAhead`, a theorem
(`MultiblockOutOfStep`), says how far it is ahead.  A soft interrupt before the first result with a floor given takes
the minimum of an empty vector (`SimCommsys/SimCommsys/simcommsys.cpp:265`).
`set_parameter` leaves frames of the old parameter in flight
(`commsys_stream_simulator.h:181`), and a terminated stream ends before the
look-ahead of its last frame.  A crash between the lines of a state leaves
part of a new state over an old one; `SavedStateWhole` does not hold with
crashes, which has no effect while `reload` stands.

*Channels and decoders.*  The cap of qids is tested without the insertions in
progress (`LC/channel/qids.cpp:612`); at the lower edge of the corridor `F[j-1]`
still holds the row before (`:329`); bpmr and dids with equal limits go below
them.  Pruning on the device uses one threshold for both passes and the rows
of `alpha` and `beta` the other way round from the host; the assertion of
`work_backward` uses the largest drift where the smallest is meant; lazy
computation races on the device.

*Codes.*  `matrix` times vector is the transpose's product; `pow` is wrong for
even exponents that are not powers of two and for odd negative ones;
`compute_row_dim` can drop rows of rank-deficient matrices; `gf_fast::power` of
zero is one; `isequalto` compares sizes as integers.  `grscc` with several inputs
never finds its period and has all tail inputs set by one; `turbo` with several
inputs fails an assertion of `lut_interleaver`; `sysrepacc` recurses into
itself; `memoryless::softdecode` multiplies where it should add; priors of
`turbo` are only divided out; `mapcc` with tail and priors fails an assertion.
One-time pads share a static flag (`LC/interleaver/onetimepad.cpp:61`): of two
that keep their key the second never draws it; for more than two symbols a pad's
transform of likelihoods is the inverse of what it should be; `padded` does not
seed its inner interleaver; terminated pads do not transform likelihoods as they
transform symbols.  Helical interleavers need coprime sides, Berrou's a size
other than 2 and 4.

*Files.*  `tvb` writes version 11 with a field that is read from version 12 on
(`LC/modem/tvb.cpp:822`, `:933`), and `cached_fsm` writes the address of its
encoder; neither can be read back, and `ReadsBack` leaves them out.  Some
fallbacks for files without a version can never be taken
(`LC/modem/dminner.cpp:653`).

## 6. Not modelled, and why

In the parts that are modelled: the CPU time is a token without a value; the
estimates themselves and partial results have no values; a full disk, and the
failure of the file system, are outside the source; timers do not appear (a
timeout or an interim write may happen at any moment); `MonteCarlo` starts each
value without samples, as no saved state is ever loaded; bytes of one group of
writes are not interleaved with faults; the user does not edit the file while it
is being written, which the documentation does not allow.  Symbols of a stream
are lengths; `set_parameter` and the counts of errors are left out of
`StreamSimulator`.  Probabilities are integer weights: rounding, underflow and
clipping are not modelled, except where a row has no weight at all.  Lazy
computation on the device is left out (it races), as are `codec_concatenated`
(also inside `codec_multiblock`, whose copy would share its inner codecs with
their flags), the parallel decoder of `turbo`, extended Reed-Solomon codes,
`zsm`, and file formats of template parameters.

Result collectors, the annealer, embedders and stego-systems, digests and
ciphers, timers, random generators, images, Windows applications, tools,
scripts and the unused MPI layer are not modelled (`PROJECT.json` has the list
with reasons).

## 7. Plan

Done: all modules of section 2 and the theorems of section 4.

Next, in order:

1. `Bcjr` and `ConvCodecs`: posteriors as sums over paths of an encoder's trellis,
   with the walks of `Induction`, as for `ForwardBackward`.
2. `DeviceDecoder` with lazy computation, and what its race leaves.
3. `FSM`: the laws of the field and of elimination, for `PassesClose`.
4. Result collectors and the accuracy test over small rationals.
