----------------------------- MODULE DeviceDecoder -----------------------------
(***************************************************************************)
(* fba2 on a graphics processor: the host queues kernels on streams, and   *)
(* the device runs kernels of different streams at the same time, unless   *)
(* an event, a device synchronisation or the default stream orders them.   *)
(* Computing lazily is left out: its threads race for the flags of cached  *)
(* entries.  Pruning goes by the metrics of the pass that is made, with    *)
(* th_inner everywhere.                                                    *)
(***************************************************************************)
EXTENDS ForwardBackward

VARIABLES
  launched,     \* the kernels queued by decode(), with what each waits for
  running, finished

devicevars == <<launched, running, finished>>

(***************************************************************************)
(* What the host queues                                                    *)
(***************************************************************************)
On(stream, op, i) == [op |-> op, i |-> i, stream |-> stream]
Default == -1
Sync == <<On(Default, "synchronize", 0)>>
StreamOf(i) == i % fba.depth   \* i & (depth - 1): depth is a power of 2

(* Breadth-first issue, in groups of as many as there are streams: before  *)
(* the stage of the first of a group, the metrics of them all.             *)
Group(j) ==
  IF (j - 1) % fba.depth = 0 THEN Min({fba.depth, fba.N - j + 1}) ELSE 0
InGroups(metrics, stages) ==
  FlattenSeq([j \in 1..fba.N |-> [x \in 1..Group(j) |-> metrics[j + x - 1]] \o stages[j]])

(* work_gamma, work_alpha_and_beta, with a stream for each, and            *)
(* work_results.                                                           *)
GlobalPath ==
  LET stage(i) == <<On(0, "alpha", i), On(1, "beta", fba.N - i),
                    On(0, "normalize_alpha", i),
                    On(1, "normalize_beta", fba.N - i)>>
  IN  [i \in 1..fba.N |-> On(Default, "gamma", i - 1)] \o Sync
        \o <<On(0, "init_alpha", 0), On(1, "init_beta", fba.N),
             On(0, "normalize_alpha", 0), On(1, "normalize_beta", fba.N)>>
        \o FlattenSeq([i \in 1..fba.N |-> stage(i)]) \o Sync
        \o [i \in 1..fba.N |-> On(Default, "message", i - 1)] \o Sync

(* work_alpha: alpha(i) uses the metrics of codeword i - 1.                *)
LocalAlpha ==
  LET start == <<On(StreamOf(0), "init_alpha", 0),
                 On(StreamOf(0), "normalize_alpha", 0), On(StreamOf(0), "record", 0)>>
      gammas == [i \in 1..fba.N |-> On(StreamOf(i), "gamma", i - 1)]
      stage(i) == <<On(StreamOf(i), "wait", StreamOf(i - 1)),
                    On(StreamOf(i), "alpha", i), On(StreamOf(i), "normalize_alpha", i),
                    On(StreamOf(i), "record", StreamOf(i))>>
  IN  start \o InGroups(gammas, [i \in 1..fba.N |-> stage(i)]) \o Sync

(* work_beta_and_results.                                                  *)
LocalBetaAndResults ==
  LET last == StreamOf(fba.N)
      start == <<On(last, "init_beta", fba.N), On(last, "normalize_beta", fba.N),
                 On(last, "record", last)>>
      gammas == [j \in 1..fba.N |-> On(StreamOf(fba.N - j), "gamma", fba.N - j)]
      stage(j) ==
        LET i == fba.N - j
        IN  <<On(StreamOf(i), "wait", StreamOf(i + 1)),
              On(StreamOf(i), "beta", i), On(StreamOf(i), "normalize_beta", i),
              On(StreamOf(i), "record", StreamOf(i)), On(StreamOf(i), "message", i)>>
  IN  start \o InGroups(gammas, [j \in 1..fba.N |-> stage(j)]) \o Sync

Commands == IF fba.globalstore THEN GlobalPath ELSE LocalAlpha \o LocalBetaAndResults

(* A kernel follows those queued before it on its stream, those before an  *)
(* event that its stream waits for, as last recorded when the wait was     *)
(* queued, and everything before a synchronisation; the default stream is  *)
(* ordered with all others.                                                *)
After(c, k) ==
  {j \in 1..k - 1 :
     \/ c[j].stream = c[k].stream
     \/ Default \in {c[j].stream, c[k].stream}
     \/ \E y \in j..k : c[y].op = "synchronize"
     \/ \E w \in 1..k - 1 :
          /\ c[w].op = "wait" /\ c[w].stream = c[k].stream
          /\ \E r \in j..w - 1 :
               /\ c[r].op = "record" /\ c[r].i = c[w].i
               /\ c[r].stream = c[j].stream
               /\ \A x \in r + 1..w - 1 : ~(c[x].op = "record" /\ c[x].i = c[w].i)}

Kernels(c) == {k \in DOMAIN c : c[k].op \notin {"wait", "record", "synchronize"}}
Launched(c) ==
  [k \in Kernels(c) |->
     [op |-> c[k].op, i |-> c[k].i, after |-> After(c, k) \intersect Kernels(c)]]

(***************************************************************************)
(* What kernels do                                                         *)
(***************************************************************************)
DeviceRows == (IF fba.globalstore THEN Codewords ELSE 0..fba.depth - 1) \X States
InRow(i, s) == <<IF fba.globalstore THEN i ELSE StreamOf(i), s>>

Metric(i, s, t) == Total([d \in Alphabet |-> gamma[InRow(i, s)][d][t]])
Forward(i) ==
  [t \in States |->
     Total([s \in {s \in Kept(alpha[i - 1], fba.th_inner) : t \in Reach(i - 1, s)} |->
              alpha[i - 1][s] * Metric(i - 1, s, t)])]
Backward(i) ==
  [s \in States |->
     Total([t \in Reach(i, s) \intersect Kept(beta[i + 1], fba.th_inner) |->
              beta[i + 1][t] * Metric(i, s, t)])]
Message(i) ==
  [d \in Alphabet |->
     Total([s \in Kept(alpha[i], fba.th_inner) |->
       alpha[i][s] * Total([t \in Reach(i, s) |->
                              beta[i + 1][t] * gamma[InRow(i, s)][d][t]])])]

Weightless(row) == \A s \in States : row[s] = 0

(* The cells of device memory a kernel reads and writes.                   *)
Reads(k) ==
  CASE k.op = "alpha" -> {<<"alpha", k.i - 1>>, <<"gamma", InRow(k.i - 1, 0)[1]>>}
    [] k.op = "beta" -> {<<"beta", k.i + 1>>, <<"gamma", InRow(k.i, 0)[1]>>}
    [] k.op = "message" -> {<<"alpha", k.i>>, <<"beta", k.i + 1>>,
                            <<"gamma", InRow(k.i, 0)[1]>>}
    [] OTHER -> {}
Writes(k) ==
  CASE k.op \in {"init_alpha", "normalize_alpha", "alpha"} -> {<<"alpha", k.i>>}
    [] k.op \in {"init_beta", "normalize_beta", "beta"} -> {<<"beta", k.i>>}
    [] k.op = "gamma" -> {<<"gamma", InRow(k.i, 0)[1]>>}
    [] k.op = "message" -> {<<"ptable", k.i>>}

(***************************************************************************)
(* The actions                                                             *)
(***************************************************************************)
DeviceInit == launched = <<>> /\ running = {} /\ finished = {}

(* decode(), with setup: what it works on is copied to the device, and all *)
(* kernels are queued.                                                     *)
DeviceDecode ==
  /\ fba.depth > 1 /\ Resting /\ decodings < MaxDecodings
  /\ \E f \in Frames :
       /\ Suits(f) /\ trellis' = f /\ copied' = [r |-> f.r, app |-> f.app]
  /\ allocated' = TRUE
  /\ IF allocated THEN UNCHANGED <<gamma, alpha, beta>>
     ELSE /\ gamma' = [x \in DeviceRows |-> NoMetric]
          /\ alpha' = [i \in Boundaries |-> NoWeight]
          /\ beta' = [i \in Boundaries |-> NoWeight]
  /\ ptable' = [i \in Codewords |-> [d \in Alphabet |-> 0]]
  /\ launched' = Launched(Commands) /\ running' = {} /\ finished' = {}
  /\ pass' = <<"device", 0>>
  /\ decodings' = decodings + 1
  /\ UNCHANGED <<fba, cached>>

KernelBegins ==
  /\ pass[1] = "device"
  /\ \E k \in DOMAIN launched \ (running \union finished) :
       launched[k].after \subseteq finished /\ running' = running \union {k}
  /\ UNCHANGED <<fbavars, launched, finished>>

(* get_scale asserts that a row it scales has some weight.                 *)
Underflows(k) ==
  \/ k.op = "normalize_alpha" /\ Weightless(alpha[k.i])
  \/ k.op = "normalize_beta" /\ Weightless(beta[k.i])

Prior0(weights) == [s \in States |-> weights[s[1]]]

Effect(k) ==
  /\ alpha' = CASE k.op = "init_alpha" -> [alpha EXCEPT ![0] = Prior0(trellis.sof)]
                [] k.op = "alpha" -> [alpha EXCEPT ![k.i] = Forward(k.i)]
                [] OTHER -> alpha
  /\ beta' = CASE k.op = "init_beta" -> [beta EXCEPT ![fba.N] = Prior0(trellis.eof)]
               [] k.op = "beta" -> [beta EXCEPT ![k.i] = Backward(k.i)]
               [] OTHER -> beta
  /\ gamma' = IF k.op # "gamma" THEN gamma
              ELSE [x \in DeviceRows |->
                      IF x[1] = InRow(k.i, 0)[1] THEN R(trellis, copied, k.i, x[2])
                      ELSE gamma[x]]
  /\ ptable' = IF k.op = "message" THEN [ptable EXCEPT ![k.i] = Message(k.i)]
               ELSE ptable

KernelEnds ==
  /\ pass[1] = "device"
  /\ \E k \in running :
       /\ Effect(launched[k])
       /\ running' = running \ {k} /\ finished' = finished \union {k}
       /\ IF Underflows(launched[k]) THEN pass' = <<"aborted", 0>> ELSE UNCHANGED pass
  /\ UNCHANGED <<fba, allocated, trellis, copied, cached, decodings, launched>>

(* transfer: after a synchronisation the results are copied to the host.   *)
Transfer ==
  /\ pass[1] = "device" /\ finished = DOMAIN launched
  /\ pass' = <<"done", 0>>
  /\ UNCHANGED <<fba, allocated, trellis, copied, gamma, cached, alpha, beta,
                 ptable, decodings, devicevars>>

DeviceNext == DeviceDecode \/ KernelBegins \/ KernelEnds \/ Transfer

DecoderInit == FbaInit /\ DeviceInit
DecoderNext == (FbaNext /\ UNCHANGED devicevars) \/ DeviceNext
DecoderSpec == DecoderInit /\ [][DecoderNext]_<<fbavars, devicevars>>

(***************************************************************************)
(* Properties                                                              *)
(***************************************************************************)

(* Kernels that run at the same time touch no memory that one of them      *)
(* writes; and the posteriors are the sums over all paths of the frame,    *)
(* through the states that the pruning of each pass keeps.                 *)
DeviceExact ==
  fba.depth > 1 =>
    /\ \A j, k \in running :
         j # k => Writes(launched[j])
                    \intersect (Reads(launched[k]) \union Writes(launched[k])) = {}
    /\ pass[1] = "done" =>
         LET W == Metrics
             ahead == [i \in Boundaries |-> Kept(alpha[i], fba.th_inner)]
             behind == [i \in Boundaries |-> Kept(beta[i], fba.th_inner)]
         IN  \A i \in Codewords :
               LET kept == {p \in Paths : /\ \A j \in 0..i : p[j] \in ahead[j]
                                          /\ \A j \in i + 2..fba.N : p[j] \in behind[j]}
               IN  \A d \in Alphabet :
                     ptable[i][d] =
                       Total([p \in kept |-> PathWeight(W, p, Codewords \ {i})
                                                * Branch(W, i, p[i], p[i + 1], d)])

PosteriorsExact == HostExact /\ DeviceExact
=============================================================================
