---------------------------- MODULE ForwardBackward ----------------------------
(***************************************************************************)
(* The forward-backward algorithm of time-varying block codes: how likely  *)
(* each symbol of a frame is, and each drift at the ends of its codewords, *)
(* given what was received.  There are two decoders: fba2, with its        *)
(* metrics computed in advance or lazily, kept for a whole frame or for    *)
(* one codeword at a time, and with or without pruning of its trellis; and *)
(* fba2_fss, where a state has a flag for a deletion beside its drift.  A  *)
(* drift without that flag is a state <<m, 0>>.                            *)
(*                                                                         *)
(* fba.depth is 1 for these, and otherwise the number of streams of the    *)
(* decoder of module DeviceDecoder, which has the same memory and init().  *)
(*                                                                         *)
(* Probabilities are integer weights.  Scaling a row changes no ratio in   *)
(* it and is left out, except where the row has no weight at all.          *)
(***************************************************************************)
EXTENDS Integers, Sequences, FiniteSetsExt, Functions, SequencesExt

CONSTANTS
  Decoders,     \* configurations: flags, sizes, limits and thresholds
  Frames,       \* what may be received: table, r, app, sof, eof
  MaxDecodings  \* frames decoded in a behaviour, a bound

(* What init() asserts of the parameters, and get_instance of the flags of *)
(* fba2_fss; and the tables of a modem, whose words for a codeword have    *)
(* one length, with priors that are probabilities.                         *)
ASSUME DecodersAssumption ==
  /\ MaxDecodings \in Nat
  /\ \A c \in Decoders :
       /\ {c.fss, c.lazy, c.globalstore, c.thresholding} \subseteq BOOLEAN
       /\ {c.N, c.q, c.depth} \subseteq Nat \ {0} /\ {c.min, c.max} \subseteq Int
       /\ {c.th_inner, c.th_outer, c.tp_states} \subseteq Nat
       /\ ~c.thresholding => c.th_inner = 0 /\ c.th_outer = 0 /\ c.tp_states = 0
       /\ IF c.fss THEN ~c.thresholding /\ ~c.lazy /\ c.depth = 1
          ELSE {c.nmin, c.nmax} \subseteq Int

ASSUME FramesAssumption ==
  \A f \in Frames :
    /\ \A i \in DOMAIN f.table :
         /\ DOMAIN f.table[i] = DOMAIN f.table[0]
         /\ \A d \in DOMAIN f.table[i] :
              f.table[i][d] \in Seq(Nat) /\ Len(f.table[i][d]) = Len(f.table[i][0])
    /\ \/ f.app = <<>>
       \/ \A i \in DOMAIN f.table, d \in DOMAIN f.table[0] : f.app[i][d] \in Nat
    /\ \A m \in DOMAIN f.sof : f.sof[m] \in Nat
    /\ \A m \in DOMAIN f.eof : f.eof[m] \in Nat

VARIABLES
  fba,          \* the decoder's flags and parameters
  allocated,    \* whether it holds memory for them
  trellis,      \* the frame being decoded, with its encoding table
  copied,       \* the received vector and priors that the decoder copied
  gamma, cached,    \* storage of the receiver's metrics, valid entries
  alpha, beta,
  ptable,       \* posteriors of the symbols
  pass,         \* what is computed next, and for which index
  decodings     \* frames decoded so far

fbavars == <<fba, allocated, trellis, copied, gamma, cached, alpha, beta,
             ptable, pass, decodings>>

Codewords == 0..fba.N - 1
Boundaries == 0..fba.N
Alphabet == 0..fba.q - 1
States == (fba.min..fba.max) \X (IF fba.fss THEN {0, 1} ELSE {0})

\* The sum of the values of a function.
Total(terms) == SumFunction(terms)

NoWeight == [s \in States |-> 0]
NoMetric == [d \in Alphabet |-> NoWeight]

(***************************************************************************)
(* The encoding table and the receiver                                     *)
(***************************************************************************)
CwLength(f, i) == Len(f.table[i][0])
CwStart(f, i) == Total([j \in 0..i - 1 |-> CwLength(f, j)])
FrameLength(f) == CwStart(f, fba.N)

(* r.extract: the symbols that codeword i may have become if it starts     *)
(* with drift m.                                                           *)
Segment(f, r, i, m) ==
  LET n == CwLength(f, i)
      start == CwStart(f, i) + m - fba.min
      more == IF fba.fss THEN Min({fba.max - m, n}) ELSE fba.nmax
      length == Min({n + more, Len(r) - start})
  IN  SubSeq(r, start + 1, start + length)

(* How likely it is that word becomes a segment when it moves from state s *)
(* to state t: any measure will do for the algorithm, as long as some are  *)
(* impossible.  Two symbols in a row are not deleted where there is a flag *)
(* for it.                                                                 *)
Becomes(word, segment, s, t) ==
  LET length == Len(word) + t[1] - s[1]
      both == 1..Min({Len(word), length})
      agreeing == {k \in both : word[k] = segment[k]}
      deletes == s[1] - t[1]
  IN  IF \/ length \notin 0..Len(segment)
         \/ both # {} /\ agreeing = {}
         \/ /\ fba.fss
            /\ (t[2] = 1 /\ deletes <= 0) \/ 2 * deletes > Len(word) + t[2] - s[2]
        THEN 0
      ELSE 1 + Cardinality(agreeing) + t[2]

(* R: the metrics of codeword i from state s, with the prior of each       *)
(* symbol if there is one.                                                 *)
R(f, c, i, s) ==
  LET segment == Segment(f, c.r, i, s[1])
  IN  [d \in Alphabet |->
         [t \in States |->
            Becomes(f.table[i][d], segment, s, t)
              * (IF c.app = <<>> THEN 1 ELSE c.app[i][d])]]

(***************************************************************************)
(* Storage of metrics                                                      *)
(***************************************************************************)
Slot(i, s) == <<IF fba.globalstore THEN i ELSE 0, s>>
Slots(c) ==
  (IF c.globalstore THEN 0..c.N - 1 ELSE {0})
    \X ((c.min..c.max) \X (IF c.fss THEN {0, 1} ELSE {0}))

Fill(f, c, i, S, g) ==
  LET slots == {Slot(i, s) : s \in S}
  IN  [k \in DOMAIN g |-> IF k \in slots THEN R(f, c, i, k[2]) ELSE g[k]]

(* fill_gamma_cache_conditional: what is read and not yet there is         *)
(* computed from the copy of the received vector.                          *)
OnDemand(m, i, S) ==
  LET misses == {s \in S : Slot(i, s) \notin m.cached}
  IN  IF ~fba.lazy THEN m
      ELSE [gamma |-> Fill(trellis, copied, i, misses, m.gamma),
            cached |-> m.cached \union {Slot(i, s) : s \in misses}]

Memory == [gamma |-> gamma, cached |-> cached]

(* Mutant: entries stay valid.                                             *)
KeepCache(g) == [gamma |-> g, cached |-> cached]

(* reset_cache, and the reset of local storage for the next codeword.      *)
ResetCache(g) == [gamma |-> [k \in DOMAIN g |-> NoMetric], cached |-> {}]

(* What codeword i finds in local storage: it is computed for it, or, if   *)
(* lazily, nothing.                                                        *)
LocalMemory(i) ==
  IF fba.globalstore THEN Memory
  ELSE IF fba.lazy THEN ResetCache(gamma)
  ELSE [gamma |-> Fill(trellis, copied, i, States, gamma), cached |-> cached]

(***************************************************************************)
(* The passes                                                              *)
(***************************************************************************)
Reach(i, s) ==
  IF fba.fss
    THEN {t \in States : t[1] >= s[1] - (CwLength(trellis, i) + 1) \div 2}
  ELSE {t \in States : t[1] - s[1] \in fba.nmin..fba.nmax}

(* get_threshold: the states whose weight reaches a fraction of the        *)
(* highest, or is one of the highest tp_states.                            *)
Kept(row, factor) ==
  IF factor > 0
    THEN {s \in States : row[s] * 100 >= Max(Range(row)) * factor}
  ELSE IF fba.tp_states > 0
    THEN {s \in States :
            Cardinality({t \in States : row[t] > row[s]}) < fba.tp_states}
  ELSE States

Normalize(row) ==
  IF \A s \in States : row[s] = 0 THEN [s \in States |-> 1] ELSE row

Through(g, i, s, t) == Total([d \in Alphabet |-> g[Slot(i, s)][d][t]])

WorkAlpha(m, i) ==
  LET row == alpha[i - 1]
      from == {s \in Kept(row, fba.th_inner) : row[s] # 0}
      now == OnDemand(m, i - 1, from)
  IN  [row |-> [t \in States |->
                  Total([s \in {s \in from : t \in Reach(i - 1, s)} |->
                           row[s] * Through(now.gamma, i - 1, s, t)])],
       memory |-> now]

WorkBeta(m, i) ==
  LET row == beta[i + 1]
      to == {t \in Kept(alpha[i + 1], fba.th_inner) : row[t] # 0}
      now == OnDemand(m, i, {s \in States : Reach(i, s) \intersect to # {}})
  IN  [row |-> [s \in States |->
                  Total([t \in Reach(i, s) \intersect to |->
                           row[t] * Through(now.gamma, i, s, t)])],
       memory |-> now]

WorkMessageApp(m, i, a, b) ==
  LET from == {s \in Kept(a[i], fba.th_outer) : a[i][s] # 0}
      to(s) == {t \in Reach(i, s) : b[i + 1][t] # 0}
      now == OnDemand(m, i, {s \in from : to(s) # {}})
  IN  [row |-> [d \in Alphabet |->
                  Total([s \in from |->
                    a[i][s] * Total([t \in to(s) |->
                                b[i + 1][t] * now.gamma[Slot(i, s)][d][t]])])],
       memory |-> now]

(* work_state_app: posteriors of the drifts at a boundary.                 *)
DriftPdf(i) ==
  [m \in fba.min..fba.max |->
     Total([s \in {s \in States : s[1] = m} |-> alpha[i][s] * beta[i][s]])]

(***************************************************************************)
(* The actions                                                             *)
(***************************************************************************)

(* What decode() asserts of a frame: it fits the sizes and the limits.     *)
Suits(f) ==
  /\ DOMAIN f.table = Codewords /\ DOMAIN f.table[0] = Alphabet
  /\ Len(f.r) = FrameLength(f) + fba.max - fba.min
  /\ DOMAIN f.sof = fba.min..fba.max /\ DOMAIN f.eof = fba.min..fba.max

NothingCopied == [r |-> <<>>, app |-> <<>>]

FbaInit ==
  /\ fba \in Decoders
  /\ allocated = FALSE
  /\ trellis = NothingCopied /\ copied = NothingCopied
  /\ gamma = <<>> /\ cached = {}
  /\ alpha = <<>> /\ beta = <<>> /\ ptable = <<>>
  /\ pass = <<"idle", 0>>
  /\ decodings = 0

Resting == pass[1] \in {"idle", "done"}

DecoderFlags(c) == <<c.fss, c.lazy, c.globalstore, c.thresholding, c.depth>>
MemorySizes(c) ==
  <<c.N, c.q, c.min, c.max, IF c.fss THEN <<>> ELSE <<c.nmin, c.nmax>>>>

(* init(): the parameters may change between frames; memory of other       *)
(* sizes is released.                                                      *)
Configure ==
  /\ Resting
  /\ \E c \in Decoders :
       /\ DecoderFlags(c) = DecoderFlags(fba) /\ fba' = c
       /\ allocated' = (allocated /\ MemorySizes(c) = MemorySizes(fba))
       /\ IF allocated' THEN UNCHANGED <<gamma, cached, alpha, beta>>
          ELSE /\ gamma' = <<>> /\ cached' = {}
               /\ alpha' = <<>> /\ beta' = <<>>
  /\ pass' = <<"idle", 0>>
  /\ UNCHANGED <<trellis, copied, ptable, decodings>>

Remember(m) == gamma' = m.gamma /\ cached' = m.cached

Prior(weights) ==
  Normalize([s \in States |-> IF s[2] = 0 THEN weights[s[1]] ELSE 0])
Rows(i, row) == [j \in Boundaries |-> IF j = i THEN row ELSE NoWeight]

(* decode(), as far as its first recursion.                                *)
DecodeFrame ==
  /\ fba.depth = 1 /\ Resting /\ decodings < MaxDecodings
  /\ \E f \in Frames :
       /\ Suits(f)
       /\ trellis' = f
       /\ LET held == IF allocated THEN gamma
                      ELSE [k \in Slots(fba) |-> NoMetric]
              valid == IF allocated THEN cached ELSE {}
          IN  IF fba.globalstore /\ ~fba.lazy
                THEN /\ gamma' = [k \in DOMAIN held |-> R(f, f, k[1], k[2])]
                     /\ cached' = valid /\ UNCHANGED copied
              ELSE /\ copied' = [r |-> f.r, app |-> f.app]
                   /\ IF fba.lazy THEN Remember(ResetCache(held))
                      ELSE gamma' = held /\ cached' = valid
       /\ alpha' = Rows(0, Prior(f.sof))
       /\ beta' = Rows(fba.N, Prior(f.eof))
  /\ allocated' = TRUE
  /\ ptable' = [i \in Codewords |-> [d \in Alphabet |-> 0]]
  /\ pass' = <<IF fba.globalstore /\ ~fba.thresholding THEN "both" ELSE "alpha", 1>>
  /\ decodings' = decodings + 1
  /\ UNCHANGED fba

(* fba2_fss asserts that a row it scales has some weight.                  *)
Continue(rows, next) ==
  pass' = IF fba.fss /\ \E row \in rows : \A s \in States : row[s] = 0
            THEN <<"aborted", 0>> ELSE next

(* work_alpha_and_beta, at index i.                                        *)
AlphaAndBeta ==
  /\ pass[1] = "both"
  /\ LET i == pass[2]
         a == WorkAlpha(Memory, i)
         b == WorkBeta(a.memory, fba.N - i)
     IN  /\ alpha' = [alpha EXCEPT ![i] = Normalize(a.row)]
         /\ beta' = [beta EXCEPT ![fba.N - i] = Normalize(b.row)]
         /\ Remember(b.memory)
         /\ Continue({a.row, b.row},
                     IF i < fba.N THEN <<"both", i + 1>> ELSE <<"results", 0>>)
  /\ UNCHANGED <<fba, allocated, trellis, copied, ptable, decodings>>

(* work_results, at index i.                                               *)
Results ==
  /\ pass[1] = "results"
  /\ LET i == pass[2]
         p == WorkMessageApp(Memory, i, alpha, beta)
     IN  /\ ptable' = [ptable EXCEPT ![i] = p.row]
         /\ Remember(p.memory)
         /\ pass' = IF i + 1 < fba.N THEN <<"results", i + 1>> ELSE <<"done", 0>>
  /\ UNCHANGED <<fba, allocated, trellis, copied, alpha, beta, decodings>>

(* work_alpha, at index i, on the local path.                              *)
Alpha ==
  /\ pass[1] = "alpha"
  /\ LET i == pass[2]
         a == WorkAlpha(LocalMemory(i - 1), i)
     IN  /\ alpha' = [alpha EXCEPT ![i] = Normalize(a.row)]
         /\ Remember(a.memory)
         /\ Continue({a.row}, IF i < fba.N THEN <<"alpha", i + 1>>
                              ELSE <<"beta", fba.N - 1>>)
  /\ UNCHANGED <<fba, allocated, trellis, copied, beta, ptable, decodings>>

(* work_beta_and_results, at index i.                                      *)
BetaAndResults ==
  /\ pass[1] = "beta"
  /\ LET i == pass[2]
         b == WorkBeta(LocalMemory(i), i)
         now == [beta EXCEPT ![i] = Normalize(b.row)]
         p == WorkMessageApp(b.memory, i, alpha, now)
     IN  /\ beta' = now
         /\ ptable' = [ptable EXCEPT ![i] = p.row]
         /\ Remember(p.memory)
         /\ Continue({b.row}, IF i > 0 THEN <<"beta", i - 1>> ELSE <<"done", 0>>)
  /\ UNCHANGED <<fba, allocated, trellis, copied, alpha, decodings>>

FbaNext ==
  Configure \/ DecodeFrame \/ AlphaAndBeta \/ Results \/ Alpha \/ BetaAndResults

(***************************************************************************)
(* Properties                                                              *)
(***************************************************************************)
Paths == [Boundaries -> States]

(* The metrics of the frame that was received, and the weights of a step   *)
(* that sends d and of any step; W is the former.                          *)
Metrics == [i \in Codewords |-> [s \in States |-> R(trellis, trellis, i, s)]]
Branch(W, i, s, t, d) ==
  IF fba.fss \/ t[1] - s[1] \in fba.nmin..fba.nmax THEN W[i][s][d][t] ELSE 0
Move(W, i, s, t) == Total([d \in Alphabet |-> Branch(W, i, s, t, d)])

(* The weight of a path, by its ends and its steps for the codewords of S. *)
Product(factors) == FoldFunction(LAMBDA x, y : x * y, 1, factors)
PathWeight(W, p, S) ==
  trellis.sof[p[0][1]] * trellis.eof[p[fba.N][1]]
    * Product([i \in S |-> Move(W, i, p[i], p[i + 1])])

(* The states that pruning keeps, by the forward metrics of a finished     *)
(* frame.                                                                  *)
KeptInside == [i \in Boundaries |-> Kept(alpha[i], fba.th_inner)]
KeptOutside == [i \in Boundaries |-> Kept(alpha[i], fba.th_outer)]
Passes(p, S) == \A j \in S : p[j] \in KeptInside[j]

(* The posteriors of symbols and drifts are the sums over all paths of the *)
(* frame that was received, through the states that pruning keeps on each  *)
(* side of the codeword, however the metrics were stored, and whatever was *)
(* decoded before; and a frame is given up only if it has no path.         *)
HostExact ==
  fba.depth = 1 /\ pass[1] \in {"done", "aborted"} =>
    LET W == Metrics
        whole == {p \in Paths : /\ p[0][2] = 0 /\ p[fba.N][2] = 0
                                /\ PathWeight(W, p, Codewords) > 0}
    IN  IF pass[1] = "aborted" THEN whole = {}
        ELSE (\E p \in whole : Passes(p, Boundaries)) =>
          /\ \A i \in Codewords, d \in Alphabet :
               ptable[i][d] =
                 Total([p \in {p \in whole : /\ Passes(p, Boundaries \ {i, i + 1})
                                             /\ p[i] \in KeptOutside[i]} |->
                          PathWeight(W, p, Codewords \ {i})
                            * Branch(W, i, p[i], p[i + 1], d)])
          /\ \A i \in Boundaries, m \in fba.min..fba.max :
               DriftPdf(i)[m] =
                 Total([p \in {p \in whole : /\ p[i][1] = m
                                             /\ Passes(p, Boundaries \ {i})} |->
                          PathWeight(W, p, Codewords)])
=============================================================================
