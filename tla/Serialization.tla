----------------------------- MODULE Serialization -----------------------------
(***************************************************************************)
(* How the objects of a system are read from a file, written and read      *)
(* again: the factory of serializer.h and the two functions serialize() of *)
(* every class.  A simulation file is read this way, a master sends its    *)
(* slaves the system so, and the digest of what is written tells whether a *)
(* saved state belongs to the system.                                      *)
(*                                                                         *)
(* A stream is a sequence of numbers and names; comments and white space   *)
(* are not part of it.  A class is described by the list of what it writes *)
(* and the list of what it reads, each translated from its own function.   *)
(***************************************************************************)
EXTENDS Integers, Sequences, SequencesExt

CONSTANTS
  Loads,      \* the classes of the objects read from a file
  Sizes       \* the sizes of the lists in the file

NumberToken(n) == <<"number", n>>
NameToken(s) == <<"name", s>>
End == <<"end", 0>>

(***************************************************************************)
(* Items: what one statement of serialize() reads or writes                *)
(***************************************************************************)
Number(f) == [op |-> "number", f |-> f]
Choice(f, D) == [op |-> "choice", f |-> f, of |-> D]
Switch(f) == Choice(f, {0, 1})
Flag(f) == [op |-> "flag", f |-> f]
Name(f, D) == [op |-> "name", f |-> f, of |-> D]
Object(f, base) == [op |-> "object", f |-> f, base |-> base]
Numbers(fs) == [k \in DOMAIN fs |-> Number(fs[k])]
Flags(fs) == [k \in DOMAIN fs |-> Flag(fs[k])]

(* One more element of a list; the number of its elements, and all of them *)
Element(f) == [op |-> "element", f |-> f]
ElementOf(f, D) == [op |-> "elementof", f |-> f, of |-> D]
ElementObject(f, base) == [op |-> "elementobject", f |-> f, base |-> base]
Count(f) == [op |-> "count", f |-> f]
Elements(f) == [op |-> "elements", f |-> f]
Objects(f) == [op |-> "objects", f |-> f]
SizeOf(f, g) == [op |-> "sizeof", f |-> f, g |-> g]

(* The items as often as the product of the fields says; only with the     *)
(* values of a field; only in the versions from a to b, and what the field *)
(* is in the others; the items of the base class.                          *)
Repeat(fs, items) == [op |-> "repeat", fs |-> fs, items |-> items]
When(f, D, items) == [op |-> "when", f |-> f, of |-> D, items |-> items]
Versions(a, b, items) ==
  [op |-> "versions", from |-> a, to |-> b, items |-> items]
Otherwise(a, b, f, x) ==
  [op |-> "otherwise", from |-> a, to |-> b, f |-> f, x |-> x]
Inherited(c) == [op |-> "inherited", class |-> c]
Computed(f, how, g) == [op |-> "computed", f |-> f, how |-> how, g |-> g]
Fails == [op |-> "fails"]

(* Lists of the given sizes, times a field, one after the other, each      *)
(* after its size; objects and the numbers between them.                   *)
Segments(f, sizes, times) ==
  [op |-> "segments", f |-> f, sizes |-> sizes, times |-> times]
Alternating(f, between) == [op |-> "alternating", f |-> f, between |-> between]
Latest == 99
SinceLater(v, f, x) ==
  <<Versions(v + 1, Latest, <<Number(f)>>), Otherwise(v + 1, Latest, f, x)>>
Since(v, f, x) ==
  <<Versions(v, Latest, <<Number(f)>>), Otherwise(v, Latest, f, x)>>

(* The version of the format: it must be there, or its absence means 0, or *)
(* a number below 2 is no version (dminner) and is read again.             *)
Version(a, b) == [op |-> "version", from |-> a, to |-> b, absent |-> "refused"]
VersionIfAny(b) == [op |-> "version", from |-> 1, to |-> b, absent |-> "zero"]
Written(n) == [op |-> "constant", x |-> n]

(* operator<< and >> of a vector and of a matrix, and serialize(): the     *)
(* elements without the size                                               *)
VectorWritten(f) == <<Count(f), Elements(f)>>
VectorRead(f) == <<Choice("size", Sizes), Repeat(<<"size">>, <<Element(f)>>)>>
MatrixWritten(f) == <<Number("rows"), Number("cols"), Elements(f)>>
MatrixRead(f) ==
  <<Choice("rows", Sizes), Choice("cols", Sizes),
    Repeat(<<"rows", "cols">>, <<Element(f)>>)>>

(* A class: the base it is registered with, the local variables its reader *)
(* uses, what it writes and what it reads.                                 *)
Class(base, locals, out, in) ==
  [base |-> base, locals |-> locals, out |-> out, in |-> in]
Plain(base) == Class(base, {}, <<>>, <<>>)
Simple(base, items) == Class(base, {}, items, items)

(***************************************************************************)
(* Channels                                                                *)
(***************************************************************************)
Bpmr ==
  Class("channel", {},
    <<Written(2)>> \o Numbers(<<"Zmin", "Zmax", "varyPd", "varyPi", "varyPs",
      "varyPsi", "fixedPd", "fixedPi", "fixedPs", "fixedPsi">>),
    <<Version(1, 2)>> \o Numbers(<<"Zmin", "Zmax">>)
      \o Flags(<<"varyPd", "varyPi">>)
      \o <<Versions(2, Latest, Flags(<<"varyPs", "varyPsi">>)),
           Otherwise(2, Latest, "varyPs", 0), Otherwise(2, Latest, "varyPsi", 0)>>
      \o Numbers(<<"fixedPd", "fixedPi">>)
      \o Since(2, "fixedPs", 0) \o Since(2, "fixedPsi", 0))
Dids ==
  LET fields == <<"L", "varyPd", "varyPi", "varyPr", "varyPb", "fixedPd",
                  "fixedPi", "fixedPr", "fixedPb">>
  IN  Class("channel", {}, <<Written(1)>> \o Numbers(fields),
        <<Version(1, 1), Number("L")>>
          \o Flags(<<"varyPd", "varyPi", "varyPr", "varyPb">>)
          \o Numbers(<<"fixedPd", "fixedPi", "fixedPr", "fixedPb">>))
QidsFormat ==
  Class("channel", {},
    <<Written(5)>> \o Numbers(<<"varyPs", "varyPd", "varyPi", "Icap", "Scap",
      "tx_Icap", "tx_Scap", "fixedPs", "fixedPd", "fixedPi", "receiver_type">>),
    <<Version(1, 5)>> \o Flags(<<"varyPs", "varyPd", "varyPi">>)
      \o <<Number("Icap")>> \o Since(4, "Scap", 0)
      \o <<Versions(5, Latest, Flags(<<"tx_Icap", "tx_Scap">>)),
           Otherwise(5, Latest, "tx_Icap", 0), Otherwise(5, Latest, "tx_Scap", 0)>>
      \o Numbers(<<"fixedPs", "fixedPd", "fixedPi">>)
      \o Since(2, "receiver_type", 0))

(***************************************************************************)
(* Embedders and sources                                                   *)
(***************************************************************************)
Lsb ==
  Class("embedder", {}, <<Written(2)>> \o Numbers(<<"M", "algorithm">>),
    <<Version(1, 2), Number("M"), Versions(2, Latest, <<Choice("algorithm", 0..1)>>),
      Otherwise(2, Latest, "algorithm", 0)>>)
Qim == Simple("embedder", Numbers(<<"M", "delta", "alpha">>))
Ssis ==
  Class("blockembedder", {}, <<Written(1)>> \o Numbers(<<"A", "preprocess">>),
    <<Version(1, 1), Number("A"), Choice("preprocess", 0..2)>>)
DirectBlockembedder ==
  Simple("blockembedder", <<Object("implementation", "embedder")>>)

MemorylessSource ==
  Class("source", {"temp", "probabilities"},
    <<Written(1), Count("probabilities"), Elements("probabilities")>>,
    <<Version(1, 1), Choice("temp", Sizes),
      Repeat(<<"temp">>, <<Element("probabilities")>>)>>)
Sequential ==
  Class("source", {"temp"},
    <<Written(1), Count("input_vectors"), Elements("input_vectors")>>,
    <<Version(1, 1), Choice("temp", Sizes),
      Repeat(<<"temp">>, <<Element("input_vectors")>>)>>)
UniformSource == Simple("source", <<Number("alphabet_size")>>)

(***************************************************************************)
(* Finite-state machines and interleavers                                  *)
(***************************************************************************)
(* What cached_fsm writes is the address of the machine it was made from:  *)
(* operator<< is defined for shared pointers only.                         *)
CachedFsm ==
  Class("fsm", {}, <<[op |-> "address"]>>, <<Object("encoder", "fsm")>>)
Ccbfsm == Class("fsm", {}, MatrixWritten("gen"), MatrixRead("gen"))
Ccfsm == Class("fsm", {}, MatrixWritten("gen"), MatrixRead("gen"))
Grscc == Simple("fsm", <<Inherited("ccfsm")>>)
Zsm == Simple("fsm", <<Number("r")>>)

Berrou == Simple("interleaver", <<Number("M")>>)
Flat == Simple("interleaver", <<Number("tau")>>)
Helical == Simple("interleaver", Numbers(<<"tau", "rows", "cols">>))
NamedLut ==
  Class("interleaver", {"size"},
    <<Number("m"), Name("lutname", {})>> \o VectorWritten("lut"),
    <<Number("m"), Name("lutname", {})>> \o VectorRead("lut"))
RandLut ==
  Class("interleaver", {"m"}, Numbers(<<"tau", "m">>), Numbers(<<"tau", "m">>))
Rectangular == Simple("interleaver", Numbers(<<"tau", "rows", "cols">>))
ShiftLut == Simple("interleaver", Numbers(<<"tau", "amount">>))
UniformLut == Simple("interleaver", Numbers(<<"tau", "m">>))
Onetimepad ==
  Class("interleaver", {},
    Numbers(<<"terminated", "renewable", "N">>) \o <<Object("encoder", "fsm")>>,
    Flags(<<"terminated", "renewable">>)
      \o <<Number("N"), Object("encoder", "fsm")>>)
Padded ==
  Simple("interleaver",
         <<Object("otp", "interleaver"), Object("inter", "interleaver")>>)

(***************************************************************************)
(* Mappers and modems                                                      *)
(***************************************************************************)
(* Mappers alternate with the sizes of the alphabets between them.         *)
MapConcatenated ==
  Class("mapper", {"N", "others"},
    <<Written(1), Count("mappers"), Alternating("mappers", "interfaces")>>,
    <<Version(1, 1), Choice("N", Sizes), ElementObject("mappers", "mapper"),
      Computed("others", "less one", "N"),
      Repeat(<<"others">>, <<Element("interfaces"),
                             ElementObject("mappers", "mapper")>>)>>)
MapPunctured == Class("mapper", {}, MatrixWritten("punc_matrix"),
                      MatrixRead("punc_matrix"))
MapReshape == Simple("mapper", <<Number("size_out")>>)
MapStipple == Simple("mapper", <<Number("sets")>>)

Mpsk == Simple("blockmodem", <<Number("M")>>)
Qam == Simple("blockmodem", <<Number("M")>>)

(* The symbols of a table are as many as the values of k bits; an entry is *)
(* a bitfield.  A number below 2 is no version, but the flag of a file     *)
(* without one.                                                            *)
DminnerWritten ==
  <<Written(4), Number("user_threshold"),
    When("user_threshold", {1}, Numbers(<<"th_inner", "th_outer">>))>>
    \o Numbers(<<"Pr", "norm", "n", "k", "codebook_type">>)
    \o <<When("codebook_type", {1}, <<Name("codebookname", {}), Elements("codebook")>>),
         When("codebook_type", {2},
              <<Name("codebookname", {}), Number("tables"), Elements("codebook")>>),
         Number("marker_type"), When("marker_type", {3}, VectorWritten("vectors"))>>
DminnerRead ==
  <<[op |-> "version", from |-> 2, to |-> 4, absent |-> "rewind"],
    Switch("user_threshold"),
    When("user_threshold", {1}, Numbers(<<"th_inner", "th_outer">>))>>
    \o Since(4, "Pr", 0) \o <<Versions(3, Latest, <<Flag("norm")>>),
                              Otherwise(3, Latest, "norm", 1)>>
    \o <<Number("n"), Choice("k", {1}), Computed("symbols", "power", "k"),
         Choice("codebook_type", 0..2),
         When("codebook_type", {1},
              <<Name("codebookname", {}),
                Repeat(<<"symbols">>, <<Element("codebook")>>)>>),
         When("codebook_type", {2},
              <<Name("codebookname", {}), Choice("tables", Sizes),
                Repeat(<<"tables", "symbols">>, <<Element("codebook")>>)>>),
         Versions(2, Latest, <<Choice("marker_type", 0..3),
                               When("marker_type", {3}, VectorRead("vectors"))>>),
         Otherwise(2, Latest, "marker_type", 0)>>
Dminner == Class("blockmodem", {"size", "symbols"}, DminnerWritten, DminnerRead)

Marker ==
  Class("blockmodem", {"temp"},
    <<Written(2)>> \o Numbers(<<"Pr", "norm", "lookahead", "d", "m", "marker_type">>)
      \o <<When("marker_type", {1, 2}, <<Number("count"), Elements("vectors")>>)>>,
    <<Version(1, 2)>> \o Since(2, "Pr", 0)
      \o <<Flag("norm"), Number("lookahead"), Number("d"), Choice("m", Sizes),
           Choice("marker_type", 0..2),
           When("marker_type", {1, 2},
                <<Choice("count", Sizes),
                  Repeat(<<"count", "m">>, <<Element("vectors")>>)>>)>>)

TvbWritten ==
  <<Written(11)>>
    \o Numbers(<<"th_inner", "th_outer", "tp_states", "Pr", "lazy", "storage_type">>)
    \o <<When("storage_type", {2}, <<Number("globalstore_limit")>>)>>
    \o Numbers(<<"lookahead", "q", "codebook_type">>)
    \o <<When("codebook_type", {0, 1}, <<Number("n")>>),
         When("codebook_type", {2, 3},
              <<Name("codebook_name", {}), Count("lengths"),
                Segments("entries", "lengths", "q")>>),
         Number("marker_type")>>
TvbRead ==
  <<Version(1, 12)>> \o Numbers(<<"th_inner", "th_outer">>)
    \o Since(12, "tp_states", 0) \o Since(9, "Pr", 0)
    \o <<Versions(2, 9, Flags(<<"norm", "batch">>)),
         Versions(2, Latest, <<Switch("lazy")>>), Otherwise(2, Latest, "lazy", 1),
         Versions(7, 7, <<Choice("splitpriors", {0})>>),
         Versions(5, Latest, <<Choice("storage_type", 0..2),
           When("storage_type", {2}, <<Number("globalstore_limit")>>)>>),
         Versions(2, 2, <<When("lazy", {1}, <<Switch("global")>>)>>),
         Versions(3, 4, <<Switch("global")>>)>>
    \o Since(4, "lookahead", 0)
    \o <<Versions(1, 10, <<Choice("n", Sizes)>>),
         Versions(6, Latest, <<Choice("q", {2})>>),
         Versions(1, 5, <<Choice("k", {1}), Computed("q", "power", "k")>>),
         Choice("codebook_type", 0..3),
         When("codebook_type", {0, 1}, <<Versions(11, Latest, <<Choice("n", Sizes)>>)>>),
         When("codebook_type", {2, 3},
              <<Name("codebook_name", {}), Choice("temp", Sizes),
                Repeat(<<"temp">>,
                       <<Versions(11, Latest, <<Choice("n", Sizes)>>),
                         [op |-> "append", f |-> "lengths", g |-> "n"],
                         Repeat(<<"q", "n">>, <<Element("entries")>>)>>)>>),
         Choice("marker_type", 0..3),
         When("marker_type", {2, 3},
              <<When("codebook_type", {0, 1}, <<Fails>>), When("temp", {2}, <<Fails>>),
                Versions(11, Latest, <<Fails>>), Choice("temp", Sizes),
                Repeat(<<"temp", "n">>, <<Element("markers")>>)>>)>>
Tvb ==
  Class("blockmodem",
        {"temp", "k", "norm", "batch", "splitpriors", "global", "markers"},
        TvbWritten, TvbRead)

(***************************************************************************)
(* Codecs                                                                  *)
(***************************************************************************)
CodecConcatenated ==
  Class("codec", {"N", "others"},
    <<Written(1), Count("codecs"), Objects("codecs"), Objects("mappers")>>,
    <<Version(1, 1), Choice("N", Sizes), Computed("others", "less one", "N"),
      Repeat(<<"N">>, <<ElementObject("codecs", "codec")>>),
      Repeat(<<"others">>, <<ElementObject("mappers", "mapper")>>)>>)
CodecMultiblock ==
  Class("codec", {}, <<Written(1), Object("cdc", "codec"), Number("N")>>,
        <<Version(1, 1), Object("cdc", "codec"), Number("N")>>)
Mapcc ==
  Class("codec", {},
    <<Object("encoder", "fsm")>> \o Numbers(<<"tau", "endatzero", "circular">>),
    <<Object("encoder", "fsm"), Number("tau")>>
      \o Flags(<<"endatzero", "circular">>))
MemorylessCodec == Simple("codec", <<Object("encoder", "fsm"), Number("tau")>>)
Reedsolomon == Simple("codec", Numbers(<<"length_n", "dim_k">>))
Uncoded ==
  Class("codec", {}, <<Written(1)>> \o Numbers(<<"q", "N">>),
        <<Version(1, 1)>> \o Numbers(<<"q", "N">>))
Repacc ==
  Class("codec", {},
    <<Written(3), Inherited("memoryless"), Object("acc", "fsm"),
      Object("inter", "interleaver")>>
      \o Numbers(<<"iter", "endatzero", "limitlo">>),
    <<Version(2, 3), Inherited("memoryless"), Object("acc", "fsm"),
      Object("inter", "interleaver"), Number("iter"), Flag("endatzero")>>
      \o Since(3, "limitlo", 0))
Sysrepacc == Simple("codec", <<Inherited("repacc")>>)
Turbo ==
  Class("codec", {"tau", "sets", "others"},
    <<Written(2), Object("encoder", "fsm"), Count("inter"), Objects("inter")>>
      \o Numbers(<<"endatzero", "circular", "parallel", "iter">>),
    <<VersionIfAny(2), Object("encoder", "fsm"), Versions(0, 1, <<Number("tau")>>),
      Choice("sets", Sizes), Computed("others", "less one", "sets"),
      Versions(0, 0, <<Repeat(<<"others">>, <<ElementObject("inter", "interleaver")>>)>>),
      Versions(1, Latest, <<Repeat(<<"sets">>, <<ElementObject("inter", "interleaver")>>)>>)>>
      \o Flags(<<"endatzero", "circular", "parallel">>) \o <<Number("iter")>>)

LdpcWritten ==
  <<Written(5), Name("spa_type", {}), Number("max_iter"), Name("clipping", {}),
    Number("almostzero")>>
    \o Numbers(<<"reduce_to_ref", "length_n", "dim_pchk", "max_col_weight",
                 "max_row_weight">>)
    \o <<Name("values", {}), When("values", {"random"}, <<Number("seed")>>)>>
    \o VectorWritten("col_weight") \o VectorWritten("row_weight")
    \o <<Segments("M_n", "col_weight", "one"),
         When("values", {"provided"}, <<Segments("non_zero", "col_weight", "one")>>)>>
LdpcRead ==
  <<Version(2, 5), Name("spa_type", {"trad", "gdl"}), Number("max_iter"),
    Versions(3, Latest, <<Name("clipping", {"clip", "zero"}), Number("almostzero")>>),
    Otherwise(3, Latest, "clipping", "zero"), Otherwise(3, Latest, "almostzero", 0),
    Otherwise(4, Latest, "reduce_to_ref", 0),
    Versions(4, 4, <<Name("flag", {"true", "false"})>>),
    Versions(5, Latest, <<Flag("reduce_to_ref")>>)>>
    \o <<Choice("length_n", Sizes), Choice("dim_pchk", {1})>>
    \o Numbers(<<"max_col_weight", "max_row_weight">>)
    \o <<Name("values", {"ones", "random", "provided"}),
         When("values", {"random"}, <<Number("seed")>>), SizeOf("size", "length_n"),
         Repeat(<<"size">>, <<ElementOf("col_weight", Sizes)>>),
         SizeOf("size", "dim_pchk"), Repeat(<<"size">>, <<Element("row_weight")>>),
         Segments("M_n", "col_weight", "one"),
         When("values", {"provided"}, <<Segments("non_zero", "col_weight", "one")>>)>>
Ldpc == Class("codec", {"flag", "size"}, LdpcWritten, LdpcRead)

(***************************************************************************)
(* Communication systems and experiments                                   *)
(***************************************************************************)
(* A file without a version may have no mapper.                            *)
Commsys ==
  LET channels ==
        <<Object("txchan", "channel"),
          When("singlechannel", {0}, <<Object("rxchan", "channel")>>),
          Object("mdm", "blockmodem")>>
  IN  Class("commsys", {},
        <<Written(1), Number("singlechannel")>> \o channels
          \o <<Object("map", "mapper"), Object("cdc", "codec")>>,
        <<VersionIfAny(1), Versions(1, Latest, <<Switch("singlechannel")>>),
          Otherwise(1, Latest, "singlechannel", 1)>> \o channels
          \o <<[op |-> "mapperifany", f |-> "map", base |-> "mapper"],
               Object("cdc", "codec")>>)
CommsysIterative == Simple("commsys", <<Number("iter"), Inherited("commsys")>>)
CommsysFulliter == Simple("commsys", <<Number("iter"), Inherited("commsys")>>)
CommsysStream ==
  Class("commsys", {}, <<Inherited("commsys"), Written(1), Number("iter")>>,
        <<Inherited("commsys"), VersionIfAny(1)>> \o Since(1, "iter", 1))

CommsysSimulator ==
  Class("experiment", {"input_mode", "count", "input"},
    <<Written(3), Object("src", "source"), Object("sys", "commsys")>>,
    <<VersionIfAny(3), Versions(3, Latest, <<Object("src", "source")>>),
      Versions(1, 2, <<Choice("input_mode", 0..2),
        When("input_mode", {2},
             <<Choice("count", Sizes), Repeat(<<"count">>, <<Element("input")>>)>>)>>),
      Object("sys", "commsys")>>)
CommsysStreamSimulator ==
  Class("experiment", {},
    <<Written(2), Number("stream_mode"), When("stream_mode", {1, 2}, <<Number("N")>>),
      Inherited("commsys_simulator")>>,
    <<VersionIfAny(2), Versions(1, 1, <<Choice("N", {0, 2})>>),
      Versions(2, Latest, <<Choice("stream_mode", 0..2),
                            When("stream_mode", {1, 2}, <<Number("N")>>)>>),
      Inherited("commsys_simulator")>>)
CommsysThreshold ==
  Simple("experiment", <<Number("parameter"), Inherited("commsys_simulator")>>)
CommsysTimer == Simple("experiment", <<Inherited("commsys_simulator")>>)
ExitComputer ==
  Class("experiment", {},
    <<Written(2)>> \o Numbers(<<"exit_type", "compute_llr_statistics", "parameter">>)
      \o <<Object("sys", "commsys")>>,
    <<Version(1, 2), Choice("exit_type", 0..3),
      Versions(2, Latest, <<Flag("compute_llr_statistics")>>),
      Otherwise(2, Latest, "compute_llr_statistics", 1),
      Number("parameter"), Object("sys", "commsys")>>)

Formats ==
  [awgn |-> Plain("channel"), lapgauss |-> Plain("channel"),
   laplacian |-> Plain("channel"), qec |-> Plain("channel"),
   qsc |-> Plain("channel"), bpmr |-> Bpmr, dids |-> Dids, qids |-> QidsFormat,
   lsb |-> Lsb, qim |-> Qim, ssis |-> Ssis,
   direct_blockembedder |-> DirectBlockembedder,
   zero |-> Plain("source"), sequential |-> Sequential,
   uniform |-> UniformSource, memoryless_source |-> MemorylessSource,
   nrcc |-> Simple("fsm", <<Inherited("ccbfsm")>>), rscc |-> Simple("fsm", <<Inherited("ccbfsm")>>),
   gnrcc |-> Grscc, grscc |-> Grscc, ccbfsm |-> Ccbfsm, ccfsm |-> Ccfsm,
   dvbcrsc |-> Plain("fsm"), zsm |-> Zsm, cached_fsm |-> CachedFsm,
   berrou |-> Berrou, flat |-> Flat, helical |-> Helical,
   named_lut |-> NamedLut, rand_lut |-> RandLut, rectangular |-> Rectangular,
   shift_lut |-> ShiftLut, uniform_lut |-> UniformLut,
   onetimepad |-> Onetimepad, padded |-> Padded,
   map_straight |-> Plain("mapper"), map_interleaved |-> Plain("mapper"),
   map_permuted |-> Plain("mapper"), map_aggregating |-> Plain("mapper"),
   map_dividing |-> Plain("mapper"), map_concatenated |-> MapConcatenated,
   map_punctured |-> MapPunctured, map_reshape |-> MapReshape,
   map_stipple |-> MapStipple,
   direct_blockmodem |-> Plain("blockmodem"), mpsk |-> Mpsk, qam |-> Qam,
   dminner |-> Dminner, marker |-> Marker, tvb |-> Tvb,
   uncoded |-> Uncoded, mapcc |-> Mapcc, memoryless |-> MemorylessCodec,
   repacc |-> Repacc, sysrepacc |-> Sysrepacc, turbo |-> Turbo, ldpc |-> Ldpc,
   reedsolomon |-> Reedsolomon, codec_concatenated |-> CodecConcatenated,
   codec_multiblock |-> CodecMultiblock,
   commsys |-> Commsys, commsys_iterative |-> CommsysIterative,
   commsys_fulliter |-> CommsysFulliter, commsys_stream |-> CommsysStream,
   commsys_simulator |-> CommsysSimulator,
   commsys_stream_simulator |-> CommsysStreamSimulator,
   commsys_threshold |-> CommsysThreshold, commsys_timer |-> CommsysTimer,
   exit_computer |-> ExitComputer]

(***************************************************************************)
(* Objects                                                                 *)
(***************************************************************************)
With(o, f, x) == (f :> x) @@ o
Listed(o, f) == IF f \in DOMAIN o THEN o[f] ELSE <<>>
Without(o, fs) == [f \in DOMAIN o \ fs |-> o[f]]
Of(class) == "class" :> class
Times(o, fs) == FoldSeq(LAMBDA f, n : o[f] * n, 1, fs)
Factor(o, f) == IF f \in DOMAIN o THEN o[f] ELSE 1
TwoTo(n) == IF n = 0 THEN 1 ELSE 2 ^ n

(* What the readers of some classes do with what they have read.           *)
FlatFirst(o, v) ==
  IF v >= 1 THEN o
  ELSE With(o, "inter", <<With(Of("flat"), "tau", o.tau)>> \o Listed(o, "inter"))

Cached(o) ==
  IF o.encoder.class = "cached_fsm" THEN o
  ELSE With(o, "encoder", With(Of("cached_fsm"), "encoder", o.encoder))

Cumulative(probabilities) ==
  [k \in DOMAIN probabilities |-> FoldSeq(LAMBDA p, c : p + c, 0, SubSeq(probabilities, 1, k))]
ToProbabilities(cpt) ==
  [k \in DOMAIN cpt |-> IF k = 1 THEN cpt[1] ELSE cpt[k] - cpt[k - 1]]

ReceiveChannel(o) ==
  IF o.singlechannel = 1 THEN With(o, "rxchan", o.txchan) ELSE o

NumInputs(sys) == IF sys.cdc.class = "uncoded" THEN sys.cdc.q ELSE 2
SourceOf(o) ==
  IF "src" \in DOMAIN o THEN o
  ELSE With(o, "src",
         CASE "input_mode" \in DOMAIN o /\ o.input_mode = 0 -> Of("zero")
           [] "input_mode" \in DOMAIN o /\ o.input_mode = 2 ->
                With(With(Of("sequential"), "input_vectors", o.input), "index", 0)
           [] OTHER -> With(Of("uniform"), "alphabet_size", NumInputs(o.sys)))
StreamMode(o) ==
  LET N == IF "N" \in DOMAIN o THEN o.N ELSE 0
      mode == IF "stream_mode" \in DOMAIN o THEN o.stream_mode
              ELSE IF N > 0 THEN 1 ELSE 0
  IN  With(With(o, "N", N), "stream_mode", mode)

(* The storage of tvb before version 5, and codebooks with markers, that   *)
(* become one codebook for every marker.                                   *)
Storage(o) ==
  IF "storage_type" \in DOMAIN o THEN o
  ELSE With(o, "storage_type", IF "global" \in DOMAIN o THEN o.global ELSE 1)
Marked(o) ==
  IF o.marker_type \in {0, 1} THEN o
  ELSE With(With(With(With(o, "marker_type", 0), "codebook_type", o.marker_type),
                 "lengths", [i \in 1..o.temp |-> o.n]),
            "entries",
            FlattenSeq([i \in 1..o.temp |-> [e \in 1..o.q * o.n |->
              o.entries[e] + o.markers[(i - 1) * o.n + ((e - 1) % o.n) + 1]]]))
Lengths(o) == IF o.codebook_type \in {0, 1} THEN o ELSE Without(o, {"n"})
Reduced(o) ==
  IF "flag" \in DOMAIN o THEN With(o, "reduce_to_ref", IF o.flag = "true" THEN 1 ELSE 0)
  ELSE o

Locals(class) ==
  UNION {Formats[c].locals :
           c \in {class} \union
             {k \in DOMAIN Formats : Inherited(k) \in Range(Formats[class].in)}}
Completed(o, v) ==
  LET class == o.class
      x == CASE class \in {"memoryless", "repacc", "sysrepacc"} -> Cached(o)
             [] class = "turbo" -> FlatFirst(o, v)
             [] class = "ldpc" -> Reduced(o)
             [] class = "memoryless_source" -> With(o, "cpt", Cumulative(o.probabilities))
             [] class = "sequential" -> With(o, "index", 0)
             [] class = "rand_lut" -> With(o, "p", TwoTo(o.m) - 1)
             [] class = "tvb" -> Lengths(Marked(Storage(o)))
             [] class = "commsys_stream_simulator" -> StreamMode(SourceOf(o))
             [] class \in {"commsys_simulator", "commsys_threshold", "commsys_timer"} ->
                  SourceOf(o)
             [] Formats[class].base = "commsys" -> ReceiveChannel(o)
             [] OTHER -> o
  IN  Without(x, Locals(class))

Saved(o) ==
  CASE o.class = "memoryless_source" -> With(o, "probabilities", ToProbabilities(o.cpt))
    [] o.class = "rand_lut" -> With(o, "m", CHOOSE m \in 0..o.p : TwoTo(m) = o.p + 1)
    [] OTHER -> o

(***************************************************************************)
(* What is written of an object                                            *)
(***************************************************************************)
Address == NameToken("0x7ffc")
Concat(n, part(_)) == FlattenSeq([k \in 1..n |-> part(k)])
Sum(sizes, k) == FoldSeq(LAMBDA x, n : x + n, 0, SubSeq(sizes, 1, k))

RECURSIVE Stream(_), Content(_, _)
Stream(o) == <<NameToken(o.class)>> \o Content(Saved(o), Formats[o.class].out)
Content(o, items) ==
  LET of(h) ==
    CASE h.op \in {"number", "choice"} -> <<NumberToken(o[h.f])>>
      [] h.op = "name" -> <<NameToken(o[h.f])>>
      [] h.op = "constant" -> <<NumberToken(h.x)>>
      [] h.op = "address" -> <<Address>>
      [] h.op = "object" -> Stream(o[h.f])
      [] h.op = "count" -> <<NumberToken(Len(Listed(o, h.f)))>>
      [] h.op = "elements" ->
           Concat(Len(Listed(o, h.f)), LAMBDA k : <<NumberToken(o[h.f][k])>>)
      [] h.op = "objects" -> Concat(Len(Listed(o, h.f)), LAMBDA k : Stream(o[h.f][k]))
      [] h.op = "segments" ->
           Concat(Len(o[h.sizes]), LAMBDA i :
             <<NumberToken(o[h.sizes][i])>>
               \o Concat(o[h.sizes][i] * Factor(o, h.times), LAMBDA k :
                    <<NumberToken(o[h.f][Sum(o[h.sizes], i - 1) * Factor(o, h.times) + k])>>))
      [] h.op = "alternating" ->
           Concat(Len(o[h.f]), LAMBDA i :
             IF i < Len(o[h.f])
             THEN Stream(o[h.f][i]) \o <<NumberToken(o[h.between][i])>>
             ELSE Stream(o[h.f][i]))
      [] h.op = "when" -> IF o[h.f] \in h.of THEN Content(o, h.items) ELSE <<>>
      [] h.op = "inherited" -> Content(o, Formats[h.class].out)
  IN  Concat(Len(items), LAMBDA k : of(items[k]))

(***************************************************************************)
(* The reader                                                              *)
(***************************************************************************)
(* loads: the class being read; frames: the objects being read, each       *)
(* inside the one before; rest: what is left to read of what was written,  *)
(* and given: how much of the user's file has been read; word: the next    *)
(* thing in that file is a name; loaded and reread: the object read from   *)
(* the file, and from what was written of it.                              *)
VARIABLES loads, phase, frames, rest, given, word, loaded, reread
readervars == <<loads, phase, frames, rest, given, word, loaded, reread>>

(* Up to the next item that is read: conditions, repetitions and fields    *)
(* that are computed take nothing from the stream.                         *)
RECURSIVE Ready(_)
Ready(frame) ==
  IF frame.todo = <<>> THEN frame
  ELSE
  LET h == Head(frame.todo)
      o == frame.o
      among == frame.version >= h.from /\ frame.version <= h.to
      instead(items) == Ready([frame EXCEPT !.todo = items \o Tail(@)])
      set(x) == Ready([frame EXCEPT !.todo = Tail(@), !.o = With(o, h.f, x)])
  IN  CASE h.op = "repeat" -> instead(Concat(Times(o, h.fs), LAMBDA k : h.items))
        [] h.op = "when" -> instead(IF o[h.f] \in h.of THEN h.items ELSE <<>>)
        [] h.op = "versions" -> instead(IF among THEN h.items ELSE <<>>)
        [] h.op = "otherwise" -> IF among THEN instead(<<>>) ELSE set(h.x)
        [] h.op = "inherited" -> instead(Formats[h.class].in)
        [] h.op = "computed" -> set(IF h.how = "power" THEN TwoTo(o[h.g]) ELSE o[h.g] - 1)
        [] h.op = "append" -> set(Append(Listed(o, h.f), o[h.g]))
        [] h.op = "segments" ->
             instead(Concat(Len(o[h.sizes]), LAMBDA i :
               <<Choice("size", {o[h.sizes][i]}), Repeat(<<"size">>, <<Element(h.f)>>)>>))
        [] OTHER -> frame

Nothing == Of("nothing")
Reader(class) ==
  Ready([o |-> Of(class), version |-> 0, todo |-> Formats[class].in])

ReaderInit ==
  /\ loads \in Loads
  /\ phase = "file"
  /\ frames = <<Reader(loads)>>
  /\ rest = <<>> /\ given = 0 /\ word = FALSE
  /\ loaded = Nothing /\ reread = Nothing

(* The class of an object within another: for a stream, one that can be    *)
(* part of a stream.                                                       *)
OfStream == loads \in {"commsys_stream", "commsys_stream_simulator"}
Inner(base) ==
  CASE base = "channel" -> IF OfStream THEN "dids" ELSE "awgn"
    [] base = "blockmodem" -> IF OfStream THEN "marker" ELSE "qam"
    [] base = "commsys" -> IF OfStream THEN "commsys_stream" ELSE "commsys"
    [] base = "embedder" -> "qim" [] base = "source" -> "zero"
    [] base = "fsm" -> "zsm" [] base = "interleaver" -> "flat"
    [] base = "mapper" -> "map_stipple" [] base = "codec" -> "uncoded"

Depth == Len(frames)
Top == frames[Depth]
Item == Head(Top.todo)
Reading(ops) ==
  /\ phase \in {"file", "written"}
  /\ Top.todo # <<>> /\ Item.op \in ops

(* The next token: any of those that fit, in the user's file; the next one *)
(* of what was written.                                                    *)
Offered(D) ==
  IF phase = "written" THEN IF rest = <<>> THEN {End} ELSE {Head(rest)}
  ELSE {t \in D : word => t[1] = "name"}
Consume ==
  /\ rest' = IF phase = "written" THEN Tail(rest) ELSE rest
  /\ given' = IF phase = "file" THEN given + 1 ELSE given
  /\ word' = FALSE
Keep == UNCHANGED <<rest, given, word>>

Refuse == phase' = "refused" /\ UNCHANGED frames
Proceed(o, v) ==
  /\ frames' = [frames EXCEPT ![Depth] =
                  Ready([@ EXCEPT !.todo = Tail(@), !.o = o, !.version = v])]
  /\ UNCHANGED phase
Took(o) == Proceed(o, Top.version)

(* The version: in the user's file any that the reader knows, of an object *)
(* within another the latest; where it may be absent, a file without it    *)
(* goes on with a name, or, for dminner, with a flag.                      *)
ReadVersion ==
  /\ Reading({"version"})
  /\ LET h == Item
         known == {NumberToken(n) : n \in IF Depth = 1 THEN h.from..h.to ELSE {h.to}}
         without == IF Depth > 1 THEN {} ELSE
                    CASE h.absent = "zero" -> {NameToken("a name")}
                      [] h.absent = "rewind" -> {NumberToken(1)}
                      [] OTHER -> {}
     IN  \E t \in Offered(known \union without) :
           LET present == t[1] = "number" /\ (h.absent = "rewind" => t[2] >= 2)
           IN  \/ /\ present
                  /\ Proceed(Top.o, t[2])
                  /\ Consume
               \/ /\ ~present /\ h.absent = "refused"
                  /\ Refuse /\ Keep
               \/ /\ ~present /\ h.absent # "refused"
                  /\ Proceed(Top.o, IF h.absent = "zero" THEN 0 ELSE 1)
                  /\ word' = (phase = "file" /\ h.absent = "zero")
                  /\ UNCHANGED <<rest, given>>
  /\ UNCHANGED <<loads, loaded, reread>>

(* A number, a number of a set or a flag, a name, or an element of a list. *)
ReadValue ==
  /\ Reading({"number", "flag", "choice", "sizeof", "element", "elementof", "name"})
  /\ LET h == Item
         o == Top.o
         fits(t) ==
           CASE h.op = "name" -> t[1] = "name" /\ (h.of # {} => t[2] \in h.of)
             [] h.op \in {"choice", "elementof"} -> t[1] = "number" /\ t[2] \in h.of
             [] h.op = "flag" -> t[1] = "number" /\ t[2] \in {0, 1}
             [] OTHER -> t[1] = "number"
         some == CASE h.op = "name" -> {NameToken(n) : n \in IF h.of = {} THEN {"a name"} ELSE h.of}
                   [] h.op \in {"choice", "elementof"} -> {NumberToken(n) : n \in h.of}
                   [] h.op = "flag" -> {NumberToken(given % 2)}
                   [] h.op = "sizeof" -> {NumberToken(o[h.g])}
                   [] OTHER -> {NumberToken(given + 3)}
     IN  \E t \in Offered(some) :
           IF ~fits(t) THEN Refuse /\ Keep
           ELSE /\ Took(IF h.op \in {"element", "elementof"}
                        THEN With(o, h.f, Append(Listed(o, h.f), t[2]))
                        ELSE With(o, h.f, t[2]))
                /\ Consume
  /\ UNCHANGED <<loads, loaded, reread>>

(* An object: the name of a class registered with the base, and then what  *)
(* its own reader reads.  A commsys without a version goes on without a    *)
(* mapper when no mapper has the name.                                     *)
Registered(base, t) ==
  t[1] = "name" /\ t[2] \in DOMAIN Formats /\ Formats[t[2]].base = base
ReadObject ==
  /\ Reading({"object", "elementobject", "mapperifany"})
  /\ LET h == Item
         optional == h.op = "mapperifany" /\ Top.version = 0
         some == {NameToken(Inner(h.base))} \union
                 IF optional THEN {NameToken(Inner("codec"))} ELSE {}
     IN  \E t \in Offered(some) :
           \/ /\ Registered(h.base, t)
              /\ frames' = Append(frames, Reader(t[2]))
              /\ Consume /\ UNCHANGED phase
           \/ /\ ~Registered(h.base, t) /\ optional
              /\ Took(With(Top.o, h.f, Of("map_straight")))
              /\ Keep
           \/ /\ ~Registered(h.base, t) /\ ~optional
              /\ Refuse /\ Keep
  /\ UNCHANGED <<loads, loaded, reread>>

(* A reader's assertion fails.                                             *)
Assertion ==
  /\ Reading({"fails"})
  /\ Refuse /\ Keep /\ UNCHANGED <<loads, loaded, reread>>

(* The last item of an object within another.                              *)
Close ==
  /\ phase \in {"file", "written"} /\ Top.todo = <<>> /\ Depth > 1
  /\ LET x == Completed(Top.o, Top.version)
         outer == frames[Depth - 1]
         h == Head(outer.todo)
         o == IF h.op = "elementobject"
              THEN With(outer.o, h.f, Append(Listed(outer.o, h.f), x))
              ELSE With(outer.o, h.f, x)
     IN  frames' = Append(SubSeq(frames, 1, Depth - 2),
                          Ready([outer EXCEPT !.o = o, !.todo = Tail(@)]))
  /\ Keep /\ UNCHANGED <<loads, phase, loaded, reread>>

(* The object is complete: it is written, and what was written is read.    *)
Save ==
  /\ phase = "file" /\ Top.todo = <<>> /\ Depth = 1
  /\ phase' = "written"
  /\ loaded' = Completed(Top.o, Top.version)
  /\ rest' = Tail(Stream(loaded'))
  /\ frames' = <<Reader(loads)>>
  /\ UNCHANGED <<loads, given, word, reread>>
Reload ==
  /\ phase = "written" /\ Top.todo = <<>> /\ Depth = 1
  /\ phase' = "read"
  /\ reread' = Completed(Top.o, Top.version)
  /\ UNCHANGED <<loads, frames, rest, given, word, loaded>>

ReaderNext ==
  ReadVersion \/ ReadValue \/ Assertion \/ ReadObject \/ Close \/ Save \/ Reload

(***************************************************************************)
(* Properties                                                              *)
(***************************************************************************)
(* What cannot be read back: a tvb modulator, whose writer gives the       *)
(* number of the version before the one it writes, and whatever holds a    *)
(* cached_fsm.                                                             *)
Unreadable(o) == {NameToken("tvb"), Address} \cap Range(Stream(o)) # {}

(* An object read from a file of any version is written so that reading it *)
(* gives the same object, with nothing refused and nothing left over: the  *)
(* slaves work on the system of the master, and a file may be replaced by  *)
(* what the program writes.                                                *)
ReadsBack ==
  phase \in {"refused", "read"} /\ loaded # Nothing =>
    \/ Unreadable(loaded)
    \/ phase = "read" /\ reread = loaded /\ rest = <<>>
=============================================================================
