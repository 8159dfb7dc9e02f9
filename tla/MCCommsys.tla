------------------------------ MODULE MCCommsys ------------------------------
(***************************************************************************)
(* The instances of CommsysSimulator, StreamSimulator, InsDelChannel,      *)
(* ForwardBackward, DeviceDecoder and Serialization that TLC checks.  A    *)
(* behaviour is one of them; the others rest.                              *)
(***************************************************************************)
EXTENDS CommsysSimulator, StreamSimulator, InsDelChannel, DeviceDecoder,
        Serialization

VARIABLE simulates

OneSymbolDrifts == -1..1
BlockOfEachKind == {<<"multiblock", "interleaved">>, <<"turbo", "concatenated">>}

MinimumDrifts == {-2, -1, 0}
NarrowLimits ==
  {[min |-> -1, max |-> 0, top |-> 1], [min |-> -1, max |-> 1, top |-> 1],
   [min |-> -2, max |-> 2, top |-> 2]}

Fba2(lazy, globalstore, th, tp, size, max) ==
  [fss |-> FALSE, lazy |-> lazy, globalstore |-> globalstore,
   thresholding |-> th + tp > 0, th_inner |-> th, th_outer |-> th,
   tp_states |-> tp, N |-> size, q |-> 2,
   min |-> -1, max |-> max, nmin |-> -1, nmax |-> 1, depth |-> 1]
Device(globalstore, th, size, max) ==
  [Fba2(FALSE, globalstore, th, 0, size, max) EXCEPT !.depth = 2]
Fss(globalstore, size) ==
  [fss |-> TRUE, lazy |-> FALSE, globalstore |-> globalstore,
   thresholding |-> FALSE, th_inner |-> 0, th_outer |-> 0, tp_states |-> 0,
   N |-> size, q |-> 2, min |-> -1, max |-> 1,
   depth |-> 1]
SmallDecoders ==
  UNION {{Fba2(l, g, 0, 0, 3, 1), Fba2(l, g, 0, 0, 2, 2),
          Fba2(l, g, 50, 0, 3, 1), Fba2(l, g, 0, 2, 3, 1)} : l, g \in BOOLEAN}
    \union {Fss(g, size) : g \in BOOLEAN, size \in 2..3}
    \union UNION {{Device(g, 0, 3, 1), Device(g, 50, 3, 1), Device(g, 0, 2, 2)} : g \in BOOLEAN}

Pair(a, b) == 0 :> a @@ 1 :> b
Only(drift, min, max) == [m \in min..max |-> IF m = drift THEN 1 ELSE 0]
Known(min, max) == Only(0, min, max)
Slope(min, max) == [m \in min..max |-> m - min + 1]
Heard(table, r, app, sof, eof) ==
  [table |-> table, r |-> r, app |-> app, sof |-> sof, eof |-> eof]
Uneven == 0 :> Pair(<<0>>, <<1>>) @@ 1 :> Pair(<<0, 1>>, <<1, 1>>)
            @@ 2 :> Pair(<<1>>, <<0>>)
Other == 0 :> Pair(<<1, 1>>, <<0, 1>>) @@ 1 :> Pair(<<1>>, <<0>>)
           @@ 2 :> Pair(<<0>>, <<1>>)
Short == 0 :> Pair(<<0, 1>>, <<1, 0>>) @@ 1 :> Pair(<<1>>, <<0>>)
Single == 0 :> Pair(<<0>>, <<1>>) @@ 1 :> Pair(<<1>>, <<0>>)
Informed == 0 :> Pair(2, 1) @@ 1 :> Pair(0, 1) @@ 2 :> Pair(1, 3)
SmallFrames ==
  {Heard(Uneven, <<0, 1, 1, 0, 1, 0>>, <<>>, Known(-1, 1), Slope(-1, 1)),
   Heard(Other, <<1, 1, 0, 1, 0, 0>>, Informed, Slope(-1, 1), Known(-1, 1)),
   Heard(Short, <<1, 1, 0, 1, 0, 0>>, <<>>, Known(-1, 2), Slope(-1, 2)),
   Heard(Short, <<0, 1, 1, 0, 1>>, <<>>, Known(-1, 1), Slope(-1, 1)),
   Heard(Single, <<0, 1, 1, 0>>, Informed, Slope(-1, 1), Only(-1, -1, 1))}

AllClasses == DOMAIN Formats

BlockRests ==
  /\ sysclass = "commsys"
  /\ commsys = SeedFrom(NewSystem("static", "interleaved"))
StreamRests ==
  /\ stream_mode = "open" /\ sys_iter = 1 /\ lookahead = 0
  /\ sys = SeedFrom(NewSystem("multiblock", "interleaved"))
ReaderRests == loads = "zero"
ChannelRests ==
  /\ channel = [kind |-> "dids", Zmin |-> 0, Zmax |-> 0]
  /\ tau = 1
DecoderRests == fba = Fss(TRUE, 2)

MCInit ==
  /\ simulates \in {"blocks", "stream", "channel", "decoder", "file"}
  /\ BlockInit /\ (simulates # "blocks" => BlockRests)
  /\ StreamInit /\ (simulates # "stream" => StreamRests)
  /\ ChannelInit /\ (simulates # "channel" => ChannelRests)
  /\ DecoderInit /\ (simulates # "decoder" => DecoderRests)
  /\ ReaderInit /\ (simulates # "file" => ReaderRests)

decodervars == <<fbavars, devicevars>>

MCNext ==
  /\ \/ /\ simulates = "blocks" /\ BlockNext
        /\ UNCHANGED <<streamvars, channelvars, decodervars, readervars>>
     \/ /\ simulates = "stream" /\ StreamNext
        /\ UNCHANGED <<blockvars, channelvars, decodervars, readervars>>
     \/ /\ simulates = "channel" /\ ChannelNext
        /\ UNCHANGED <<blockvars, streamvars, decodervars, readervars>>
     \/ /\ simulates = "decoder" /\ DecoderNext
        /\ UNCHANGED <<blockvars, streamvars, channelvars, readervars>>
     \/ /\ simulates = "file" /\ ReaderNext
        /\ UNCHANGED <<blockvars, streamvars, channelvars, decodervars>>
  /\ UNCHANGED simulates
=============================================================================
