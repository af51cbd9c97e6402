------------------------------- MODULE MCKernels -------------------------------
(***************************************************************************)
(* Small instances of the kernels' modules for TLC, one at a time: part    *)
(* says which of them runs, and the others stay as they are.               *)
(***************************************************************************)
EXTENDS KernelChain, KernelSwitch, Fanout, ReorderByDTS, OutputKernel, CodecKernel, TranscoderKernel, InputKernel, TLC

VARIABLE part

\* The first kernel handles three objects, the second makes one of its own.
ThreeAndOne == [i \in Kernels |-> CASE i = 0 -> <<1, 2, 3>> [] i = 1 -> <<4>> [] OTHER -> <<>>]
PacketsAndFrames == <<"packets", "packets", "frames", "packets">>

\* A and B have a video stream each and share a stream index; C shows no
\* format context.
StreamsABC == [s \in Sources |-> CASE s = "A" -> <<0, 1>> [] s = "B" -> <<0, 2>> [] s = "C" -> <<>>]
OneAudio == [i \in 0..2 |-> IF i = 1 THEN "audio" ELSE "video"]
PacketsOfABC == {<<"A", 0>>, <<"A", 1>>, <<"B", 0>>, <<"B", 2>>, <<"C", 1>>}

\* The second stream of a source of two gives raw frames; it may be missed in the
\* first call, and give again in the second.
TwoCalls == <<<<1, 2>>, <<3, 4, 5, 6>>>>
TwoStreams == [o \in Given |-> IF o \in {2, 5} THEN 1 ELSE 0]

\* What is held back comes before a packet of another stream, at the end of the
\* file, and before an unclear packet.
Clear == <<<<1, "untimed">>, <<0, "timed">>, <<1, "untimed">>, <<1, "timed">>>>
Unclear == <<<<1, "untimed">>, <<1, "unclear">>, <<1, "untimed">>>>
TwoFiles == {Clear, Unclear}

\* Objects are sent while these calls are made; a codec without a delay, which
\* has nothing to flush, meets the first pair only, and an encoder
\* that is reset is one that has to be made anew.
Pairs == {{"flush", "close"}, {"flush", "reset"}, {"flush", "resize"}, {"flush", "ask"}, {"reset", "close"}}

vars == <<part, chain, switch, fanout, reorder, outputState, codecKernel, transcoder, inputKernel>>

\* A part that does not run is in one of its initial states.
Init ==
  /\ part \in {"chain", "switch", "fanout", "reorder", "output", "codec", "transcoder", "input"}
  /\ ChainInit /\ (part # "chain" => mode = "send")
  /\ SwitchInit /\ (part # "switch" => conditional /\ accepted = "no")
  /\ FanoutInit /\ (part # "fanout" => fanCall = "Tee.Send")
  /\ ReorderInit /\ (part # "reorder" => discards)
  /\ OutputInit /\ (part # "output" => flv)
  /\ CodecInit /\ (delay = 0 => company = {"flush", "close"})
  /\ (codecKind = "encoder" /\ "reset" \in company => ~canFlush)
  /\ (part # "codec" => codecKind = "decoder" /\ delay = 0 /\ drained /\ company = {"flush", "close"})
  /\ TranscoderInit
  /\ InputInit /\ (asyncOpen => ~live /\ ~ignoreZeroDuration) /\ (asyncOpen \/ ignoreZeroDuration => file = Unclear)
  /\ (part # "input" => ~live /\ ~asyncOpen /\ autoClose /\ ignoreZeroDuration)

InChain(action) ==
  part = "chain" /\ action /\ UNCHANGED <<part, switch, fanout, reorder, outputState, codecKernel, transcoder, inputKernel>>
InSwitch(action) ==
  part = "switch" /\ action /\ UNCHANGED <<part, chain, fanout, reorder, outputState, codecKernel, transcoder, inputKernel>>
InFanout(action) ==
  part = "fanout" /\ action /\ UNCHANGED <<part, chain, switch, reorder, outputState, codecKernel, transcoder, inputKernel>>
InReorder(action) ==
  part = "reorder" /\ action /\ UNCHANGED <<part, chain, switch, fanout, outputState, codecKernel, transcoder, inputKernel>>
InOutput(action) ==
  part = "output" /\ action /\ UNCHANGED <<part, chain, switch, fanout, reorder, codecKernel, transcoder, inputKernel>>
InCodec(action) ==
  part = "codec" /\ action /\ UNCHANGED <<part, chain, switch, fanout, reorder, outputState, transcoder, inputKernel>>
\* A transcoder in which something fails goes on and is taken from.
InTranscoder(action) ==
  /\ part = "transcoder" /\ action /\ (failures' = 0 \/ (consumed' /\ closeAt' = "no"))
  /\ UNCHANGED <<part, chain, switch, fanout, reorder, outputState, codecKernel, inputKernel>>
InInput(action) ==
  part = "input" /\ action /\ UNCHANGED <<part, chain, switch, fanout, reorder, outputState, codecKernel, transcoder>>

Next ==
  \/ InChain(ChainNext) \/ InSwitch(SwitchNext) \/ InFanout(FanoutNext)
  \/ InReorder(ReorderNext) \/ InOutput(OutputNext) \/ InCodec(CodecNext)
  \/ InTranscoder(TranscoderNext) \/ InInput(InputNext)

Spec ==
  /\ Init /\ [][Next]_vars
  /\ WF_vars(InChain(ChainProgress)) /\ WF_vars(InFanout(FanoutProgress))
  /\ WF_vars(InSwitch(HandlePacket)) /\ WF_vars(InSwitch(VerifyOutput /\ ~verified))
  /\ WF_vars(InCodec(CodecProgress)) /\ WF_vars(InTranscoder(TranscoderProgress)) /\ WF_vars(InInput(InputProgress))

\* Every variable has a value of its type.
TypeOK == ChainTypeOK /\ SwitchTypeOK /\ FanoutTypeOK /\ ReorderTypeOK /\ OutputTypeOK /\ CodecTypeOK
          /\ TranscoderTypeOK /\ InputTypeOK

\* A call that reaches several kernels neither loses an object nor an error
\* in silence, nor sends on a closed channel, and one of a transcoder gives in
\* order what it keeps until its start, and loses no more than its end.
CallsSafe == ChainSafe /\ FailuresReported /\ TranscoderSafe

\* A kernel with a state of its own neither loses a request to switch, nor an
\* item that it queues, nor writes a file that nobody can read, nor takes a codec
\* with something in it for clean or flushed, nor reads what is closed.
KernelsSafe == SwitchSafe /\ ReorderSafe /\ OutputSafe /\ CodecSafe /\ InputSafe

\* Such a call ends when one of the kernels has failed, Close of a codec ends
\* while others use it, and a call and Close of a transcoder and of an input end
\* whatever fails.
CallsEnd ==
  /\ ChainMustEnd \/ TeeMustEnd \/ CodecCloses \/ TranscoderRuns \/ InputCloses ~>
       CASE part = "chain" -> ChainEnded [] part = "fanout" -> TeeEnded [] part = "codec" -> CodecClosed
         [] part = "transcoder" -> TranscoderEnded [] OTHER -> InputClosed
  /\ TranscoderCloses \/ GenerateMustEnd ~>
       IF part = "transcoder" THEN TranscoderClosed ELSE GenerateEnded
=============================================================================
