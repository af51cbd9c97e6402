----------------------------- MODULE MCStreamMux -----------------------------
(***************************************************************************)
(* Small instances of StreamMux, AutoBitRate and Passthrough for TLC, one  *)
(* at a time: part says which of them runs, and the others stay as they    *)
(* are.                                                                    *)
(***************************************************************************)
EXTENDS StreamMux, AutoBitRate, Passthrough, TLC

VARIABLE part

\* Three resolutions; only one bitrate suits two of them.
LowOf3 == <<1, 2, 4>>
HighOf3 == <<2, 4, 6>>

vars == <<part, mux, bitrate, passthrough>>

Init ==
  /\ part \in {"mux", "bitrate", "passthrough"}
  /\ MuxInit /\ (part # "mux" => calm)
  /\ BitRateInit /\ (part # "bitrate" => split /\ inputRate = 2)
  /\ PassthroughInit /\ patient # sharedConnection
  /\ (part # "passthrough" => patient)

InMux(action) == part = "mux" /\ action /\ UNCHANGED <<part, bitrate, passthrough>>
InBitRate(action) == part = "bitrate" /\ action /\ UNCHANGED <<part, mux, passthrough>>
InPassthrough(action) == part = "passthrough" /\ action /\ UNCHANGED <<part, mux, bitrate>>

Next == InMux(MuxNext) \/ InBitRate(BitRateNext) \/ InPassthrough(PassthroughNext)

\* Every goroutine of the mux runs, and whoever waits for a lock gets it: for
\* sLocker even if requests keep taking it.  Key frames keep arriving.  The
\* ticker of the checks never stops.  Nobody has to ask for an output, nothing
\* has to fail and nothing has to become steady.
Spec ==
  /\ Init /\ [][Next]_vars
  /\ WF_vars(InMux(RequestStep)) /\ WF_vars(InMux(CloserStep)) /\ WF_vars(InMux(\E o \in IDs : Recreate(o)))
  /\ WF_vars(InMux(\E o \in IDs : PushTo(o)))
  /\ \A o \in IDs : WF_vars(InMux(BarrierStep(o)))
  /\ SF_vars(InMux(Arrive("key")))
  /\ WF_vars(InBitRate(CheckStep)) /\ WF_vars(InBitRate(ChangeResolution \/ SetQuality))
  /\ WF_vars(InBitRate(OnOutputSwitch))

\* Every variable has a value of its type.
TypeOK == MuxTypeOK /\ BitRateTypeOK /\ PassthroughTypeOK

\* What the multiplexer, and the preset that it replaces, keep while they switch.
SwitchingSafe == MuxSafe /\ PassthroughSafe
=============================================================================
