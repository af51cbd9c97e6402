------------------------------ MODULE InputKernel ------------------------------
(***************************************************************************)
(* The Input (kernel/input.go): a goroutine opens it, another reads it in  *)
(* Generate, which holds back a packet whose duration is unknown until the *)
(* next one of its stream, and others close it, which interrupts both.     *)
(***************************************************************************)
EXTENDS Integers, Sequences

CONSTANTS
  Files,        \* what there is to read: sequences of <<stream, kind>>, where
                \* a packet with a duration, or of video, which gets one from
                \* the frame rate, is "timed"; without one it waits for the next
                \* ("untimed"), unless its timestamps are no help ("unclear")
  InputStreams,
  Closers       \* those that call Close; "opener" does when opening fails

ASSUME FilesAssumption == Files \subseteq Seq(InputStreams \X {"timed", "untimed", "unclear"})

VARIABLES
  file, live,           \* a live source does not end, it has nothing for now
  asyncOpen, autoClose, ignoreZeroDuration,
  openerAt, initialized,
  interrupter,          \* IOInterrupter: "unset", "set" or "interrupted"
  formatIs,             \* FormatContext: "allocated", "open", "freed" or "closed"
  generateAt, nbRead, prevPkts, sentPackets, endedWith,
  startedLate,          \* Generate began after Close had waited for it
  closing,              \* per closer, where it is
  closureDone, inputCtxDone, taken

options == <<file, live, asyncOpen, autoClose, ignoreZeroDuration>>
opening == <<openerAt, initialized>>
generating == <<generateAt, nbRead, prevPkts, sentPackets, endedWith, startedLate>>
inputKernel == <<options, opening, interrupter, formatIs, generating, closing, closureDone, inputCtxDone, taken>>

StreamOf(p) == file[p][1]
Kind(p) == file[p][2]

----------------------------------------------------------------------------
(* doOpen in a goroutine of its own (AsyncOpen).                           *)

BeginOpen ==
  /\ openerAt = "begin" /\ interrupter' = "set"
  /\ IF inputCtxDone THEN openerAt' = "failed" /\ formatIs' = "freed" ELSE openerAt' = "opens" /\ UNCHANGED formatIs
  /\ UNCHANGED <<options, initialized, generating, closing, closureDone, inputCtxDone, taken>>

\* FormatContext must not be closed while it is being opened.
OpenSucceeds ==
  /\ openerAt = "opens"
  /\ IF formatIs = "closed" THEN openerAt' = "crashed" /\ UNCHANGED <<initialized, formatIs>>
                            ELSE openerAt' = "done" /\ initialized' = TRUE /\ formatIs' = "open"
  /\ UNCHANGED <<options, interrupter, generating, closing, closureDone, inputCtxDone, taken>>

\* A failure to open frees the context, one to find the streams does not; both
\* close the input.
OpenFails ==
  /\ openerAt = "opens" /\ openerAt' = "failed" /\ formatIs' \in {"freed", "open"}
  /\ UNCHANGED <<options, initialized, interrupter, generating, closing, closureDone, inputCtxDone, taken>>

\* The end of the context interrupts opening, and later reading.
CtxInterrupts ==
  /\ inputCtxDone /\ interrupter = "set" /\ interrupter' = "interrupted"
  /\ openerAt = "opens" \/ generateAt \notin {"no", "waits", "returned"}
  /\ UNCHANGED <<options, opening, formatIs, generating, closing, closureDone, inputCtxDone, taken>>

----------------------------------------------------------------------------
(* Generate.                                                               *)

\* From here to the end Close waits for it.
BeginGenerate ==
  /\ generateAt = "no" /\ generateAt' = "waits"
  /\ startedLate' = \E c \in Closers : closing[c] \in {"closes", "done"}
  /\ UNCHANGED <<options, opening, interrupter, formatIs, nbRead, prevPkts, sentPackets, endedWith, closing, closureDone,
                 inputCtxDone, taken>>

\* It waits for the opener or the context, but not for the closure.
Opened ==
  /\ generateAt = "waits"
  /\ \/ initialized /\ generateAt' = "reads" /\ UNCHANGED endedWith
     \/ inputCtxDone /\ generateAt' = "ends" /\ endedWith' = "ctx"
  /\ UNCHANGED <<options, opening, interrupter, formatIs, nbRead, prevPkts, sentPackets, startedLate, closing, closureDone,
                 inputCtxDone, taken>>

\* A mistake: what was held back stays when a packet with a duration follows.
KeepsHeldBack(p) ==
  /\ generateAt' = IF ~ignoreZeroDuration /\ Kind(p) = "untimed" THEN "reads" ELSE "sendCur"
  /\ prevPkts' = IF ~ignoreZeroDuration /\ Kind(p) = "untimed" THEN [prevPkts EXCEPT ![StreamOf(p)] = p] ELSE prevPkts
\* An unclear packet is sent at once and leaves what was held back where it is.
HoldBackOrSend(p) ==
  /\ generateAt' = IF ~ignoreZeroDuration /\ Kind(p) = "untimed" THEN "reads" ELSE "sendCur"
  /\ prevPkts' = IF ignoreZeroDuration \/ Kind(p) = "unclear" THEN prevPkts
                 ELSE [prevPkts EXCEPT ![StreamOf(p)] = IF Kind(p) = "untimed" THEN p ELSE 0]

ReadPacket ==
  /\ generateAt = "reads" /\ formatIs = "open" /\ nbRead < Len(file) /\ nbRead' = nbRead + 1
  /\ IF prevPkts[StreamOf(nbRead')] # 0 THEN generateAt' = "sendPrev" /\ UNCHANGED prevPkts
                                        ELSE HoldBackOrSend(nbRead')
  /\ UNCHANGED <<options, opening, interrupter, formatIs, sentPackets, endedWith, startedLate, closing, closureDone,
                 inputCtxDone, taken>>

Give(p) == taken /\ sentPackets' = Append(sentPackets, p)

SendPrev ==
  /\ generateAt = "sendPrev" /\ Give(prevPkts[StreamOf(nbRead)]) /\ HoldBackOrSend(nbRead)
  /\ UNCHANGED <<options, opening, interrupter, formatIs, nbRead, endedWith, startedLate, closing, closureDone, inputCtxDone,
                 taken>>

SendCur ==
  /\ generateAt = "sendCur" /\ Give(nbRead) /\ generateAt' = "reads"
  /\ UNCHANGED <<options, opening, interrupter, formatIs, nbRead, prevPkts, endedWith, startedLate, closing, closureDone,
                 inputCtxDone, taken>>

LeaveLoop(reason) ==
  /\ generateAt' = "flush" /\ endedWith' = reason
  /\ UNCHANGED <<options, opening, interrupter, formatIs, nbRead, prevPkts, sentPackets, startedLate, closing, closureDone,
                 inputCtxDone, taken>>

SendRefused == generateAt \in {"sendPrev", "sendCur"} /\ (inputCtxDone \/ closureDone) /\ LeaveLoop("refused")
CtxSeen == generateAt = "reads" /\ inputCtxDone /\ LeaveLoop("ctx")
ReadInterrupted == generateAt = "reads" /\ interrupter = "interrupted" /\ formatIs = "open" /\ LeaveLoop("error")
ReadFails == generateAt = "reads" /\ formatIs = "open" /\ nbRead > 0 /\ LeaveLoop("error")
EndOfFile == generateAt = "reads" /\ formatIs = "open" /\ ~live /\ nbRead = Len(file) /\ LeaveLoop("eof")

\* The library must not be given a context that is closed.
ReadClosed ==
  /\ generateAt = "reads" /\ formatIs # "open" /\ generateAt' = "crashed"
  /\ UNCHANGED <<options, opening, interrupter, formatIs, nbRead, prevPkts, sentPackets, endedWith, startedLate, closing,
                 closureDone, inputCtxDone, taken>>

StreamsHeldBack == {s \in InputStreams : prevPkts[s] # 0}

\* Whatever the reason, what is held back is sent, unless that is refused again.
SendHeldBack ==
  /\ generateAt = "flush"
  /\ \E s \in StreamsHeldBack :
       /\ prevPkts' = [prevPkts EXCEPT ![s] = 0]
       /\ \/ Give(prevPkts[s])
          \/ (inputCtxDone \/ closureDone) /\ UNCHANGED sentPackets
  /\ UNCHANGED <<options, opening, interrupter, formatIs, generateAt, nbRead, endedWith, startedLate, closing, closureDone,
                 inputCtxDone, taken>>

\* A mistake: what is held back is lost with the loop.
LeavesHeldBack ==
  /\ generateAt = "flush" /\ generateAt' = "ends" /\ formatIs' = (IF autoClose THEN "closed" ELSE formatIs)
  /\ UNCHANGED <<options, opening, interrupter, nbRead, prevPkts, sentPackets, endedWith, startedLate, closing, closureDone,
                 inputCtxDone, taken>>
AllFlushed ==
  /\ generateAt = "flush" /\ StreamsHeldBack = {} /\ generateAt' = "ends"
  /\ formatIs' = (IF autoClose THEN "closed" ELSE formatIs)
  /\ UNCHANGED <<options, opening, interrupter, nbRead, prevPkts, sentPackets, endedWith, startedLate, closing, closureDone,
                 inputCtxDone, taken>>

ReturnGenerate ==
  /\ generateAt = "ends" /\ generateAt' = "returned" /\ closureDone' = TRUE
  /\ UNCHANGED <<options, opening, interrupter, formatIs, nbRead, prevPkts, sentPackets, endedWith, startedLate, closing,
                 inputCtxDone, taken>>

----------------------------------------------------------------------------
(* Close.                                                                  *)

CloseStep(c, from, to) == closing[c] = from /\ closing' = [closing EXCEPT ![c] = to]

\* A mistake: reading is not interrupted.
ClosesOnly(c) ==
  /\ (c = "opener" => openerAt = "failed")
  /\ CloseStep(c, "idle", IF interrupter = "unset" THEN "crashed" ELSE "signals")
  /\ UNCHANGED <<options, opening, interrupter, formatIs, generating, closureDone, inputCtxDone, taken>>

\* Before doOpen has begun there is no interrupter.
StartClose(c) ==
  /\ (c = "opener" => openerAt = "failed")
  /\ CloseStep(c, "idle", IF interrupter = "unset" THEN "crashed" ELSE "signals")
  /\ interrupter' = (IF interrupter = "unset" THEN "unset" ELSE "interrupted")
  /\ UNCHANGED <<options, opening, formatIs, generating, closureDone, inputCtxDone, taken>>

SignalClosure(c) ==
  /\ CloseStep(c, "signals", "waits") /\ closureDone' = TRUE
  /\ UNCHANGED <<options, opening, interrupter, formatIs, generating, inputCtxDone, taken>>

\* A mistake: nobody waits for Generate.
WaitsForNobody(c) ==
  /\ CloseStep(c, "waits", IF autoClose THEN "done" ELSE "closes")
  /\ UNCHANGED <<options, opening, interrupter, formatIs, generating, closureDone, inputCtxDone, taken>>
GenerateIsOver(c) ==
  /\ generateAt \in {"no", "returned"}
  /\ CloseStep(c, "waits", IF autoClose THEN "done" ELSE "closes")
  /\ UNCHANGED <<options, opening, interrupter, formatIs, generating, closureDone, inputCtxDone, taken>>

CloseFormat(c) ==
  /\ CloseStep(c, "closes", "done") /\ formatIs' = "closed"
  /\ UNCHANGED <<options, opening, interrupter, generating, closureDone, inputCtxDone, taken>>

----------------------------------------------------------------------------
CtxEnds ==
  /\ ~inputCtxDone /\ inputCtxDone' = TRUE
  /\ UNCHANGED <<options, opening, interrupter, formatIs, generating, closing, closureDone, taken>>

NobodyTakes ==
  /\ taken /\ taken' = FALSE
  /\ UNCHANGED <<options, opening, interrupter, formatIs, generating, closing, closureDone, inputCtxDone>>

\* NewInputFromURL returns at once, or with an input that is open.
InputInit ==
  /\ file \in Files /\ live \in BOOLEAN /\ asyncOpen \in BOOLEAN /\ autoClose \in BOOLEAN /\ ignoreZeroDuration \in BOOLEAN
  /\ openerAt = (IF asyncOpen THEN "begin" ELSE "done") /\ initialized = ~asyncOpen
  /\ interrupter = (IF asyncOpen THEN "unset" ELSE "set") /\ formatIs = (IF asyncOpen THEN "allocated" ELSE "open")
  /\ generateAt = "no" /\ nbRead = 0 /\ prevPkts = [s \in InputStreams |-> 0] /\ sentPackets = <<>> /\ endedWith = "no"
  /\ startedLate = FALSE /\ closing = [c \in Closers |-> "idle"] /\ closureDone = FALSE /\ inputCtxDone = FALSE
  /\ taken = TRUE

CloseGoesOn(c) == SignalClosure(c) \/ GenerateIsOver(c) \/ CloseFormat(c)
GenerateGoesOn ==
  \/ Opened \/ SendPrev \/ SendCur \/ SendRefused \/ CtxSeen \/ ReadInterrupted \/ ReadClosed \/ SendHeldBack \/ AllFlushed
  \/ ReturnGenerate
InputProgress ==
  \/ GenerateGoesOn \/ CtxInterrupts \/ (interrupter = "interrupted" /\ OpenFails)
  \/ (openerAt = "failed" /\ StartClose("opener")) \/ \E c \in Closers : CloseGoesOn(c)

InputNext ==
  \/ BeginOpen \/ OpenSucceeds \/ OpenFails \/ BeginGenerate \/ ReadPacket \/ ReadFails \/ EndOfFile \/ CtxInterrupts
  \/ GenerateGoesOn \/ CtxEnds \/ NobodyTakes \/ \E c \in Closers : StartClose(c) \/ CloseGoesOn(c)

InputTypeOK ==
  /\ file \in Files /\ nbRead \in 0..Len(file) /\ prevPkts \in [InputStreams -> 0..Len(file)]
  /\ \A i \in DOMAIN sentPackets : sentPackets[i] \in 1..nbRead
  /\ interrupter \in {"unset", "set", "interrupted"} /\ formatIs \in {"allocated", "open", "freed", "closed"}
  /\ {initialized, startedLate, closureDone, inputCtxDone, taken} \subseteq BOOLEAN

----------------------------------------------------------------------------
(* Properties.                                                             *)

\* The packets of a stream come once and in the order in which they were read,
\* whatever is held back, except where an unclear one follows one that was held back:
\* that one is sent again.
ReadOrderKept ==
  \A i, j \in DOMAIN sentPackets :
    i < j /\ StreamOf(sentPackets[i]) = StreamOf(sentPackets[j]) =>
      \/ sentPackets[i] < sentPackets[j]
      \/ \E k \in sentPackets[j]..nbRead :
           StreamOf(k) = StreamOf(sentPackets[j]) /\ Kind(k) = "unclear" /\ Kind(sentPackets[j]) = "untimed"

\* At the end of the file nothing has been kept that was read, unless somebody
\* closes the input or ends the context while the last is being sent.
AllSentAtEOF ==
  endedWith = "eof" /\ generateAt = "returned" /\ ~inputCtxDone /\ (\A c \in Closers : closing[c] = "idle") =>
    \A p \in 1..Len(file) : \E i \in DOMAIN sentPackets : sentPackets[i] = p

\* The context of libav is not closed while Generate uses it, unless Generate began
\* after Close had looked for it.
NoReadAfterClose ==
  formatIs # "open" /\ initialized => generateAt \in {"no", "waits", "ends", "returned"} \/ startedLate

InputSafe == ReadOrderKept /\ AllSentAtEOF /\ NoReadAfterClose

\* Close ends, and so does Generate when its context does, even if nobody takes
\* what is sent and the source gives nothing; except that Close waits for a
\* Generate that waits for an opener, which does not hear of the closure.
InputCloses == \E c \in Closers : closing[c] # "idle"
InputClosed ==
  \/ \A c \in Closers : closing[c] \in {"idle", "done", "crashed"}
  \/ (generateAt = "waits" /\ ~initialized /\ ~inputCtxDone)
GenerateMustEnd == inputCtxDone /\ generateAt # "no"
GenerateEnded == generateAt \in {"returned", "crashed"}
=============================================================================
