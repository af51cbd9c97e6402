--------------------------- MODULE TranscoderKernel ---------------------------
(***************************************************************************)
(* The Transcoder (kernel/transcoder.go): a decoder whose frames go        *)
(* through a channel to an encoder in a goroutine of its own.  Until every *)
(* stream of the source has given something, what comes out goes through   *)
(* two more channels to a third goroutine, which keeps it; then it is sent *)
(* out, and from then on the encoder sends by itself.                      *)
(***************************************************************************)
EXTENDS Integers, Sequences, FiniteSets

CONSTANTS
  Gives,        \* Gives[k]: the objects that come out of the k-th call's packet
  StreamGiving, \* the stream of each of them
  RawObjects,   \* those that a raw encoder gives: frames
  NbStreams,    \* the streams of the source
  KeptLimit,    \* pendingPacketsAndFramesLimit
  MaxErrors     \* bounds the failures of the codecs and the ends of contexts

FramesChSize == 2
ResultsChSize == 1
Given == UNION {{Gives[k][i] : i \in DOMAIN Gives[k]} : k \in DOMAIN Gives}

\* The objects are numbered in the order in which the decoder gives them.  A stream
\* has one encoder, which is a raw one or is not.
ASSUME TranscoderAssumption ==
  /\ Gives \in Seq(Seq(Nat \ {0})) /\ {NbStreams, MaxErrors} \subseteq Nat /\ KeptLimit \in Nat \ {0}
  /\ \A k, l \in DOMAIN Gives : \A i \in DOMAIN Gives[k], j \in DOMAIN Gives[l] :
       k < l \/ (k = l /\ i < j) => Gives[k][i] < Gives[l][j]
  /\ \A o, p \in Given : StreamGiving[o] = StreamGiving[p] => (o \in RawObjects) = (p \in RawObjects)

VARIABLES
  consumed,       \* somebody takes what comes out
  callNb,           \* the number of the call of SendInputPacket
  callAt,         \* where it is
  toGive,         \* what the decoder has yet to give
  framesCh,
  encoderAt, encoding,  \* the encoder's goroutine and the frame it has
  encoderError,
  resultPackets, resultFrames, resultsClosed,
  readerAt, reading,    \* the third goroutine and what it has received
  kept,           \* pendingPacketsAndFrames
  activeStreams, hasStarted,
  toRelease,      \* what of kept is yet to be sent
  startedBy,      \* the call that set started
  sentOut, dropped, \* dropped: by an error, a closed kernel or KeptLimit
  closeAt, failures

codecsPart == <<toGive, framesCh, encoderAt, encoding, encoderError>>
resultsPart == <<resultPackets, resultFrames, resultsClosed>>
readerPart == <<readerAt, reading, activeStreams>>
startPart == <<hasStarted, startedBy, toRelease>>
transcoder == <<consumed, callNb, callAt, codecsPart, resultsPart, readerPart, kept, startPart, sentOut, dropped, closeAt, failures>>

ElementsOf(s) == {s[i] : i \in DOMAIN s}

----------------------------------------------------------------------------
(* SendInputPacket: the caller's goroutine.                                *)

\* The result channels and their reader are made while nothing has started.
StartCall ==
  /\ callAt = "idle" /\ callNb < Len(Gives) /\ callNb' = callNb + 1
  /\ IF closeAt # "no"
     THEN dropped' = dropped \cup ElementsOf(Gives[callNb']) /\ UNCHANGED <<callAt, readerAt, resultsPart>>
     ELSE /\ callAt' = "begin" /\ UNCHANGED dropped
          /\ readerAt' = (IF hasStarted THEN "none" ELSE "reads")
          /\ resultPackets' = <<>> /\ resultFrames' = <<>> /\ resultsClosed' = 0
  /\ UNCHANGED <<consumed, codecsPart, reading, activeStreams, kept, startPart, sentOut, closeAt, failures>>

\* The decoder keeps its codec's lock from here until it has sent all its frames.
BeginDecode ==
  /\ callAt = "begin" /\ encoderAt' = "takes" /\ encoderError' = FALSE
  /\ IF closeAt \in {"no", "signalled"}
     THEN callAt' = "decode" /\ toGive' = Gives[callNb] /\ UNCHANGED dropped
     ELSE callAt' = "decoded" /\ dropped' = dropped \cup ElementsOf(Gives[callNb]) /\ UNCHANGED toGive
  /\ UNCHANGED <<consumed, callNb, framesCh, encoding, resultsPart, readerPart, kept, startPart, sentOut, closeAt, failures>>

DecodeOne ==
  /\ callAt = "decode" /\ toGive # <<>> /\ Len(framesCh) < FramesChSize
  /\ framesCh' = Append(framesCh, Head(toGive)) /\ toGive' = Tail(toGive)
  /\ UNCHANGED <<consumed, callNb, callAt, encoderAt, encoding, encoderError, resultsPart, readerPart, kept, startPart,
                 sentOut, dropped, closeAt, failures>>

\* framesCh is closed when the decoder is done, or has failed.
DecodeEnds ==
  /\ callAt = "decode" /\ toGive = <<>> /\ callAt' = "decoded"
  /\ UNCHANGED <<consumed, callNb, codecsPart, resultsPart, readerPart, kept, startPart, sentOut, dropped, closeAt, failures>>

DecodeFails ==
  /\ callAt = "decode" /\ toGive # <<>> /\ failures < MaxErrors /\ failures' = failures + 1
  /\ callAt' = "decoded" /\ toGive' = <<>> /\ dropped' = dropped \cup ElementsOf(toGive)
  /\ UNCHANGED <<consumed, callNb, framesCh, encoderAt, encoding, encoderError, resultsPart, readerPart, kept, startPart,
                 sentOut, closeAt>>

AfterEncoder ==
  /\ callAt = "decoded" /\ encoderAt = "ended"
  /\ callAt' = (IF hasStarted THEN "idle" ELSE "closing")
  /\ UNCHANGED <<consumed, callNb, codecsPart, resultsPart, readerPart, kept, startPart, sentOut, dropped, closeAt, failures>>

CloseResults ==
  /\ callAt = "closing" /\ resultsClosed' = resultsClosed + 1
  /\ callAt' = (IF resultsClosed' = 2 THEN "closed" ELSE "closing")
  /\ UNCHANGED <<consumed, callNb, codecsPart, resultPackets, resultFrames, readerPart, kept, startPart, sentOut, dropped,
                 closeAt, failures>>

\* The reader is waited for only when this call returns.
Enough == Cardinality(activeStreams) >= NbStreams
CountStreams ==
  /\ callAt = "closed"
  /\ IF Enough THEN callAt' = "release" /\ toRelease' = kept
               ELSE callAt' = "return" /\ UNCHANGED toRelease
  /\ UNCHANGED <<consumed, callNb, codecsPart, resultsPart, readerPart, kept, hasStarted, startedBy, sentOut, dropped, closeAt,
                 failures>>

ReleaseOne ==
  /\ callAt = "release" /\ toRelease # <<>> /\ consumed
  /\ sentOut' = Append(sentOut, Head(toRelease)) /\ toRelease' = Tail(toRelease)
  /\ UNCHANGED <<consumed, callNb, callAt, codecsPart, resultsPart, readerPart, kept, hasStarted, startedBy, dropped, closeAt,
                 failures>>

\* The context ends: what has been sent is kept as well.
ReleaseCut ==
  /\ callAt = "release" /\ toRelease # <<>> /\ failures < MaxErrors /\ failures' = failures + 1
  /\ callAt' = "return" /\ toRelease' = <<>>
  /\ UNCHANGED <<consumed, callNb, codecsPart, resultsPart, readerPart, kept, hasStarted, startedBy, sentOut, dropped, closeAt>>

ReleaseEnds ==
  /\ callAt = "release" /\ toRelease = <<>> /\ callAt' = "return"
  /\ kept' = <<>> /\ hasStarted' = TRUE /\ startedBy' = callNb
  /\ UNCHANGED <<consumed, callNb, codecsPart, resultsPart, readerPart, toRelease, sentOut, dropped, closeAt, failures>>

\* A mistake: the call does not wait for its reader.
ReturnsAtOnce ==
  /\ callAt = "return" /\ callAt' = "idle"
  /\ UNCHANGED <<consumed, callNb, codecsPart, resultsPart, readerPart, kept, startPart, sentOut, dropped, closeAt, failures>>

ReturnCall ==
  /\ callAt = "return" /\ readerAt = "ended" /\ callAt' = "idle"
  /\ UNCHANGED <<consumed, callNb, codecsPart, resultsPart, readerPart, kept, startPart, sentOut, dropped, closeAt, failures>>

----------------------------------------------------------------------------
(* The goroutine of the encoder in decoderToEncoder.                       *)

\* A mistake: after an error nobody empties the channel.
TakesUntilAnError ==
  /\ encoderAt = "takes" /\ framesCh # <<>> /\ ~encoderError
  /\ framesCh' = Tail(framesCh) /\ encoderAt' = "sends" /\ encoding' = Head(framesCh)
  /\ UNCHANGED <<consumed, callNb, callAt, toGive, encoderError, resultsPart, readerPart, kept, startPart, sentOut, dropped,
                 closeAt, failures>>

\* After an error it only empties the channel.
EncoderTakes ==
  /\ encoderAt = "takes" /\ framesCh # <<>> /\ framesCh' = Tail(framesCh)
  /\ IF encoderError
     THEN dropped' = dropped \cup {Head(framesCh)} /\ UNCHANGED <<encoderAt, encoding>>
     ELSE encoderAt' = "sends" /\ encoding' = Head(framesCh) /\ UNCHANGED dropped
  /\ UNCHANGED <<consumed, callNb, callAt, toGive, encoderError, resultsPart, readerPart, kept, startPart, sentOut, closeAt,
                 failures>>

\* Where an object goes was decided when the call began.
Direct == readerAt = "none"
HasRoom == IF encoding \in RawObjects THEN Len(resultFrames) < ResultsChSize ELSE Len(resultPackets) < ResultsChSize

EncoderSends ==
  /\ encoderAt = "sends" /\ encoderAt' = "takes" /\ (IF Direct THEN consumed ELSE HasRoom)
  /\ sentOut' = IF Direct THEN Append(sentOut, encoding) ELSE sentOut
  /\ resultFrames' = IF ~Direct /\ encoding \in RawObjects THEN Append(resultFrames, encoding) ELSE resultFrames
  /\ resultPackets' = IF ~Direct /\ encoding \notin RawObjects THEN Append(resultPackets, encoding) ELSE resultPackets
  /\ UNCHANGED <<consumed, callNb, callAt, toGive, framesCh, encoding, encoderError, resultsClosed, readerPart, kept,
                 startPart, dropped, closeAt, failures>>

EncoderClosed == closeAt \in {"encoder", "done"}
EncoderFails ==
  /\ encoderAt = "sends" /\ (EncoderClosed \/ failures < MaxErrors)
  /\ failures' = IF EncoderClosed THEN failures ELSE failures + 1
  /\ encoderAt' = "takes" /\ encoderError' = TRUE /\ dropped' = dropped \cup {encoding}
  /\ UNCHANGED <<consumed, callNb, callAt, toGive, framesCh, encoding, resultsPart, readerPart, kept, startPart, sentOut,
                 closeAt>>

EncoderEnds ==
  /\ encoderAt = "takes" /\ callAt = "decoded" /\ framesCh = <<>> /\ encoderAt' = "ended"
  /\ UNCHANGED <<consumed, callNb, callAt, toGive, framesCh, encoding, encoderError, resultsPart, readerPart, kept,
                 startPart, sentOut, dropped, closeAt, failures>>

----------------------------------------------------------------------------
(* The goroutine that reads the results.                                   *)

Read ==
  /\ readerAt = "reads" /\ readerAt' = "has"
  /\ \/ resultPackets # <<>> /\ reading' = Head(resultPackets) /\ resultPackets' = <<>> /\ UNCHANGED resultFrames
     \/ resultFrames # <<>> /\ reading' = Head(resultFrames) /\ resultFrames' = <<>> /\ UNCHANGED resultPackets
  /\ UNCHANGED <<consumed, callNb, callAt, codecsPart, resultsClosed, activeStreams, kept, startPart, sentOut, dropped,
                 closeAt, failures>>

\* The oldest is dropped when there are too many.
Keep ==
  /\ readerAt = "has" /\ readerAt' = "reads"
  /\ IF Len(kept) >= KeptLimit
     THEN kept' = Append(Tail(kept), reading) /\ dropped' = dropped \cup {Head(kept)}
     ELSE kept' = Append(kept, reading) /\ UNCHANGED dropped
  /\ activeStreams' = activeStreams \cup {StreamGiving[reading]}
  /\ UNCHANGED <<consumed, callNb, callAt, codecsPart, resultsPart, reading, startPart, sentOut, closeAt, failures>>

\* Either channel that is closed and empty ends it.
SeesTheEnd == (resultsClosed >= 1 /\ resultPackets = <<>>) \/ (resultsClosed = 2 /\ resultFrames = <<>>)
ReaderEnds ==
  /\ readerAt = "reads" /\ SeesTheEnd /\ readerAt' = "ended"
  /\ UNCHANGED <<consumed, callNb, callAt, codecsPart, resultsPart, reading, activeStreams, kept, startPart, sentOut,
                 dropped, closeAt, failures>>

----------------------------------------------------------------------------
\* Those that take what comes out are not sure to take all of it.
StopConsuming ==
  /\ consumed /\ consumed' = FALSE
  /\ UNCHANGED <<callNb, callAt, codecsPart, resultsPart, readerPart, kept, startPart, sentOut, dropped, closeAt, failures>>

----------------------------------------------------------------------------
(* Close: the decoder first, whose codec it waits for.                     *)

CloseTranscoder ==
  /\ \/ closeAt = "no" /\ closeAt' = "signalled"
     \/ closeAt = "signalled" /\ closeAt' = "decoder"
     \/ closeAt = "decoder" /\ callAt # "decode" /\ closeAt' = "encoder"
     \/ closeAt = "encoder" /\ encoderAt # "sends" /\ closeAt' = "done"
  /\ UNCHANGED <<consumed, callNb, callAt, codecsPart, resultsPart, readerPart, kept, startPart, sentOut, dropped, failures>>

TranscoderInit ==
  /\ consumed = TRUE /\ callNb = 0 /\ callAt = "idle" /\ toGive = <<>> /\ framesCh = <<>>
  /\ encoderAt = "ended" /\ encoding = 0 /\ encoderError = FALSE
  /\ resultPackets = <<>> /\ resultFrames = <<>> /\ resultsClosed = 0
  /\ readerAt = "none" /\ reading = 0 /\ kept = <<>> /\ activeStreams = {} /\ hasStarted = FALSE /\ startedBy = 0
  /\ toRelease = <<>> /\ sentOut = <<>> /\ dropped = {} /\ closeAt = "no" /\ failures = 0

CallGoesOn ==
  \/ BeginDecode \/ DecodeOne \/ DecodeEnds \/ AfterEncoder \/ CloseResults \/ CountStreams
  \/ ReleaseOne \/ ReleaseEnds \/ ReturnCall
EncoderGoesOn == EncoderTakes \/ EncoderSends \/ EncoderEnds \/ (EncoderClosed /\ EncoderFails)
ReaderGoesOn == Read \/ Keep \/ ReaderEnds
TranscoderProgress == CallGoesOn \/ EncoderGoesOn \/ ReaderGoesOn \/ (closeAt # "no" /\ CloseTranscoder)

TranscoderNext ==
  \/ StartCall \/ CallGoesOn \/ DecodeFails \/ ReleaseCut \/ EncoderGoesOn \/ EncoderFails \/ ReaderGoesOn
  \/ CloseTranscoder \/ StopConsuming

TranscoderTypeOK ==
  /\ callNb \in 0..Len(Gives) /\ startedBy \in 0..Len(Gives) /\ resultsClosed \in 0..2 /\ failures \in 0..MaxErrors
  /\ Len(framesCh) <= FramesChSize /\ Len(resultPackets) <= ResultsChSize /\ Len(resultFrames) <= ResultsChSize
  /\ Len(kept) <= KeptLimit /\ dropped \subseteq Given /\ {hasStarted, encoderError} \subseteq BOOLEAN
  /\ encoding \in Given \cup {0} /\ reading \in Given \cup {0}

----------------------------------------------------------------------------
(* Properties.                                                             *)

\* What comes out of a stream comes in order, across the change from what was kept
\* to what the encoder sends by itself, and only once, unless a context has ended
\* while the kept was being sent.
ComesInOrder ==
  failures = 0 => \A i, j \in DOMAIN sentOut :
                  i < j /\ StreamGiving[sentOut[i]] = StreamGiving[sentOut[j]] => sentOut[i] < sentOut[j]

\* What a call that has returned has given and is in none of the places it
\* should be.
MissingOf(k) ==
  {o \in ElementsOf(Gives[k]) :
     o \notin ElementsOf(sentOut) \cup dropped \cup (IF hasStarted THEN {} ELSE ElementsOf(kept))}

\* While nothing fails a call that returns has lost nothing, but for one of the last two objects it
\* left in the result channels before the start, when the reader saw the end of
\* the other channel first, and those of the call that starts, which counts without
\* waiting for the reader.
LastOfKind(k, o) ==
  \A i \in DOMAIN Gives[k] : Gives[k][i] > o => (Gives[k][i] \in RawObjects) # (o \in RawObjects)
LosesOnlyTheLast ==
  \A k \in 1..callNb : failures = 0 /\ closeAt = "no" /\ (k < callNb \/ callAt = "idle") =>
    /\ hasStarted /\ k > startedBy => MissingOf(k) = {}
    /\ k # startedBy => Cardinality(MissingOf(k)) <= 1 /\ \A o \in MissingOf(k) : LastOfKind(k, o)
    /\ Cardinality(MissingOf(k)) <= 2 * ResultsChSize + 1

TranscoderSafe == ComesInOrder /\ LosesOnlyTheLast

\* A call ends whatever fails while somebody takes what comes out.  When nobody
\* does, Close makes it end, but for a call that sends what was kept, and Close itself ends, unless the
\* decoder waits with its codec locked for the encoder, which Close has yet to reach.
Untaken == ~consumed /\ (closeAt = "no" \/ callAt = "release")
Interlocked == ~consumed /\ Direct /\ encoderAt = "sends" /\ callAt = "decode" /\ Len(framesCh) = FramesChSize
TranscoderRuns == callAt # "idle"
TranscoderEnded == callAt = "idle" \/ Untaken \/ Interlocked
TranscoderCloses == closeAt # "no"
TranscoderClosed == closeAt = "done" \/ Interlocked
=============================================================================
