---------------------------- MODULE OutputKernel ----------------------------
(***************************************************************************)
(* kernel/output.go: packets of several sources are written to one file or *)
(* connection.  Streams are added to it as sources show theirs, until there*)
(* are as many as expected: then the header is written, the packets that   *)
(* were kept, and from then on every packet.                               *)
(*                                                                         *)
(* One packet is handled at a time; NotifyAboutPacketSource and Close run  *)
(* whenever formatContextLocker is free.  Input stream indexes stand for   *)
(* themselves; output streams are numbered as they are made.               *)
(***************************************************************************)
EXTENDS Integers, Sequences, FiniteSets

CONSTANTS
  Sources,             \* of packets
  StreamsOf,           \* per source the stream indexes of its format context; <<>>: it has none
  Media,               \* per stream index "video" or "audio"
  SourceOfIndex,       \* pairs of a source and the index of a packet of it
  MinStreams, MinStreamsVideo, MinStreamsAudio, VideoBeforeAudio,
  PreallocatesVideo,   \* RTMP: the video streams are made when it is opened
  ErrorOnNSequentialInvalidDTS,
  PacketDTSs, MaxPackets, MaxPending

NoSource == "none"
Missing == 0           \* no entry in OutputStreams
Reserved == -1         \* the entry is nil: the stream is only preallocated
Indexes == DOMAIN Media

ASSUME OutputAssumption ==
  /\ PreallocatesVideo \in Nat /\ \A i \in Indexes : Media[i] \in {"video", "audio"}
  /\ StreamsOf \in [Sources -> Seq(Indexes)] /\ SourceOfIndex \subseteq Sources \X Indexes

VARIABLES
  flv,             \* the format is FLV: two streams at most, of the indexes 0 and 1
  outputStreams,   \* per stream index Missing, Reserved, or the number of the output stream
  made,            \* the media of each output stream; "any" until it is configured
  preallocated,    \* output streams that are reserved, a sequence per media
  waitingKeyFrames,
  outStarted, headerSent,
  formatContext,   \* "open" or "nil"
  pendingPackets,
  lastDTS, lastKeyFrameSource,   \* per output stream
  invalidCount,    \* SequentialInvalidPacketsCount
  sending,         \* the packet SendInputPacket handles
  sendAt,          \* where it is: "none", "stream", "send", "header", "flush", "write", "failed", "panic"
  packets,         \* how many there were
  wrote,           \* what the file has last: "nothing", "header", "broken" (its header failed), "trailer"
  misplaced        \* something was written where it must not be

outputState == <<flv, outputStreams, made, preallocated, waitingKeyFrames, outStarted, headerSent, formatContext, pendingPackets,
            lastDTS, lastKeyFrameSource, invalidCount, sending, sendAt, packets, wrote, misplaced>>

NoPacket == [source |-> NoSource, index |-> CHOOSE i \in Indexes : TRUE, key |-> FALSE, dts |-> 0]
Is(i, media) == Media[i] = media
Present == {i \in Indexes : outputStreams[i] # Missing}
Active(media) == Cardinality({i \in Indexes : outputStreams[i] > 0 /\ made[outputStreams[i]] = media})
Expected(source, media) == Cardinality({n \in DOMAIN StreamsOf[source] : Is(StreamsOf[source][n], media)})
AtLeast(n, min) == IF n < min THEN min ELSE n
Number == outputStreams[sending.index]

streamState == <<outputStreams, made, preallocated, waitingKeyFrames>>

----------------------------------------------------------------------------
(* Streams.                                                                *)

NewStream(o, media) == [o EXCEPT !.made = Append(@, media)]

Unused(reserve) == IF reserve = <<>> THEN <<>> ELSE Tail(reserve)
Awaited(media, number) == IF media = "video" THEN {number} ELSE {}

\* updateOutputFormat: the stream gets what was preallocated for its media, or
\* a new one; a video stream waits for a key frame.
InitOutputStream(o, i) ==
  LET media == Media[i]
      reserve == o.preallocated[media]
      number == IF reserve # <<>> THEN Head(reserve) ELSE Len(o.made) + 1
      grown == IF reserve # <<>> THEN o ELSE NewStream(o, media)
  IN [grown EXCEPT !.outputStreams[i] = number,
                   !.made[number] = media,
                   !.preallocated[media] = Unused(@),
                   !.waitingKeyFrames = @ \cup Awaited(media, number)]

TooMany(o, i) == flv /\ (i > 1 \/ Cardinality({j \in Indexes : o.outputStreams[j] # Missing}) >= 2)

\* It stops at the first stream it cannot add.
UpdateOutputFormat(o, i) ==
  IF o.failed \/ o.outputStreams[i] # Missing THEN o
  ELSE IF TooMany(o, i) THEN [o EXCEPT !.failed = TRUE]
  ELSE InitOutputStream(o, i)

\* preallocateOutputStream: audio waits for a key frame here, video later.
Preallocate(o, i) ==
  IF o.outputStreams[i] # Missing THEN o
  ELSE LET number == Len(o.made) + 1
       IN [NewStream(o, "any") EXCEPT
             !.outputStreams[i] = Reserved,
             !.preallocated[Media[i]] = Append(@, number),
             !.waitingKeyFrames = IF Media[i] = "audio" THEN @ \cup {number} ELSE @]

\* What a stream of a source's format context is met with: a notice of the source,
\* or a packet of it.
ForStream(o, i, notice) == IF notice THEN Preallocate(o, i) ELSE UpdateOutputFormat(o, i)
ForStreams(source, notice) ==
  LET upTo[n \in 0..Len(StreamsOf[source])] ==
        IF n = 0
        THEN [outputStreams |-> outputStreams, made |-> made, preallocated |-> preallocated,
              waitingKeyFrames |-> waitingKeyFrames, failed |-> FALSE]
        ELSE ForStream(upTo[n - 1], StreamsOf[source][n], notice)
  IN upTo[Len(StreamsOf[source])]
Assign(o) ==
  /\ outputStreams' = o.outputStreams /\ made' = o.made /\ preallocated' = o.preallocated
  /\ waitingKeyFrames' = o.waitingKeyFrames
  /\ lastDTS' = [n \in DOMAIN o.made |-> IF n \in DOMAIN lastDTS THEN lastDTS[n] ELSE -1]
  /\ lastKeyFrameSource' =
       [n \in DOMAIN o.made |-> IF n \in DOMAIN lastKeyFrameSource THEN lastKeyFrameSource[n] ELSE NoSource]

OutputNotified(source) ==
  /\ formatContext = "open" /\ Assign(ForStreams(source, TRUE))
  /\ UNCHANGED <<flv, outStarted, headerSent, formatContext, pendingPackets, invalidCount, sending, sendAt, packets, wrote, misplaced>>

----------------------------------------------------------------------------
(* SendInputPacket.                                                        *)

SendPacket(source, i, key, dts) ==
  /\ sendAt = "none" /\ packets < MaxPackets /\ packets' = packets + 1
  /\ sending' = [source |-> source, index |-> i, key |-> key \/ Is(i, "audio"), dts |-> dts] /\ sendAt' = "stream"
  /\ UNCHANGED <<flv, streamState, outStarted, headerSent, formatContext, pendingPackets, lastDTS, lastKeyFrameSource,
                 invalidCount, wrote, misplaced>>

\* getOutputStream asserts that there is one then, though updateOutputFormat
\* leaves the entry of a preallocated stream nil.  A source without a format
\* context can only use a stream that is there.
GetOutputStream ==
  /\ sendAt = "stream"
  /\ LET updated == ForStreams(sending.source, FALSE)
     IN \/ Number > 0 /\ sendAt' = "send" /\ UNCHANGED <<streamState, lastDTS, lastKeyFrameSource>>
        \/ Number <= 0 /\ StreamsOf[sending.source] = <<>> /\ sendAt' = "failed"
           /\ UNCHANGED <<streamState, lastDTS, lastKeyFrameSource>>
        \/ /\ Number <= 0 /\ StreamsOf[sending.source] # <<>>
           /\ formatContext = "open" /\ Assign(updated)
           /\ sendAt' = CASE updated.failed -> "failed"
                          [] ~updated.failed /\ updated.outputStreams[sending.index] > 0 -> "send"
                          [] OTHER -> "panic"
        \/ /\ Number <= 0 /\ StreamsOf[sending.source] # <<>> /\ formatContext = "nil"
           /\ sendAt' = "panic" /\ UNCHANGED <<streamState, lastDTS, lastKeyFrameSource>>
  /\ UNCHANGED <<flv, outStarted, headerSent, formatContext, pendingPackets, invalidCount, sending, packets, wrote, misplaced>>

\* Until it has started: only key frames while a stream waits for one, and,
\* if so configured, video only.
NotYet ==
  \/ ~sending.key /\ waitingKeyFrames # {}
  \/ /\ VideoBeforeAudio /\ ~Is(sending.index, "video")
     /\ AtLeast(Expected(sending.source, "video"), MinStreamsVideo) > 0
AllThere ==
  /\ Cardinality(Present) >= AtLeast(Len(StreamsOf[sending.source]), MinStreams)
  /\ Active("video") >= AtLeast(Expected(sending.source, "video"), MinStreamsVideo)
  /\ Active("audio") >= AtLeast(Expected(sending.source, "audio"), MinStreamsAudio)

Send ==
  /\ sendAt = "send"
  /\ \/ outStarted /\ sendAt' = "write" /\ UNCHANGED <<outStarted, waitingKeyFrames, pendingPackets, sending>>
     \/ ~outStarted /\ NotYet /\ sendAt' = "none" /\ sending' = NoPacket
        /\ UNCHANGED <<outStarted, waitingKeyFrames, pendingPackets>>
     \/ /\ ~outStarted /\ ~NotYet /\ Len(pendingPackets) < MaxPending
        /\ waitingKeyFrames' = waitingKeyFrames \ {Number}
        /\ pendingPackets' = Append(pendingPackets, sending)
        /\ IF AllThere THEN outStarted' = TRUE /\ sendAt' = "header" /\ UNCHANGED sending
                       ELSE UNCHANGED outStarted /\ sendAt' = "none" /\ sending' = NoPacket
  /\ UNCHANGED <<flv, outputStreams, made, preallocated, headerSent, formatContext, lastDTS, lastKeyFrameSource,
                 invalidCount, packets, wrote, misplaced>>

WriteHeader ==
  /\ sendAt = "header"
  /\ IF formatContext = "nil" THEN sendAt' = "failed" /\ UNCHANGED <<headerSent, wrote, misplaced>>
     ELSE /\ headerSent' = TRUE  \* also when it fails
          /\ \/ wrote' = "header" /\ sendAt' = "flush"
             \/ wrote' = "broken" /\ sendAt' = "failed"
          /\ misplaced' = (misplaced \/ wrote # "nothing")
  /\ UNCHANGED <<flv, streamState, outStarted, formatContext, pendingPackets, lastDTS, lastKeyFrameSource, invalidCount,
                 sending, packets>>

----------------------------------------------------------------------------
(* doWritePacket.                                                          *)

\* A source takes over a video stream with a key frame.
FromAnotherSource(p) == made[Number] = "video" /\ p.source # lastKeyFrameSource[Number]
Ignored(p) == FromAnotherSource(p) /\ ~p.key /\ lastKeyFrameSource[Number] # NoSource
KeySource(p) ==
  IF FromAnotherSource(p) /\ p.key THEN [lastKeyFrameSource EXCEPT ![Number] = p.source] ELSE lastKeyFrameSource

Goto(place) == sendAt' = place /\ (IF place = "none" THEN sending' = NoPacket ELSE UNCHANGED sending)

DoWritePacket(p, then) ==
  \/ Ignored(p) /\ Goto(then) /\ UNCHANGED <<lastKeyFrameSource, lastDTS, invalidCount, misplaced>>
  \/ /\ ~Ignored(p) /\ lastKeyFrameSource' = KeySource(p)
     /\ \/ /\ p.dts < lastDTS[Number] /\ invalidCount' = invalidCount + 1
           /\ Goto(IF ErrorOnNSequentialInvalidDTS > 0 /\ invalidCount' > ErrorOnNSequentialInvalidDTS
                   THEN "failed" ELSE then)
           /\ UNCHANGED <<lastDTS, misplaced>>
        \/ /\ p.dts >= lastDTS[Number] /\ invalidCount' = 0
           /\ IF formatContext = "nil" THEN Goto("failed") /\ UNCHANGED <<lastDTS, misplaced>>
              ELSE /\ Goto(then) /\ lastDTS' = [lastDTS EXCEPT ![Number] = p.dts]
                   /\ misplaced' = (misplaced \/ wrote # "header")

\* The kept packets are all written to the stream of the packet in hand.
FlushPending ==
  /\ sendAt = "flush"
  /\ DoWritePacket(Head(pendingPackets), IF Len(pendingPackets) = 1 THEN "none" ELSE "flush")
  /\ pendingPackets' = Tail(pendingPackets)
  /\ UNCHANGED <<flv, streamState, outStarted, headerSent, formatContext, packets, wrote>>

WritePacket ==
  /\ sendAt = "write" /\ DoWritePacket(sending, "none")
  /\ UNCHANGED <<flv, streamState, outStarted, headerSent, formatContext, pendingPackets, packets, wrote>>

\* The write itself fails.
WriteFails ==
  /\ sendAt \in {"flush", "write"} /\ sendAt' = "failed"
  /\ UNCHANGED <<flv, streamState, outStarted, headerSent, formatContext, pendingPackets, lastDTS, lastKeyFrameSource,
                 invalidCount, sending, packets, wrote, misplaced>>

CloseOutputKeepsContext ==
  /\ formatContext = "open"
  /\ headerSent' = FALSE /\ UNCHANGED formatContext
  /\ IF outStarted /\ headerSent
     THEN wrote' = "trailer" /\ misplaced' = (misplaced \/ wrote \notin {"header", "broken"})
     ELSE UNCHANGED <<wrote, misplaced>>
  /\ UNCHANGED <<flv, streamState, outStarted, pendingPackets, lastDTS, lastKeyFrameSource, invalidCount, sending, sendAt, packets>>

CloseOutput ==
  /\ formatContext = "open" /\ formatContext' = "nil"
  /\ IF outStarted /\ made # <<>> /\ headerSent
     THEN wrote' = "trailer" /\ headerSent' = FALSE /\ misplaced' = (misplaced \/ wrote \notin {"header", "broken"})
     ELSE UNCHANGED <<wrote, headerSent, misplaced>>
  /\ UNCHANGED <<flv, streamState, outStarted, pendingPackets, lastDTS, lastKeyFrameSource, invalidCount, sending, sendAt, packets>>

----------------------------------------------------------------------------

OutputInit ==
  /\ flv \in BOOLEAN
  /\ outputStreams = [i \in Indexes |-> Missing]
  /\ made = [n \in 1..PreallocatesVideo |-> "any"]
  /\ preallocated = [media \in {"video", "audio"} |->
                       IF media = "video" THEN [n \in 1..PreallocatesVideo |-> n] ELSE <<>>]
  /\ waitingKeyFrames = 1..PreallocatesVideo
  /\ outStarted = FALSE /\ headerSent = FALSE /\ formatContext = "open" /\ pendingPackets = <<>>
  /\ lastDTS = [n \in 1..PreallocatesVideo |-> -1]
  /\ lastKeyFrameSource = [n \in 1..PreallocatesVideo |-> NoSource]
  /\ invalidCount = 0 /\ sending = NoPacket /\ sendAt = "none" /\ packets = 0
  /\ wrote = "nothing" /\ misplaced = FALSE

HandleOutput == GetOutputStream \/ Send \/ WriteHeader \/ FlushPending \/ WritePacket

OutputNext ==
  \/ HandleOutput \/ WriteFails \/ CloseOutput
  \/ \E source \in Sources : OutputNotified(source)
  \/ \E p \in SourceOfIndex, key \in BOOLEAN, dts \in PacketDTSs : SendPacket(p[1], p[2], key, dts)

OutputTypeOK ==
  /\ outputStreams \in [Indexes -> {Missing, Reserved} \cup DOMAIN made]
  /\ \A n \in DOMAIN made : made[n] \in {"any", "video", "audio"}
  /\ \A media \in {"video", "audio"} : \A n \in DOMAIN preallocated[media] : preallocated[media][n] \in DOMAIN made
  /\ waitingKeyFrames \subseteq DOMAIN made /\ DOMAIN lastDTS = DOMAIN made /\ DOMAIN lastKeyFrameSource = DOMAIN made
  /\ formatContext \in {"open", "nil"} /\ wrote \in {"nothing", "header", "broken", "trailer"}
  /\ {flv, outStarted, headerSent, misplaced} \subseteq BOOLEAN
  /\ sendAt \in {"none", "stream", "send", "header", "flush", "write", "failed", "panic"}

----------------------------------------------------------------------------
(* Properties.                                                             *)

\* The file is a header, packets and a trailer, whenever Close comes: nothing
\* before the header, no second one, no trailer without one (though it may have
\* failed), and nothing after.
FileWellFormed == ~misplaced

\* No two streams of the sources share an output stream.
OwnOutputStream ==
  \A i, j \in Indexes : i # j /\ outputStreams[i] > 0 => outputStreams[i] # outputStreams[j]

\* What is kept until the header is written starts with a key frame, in every
\* video stream.
KeptStartsWithKey ==
  \A n \in DOMAIN pendingPackets :
    LET p == pendingPackets[n]
    IN Is(p.index, "video") /\ (\A k \in 1..(n - 1) : pendingPackets[k].index # p.index) => p.key \/ sendAt \in {"flush", "failed"}

\* What is written can be read.
OutputSafe == FileWellFormed /\ OwnOutputStream /\ KeptStartsWithKey
=============================================================================
