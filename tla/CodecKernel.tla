----------------------------- MODULE CodecKernel -----------------------------
(***************************************************************************)
(* The Encoder and the Decoder (kernel/encoder.go, kernel/decoder.go) with *)
(* the codec of one stream (codec/).  The kernel's Locker guards the table *)
(* of codecs, each codec has a lock of its own, and a call takes the codec *)
(* from the table under the first and works with it under the second only. *)
(* So anything may happen to the codec in between.  The codec holds objects*)
(* back: it gives them out when it has more than delay of them, or when it *)
(* has been told that none will follow, and takes no other before that.    *)
(***************************************************************************)
EXTENDS Integers, Sequences, FiniteSets

CONSTANTS
  MaxInputs,    \* objects that are sent to the kernel
  KeyInputs,    \* those of them that are key packets
  MarkedInputs, \* those with SideFlagFlush
  MaxCodecs,    \* bounds the codecs that are created
  MaxCuts,      \* bounds the calls that are ended by their context
  Companies     \* sets of calls that are made besides

ASSUME CodecAssumption == {MaxInputs, MaxCodecs, MaxCuts} \subseteq Nat

Callers == {"send", "flush", "close", "reset", "resize", "ask"}
NoCodec == 0
NoObject == 0
Nobody == "nobody"

VARIABLES
  codecKind,    \* "encoder" or "decoder"
  delay,        \* CodecCapabilityDelay: how many objects the codec holds back
  canFlush,     \* CodecCapabilityEncoderFlush
  reentrant,    \* a mutex of xsync may be taken again by its holder
  drained,      \* somebody takes what the kernel emits
  company,      \* the calls that are made besides SendInput
  kernelClosed, \* ClosureSignaler
  kernelLock,   \* the holder of Locker
  codecOfStream,\* encoders, Decoders
  hasStream,    \* outputStreams
  codecs,
  dirtyCache,
  doing,        \* where each call is
  with,         \* the codec it works with
  loop,         \* the loop over ReceivePacket it is in
  received,     \* what it has received and not yet emitted
  input,        \* the next object
  acceptedObjects, emitted, discarded,  \* what became of the others
  promised,     \* what had been accepted when Flush began
  cuts,         \* calls ended by their context so far
  answer,       \* what IsDirty said
  insideAll     \* the objects that were inside while it was asked

settings == <<codecKind, delay, canFlush, reentrant, drained, company>>
table == <<kernelClosed, codecOfStream, hasStream>>
fates == <<acceptedObjects, emitted, discarded>>
asking == <<dirtyCache, answer, insideAll>>
codecKernel == <<settings, table, kernelLock, codecs, doing, with, loop, received, input, fates, promised, cuts, asking>>

Created == DOMAIN codecs
Codec(p) == codecs[with[p]]
Contents(c) == {codecs[c].held[i] : i \in DOMAIN codecs[c].held}
InsideCodec == ((UNION {Contents(c) : c \in Created}) \cup {received[p] : p \in Callers}) \ {NoObject}

NewCodec == [open |-> TRUE, ending |-> FALSE, held |-> <<>>, giving |-> FALSE, dirty |-> FALSE, lock |-> Nobody,
             keySeen |-> FALSE, next |-> FALSE]
NotClosed(codec) == [codec EXCEPT !.ending = FALSE, !.held = <<>>, !.giving = FALSE]
Closed(codec) == [codec EXCEPT !.open = FALSE, !.ending = FALSE, !.held = <<>>, !.giving = FALSE]
Flushed(codec) == [codec EXCEPT !.ending = FALSE, !.held = <<>>, !.giving = FALSE]

\* reinitEncoder: closed and made anew, in the same place.
Reinit(codec, succeeds) ==
  [Closed(codec) EXCEPT !.open = succeeds, !.next = FALSE, !.dirty = codec.dirty /\ ~succeeds]

To(p, place) == doing' = [doing EXCEPT ![p] = place]
Update(p, codec) == codecs' = [codecs EXCEPT ![with[p]] = codec]
Discard(objects, reason) == discarded' = discarded \cup {<<o, reason>> : o \in objects}
CodecFree(p) == Codec(p).lock = Nobody

\* A call of SendInput that fails; the caller goes on with the next object.
FailSend == To("send", "failed") /\ input' = input + 1

----------------------------------------------------------------------------
(* SendInputFrame, SendInputPacket.                                        *)

CheckClosed ==
  /\ doing["send"] \in {"idle", "failed"} /\ input <= MaxInputs
  /\ IF kernelClosed THEN FailSend ELSE To("send", "get") /\ UNCHANGED input
  /\ UNCHANGED <<settings, table, kernelLock, codecs, with, loop, received, fates, promised, cuts, asking>>

\* Whether the kernel is closed is not looked at again.  The codec is in the
\* table already when the output stream cannot be made.
GetOrCreateCodec ==
  LET next == IF codecKind = "encoder" THEN "stream" ELSE "enter" IN
  /\ doing["send"] = "get" /\ kernelLock = Nobody
  /\ \/ codecOfStream # NoCodec
        /\ with' = [with EXCEPT !["send"] = codecOfStream]
        /\ To("send", next) /\ UNCHANGED <<codecs, codecOfStream, hasStream, input>>
     \/ codecOfStream = NoCodec /\ Len(codecs) < MaxCodecs
        /\ codecs' = Append(codecs, NewCodec) /\ codecOfStream' = Len(codecs')
        /\ \/ hasStream' = TRUE /\ with' = [with EXCEPT !["send"] = Len(codecs')]
              /\ To("send", next) /\ UNCHANGED input
           \/ codecKind = "encoder" /\ ~hasStream /\ FailSend /\ UNCHANGED <<hasStream, with>>
     \/ codecOfStream = NoCodec /\ FailSend /\ UNCHANGED <<codecs, codecOfStream, hasStream, with>>
  /\ UNCHANGED <<settings, kernelClosed, kernelLock, loop, received, fates, promised, cuts, asking>>

\* The output stream is asserted to be there.
FindOutputStream ==
  /\ doing["send"] = "stream" /\ kernelLock = Nobody
  /\ To("send", IF hasStream THEN "check" ELSE "crashed")
  /\ UNCHANGED <<settings, table, kernelLock, codecs, with, loop, received, input, fates, promised, cuts, asking>>

\* SanityCheck, and then MediaType, which is asserted to be that of the stream.
CheckCodec ==
  /\ doing["send"] \in {"check", "type"} /\ CodecFree("send")
  /\ IF doing["send"] = "check" /\ ~Codec("send").open
     THEN FailSend
     ELSE /\ To("send", CASE ~Codec("send").open -> "crashed" [] doing["send"] = "check" -> "type" [] OTHER -> "enter")
          /\ UNCHANGED input
  /\ UNCHANGED <<settings, table, kernelLock, codecs, with, loop, received, fates, promised, cuts, asking>>

EnterToSend ==
  /\ doing["send"] = "enter" /\ CodecFree("send") /\ Codec("send").open
  /\ codecKind = "decoder" => input \in KeyInputs \/ Codec("send").keySeen
  /\ To("send", "put") /\ Update("send", [Codec("send") EXCEPT !.lock = "send"])
  /\ UNCHANGED <<settings, table, kernelLock, with, loop, received, input, fates, promised, cuts, asking>>

\* A closed encoder drops the frame, or fails to fit a picture; the decoder's test for that tests another field.
\* A decoder drops what comes before the first key packet.
DropInput ==
  /\ doing["send"] = "enter" /\ CodecFree("send")
  /\ \/ ~Codec("send").open /\ codecKind = "decoder" /\ To("send", "crashed") /\ UNCHANGED input
     \/ ~Codec("send").open /\ codecKind = "encoder" /\ (FailSend \/ (To("send", "idle") /\ input' = input + 1))
     \/ Codec("send").open /\ codecKind = "decoder" /\ input \notin KeyInputs /\ ~Codec("send").keySeen
        /\ To("send", "idle") /\ input' = input + 1
  /\ UNCHANGED <<settings, table, kernelLock, codecs, with, loop, received, fates, promised, cuts, asking>>

\* A marked packet flushes the decoder.
AfterPut == IF codecKind = "decoder" /\ input \in MarkedInputs THEN "request" ELSE "receive"

Refused == Codec("send").ending
NoRoom == ~Refused /\ Codec("send").giving

Put ==
  /\ doing["send"] = "put" /\ Codec("send").open /\ ~Refused /\ ~NoRoom
  /\ Update("send", [Codec("send") EXCEPT !.held = Append(@, input), !.giving = Len(Codec("send").held) = delay,
                                         !.dirty = TRUE, !.keySeen = TRUE])
  /\ acceptedObjects' = acceptedObjects \cup {input}
  /\ loop' = [loop EXCEPT !["send"] = "sent"] /\ To("send", AfterPut)
  /\ UNCHANGED <<settings, table, kernelLock, with, received, input, emitted, discarded, promised, cuts, asking>>

PutLater ==
  /\ doing["send"] = "put" /\ NoRoom
  /\ Update("send", [Codec("send") EXCEPT !.dirty = TRUE])
  /\ loop' = [loop EXCEPT !["send"] = "retry"] /\ To("send", AfterPut)
  /\ UNCHANGED <<settings, table, kernelLock, with, received, input, fates, promised, cuts, asking>>

\* The codec has been told that none will follow.
PutRefused ==
  /\ doing["send"] = "put" /\ Refused /\ FailSend
  /\ Update("send", [Codec("send") EXCEPT !.dirty = TRUE, !.lock = Nobody])
  /\ UNCHANGED <<settings, table, kernelLock, with, loop, received, fates, promised, cuts, asking>>

----------------------------------------------------------------------------
(* Flush, and ResetSoft of an encoder, which flushes it into nothing.      *)

\* The end of a call with the codec: it leaves it as codec, without the lock.
EndCall(p, codec, succeeds) ==
  /\ Update(p, [codec EXCEPT !.lock = Nobody])
  /\ To(p, CASE ~succeeds -> "failed" [] succeeds /\ p = "send" -> "idle" [] OTHER -> "done")
  /\ input' = IF p = "send" THEN input + 1 ELSE input
  /\ dirtyCache' = (dirtyCache /\ ~(p = "flush" /\ succeeds))
  /\ kernelLock' = IF p = "reset" THEN Nobody ELSE kernelLock

\* The calls that flush the codec once they have entered it.
Flushes(p) == p = "flush" \/ (p = "reset" /\ codecKind = "encoder")

StartFlush ==
  /\ doing["flush"] = "idle" /\ "flush" \in company
  /\ To("flush", IF codecKind = "decoder" /\ kernelClosed THEN "failed" ELSE "get")
  /\ promised' = acceptedObjects
  /\ UNCHANGED <<settings, table, kernelLock, codecs, with, loop, received, input, fates, cuts, asking>>

GetCodecToFlush ==
  /\ doing["flush"] = "get" /\ kernelLock = Nobody
  /\ IF codecOfStream = NoCodec
     THEN To("flush", "done") /\ dirtyCache' = FALSE /\ UNCHANGED with
     ELSE To("flush", "enter") /\ with' = [with EXCEPT !["flush"] = codecOfStream] /\ UNCHANGED dirtyCache
  /\ UNCHANGED <<settings, table, kernelLock, codecs, loop, received, input, fates, promised, cuts, answer, insideAll>>

\* A codec without a delay has nothing to flush; one that is closed is not there to ask.
NothingToFlush(p) ==
  /\ doing[p] = "enter" /\ CodecFree(p) /\ Flushes(p) /\ (delay = 0 \/ ~Codec(p).open)
  /\ IF Codec(p).open THEN EndCall(p, [Codec(p) EXCEPT !.dirty = FALSE], TRUE)
                      ELSE To(p, "crashed") /\ UNCHANGED <<codecs, input, dirtyCache, kernelLock>>
  /\ UNCHANGED <<settings, table, with, loop, received, fates, promised, cuts, answer, insideAll>>

\* An encoder first gives out what it would anyway.
EnterToFlush(p) ==
  /\ doing[p] = "enter" /\ CodecFree(p) /\ Flushes(p) /\ delay > 0 /\ Codec(p).open
  /\ Update(p, [Codec(p) EXCEPT !.lock = p])
  /\ IF codecKind = "encoder" THEN To(p, "receive") /\ loop' = [loop EXCEPT ![p] = "before"]
                              ELSE To(p, "request") /\ loop' = [loop EXCEPT ![p] = "after"]
  /\ UNCHANGED <<settings, table, kernelLock, with, received, input, fates, promised, cuts, asking>>

\* The request to flush.  A decoder that has had one takes itself for flushed.
Request(p) ==
  /\ doing[p] = "request" /\ Codec(p).open
  /\ IF codecKind = "decoder" /\ Codec(p).ending
     THEN EndCall(p, [Codec(p) EXCEPT !.dirty = FALSE], TRUE)
     ELSE To(p, "receive") /\ Update(p, [Codec(p) EXCEPT !.ending = TRUE]) /\ UNCHANGED <<input, dirtyCache, kernelLock>>
  /\ UNCHANGED <<settings, table, with, loop, received, fates, promised, cuts, answer, insideAll>>

\* What comes after the loop.  FlushBuffers forgets what is inside; a codec
\* without it is made anew, which may fail.
ForgetAll(p) ==
  /\ doing[p] = "forget" /\ (Codec(p).open \/ ~canFlush) /\ Discard(Contents(with[p]), "flush")
  /\ \E succeeds \in {TRUE, codecKind = "decoder" \/ canFlush} :
       LET codec == [(IF codecKind = "decoder" \/ canFlush THEN Flushed(Codec(p)) ELSE Reinit(Codec(p), succeeds))
                     EXCEPT !.dirty = FALSE]
       IN IF p = "send" /\ loop[p] = "retry"
          THEN To(p, "put") /\ Update(p, codec) /\ UNCHANGED <<input, dirtyCache, kernelLock>>
          ELSE EndCall(p, codec, succeeds)
  /\ UNCHANGED <<settings, table, with, loop, received, acceptedObjects, emitted, promised, cuts, answer, insideAll>>

----------------------------------------------------------------------------
(* Drain: the loop over ReceivePacket, ReceiveFrame.                       *)

Yields(p) == Codec(p).held # <<>> /\ (Codec(p).ending \/ Codec(p).giving)

\* A change of the resolution that waits is made after an attempt to receive,
\* whatever that gave, if its condition holds then.
AfterReceive(codec) == {codec} \cup (IF codec.next THEN {Reinit(codec, TRUE), Reinit(codec, FALSE)} ELSE {})
LostByChange(codec, after) ==
  {<<o, "resize">> : o \in {codec.held[i] : i \in DOMAIN codec.held} \ {after.held[i] : i \in DOMAIN after.held}}

Receive(p) ==
  LET rest == [Codec(p) EXCEPT !.held = Tail(@), !.giving = @ /\ Len(Codec(p).held) > 1]
      first == Head(Codec(p).held)
  IN
  /\ doing[p] = "receive" /\ Codec(p).open /\ Yields(p)
  /\ \E codec \in AfterReceive(rest) :
       /\ Update(p, codec)
       /\ discarded' = discarded \cup LostByChange(rest, codec) \cup (IF p = "reset" THEN {<<first, "reset">>} ELSE {})
  /\ IF p = "reset" THEN UNCHANGED <<doing, received>>
     ELSE received' = [received EXCEPT ![p] = first] /\ To(p, "emit")
  /\ UNCHANGED <<settings, table, kernelLock, with, loop, input, acceptedObjects, emitted, promised, cuts, asking>>

\* What follows a loop that neither fails nor ends the call.
ForgetsUnasked(p, ended) ==
  CASE loop[p] # "retry" \/ ended -> "forget" [] OTHER -> "put"
FollowsLoop(p, ended) ==
  CASE loop[p] = "after" \/ ended -> "forget" [] loop[p] = "before" /\ ~ended -> "request" [] OTHER -> "put"

\* Only at the end is a codec with a delay clean.
AlwaysCleaned(codec, ended) == [codec EXCEPT !.dirty = FALSE]
CleanedBy(codec, ended) == [codec EXCEPT !.dirty = @ /\ ~ended /\ delay > 0]

\* EOF, or nothing to receive yet.  EOF is an encoder that was not told to end, its lack
\* of one that was.
ReceiveEnds(p) ==
  LET ended == Codec(p).ending
      fails == codecKind = "encoder" /\ ended = (loop[p] # "after")
      rest == CleanedBy(Codec(p), ended)
  IN
  /\ doing[p] = "receive" /\ Codec(p).open /\ ~Yields(p)
  /\ \E codec \in AfterReceive(rest) :
       /\ discarded' = discarded \cup LostByChange(rest, codec)
       /\ IF fails \/ (loop[p] = "sent" /\ ~ended)
          THEN EndCall(p, codec, ~fails)
          ELSE To(p, FollowsLoop(p, ended)) /\ Update(p, codec) /\ UNCHANGED <<input, dirtyCache, kernelLock>>
  /\ loop' = IF loop[p] = "before" THEN [loop EXCEPT ![p] = "after"] ELSE loop
  /\ UNCHANGED <<settings, table, with, received, acceptedObjects, emitted, promised, cuts, answer, insideAll>>

\* A change that failed has left no codec to receive from.
UseOfNone(p) ==
  /\ doing[p] \in {"put", "receive", "request", "forget"} /\ ~Codec(p).open
  /\ (doing[p] = "forget" => canFlush)
  /\ To(p, "crashed")
  /\ UNCHANGED <<settings, table, kernelLock, codecs, with, loop, received, input, fates, promised, cuts, asking>>

Emit(p) ==
  /\ doing[p] = "emit" /\ drained
  /\ emitted' = Append(emitted, received[p]) /\ received' = [received EXCEPT ![p] = NoObject] /\ To(p, "receive")
  /\ UNCHANGED <<settings, table, kernelLock, codecs, with, loop, input, acceptedObjects, discarded, promised, cuts, asking>>

\* The decoder does not look whether it is closed.
StopsNever(p) == {}
Stops(p) == IF codecKind = "encoder" /\ kernelClosed THEN {"close"} ELSE {}
EmitFails(p) ==
  /\ doing[p] = "emit"
  /\ \E reason \in Stops(p) \cup (IF cuts < MaxCuts THEN {"cut"} ELSE {}) :
       Discard({received[p]}, reason) /\ cuts' = IF reason = "cut" THEN cuts + 1 ELSE cuts
  /\ received' = [received EXCEPT ![p] = NoObject] /\ EndCall(p, Codec(p), FALSE)
  /\ UNCHANGED <<settings, table, with, loop, acceptedObjects, emitted, promised, answer, insideAll>>

----------------------------------------------------------------------------
(* Close, ResetSoft, ResetHard: with Locker held for all of it.            *)

Start(p) ==
  /\ doing[p] = "idle" /\ p \in company /\ p \in {"close", "reset"} /\ To(p, "get")
  /\ UNCHANGED <<settings, table, kernelLock, codecs, with, loop, received, input, fates, promised, cuts, asking>>

TakeLocker(p) ==
  /\ doing[p] = "get" /\ p \in {"close", "reset"} /\ kernelLock = Nobody
  /\ kernelClosed' = (kernelClosed \/ p = "close")
  /\ IF codecOfStream = NoCodec THEN To(p, "done") /\ UNCHANGED <<kernelLock, with>>
     ELSE /\ kernelLock' = p /\ with' = [with EXCEPT ![p] = codecOfStream]
          /\ To(p, "enter") \/ (p = "reset" /\ To(p, "remove"))
  /\ UNCHANGED <<settings, codecOfStream, hasStream, codecs, loop, received, input, fates, promised, cuts, asking>>

\* ResetHard of the encoder has the codec's lock already when Close of the
\* codec takes it.
WaitsForItself(p) == p = "reset" /\ codecKind = "encoder" /\ ~reentrant

\* The codec is closed and taken from the table.
RemoveCodec(p) ==
  /\ (p = "close" /\ doing[p] = "enter") \/ (p = "reset" /\ doing[p] = "remove")
  /\ CodecFree(p)
  /\ IF WaitsForItself(p)
     THEN /\ Update(p, [Codec(p) EXCEPT !.lock = p]) /\ To(p, "stuck")
          /\ UNCHANGED <<codecOfStream, hasStream, kernelLock, discarded>>
     ELSE /\ Discard(Contents(with[p]), p) /\ Update(p, Closed(Codec(p)))
          /\ codecOfStream' = NoCodec /\ hasStream' = (hasStream /\ p = "close")
          /\ kernelLock' = Nobody /\ To(p, "done")
  /\ UNCHANGED <<settings, kernelClosed, with, loop, received, input, acceptedObjects, emitted, promised, cuts, asking>>

\* ResetSoft of the decoder.
ResetDecoder ==
  /\ doing["reset"] = "enter" /\ codecKind = "decoder" /\ CodecFree("reset")
  /\ Discard(Contents(with["reset"]), "reset") /\ kernelLock' = Nobody
  /\ Update("reset", [Flushed(Codec("reset")) EXCEPT !.keySeen = FALSE]) /\ To("reset", "done")
  /\ UNCHANGED <<settings, table, with, loop, received, input, acceptedObjects, emitted, promised, cuts, asking>>

----------------------------------------------------------------------------
(* SetResolution and IsDirty.                                              *)

StartResize ==
  /\ doing["resize"] = "idle" /\ "resize" \in company /\ codecKind = "encoder" /\ codecOfStream # NoCodec
  /\ with' = [with EXCEPT !["resize"] = codecOfStream] /\ To("resize", "enter")
  /\ UNCHANGED <<settings, table, kernelLock, codecs, loop, received, input, fates, promised, cuts, asking>>

\* At once, or when a packet is received.
SetResolution ==
  /\ doing["resize"] = "enter" /\ CodecFree("resize")
  /\ \/ Update("resize", [Codec("resize") EXCEPT !.next = TRUE]) /\ To("resize", "done") /\ UNCHANGED discarded
     \/ ~Codec("resize").open /\ To("resize", "crashed") /\ UNCHANGED <<codecs, discarded>>
     \/ Codec("resize").open /\ Discard(Contents(with["resize"]), "resize") /\ To("resize", "done")
        /\ \E succeeds \in BOOLEAN :
             Update("resize", [Reinit(Codec("resize"), succeeds) EXCEPT !.next = Codec("resize").next /\ ~succeeds])
  /\ UNCHANGED <<settings, table, kernelLock, with, loop, received, input, acceptedObjects, emitted, promised, cuts, asking>>

\* The cache answers if it can.
Ask ==
  /\ doing["ask"] \in {"idle", "done"} /\ "ask" \in company
  /\ IF dirtyCache THEN To("ask", "done") /\ answer' = "dirty" /\ UNCHANGED insideAll
                   ELSE To("ask", "get") /\ insideAll' = InsideCodec /\ answer' = "none"
  /\ UNCHANGED <<settings, table, kernelLock, codecs, with, loop, received, input, fates, promised, cuts, dirtyCache>>

\* Without the codec's lock.
IsDirty ==
  /\ doing["ask"] = "get" /\ kernelLock = Nobody /\ To("ask", "done")
  /\ dirtyCache' = (codecOfStream # NoCodec /\ codecs[codecOfStream].dirty)
  /\ answer' = (IF dirtyCache' THEN "dirty" ELSE "clean") /\ insideAll' = insideAll \cap InsideCodec
  /\ UNCHANGED <<settings, table, kernelLock, codecs, with, loop, received, input, fates, promised, cuts>>

----------------------------------------------------------------------------

CodecInit ==
  /\ codecKind \in {"encoder", "decoder"} /\ delay \in {0, 1}
  /\ canFlush \in BOOLEAN /\ reentrant \in BOOLEAN /\ drained \in BOOLEAN
  /\ company \in Companies
  /\ ("close" \notin company => drained)
  /\ (codecKind = "decoder" => canFlush) /\ (codecKind = "decoder" \/ "reset" \notin company => reentrant)
  /\ kernelClosed = FALSE /\ kernelLock = Nobody /\ codecOfStream = NoCodec /\ hasStream = FALSE /\ codecs = <<>>
  /\ dirtyCache = FALSE /\ doing = [p \in Callers |-> "idle"] /\ with = [p \in Callers |-> NoCodec]
  /\ loop = [p \in Callers |-> "none"] /\ received = [p \in Callers |-> NoObject] /\ input = 1
  /\ acceptedObjects = {} /\ emitted = <<>> /\ discarded = {} /\ promised = {} /\ cuts = 0
  /\ answer = "none" /\ insideAll = {}

Alive == \A p \in Callers : doing[p] # "crashed"

SendInput == CheckClosed \/ GetOrCreateCodec \/ FindOutputStream \/ CheckCodec \/ EnterToSend \/ DropInput
        \/ Put \/ PutLater \/ PutRefused
Flushing(p) == NothingToFlush(p) \/ EnterToFlush(p) \/ Request(p) \/ ForgetAll(p)
Draining(p) == Receive(p) \/ ReceiveEnds(p) \/ UseOfNone(p) \/ Emit(p) \/ EmitFails(p)
Removing == (\E p \in Callers : TakeLocker(p) \/ RemoveCodec(p)) \/ ResetDecoder

\* After a nil codec was used, or an assertion has failed, nothing runs on.
CodecNext ==
  /\ Alive
  /\ \/ SendInput \/ StartFlush \/ GetCodecToFlush \/ Removing \/ StartResize \/ SetResolution \/ Ask \/ IsDirty
     \/ \E p \in Callers : Start(p) \/ Flushing(p) \/ Draining(p)

\* Whoever has started a call goes on, unless nobody takes what it emits.
CodecProgress ==
  /\ Alive
  /\ \/ SendInput \/ GetCodecToFlush \/ Removing \/ SetResolution
     \/ \E p \in Callers : Flushing(p) \/ Receive(p) \/ ReceiveEnds(p) \/ UseOfNone(p) \/ Emit(p)
     \/ \E p \in Callers : Stops(p) # {} /\ EmitFails(p)

Objects == 1..MaxInputs
CodecTypeOK ==
  /\ kernelLock \in Callers \cup {Nobody} /\ codecOfStream \in 0..MaxCodecs /\ Len(codecs) <= MaxCodecs
  /\ \A c \in Created : codecs[c].lock \in Callers \cup {Nobody} /\ Contents(c) \subseteq acceptedObjects
  /\ with \in [Callers -> 0..MaxCodecs] /\ received \in [Callers -> 0..MaxInputs]
  /\ acceptedObjects \subseteq Objects /\ input \in 1..MaxInputs + 1 /\ cuts \in 0..MaxCuts
  /\ answer \in {"none", "clean", "dirty"} /\ {kernelClosed, hasStream, dirtyCache} \subseteq BOOLEAN

----------------------------------------------------------------------------
(* Properties.                                                             *)

WasEmitted == {emitted[i] : i \in DOMAIN emitted}
WasDiscarded == {d[1] : d \in discarded}

\* What a codec accepts comes out once and in order, whoever receives it, or
\* is still inside, or was thrown away by a call that says so.
\* A flush throws nothing away.
AcceptedComesOut ==
  /\ acceptedObjects = WasEmitted \cup InsideCodec \cup WasDiscarded
  /\ \A i, j \in DOMAIN emitted : i < j => emitted[i] < emitted[j]
  /\ \A d \in discarded : d[2] # "flush" /\ (d[2] # "cut" => d[2] \in company)

\* After a Flush without an error all that had been accepted is out, unless an
\* earlier one was cut off, after which a decoder takes itself for flushed.
FlushedIsOut ==
  doing["flush"] = "done" /\ cuts = 0 => promised \subseteq WasEmitted \cup WasDiscarded

\* A codec that says it is clean is empty, and IsDirty says so only of a kernel
\* that is.  Only a call that was cut off leaves something in a clean codec, and
\* only a change of the resolution leaves a packet on its way out of one.
CleanIsEmpty ==
  cuts = 0 =>
    /\ \A c \in Created : codecs[c].open /\ ~codecs[c].dirty => codecs[c].held = <<>>
    /\ answer = "clean" /\ "resize" \notin company => insideAll = {}

\* A codec that is open is in the table, where Close and ResetHard find it.
OpenIsKept == \A c \in Created : codecs[c].open => c = codecOfStream

\* Only a Flush that was cut off, by its context or by Close, leaves a codec that
\* refuses all that follows.
RefusesAfterCut ==
  cuts = 0 /\ ~kernelClosed => \A c \in Created : codecs[c].ending => codecs[c].lock # Nobody

CodecSafe == AcceptedComesOut /\ FlushedIsOut /\ CleanIsEmpty /\ OpenIsKept /\ RefusesAfterCut

\* Close returns.  That of an encoder does so even if nobody takes what it emits,
\* unless a reset waits for the codec with Locker held.
CodecCloses == doing["close"] # "idle"
CodecClosed ==
  \/ doing["close"] = "done" \/ ~Alive \/ doing["reset"] = "stuck"
  \/ ~drained /\ (codecKind = "decoder" \/ kernelLock = "reset")
=============================================================================
