----------------------------- MODULE CodecProofs -----------------------------
(***************************************************************************)
(* Proofs about the kernels with codecs: the encoder and the decoder, where*)
(* what libav holds back is accounted for, and the transcoder that is made *)
(* of both.  Each has an inductive invariant of its own.                   *)
(***************************************************************************)
EXTENDS MCKernels, SequencesExt, SequenceTheorems, FiniteSetTheorems, WellFoundedInduction, TLAPS

----------------------------------------------------------------------------
(* CodecKernel.                                                            *)

Places == {"idle", "failed", "get", "stream", "check", "type", "enter", "put", "request", "receive", "emit", "forget",
           "remove", "stuck", "done", "crashed"}
HasLock == {"put", "request", "receive", "emit", "forget", "stuck"}
Codecs == [open : BOOLEAN, ending : BOOLEAN, held : Seq(Objects), giving : BOOLEAN, dirty : BOOLEAN,
           lock : Callers \cup {Nobody}, keySeen : BOOLEAN, next : BOOLEAN]

CodecTypes ==
  /\ codecKind \in {"encoder", "decoder"} /\ delay \in {0, 1}
  /\ canFlush \in BOOLEAN /\ reentrant \in BOOLEAN /\ drained \in BOOLEAN
  /\ kernelClosed \in BOOLEAN /\ hasStream \in BOOLEAN /\ dirtyCache \in BOOLEAN
  /\ kernelLock \in Callers \cup {Nobody}
  /\ codecs \in Seq(Codecs) /\ Len(codecs) <= MaxCodecs /\ codecOfStream \in 0..Len(codecs)
  /\ doing \in [Callers -> Places] /\ with \in [Callers -> 0..Len(codecs)]
  /\ loop \in [Callers -> {"none", "sent", "retry", "before", "after"}]
  /\ received \in [Callers -> 0..MaxInputs] /\ input \in 1..MaxInputs + 1 /\ cuts \in 0..MaxCuts
  /\ acceptedObjects \subseteq Objects /\ emitted \in Seq(Objects) /\ promised \subseteq acceptedObjects
  /\ answer \in {"none", "clean", "dirty"}

\* No call was cut off, and Close has cut off none.
Uncut == cuts = 0 /\ (codecKind = "decoder" \/ ~kernelClosed)

\* Where a call is, and what it has of the locks.
CallPlace(p) ==
  /\ doing[p] \in HasLock => with[p] \in Created /\ Codec(p).lock = p
  /\ doing[p] \in {"stream", "check", "type", "enter", "remove"} => with[p] \in Created
  /\ p \in {"close", "reset"} /\ doing[p] \in HasLock \cup {"enter", "remove"} => kernelLock = p /\ with[p] = codecOfStream
  /\ p # "send" => (doing[p] # "idle" => p \in company) /\ loop[p] # "sent"
  /\ p = "resize" /\ doing[p] # "idle" => codecKind = "encoder"
  /\ received[p] # NoObject <=> doing[p] = "emit"

\* What it knows of the codec whose lock it has.
CallCodec(p) ==
  /\ doing[p] = "forget" => Codec(p).held = <<>>
  /\ delay = 0 /\ doing[p] \in {"put", "emit"} => Codec(p).held = <<>>
  /\ (Uncut /\ doing[p] = "put") \/ ((Uncut \/ delay = 0) /\ doing[p] = "request") => ~Codec(p).ending
  /\ Uncut /\ codecKind = "encoder" /\ doing[p] \in {"receive", "emit"} /\ loop[p] # "after" => ~Codec(p).ending
  /\ codecKind = "decoder" /\ doing[p] \in {"receive", "emit"} /\ loop[p] = "after" => Codec(p).ending
  /\ codecKind = "encoder" /\ doing[p] = "request" => loop[p] = "after"
  /\ cuts = 0 /\ "resize" \notin company /\ doing[p] = "emit" => Codec(p).dirty

\* A codec that is open or in use is that of the stream.
CodecPlace(c) ==
  /\ codecs[c].lock # Nobody => with[codecs[c].lock] = c /\ doing[codecs[c].lock] \in HasLock \cup {"crashed"}
  /\ codecs[c].open \/ codecs[c].lock # Nobody => c = codecOfStream

\* What it holds.
CodecHolds(codec) ==
  /\ ~codec.open => codec.held = <<>>
  /\ codec.next => codecKind = "encoder" /\ "resize" \in company
  /\ delay = 0 => Len(codec.held) <= 1 /\ (codec.held # <<>> => codec.giving /\ codec.lock # Nobody)
  /\ cuts = 0 /\ codec.open /\ ~codec.dirty => codec.held = <<>>
  /\ Uncut /\ codec.ending => codec.lock # Nobody

\* Objects are in order on their way through the codec and the call.
Sorted(objects) == \A i, j \in DOMAIN objects : i < j => objects[i] < objects[j]
SendHasPut == doing["send"] \in {"request", "receive", "emit", "forget"} /\ loop["send"] = "sent"
ObjectsInOrder ==
  /\ Sorted(emitted) /\ \A c \in Created : Sorted(codecs[c].held)
  /\ \A i \in DOMAIN emitted : \A p \in Callers : received[p] # NoObject => emitted[i] < received[p]
  /\ \A i \in DOMAIN emitted : \A c \in Created : \A o \in Contents(c) : emitted[i] < o
  /\ \A p \in Callers : received[p] # NoObject => \A c \in Created : \A o \in Contents(c) : received[p] < o

\* The next object comes after those that were accepted.
InputComesAfter ==
  /\ doing["send"] # "crashed" =>
       \A o \in acceptedObjects : o <= input /\ (~SendHasPut => o < input)
  /\ doing["send"] \notin {"idle", "failed"} => input <= MaxInputs

CodecFates ==
  /\ acceptedObjects = WasEmitted \cup InsideCodec \cup WasDiscarded
  /\ \A d \in discarded : d[2] # "flush" /\ (d[2] # "cut" => d[2] \in company)
  /\ kernelClosed => "close" \in company
  /\ FlushedIsOut
  /\ cuts = 0 /\ answer = "clean" /\ "resize" \notin company => insideAll = {}

CodecInv ==
  /\ CodecTypes /\ (\A p \in Callers : CallPlace(p) /\ CallCodec(p))
  /\ (\A c \in Created : CodecPlace(c) /\ CodecHolds(codecs[c]))
  /\ ObjectsInOrder /\ InputComesAfter /\ CodecFates

\* The fields of a codec.
LEMMA CodecFields ==
  ASSUME NEW codec \in Codecs
  PROVE  /\ codec.open \in BOOLEAN /\ codec.ending \in BOOLEAN /\ codec.held \in Seq(Objects) /\ codec.giving \in BOOLEAN
         /\ codec.dirty \in BOOLEAN /\ codec.lock \in Callers \cup {Nobody} /\ codec.keySeen \in BOOLEAN
         /\ codec.next \in BOOLEAN
BY DEF Codecs

\* The codecs have them.
LEMMA CodecsAre ==
  ASSUME CodecTypes, NEW c \in Created
  PROVE  codecs[c] \in Codecs /\ c \in 1..Len(codecs) /\ c # NoCodec
<1>1. Len(codecs) \in Nat /\ DOMAIN codecs = 1..Len(codecs) /\ \A i \in 1..Len(codecs) : codecs[i] \in Codecs
  BY DEF CodecTypes
<1>q. QED  BY <1>1 DEF Created, NoCodec

\* What a step of the call p does with the others: nothing; it changes a codec only that
\* is its own or nobody's, and the table only if Locker is.
Others(p) ==
  /\ UNCHANGED settings /\ (cuts' = 0 => cuts = 0) /\ (kernelClosed => kernelClosed')
  /\ doing' \in [Callers -> Places] /\ with' \in [Callers -> 0..Len(codecs')] /\ received' \in [Callers -> 0..MaxInputs]
  /\ loop' \in [Callers -> {"none", "sent", "retry", "before", "after"}]
  /\ \A q \in Callers \ {p} : /\ doing'[q] = doing[q] /\ with'[q] = with[q]
                              /\ loop'[q] = loop[q] /\ received'[q] = received[q]
  /\ kernelLock \in {Nobody, p} \/ UNCHANGED <<kernelLock, codecOfStream>>
  /\ Created \subseteq Created'
  /\ \A c \in Created : codecs'[c] = codecs[c] \/ codecs[c].lock \in {Nobody, p}

\* No cut now is none before.
LEMMA UncutBefore ==
  ASSUME UNCHANGED settings, cuts' = 0 => cuts = 0, kernelClosed => kernelClosed', Uncut'
  PROVE  Uncut
BY DEF Uncut, settings

\* So the facts of the others stay.
LEMMA OtherCallsKeep ==
  ASSUME CodecInv, NEW p \in Callers, Others(p), NEW q \in Callers \ {p}
  PROVE  CallPlace(q)' /\ CallCodec(q)'
<1>1. CallPlace(q) /\ CallCodec(q)
  BY DEF CodecInv
<1>2. doing'[q] = doing[q] /\ with'[q] = with[q] /\ loop'[q] = loop[q] /\ received'[q] = received[q]
  BY DEF Others
<1>3. q # Nobody
  BY DEF Callers, Nobody
<1>4. ASSUME doing[q] \in HasLock  PROVE Codec(q)' = Codec(q) /\ with[q] \in Created
  BY <1>1, <1>2, <1>3, <1>4 DEF CallPlace, Codec, Others
<1>5. CallPlace(q)'
  <2>1. doing'[q] \in HasLock => with'[q] \in Created' /\ Codec(q)'.lock = q
    BY <1>1, <1>2, <1>4 DEF CallPlace, Others
  <2>2. doing'[q] \in {"stream", "check", "type", "enter", "remove"} => with'[q] \in Created'
    BY <1>1, <1>2 DEF CallPlace, Others
  <2>3. q \in {"close", "reset"} /\ doing'[q] \in HasLock \cup {"enter", "remove"} => kernelLock' = q /\ with'[q] = codecOfStream'
    BY <1>1, <1>2, <1>3 DEF CallPlace, Others
  <2>4. q # "send" => (doing'[q] # "idle" => q \in company') /\ loop'[q] # "sent"
    BY <1>1, <1>2 DEF CallPlace, Others, settings
  <2>5. received'[q] # NoObject <=> doing'[q] = "emit"
    BY <1>1, <1>2 DEF CallPlace
  <2>6. q = "resize" /\ doing'[q] # "idle" => codecKind' = "encoder"
    BY <1>1, <1>2 DEF CallPlace, Others, settings
  <2>q. QED  BY <2>1, <2>2, <2>3, <2>4, <2>5, <2>6 DEF CallPlace, Codec
<1>6. CallCodec(q)'
  <2>1. Uncut' => Uncut
    BY UncutBefore DEF Others
  <2>2. company' = company /\ delay' = delay /\ codecKind' = codecKind /\ (cuts' = 0 => cuts = 0)
    BY DEF Others, settings
  <2>3. CASE doing[q] \in HasLock
    BY <2>1, <2>2, <2>3, <1>1, <1>2, <1>4 DEF CallCodec
  <2>4. CASE doing[q] \notin HasLock
    BY <2>4, <1>2 DEF CallCodec, HasLock
  <2>q. QED  BY <2>3, <2>4
<1>q. QED  BY <1>5, <1>6

\* And those of a codec that it leaves alone.
LEMMA CodecStays ==
  ASSUME CodecInv, NEW p \in Callers, Others(p), NEW c \in Created, codecs'[c] = codecs[c],
         codecs[c].lock = p => with'[p] = c /\ doing'[p] \in HasLock \cup {"crashed"},
         codecs[c].open \/ codecs[c].lock # Nobody => codecOfStream' = codecOfStream
  PROVE  CodecPlace(c)' /\ CodecHolds(codecs[c])'
<1>1. CodecPlace(c) /\ CodecHolds(codecs[c]) /\ codecs[c].lock \in Callers \cup {Nobody}
  BY CodecsAre, CodecFields DEF CodecInv
<1>2. CodecPlace(c)'
  BY <1>1 DEF CodecPlace, Others
<1>3. Uncut' => Uncut
  BY UncutBefore DEF Others
<1>4. CodecHolds(codecs[c])'
  BY <1>1, <1>3 DEF CodecHolds, Others, settings
<1>q. QED  BY <1>2, <1>4

\* Where nothing is added the order stays.
LEMMA ObjectsStayInOrder ==
  ASSUME CodecInv, emitted' = emitted, \A p \in Callers : received'[p] \in {received[p], NoObject},
         \A c \in Created' : codecs'[c].held = <<>> \/ (c \in Created /\ codecs'[c].held = codecs[c].held)
  PROVE  ObjectsInOrder'
<1>1. ObjectsInOrder
  BY DEF CodecInv
<1>2. \A c \in Created' : Contents(c)' = {} \/ (c \in Created /\ Contents(c)' = Contents(c))
  BY DEF Contents
<1>3. Sorted(emitted') /\ \A c \in Created' : Sorted(codecs'[c].held)
  <2>1. Sorted(<<>>)
    BY DEF Sorted
  <2>q. QED  BY <1>1, <2>1 DEF ObjectsInOrder
<1>4. \A i \in DOMAIN emitted' : \A p \in Callers : received'[p] # NoObject => emitted'[i] < received'[p]
  BY <1>1 DEF ObjectsInOrder
<1>5. \A i \in DOMAIN emitted' : \A c \in Created' : \A o \in Contents(c)' : emitted'[i] < o
  BY <1>1, <1>2 DEF ObjectsInOrder
<1>6. \A p \in Callers : received'[p] # NoObject => \A c \in Created' : \A o \in Contents(c)' : received'[p] < o
  BY <1>1, <1>2 DEF ObjectsInOrder
<1>7. (\A c \in Created : Sorted(codecs[c].held))' <=> \A c \in Created' : Sorted(codecs'[c].held)
  BY DEF Sorted
<1>8. Sorted(emitted)' <=> Sorted(emitted')
  BY DEF Sorted
<1>q. QED  BY <1>3, <1>4, <1>5, <1>6, <1>7, <1>8 DEF ObjectsInOrder

\* What is in a codec and in the hands of a call.
Here(p, c) == (Contents(c) \cup {received[p]}) \ {NoObject}

\* What moves between them, and out, or is lost, is still accounted for.
LEMMA FatesMove ==
  ASSUME CodecInv, NEW p \in Callers, NEW c \in Created, Created' = Created,
         \A d \in Created \ {c} : codecs'[d].held = codecs[d].held,
         \A q \in Callers \ {p} : received'[q] = received[q],
         NEW put, NEW out, NEW lost,
         acceptedObjects' = acceptedObjects \cup put, WasEmitted' = WasEmitted \cup out,
         WasDiscarded' = WasDiscarded \cup lost,
         Here(p, c)' \cup out \cup lost = Here(p, c) \cup put
  PROVE  acceptedObjects' = WasEmitted' \cup InsideCodec' \cup WasDiscarded'
<1> DEFINE Elsewhere == ((UNION {Contents(d) : d \in Created \ {c}}) \cup {received[q] : q \in Callers \ {p}}) \ {NoObject}
<1>1. InsideCodec = Elsewhere \cup Here(p, c)
  <2>1. UNION {Contents(d) : d \in Created} = (UNION {Contents(d) : d \in Created \ {c}}) \cup Contents(c)
    OBVIOUS
  <2>2. {received[q] : q \in Callers} = {received[q] : q \in Callers \ {p}} \cup {received[p]}
    OBVIOUS
  <2>q. QED  BY <2>1, <2>2 DEF InsideCodec, Here
<1>2. \A d \in Created \ {c} : Contents(d)' = Contents(d)
  BY DEF Contents
<1>3. UNION {Contents(d)' : d \in Created' \ {c}} = UNION {Contents(d) : d \in Created \ {c}}
  BY <1>2
<1>4. {received'[q] : q \in Callers \ {p}} = {received[q] : q \in Callers \ {p}}
  OBVIOUS
<1>5. InsideCodec' = Elsewhere \cup Here(p, c)'
  <2>1. InsideCodec' = (((UNION {Contents(d)' : d \in Created' \ {c}}) \cup {received'[q] : q \in Callers \ {p}}) \ {NoObject}) \cup Here(p, c)'
    <3>1. UNION {Contents(d)' : d \in Created'} = (UNION {Contents(d)' : d \in Created' \ {c}}) \cup Contents(c)'
      OBVIOUS
    <3>2. {received'[q] : q \in Callers} = {received'[q] : q \in Callers \ {p}} \cup {received'[p]}
      OBVIOUS
    <3>q. QED  BY <3>1, <3>2 DEF InsideCodec, Here
  <2>q. QED  BY <2>1, <1>3, <1>4
<1>6. acceptedObjects = WasEmitted \cup InsideCodec \cup WasDiscarded
  BY DEF CodecInv, CodecFates
<1> HIDE DEF Elsewhere
<1>q. QED  BY <1>1, <1>5, <1>6

\* What is thrown away is listed.
LEMMA DiscardAdds ==
  ASSUME NEW objects, NEW reason, discarded' = discarded \cup {<<o, reason>> : o \in objects}
  PROVE  WasDiscarded' = WasDiscarded \cup objects
<1>1. \A o : <<o, reason>>[1] = o
  OBVIOUS
<1>2. WasDiscarded' = {d[1] : d \in discarded} \cup {d[1] : d \in {<<o, reason>> : o \in objects}}
  BY DEF WasDiscarded
<1>3. {d[1] : d \in {<<o, reason>> : o \in objects}} = objects
  BY <1>1
<1>q. QED  BY <1>2, <1>3 DEF WasDiscarded

\* The calls and the codecs are as they should be.
CallsAndCodecs ==
  /\ \A p \in Callers : CallPlace(p) /\ CallCodec(p)
  /\ \A c \in Created : CodecPlace(c) /\ CodecHolds(codecs[c])

TablesTyped ==
  /\ codecs \in Seq(Codecs) /\ Len(codecs) <= MaxCodecs /\ codecOfStream \in 0..Len(codecs)
  /\ doing \in [Callers -> Places] /\ with \in [Callers -> 0..Len(codecs)]
  /\ loop \in [Callers -> {"none", "sent", "retry", "before", "after"}]
  /\ received \in [Callers -> 0..MaxInputs]

\* The call p moves on to a place, with the codec w, and no codec changes.
Walks(p, place, w) ==
  /\ UNCHANGED <<settings, codecs, codecOfStream, loop, received, acceptedObjects, emitted, discarded, cuts>>
  /\ kernelClosed => kernelClosed'
  /\ To(p, place) /\ place \in Places \ HasLock
  /\ with' \in [Callers -> 0..Len(codecs)] /\ with'[p] = w /\ \A q \in Callers \ {p} : with'[q] = with[q]
  /\ doing[p] \notin HasLock \/ (place = "crashed" /\ w = with[p])
  /\ doing[p] # "emit"
  /\ place \in {"stream", "check", "type", "enter", "remove"} => w \in Created
  /\ p \in {"close", "reset"} /\ place \in {"enter", "remove"} => kernelLock' = p /\ w = codecOfStream
  /\ kernelLock = Nobody \/ kernelLock' = kernelLock
  /\ p \in company \cup {"send"} /\ (p = "resize" => codecKind = "encoder")

\* Such a step keeps what the invariant says of calls, codecs and objects.
LEMMA WalkKeeps ==
  ASSUME CodecInv, NEW p \in Callers, NEW place, NEW w, Walks(p, place, w), doing[p] # "crashed"
  PROVE  CallsAndCodecs' /\ TablesTyped' /\ ObjectsInOrder' /\ acceptedObjects' = WasEmitted' \cup InsideCodec' \cup WasDiscarded'
<1>1. codecs' = codecs /\ codecOfStream' = codecOfStream /\ loop' = loop /\ received' = received /\ Created' = Created
      /\ emitted' = emitted /\ discarded' = discarded /\ cuts' = cuts /\ company' = company /\ UNCHANGED settings
  BY DEF Walks, settings, Created
<1>2. TablesTyped
  BY DEF CodecInv, CodecTypes, TablesTyped
<1>3. doing' \in [Callers -> Places] /\ doing'[p] = place /\ \A q \in Callers \ {p} : doing'[q] = doing[q]
  BY <1>2 DEF TablesTyped, Walks, To
<1>4. TablesTyped'
  BY <1>1, <1>2, <1>3 DEF TablesTyped, Walks
<1>5. Others(p)
  BY <1>1, <1>2, <1>3 DEF TablesTyped, Walks, Others
<1>6. \A q \in Callers \ {p} : CallPlace(q)' /\ CallCodec(q)'
  BY <1>5, OtherCallsKeep
<1>7. CallPlace(p) /\ place \notin HasLock
  BY DEF CodecInv, Walks
<1>8. CallPlace(p)'
  <2>1. doing'[p] \notin HasLock /\ received'[p] = NoObject /\ doing'[p] # "emit"
    BY <1>1, <1>3, <1>7 DEF CallPlace, HasLock, Walks
  <2>2. doing'[p] \in {"stream", "check", "type", "enter", "remove"} => with'[p] \in Created'
    BY <1>1, <1>3 DEF Walks
  <2>3. p \in {"close", "reset"} /\ doing'[p] \in {"enter", "remove"} => kernelLock' = p /\ with'[p] = codecOfStream'
    BY <1>1, <1>3 DEF Walks
  <2>4. p # "send" => (doing'[p] # "idle" => p \in company') /\ loop'[p] # "sent"
    BY <1>1, <1>7 DEF CallPlace, Walks
  <2>5. p = "resize" => codecKind' = "encoder"
    BY DEF Walks, settings
  <2>q. QED  BY <2>1, <2>2, <2>3, <2>4, <2>5 DEF CallPlace
<1>9. CallCodec(p)'
  BY <1>3, <1>7 DEF CallCodec, HasLock
<1>10. ASSUME NEW c \in Created  PROVE CodecPlace(c)' /\ CodecHolds(codecs[c])'
  <2>1. codecs[c].lock = p => with'[p] = c /\ doing'[p] \in HasLock \cup {"crashed"}
    <3>1. p # Nobody
      BY DEF Callers, Nobody
    <3>q. QED  BY <3>1, <1>3 DEF CodecInv, CodecPlace, Walks
  <2>q. QED  BY <2>1, <1>1, <1>5, CodecStays
<1>11. CallsAndCodecs'
  BY <1>1, <1>6, <1>8, <1>9, <1>10 DEF CallsAndCodecs
<1>12. ObjectsInOrder'
  BY <1>1, ObjectsStayInOrder
<1>13. acceptedObjects' = WasEmitted' \cup InsideCodec' \cup WasDiscarded'
  <2>1. WasEmitted' = WasEmitted /\ InsideCodec' = InsideCodec /\ WasDiscarded' = WasDiscarded /\ acceptedObjects' = acceptedObjects
    BY <1>1 DEF WasEmitted, InsideCodec, WasDiscarded, Contents, Walks
  <2>q. QED  BY <2>1 DEF CodecInv, CodecFates
<1>q. QED  BY <1>4, <1>11, <1>12, <1>13

\* The call p moves on to a place and leaves its codec, which is free or its own, as new.
Works(p, place, new) ==
  /\ UNCHANGED <<settings, with, kernelClosed>> /\ (cuts' = 0 => cuts = 0)
  /\ with[p] \in Created /\ Update(p, new) /\ new \in Codecs /\ Codec(p).lock \in {Nobody, p}
  /\ new.lock = (IF place \in HasLock \cup {"crashed"} THEN p ELSE Nobody)
  /\ To(p, place) /\ place \in Places \ {"stream", "check", "type", "enter", "remove"}
  /\ loop' \in [Callers -> {"none", "sent", "retry", "before", "after"}] /\ received' \in [Callers -> 0..MaxInputs]
  /\ \A q \in Callers \ {p} : loop'[q] = loop[q] /\ received'[q] = received[q]
  /\ received'[p] # NoObject <=> place = "emit"
  /\ doing[p] \in HasLock \cup {"enter", "remove"}
  /\ loop'[p] = "sent" => p = "send"
  /\ kernelLock \in {Nobody, p} \/ UNCHANGED <<kernelLock, codecOfStream>>
  /\ place \in HasLock => UNCHANGED <<kernelLock, codecOfStream>>
  /\ UNCHANGED codecOfStream \/ (codecOfStream' = NoCodec /\ codecOfStream = with[p])
  /\ new.open \/ new.lock # Nobody => with[p] = codecOfStream'

\* Such a step keeps what the invariant says of the other calls and codecs, and of the
\* places of this one.
LEMMA WorkKeeps ==
  ASSUME CodecInv, NEW p \in Callers, NEW place, NEW new, Works(p, place, new), CodecHolds(new)', CallCodec(p)'
  PROVE  CallsAndCodecs' /\ TablesTyped'
<1>c. PICK c : c = with[p]
  OBVIOUS
<1>1. TablesTyped /\ Len(codecs) \in Nat /\ c \in Created /\ DOMAIN codecs = 1..Len(codecs) /\ c \in 1..Len(codecs)
  BY <1>c DEF CodecInv, CodecTypes, TablesTyped, Created, Works
<1>2. codecs' \in Seq(Codecs) /\ Len(codecs') = Len(codecs) /\ Created' = Created
      /\ codecs'[c] = new /\ \A d \in Created \ {c} : codecs'[d] = codecs[d]
  BY <1>1, <1>c DEF TablesTyped, Works, Update, Created
<1>3. doing' \in [Callers -> Places] /\ doing'[p] = place /\ \A q \in Callers \ {p} : doing'[q] = doing[q]
  BY <1>1 DEF TablesTyped, Works, To
<1>4. with' = with /\ (codecOfStream' = codecOfStream \/ codecOfStream' = 0)
  BY DEF Works, NoCodec
<1>5. codecOfStream' \in 0..Len(codecs)
  BY <1>1, <1>4 DEF TablesTyped
<1>6. TablesTyped'
  BY <1>1, <1>2, <1>3, <1>4, <1>5 DEF TablesTyped, Works
<1>7. Others(p)
  <2>1. \A d \in Created : codecs'[d] = codecs[d] \/ codecs[d].lock \in {Nobody, p}
    BY <1>2, <1>c DEF Works, Codec
  <2>2. with' \in [Callers -> 0..Len(codecs')]
    BY <1>6 DEF TablesTyped
  <2>q. QED  BY <1>2, <1>3, <1>4, <2>1, <2>2 DEF Others, Works
<1>8. CallPlace(p) /\ p # Nobody
  BY DEF CodecInv, Callers, Nobody
<1>9. CallPlace(p)'
  <2>1. doing'[p] \in HasLock => with'[p] \in Created' /\ Codec(p)'.lock = p
    BY <1>1, <1>2, <1>3, <1>4, <1>c DEF Works, Codec
  <2>2. doing'[p] \notin {"stream", "check", "type", "enter", "remove"}
    BY <1>3 DEF Works
  <2>3. p \in {"close", "reset"} /\ doing'[p] \in HasLock => kernelLock' = p /\ with'[p] = codecOfStream'
    BY <1>3, <1>4, <1>8 DEF Works, CallPlace
  <2>4. p # "send" => (doing'[p] # "idle" => p \in company') /\ loop'[p] # "sent"
    <3>1. doing[p] # "idle" /\ company' = company
      BY DEF Works, HasLock, settings
    <3>q. QED  BY <3>1, <1>8 DEF CallPlace, Works
  <2>5. received'[p] # NoObject <=> doing'[p] = "emit"
    BY <1>3 DEF Works
  <2>6. p = "resize" => codecKind' = "encoder"
    <3>1. doing[p] # "idle" /\ codecKind' = codecKind
      BY DEF Works, HasLock, settings
    <3>q. QED  BY <3>1, <1>8 DEF CallPlace
  <2>q. QED  BY <2>1, <2>2, <2>3, <2>4, <2>5, <2>6 DEF CallPlace, Codec
<1>10. \A q \in Callers : CallPlace(q)' /\ CallCodec(q)'
  BY <1>7, <1>9, OtherCallsKeep
<1>11. CodecPlace(c)' /\ CodecHolds(codecs[c])'
  <2>1. CodecHolds(codecs[c])'
    BY <1>2, <1>c DEF CodecHolds
  <2>2. codecs'[c].lock # Nobody => codecs'[c].lock = p /\ place \in HasLock \cup {"crashed"} /\ with'[p] = c
    BY <1>2, <1>4, <1>c DEF Works
  <2>3. codecs'[c].open \/ codecs'[c].lock # Nobody => c = codecOfStream'
    BY <1>2, <1>c DEF Works
  <2>4. CodecPlace(c)'
    BY <2>2, <2>3, <1>3 DEF CodecPlace
  <2>q. QED  BY <2>1, <2>4
<1>12. ASSUME NEW d \in Created \ {c}  PROVE CodecPlace(d)' /\ CodecHolds(codecs[d])'
  <2>1. codecs[d].lock # p
    BY <1>8, <1>12, <1>c DEF CodecInv, CodecPlace
  <2>2. codecs[d].open \/ codecs[d].lock # Nobody => d = codecOfStream
    BY DEF CodecInv, CodecPlace
  <2>3. codecs[d].open \/ codecs[d].lock # Nobody => codecOfStream' = codecOfStream
    BY <2>2, <1>12, <1>c DEF Works
  <2>q. QED  BY <2>1, <2>3, <1>2, <1>7, CodecStays
<1>q. QED  BY <1>2, <1>6, <1>10, <1>11, <1>12 DEF CallsAndCodecs

RestTyped ==
  /\ kernelClosed \in BOOLEAN /\ hasStream \in BOOLEAN /\ dirtyCache \in BOOLEAN /\ kernelLock \in Callers \cup {Nobody}
  /\ input \in 1..MaxInputs + 1 /\ cuts \in 0..MaxCuts
  /\ acceptedObjects \subseteq Objects /\ emitted \in Seq(Objects) /\ promised \subseteq acceptedObjects
  /\ answer \in {"none", "clean", "dirty"}

OtherFates ==
  /\ \A d \in discarded : d[2] # "flush" /\ (d[2] # "cut" => d[2] \in company)
  /\ kernelClosed => "close" \in company
  /\ FlushedIsOut
  /\ cuts = 0 /\ answer = "clean" /\ "resize" \notin company => insideAll = {}

\* The invariant, of its parts.
LEMMA CodecParts ==
  ASSUME CodecInv, UNCHANGED settings, TablesTyped', RestTyped', CallsAndCodecs', ObjectsInOrder', InputComesAfter',
         acceptedObjects' = WasEmitted' \cup InsideCodec' \cup WasDiscarded', OtherFates'
  PROVE  CodecInv'
<1>1. CodecTypes'
  <2>1. codecKind' \in {"encoder", "decoder"} /\ delay' \in {0, 1}
    BY DEF settings, CodecInv, CodecTypes
  <2>2. canFlush' \in BOOLEAN /\ reentrant' \in BOOLEAN /\ drained' \in BOOLEAN
    BY DEF settings, CodecInv, CodecTypes
  <2>q. QED  BY <2>1, <2>2 DEF CodecTypes, TablesTyped, RestTyped
<1>2. CodecFates'
  BY DEF CodecFates, OtherFates
<1>q. QED  BY <1>1, <1>2 DEF CodecInv, CallsAndCodecs

\* The fates of the objects stay true when some more are out or discarded.
LEMMA FatesStay ==
  ASSUME CodecInv, UNCHANGED settings, cuts' = 0 => cuts = 0, promised' = promised \/ doing'["flush"] # "done",
         WasEmitted \subseteq WasEmitted', WasDiscarded \subseteq WasDiscarded',
         \A d \in discarded' : d \in discarded \/ (d[2] # "flush" /\ (d[2] # "cut" => d[2] \in company)),
         kernelClosed' => kernelClosed \/ "close" \in company,
         doing'["flush"] = "done" /\ cuts = 0 => doing["flush"] = "done" \/ promised \subseteq WasEmitted' \cup WasDiscarded',
         UNCHANGED <<answer, insideAll>> \/ answer' # "clean" \/ insideAll' = {} \/ cuts # 0 \/ "resize" \in company
  PROVE  OtherFates'
<1>1. company' = company
  BY DEF settings
<1>2. (\A d \in discarded : d[2] # "flush" /\ (d[2] # "cut" => d[2] \in company)) /\ (kernelClosed => "close" \in company)
      /\ FlushedIsOut /\ (cuts = 0 /\ answer = "clean" /\ "resize" \notin company => insideAll = {})
  BY DEF CodecInv, CodecFates
<1>3. FlushedIsOut'
  BY <1>1, <1>2 DEF FlushedIsOut
<1>4. cuts' = 0 /\ answer' = "clean" /\ "resize" \notin company' => insideAll' = {}
  BY <1>1, <1>2
<1>q. QED  BY <1>1, <1>2, <1>3, <1>4 DEF OtherFates

\* What is inside is in the codec of the stream, or in the hands of who has its lock.
LEMMA InsideIsCurrent ==
  ASSUME CodecInv, NEW o \in InsideCodec
  PROVE  \/ codecOfStream \in Created /\ codecs[codecOfStream].open /\ o \in Contents(codecOfStream)
         \/ \E p \in Callers : /\ doing[p] = "emit" /\ received[p] = o /\ with[p] = codecOfStream /\ codecOfStream \in Created
                               /\ codecs[codecOfStream].lock = p
<1>1. CASE \E c \in Created : o \in Contents(c)
  <2>1. PICK c \in Created : o \in Contents(c)
    BY <1>1
  <2>2. codecs[c].held # <<>>
    BY <2>1 DEF Contents
  <2>3. codecs[c].open /\ c = codecOfStream
    BY <2>2 DEF CodecInv, CodecPlace, CodecHolds
  <2>q. QED  BY <2>1, <2>3
<1>2. CASE \E p \in Callers : o = received[p] /\ o # NoObject
  <2>1. PICK p \in Callers : o = received[p] /\ received[p] # NoObject
    BY <1>2
  <2>2. p # Nobody
    BY DEF Callers, Nobody
  <2>3. doing[p] = "emit" /\ with[p] \in Created /\ Codec(p).lock = p
    BY <2>1 DEF CodecInv, CallPlace, HasLock
  <2>4. with[p] = codecOfStream
    BY <2>2, <2>3 DEF CodecInv, CodecPlace, Codec
  <2>q. QED  BY <2>1, <2>3, <2>4 DEF Codec
<1>q. QED  BY <1>1, <1>2 DEF InsideCodec

\* The next object still comes after those accepted.
LEMMA InputStays ==
  ASSUME CodecInv, acceptedObjects' = acceptedObjects, input' = input,
         doing'["send"] = doing["send"], loop'["send"] = loop["send"]
  PROVE  InputComesAfter' /\ input' \in 1..MaxInputs + 1
BY DEF CodecInv, CodecTypes, InputComesAfter, SendHasPut

\* Also when SendInput goes on to the next or has not put it yet.
LEMMA InputMoves ==
  ASSUME CodecInv, acceptedObjects' = acceptedObjects, NEW place, doing'["send"] = place, doing["send"] # "crashed",
         \/ input' = input /\ (place \notin {"idle", "failed"} => input <= MaxInputs)
            /\ (place = "crashed" \/ SendHasPut' \/ ~SendHasPut)
         \/ input' = input + 1 /\ place \in {"idle", "failed"} /\ input <= MaxInputs
  PROVE  InputComesAfter' /\ input' \in 1..MaxInputs + 1
<1>1. input \in 1..MaxInputs + 1 /\ MaxInputs \in Nat /\ acceptedObjects \subseteq Objects
  BY CodecAssumption DEF CodecInv, CodecTypes
<1>2. \A o \in acceptedObjects : o \in Nat /\ o <= input /\ (~SendHasPut => o < input)
  <2>1. \A o \in Objects : o \in Nat
    BY <1>1 DEF Objects
  <2>q. QED  BY <2>1, <1>1 DEF CodecInv, InputComesAfter
<1>3. CASE input' = input + 1 /\ place \in {"idle", "failed"} /\ input <= MaxInputs
  <2>1. \A o \in acceptedObjects : o <= input' /\ o < input'
    BY <1>1, <1>2, <1>3
  <2>2. input' \in 1..MaxInputs + 1
    BY <1>1, <1>3
  <2>q. QED  BY <2>1, <2>2, <1>3 DEF InputComesAfter
<1>4. CASE input' = input /\ (place \notin {"idle", "failed"} => input <= MaxInputs)
            /\ (place = "crashed" \/ SendHasPut' \/ ~SendHasPut)
  BY <1>1, <1>2, <1>4 DEF InputComesAfter
<1>q. QED  BY <1>3, <1>4

\* Of a codec without a delay or without a request to end.
LEMMA CodecInitially ==
  ASSUME CodecInit
  PROVE  CodecInv
<1>1. Created = {} /\ codecs = <<>> /\ Len(codecs) = 0 /\ codecs \in Seq(Codecs) /\ emitted = <<>> /\ emitted \in Seq(Objects)
      /\ codecOfStream = 0
  <2>1. <<>> \in Seq(Codecs) /\ <<>> \in Seq(Objects) /\ Len(<<>>) = 0 /\ DOMAIN <<>> = {}
    OBVIOUS
  <2>q. QED  BY <2>1 DEF CodecInit, Created, NoCodec
<1>2. \A p \in Callers : doing[p] = "idle" /\ with[p] = 0 /\ loop[p] = "none" /\ received[p] = 0
  BY DEF CodecInit, NoCodec, NoObject
<1>3. CodecTypes
  <2>1. input \in 1..MaxInputs + 1 /\ cuts \in 0..MaxCuts /\ Len(codecs) <= MaxCodecs /\ codecOfStream \in 0..Len(codecs)
    BY <1>1, CodecAssumption DEF CodecInit
  <2>2. doing \in [Callers -> Places] /\ loop \in [Callers -> {"none", "sent", "retry", "before", "after"}]
    BY DEF CodecInit, Places
  <2>3. with \in [Callers -> 0..Len(codecs)] /\ received \in [Callers -> 0..MaxInputs]
    <3>1. 0 \in 0..Len(codecs) /\ 0 \in 0..MaxInputs
      BY <1>1, CodecAssumption
    <3>q. QED  BY <3>1 DEF CodecInit, NoCodec, NoObject
  <2>4. canFlush \in BOOLEAN /\ reentrant \in BOOLEAN /\ drained \in BOOLEAN
    BY DEF CodecInit
  <2>5. kernelClosed \in BOOLEAN /\ hasStream \in BOOLEAN /\ dirtyCache \in BOOLEAN
    BY DEF CodecInit
  <2>6. codecKind \in {"encoder", "decoder"} /\ delay \in {0, 1} /\ kernelLock \in Callers \cup {Nobody}
        /\ acceptedObjects \subseteq Objects /\ promised \subseteq acceptedObjects /\ answer \in {"none", "clean", "dirty"}
    BY DEF CodecInit
  <2>q. QED  BY <1>1, <2>1, <2>2, <2>3, <2>4, <2>5, <2>6 DEF CodecTypes
<1>4. \A p \in Callers : CallPlace(p) /\ CallCodec(p)
  BY <1>2 DEF CallPlace, CallCodec, HasLock, NoObject
<1>5. ObjectsInOrder
  BY <1>1, <1>2 DEF ObjectsInOrder, Sorted, NoObject
<1>6. acceptedObjects = {} /\ discarded = {} /\ promised = {} /\ insideAll = {} /\ kernelClosed = FALSE /\ doing["send"] = "idle"
  BY <1>2 DEF CodecInit, Callers
<1>7. InputComesAfter
  BY <1>6 DEF InputComesAfter
<1>8. InsideCodec = {} /\ WasEmitted = {} /\ WasDiscarded = {}
  BY <1>1, <1>2, <1>6 DEF InsideCodec, WasEmitted, WasDiscarded, NoObject
<1>9. CodecFates
  BY <1>6, <1>8 DEF CodecFates, FlushedIsOut
<1>q. QED  BY <1>1, <1>3, <1>4, <1>5, <1>7, <1>9 DEF CodecInv

\* A call goes on, and nothing happens to the codec and to the objects.
Strolls(p, place, w) ==
  /\ Walks(p, place, w) /\ doing[p] # "crashed"
  /\ promised' = promised \/ (promised' = acceptedObjects /\ p = "flush" /\ place # "done")
  /\ kernelClosed' \in BOOLEAN /\ (kernelClosed' => kernelClosed \/ "close" \in company)
  /\ hasStream' \in BOOLEAN /\ dirtyCache' \in BOOLEAN /\ kernelLock' \in Callers \cup {Nobody}
  /\ UNCHANGED <<answer, insideAll>> \/ answer' \in {"dirty", "none"}
     \/ (answer' = "clean" /\ (insideAll' = {} \/ cuts # 0 \/ "resize" \in company))
  /\ p # "send" => input' = input
  /\ p = "flush" /\ place = "done" => codecOfStream = NoCodec

\* Then the invariant stays.
LEMMA StrollKeeps ==
  ASSUME CodecInv, NEW p \in Callers, NEW place, NEW w, Strolls(p, place, w),
         p = "send" => InputComesAfter' /\ input' \in 1..MaxInputs + 1
  PROVE  CodecInv'
<1>1. CallsAndCodecs' /\ TablesTyped' /\ ObjectsInOrder' /\ acceptedObjects' = WasEmitted' \cup InsideCodec' \cup WasDiscarded'
  BY WalkKeeps DEF Strolls
<1>2. UNCHANGED settings /\ discarded' = discarded /\ emitted' = emitted /\ acceptedObjects' = acceptedObjects /\ cuts' = cuts
      /\ loop' = loop /\ (promised' = promised \/ promised' = acceptedObjects)
  BY DEF Strolls, Walks
<1>d. doing'[p] = place
  BY DEF CodecInv, CodecTypes, Strolls, Walks, To
<1>3. \A q \in Callers \ {p} : doing'[q] = doing[q]
  BY DEF CodecInv, CodecTypes, Strolls, Walks, To
<1>4. p # "send" => InputComesAfter' /\ input' \in 1..MaxInputs + 1
  BY <1>2, <1>3, InputStays DEF Strolls, Callers
<1>5. RestTyped'
  BY <1>2, <1>4 DEF Strolls, CodecInv, CodecTypes, RestTyped
<1>6. WasEmitted' = WasEmitted /\ WasDiscarded' = WasDiscarded
  BY <1>2 DEF WasEmitted, WasDiscarded
<1>7. doing'["flush"] = "done" /\ cuts = 0 => doing["flush"] = "done" \/ promised \subseteq WasEmitted' \cup WasDiscarded'
  <2>1. CASE p = "flush" /\ codecOfStream = NoCodec
    <3>1. NoCodec \notin Created
      BY CodecsAre DEF CodecInv
    <3>2. InsideCodec = {}
      BY <2>1, <3>1, InsideIsCurrent
    <3>q. QED  BY <3>2, <1>6 DEF CodecInv, CodecFates, CodecTypes
  <2>2. CASE p = "flush" /\ codecOfStream # NoCodec
    BY <2>2 DEF CodecInv, CodecTypes, Strolls, Walks, To
  <2>3. CASE p # "flush"
    BY <2>3, <1>3 DEF Callers
  <2>q. QED  BY <2>1, <2>2, <2>3
<1>8. OtherFates'
  <2>1. kernelClosed' => kernelClosed \/ "close" \in company
    BY DEF Strolls
  <2>2. UNCHANGED <<answer, insideAll>> \/ answer' # "clean" \/ insideAll' = {} \/ cuts # 0 \/ "resize" \in company
    BY DEF Strolls
  <2>4. promised' = promised \/ doing'["flush"] # "done"
    BY <1>d DEF Strolls
  <2>3. UNCHANGED settings /\ (cuts' = 0 => cuts = 0) /\ WasEmitted \subseteq WasEmitted' /\ WasDiscarded \subseteq WasDiscarded'
        /\ \A d \in discarded' : d \in discarded \/ (d[2] # "flush" /\ (d[2] # "cut" => d[2] \in company))
    BY <1>2, <1>6
  <2>q. QED  BY <1>7, <2>1, <2>2, <2>3, <2>4, FatesStay
<1>q. QED  BY <1>1, <1>2, <1>4, <1>5, <1>8, CodecParts

\* The call stays with the codec that it has.
LEMMA WithStays ==
  ASSUME CodecInv, with' = with
  PROVE  \A p \in Callers : with' \in [Callers -> 0..Len(codecs)] /\ with'[p] = with[p] /\ \A q \in Callers \ {p} : with'[q] = with[q]
BY DEF CodecInv, CodecTypes

\* Or takes that of the stream.
LEMMA WithTakes ==
  ASSUME CodecInv, NEW p \in Callers, NEW w \in 0..Len(codecs), with' = [with EXCEPT ![p] = w]
  PROVE  with' \in [Callers -> 0..Len(codecs)] /\ with'[p] = w /\ \A q \in Callers \ {p} : with'[q] = with[q]
BY DEF CodecInv, CodecTypes

\* SendInput before it has the codec's lock.
LEMMA SendWalks ==
  ASSUME CodecInv, NEW place, NEW w, Walks("send", place, w), UNCHANGED <<promised, kernelClosed, answer, insideAll>>,
         doing["send"] # "crashed", ~SendHasPut,
         hasStream' \in BOOLEAN, dirtyCache' \in BOOLEAN, kernelLock' \in Callers \cup {Nobody},
         \/ input' = input /\ (place \notin {"idle", "failed"} => input <= MaxInputs)
         \/ input' = input + 1 /\ place \in {"idle", "failed"} /\ input <= MaxInputs
  PROVE  CodecInv'
<1>1. "send" \in Callers /\ Strolls("send", place, w)
  BY DEF Callers, Strolls, CodecInv, CodecTypes
<1>2. acceptedObjects' = acceptedObjects /\ doing'["send"] = place
  BY <1>1 DEF Walks, CodecInv, CodecTypes, To
<1>3. InputComesAfter' /\ input' \in 1..MaxInputs + 1
  BY <1>2, InputMoves
<1>q. QED  BY <1>1, <1>3, StrollKeeps

\* It has not put its object before that.
LEMMA NotPutYet ==
  ASSUME CodecInv, doing["send"] \in {"idle", "failed", "get", "stream", "check", "type", "enter"}
  PROVE  ~SendHasPut /\ doing["send"] \notin HasLock /\ doing["send"] # "emit" /\ doing["send"] # "crashed"
         /\ hasStream \in BOOLEAN /\ dirtyCache \in BOOLEAN /\ kernelLock \in Callers \cup {Nobody}
         /\ (doing["send"] \notin {"idle", "failed"} => input <= MaxInputs)
BY DEF SendHasPut, HasLock, CodecInv, CodecTypes, InputComesAfter

\* It fails.
LEMMA FailingWalks ==
  ASSUME CodecInv, doing["send"] \in {"idle", "failed", "get", "stream", "check", "type", "enter"}, input <= MaxInputs,
         FailSend, UNCHANGED <<settings, table, kernelLock, codecs, with, loop, received, fates, promised, cuts, asking>>
  PROVE  CodecInv'
<1>1. Walks("send", "failed", with["send"])
  BY NotPutYet, WithStays DEF Walks, FailSend, HasLock, Places, table, fates, Callers
<1>q. QED  BY <1>1, NotPutYet, SendWalks DEF FailSend, table, asking

\* It goes on, with the same codec.
LEMMA SendingWalks ==
  ASSUME CodecInv, doing["send"] \in {"idle", "failed", "get", "stream", "check", "type", "enter"},
         NEW place \in {"get", "type", "enter", "crashed"}, To("send", place), input' = input, input <= MaxInputs,
         place \in {"type", "enter"} => with["send"] \in Created,
         UNCHANGED <<settings, table, kernelLock, codecs, with, loop, received, fates, promised, cuts, asking>>
  PROVE  CodecInv'
<1>1. Walks("send", place, with["send"])
  BY NotPutYet, WithStays DEF Walks, HasLock, Places, table, fates, Callers
<1>q. QED  BY <1>1, NotPutYet, SendWalks DEF table, asking

\* SendInput looks whether the kernel is closed.
LEMMA CheckClosedKeeps ==
  ASSUME CodecInv, CheckClosed
  PROVE  CodecInv'
<1>1. CASE FailSend
  BY <1>1, FailingWalks DEF CheckClosed
<1>2. CASE To("send", "get") /\ UNCHANGED input
  BY <1>2, SendingWalks DEF CheckClosed
<1>q. QED  BY <1>1, <1>2 DEF CheckClosed

\* It finds the output stream.
LEMMA FindOutputStreamKeeps ==
  ASSUME CodecInv, FindOutputStream
  PROVE  CodecInv'
<1>1. PICK place : place = IF hasStream THEN "check" ELSE "crashed"
  OBVIOUS
<1>2. with["send"] \in Created /\ doing["send"] = "stream"
  BY DEF CodecInv, CallPlace, FindOutputStream, Callers
<1>3. Walks("send", place, with["send"])
  BY <1>1, <1>2, NotPutYet, WithStays DEF Walks, HasLock, Places, table, fates, Callers, FindOutputStream
<1>q. QED  BY <1>1, <1>2, <1>3, NotPutYet, SendWalks DEF table, asking, FindOutputStream

\* It checks the codec.
LEMMA CheckCodecKeeps ==
  ASSUME CodecInv, CheckCodec
  PROVE  CodecInv'
<1>1. with["send"] \in Created /\ doing["send"] \in {"check", "type"} /\ input <= MaxInputs
  BY NotPutYet DEF CodecInv, CallPlace, CheckCodec, Callers
<1>2. CASE FailSend
  BY <1>1, <1>2, FailingWalks DEF CheckCodec
<1>3. CASE \E place \in {"type", "enter", "crashed"} : To("send", place) /\ UNCHANGED input
  BY <1>1, <1>3, SendingWalks DEF CheckCodec
<1>q. QED  BY <1>2, <1>3 DEF CheckCodec

\* An object is dropped.
LEMMA DropInputKeeps ==
  ASSUME CodecInv, DropInput
  PROVE  CodecInv'
<1>1. doing["send"] = "enter" /\ input <= MaxInputs
  BY NotPutYet DEF DropInput
<1>2. CASE To("send", "crashed") /\ UNCHANGED input
  BY <1>1, <1>2, SendingWalks DEF DropInput
<1>3. CASE FailSend
  BY <1>1, <1>3, FailingWalks DEF DropInput
<1>4. CASE To("send", "idle") /\ input' = input + 1
  <2>1. Walks("send", "idle", with["send"])
    BY <1>1, <1>4, NotPutYet, WithStays DEF Walks, HasLock, Places, table, fates, Callers, DropInput
  <2>q. QED  BY <1>1, <1>4, <2>1, NotPutYet, SendWalks DEF table, asking, DropInput
<1>q. QED  BY <1>2, <1>3, <1>4 DEF DropInput

\* A new codec is empty.
LEMMA NewCodecIs ==
  /\ NewCodec \in Codecs /\ NewCodec.held = <<>> /\ NewCodec.lock = Nobody /\ ~NewCodec.ending /\ ~NewCodec.next
  /\ NewCodec.open
<1>1. <<>> \in Seq(Objects)
  OBVIOUS
<1>q. QED  BY <1>1 DEF NewCodec, Codecs

\* It gets the codec of the stream, which it makes if there is none.
LEMMA GetOrCreateCodecKeeps ==
  ASSUME CodecInv, GetOrCreateCodec
  PROVE  CodecInv'
<1>1. doing["send"] = "get" /\ kernelLock = Nobody /\ "send" \in Callers
      /\ UNCHANGED <<settings, kernelClosed, kernelLock, loop, received, fates, promised, cuts, asking>>
  BY DEF GetOrCreateCodec, Callers
<1>2. PICK next \in {"stream", "enter"} : next = IF codecKind = "encoder" THEN "stream" ELSE "enter"
  OBVIOUS
<1>3. /\ ~SendHasPut /\ doing["send"] \notin HasLock /\ doing["send"] # "crashed" /\ input <= MaxInputs
      /\ hasStream \in BOOLEAN /\ dirtyCache \in BOOLEAN /\ kernelLock \in Callers \cup {Nobody}
  BY <1>1, NotPutYet
<1>4. Len(codecs) \in Nat /\ Created = 1..Len(codecs) /\ codecOfStream \in 0..Len(codecs) /\ TablesTyped
  BY DEF CodecInv, CodecTypes, TablesTyped, Created
<1>5. CASE /\ codecOfStream # NoCodec /\ with' = [with EXCEPT !["send"] = codecOfStream]
           /\ To("send", next) /\ UNCHANGED <<codecs, codecOfStream, hasStream, input>>
  <2>1. codecOfStream \in Created
    BY <1>4, <1>5 DEF NoCodec
  <2>2. Walks("send", next, codecOfStream)
    BY <1>1, <1>3, <1>4, <1>5, <2>1, WithTakes DEF Walks, HasLock, Places, fates, Callers
  <2>q. QED  BY <1>1, <1>3, <1>5, <2>2, SendWalks DEF asking
<1>6. CASE codecOfStream = NoCodec /\ FailSend /\ UNCHANGED <<codecs, codecOfStream, hasStream, with>>
  BY <1>1, <1>3, <1>6, FailingWalks DEF table
<1>7. ASSUME codecOfStream = NoCodec, Len(codecs) < MaxCodecs, codecs' = Append(codecs, NewCodec), codecOfStream' = Len(codecs'),
             \/ hasStream' = TRUE /\ with' = [with EXCEPT !["send"] = Len(codecs')] /\ To("send", next) /\ UNCHANGED input
             \/ FailSend /\ UNCHANGED <<hasStream, with>>
      PROVE  CodecInv'
  <2>1. PICK c : c = Len(codecs) + 1
    OBVIOUS
  <2>2. /\ codecs' \in Seq(Codecs) /\ Len(codecs') = c /\ c \in Nat /\ c # 0 /\ Created' = Created \cup {c} /\ c \notin Created
        /\ codecs'[c] = NewCodec /\ \A d \in Created : codecs'[d] = codecs[d]
    <3>1. codecs \in Seq(Codecs) /\ NewCodec \in Codecs
      BY NewCodecIs, <1>4 DEF TablesTyped
    <3>2. codecs' \in Seq(Codecs) /\ Len(codecs') = Len(codecs) + 1 /\ DOMAIN codecs' = 1..Len(codecs) + 1
          /\ codecs'[Len(codecs) + 1] = NewCodec /\ \A d \in 1..Len(codecs) : codecs'[d] = codecs[d]
      BY <3>1, <1>7
    <3>3. DOMAIN codecs' = Created'
      BY DEF Created
    <3>q. QED  BY <3>2, <3>3, <2>1, <1>4
  <2>3. PICK place \in {next, "failed"} :
          /\ To("send", place) /\ (place = "failed" => input' = input + 1) /\ (place # "failed" => input' = input)
          /\ with' \in [Callers -> 0..c] /\ (place # "failed" => with'["send"] = c)
          /\ \A q \in Callers \ {"send"} : with'[q] = with[q]
    <3>1. with \in [Callers -> 0..c] /\ c \in 0..c
      BY <1>4, <2>1, <2>2 DEF TablesTyped
    <3>q. QED  BY <1>1, <1>2, <1>7, <2>2, <3>1 DEF FailSend
  <2>4. doing' \in [Callers -> Places] /\ doing'["send"] = place /\ \A q \in Callers \ {"send"} : doing'[q] = doing[q]
    BY <1>1, <1>2, <1>4, <2>3 DEF TablesTyped, To, Places
  <2>5. Others("send")
    BY <1>1, <1>4, <2>2, <2>3, <2>4 DEF Others, TablesTyped
  <2>6. CallPlace("send")' /\ CallCodec("send")'
    <3>1. received["send"] = NoObject /\ received' = received /\ place \in {"stream", "enter", "failed"}
      BY <1>1, <1>2, <2>3 DEF CodecInv, CallPlace
    <3>2. "send" \notin {"close", "reset"}
      OBVIOUS
    <3>q. QED  BY <2>2, <2>3, <2>4, <3>1, <3>2 DEF CallPlace, CallCodec, HasLock
  <2>7. ASSUME NEW d \in Created  PROVE CodecPlace(d)' /\ CodecHolds(codecs[d])'
    <3>1. ~codecs[d].open /\ codecs[d].lock = Nobody
      BY <1>7, CodecsAre DEF CodecInv, CodecPlace
    <3>2. "send" # Nobody
      BY DEF Nobody
    <3>q. QED  BY <1>1, <2>2, <2>5, <3>1, <3>2, CodecStays
  <2>8. CodecPlace(c)' /\ CodecHolds(codecs[c])'
    BY <1>7, <2>2, NewCodecIs DEF CodecPlace, CodecHolds
  <2>9. CallsAndCodecs' /\ TablesTyped'
    <3>1. \A q \in Callers : CallPlace(q)' /\ CallCodec(q)'
      BY <1>1, <2>5, <2>6, OtherCallsKeep
    <3>2. Len(codecs') <= MaxCodecs /\ codecOfStream' \in 0..Len(codecs')
      BY <1>4, <1>7, <2>1, <2>2, CodecAssumption
    <3>q. QED  BY <1>1, <1>4, <2>2, <2>3, <2>4, <2>7, <2>8, <3>1, <3>2 DEF CallsAndCodecs, TablesTyped
  <2>10. ObjectsInOrder'
    BY <1>1, <2>2, NewCodecIs, ObjectsStayInOrder DEF fates
  <2>11. acceptedObjects' = WasEmitted' \cup InsideCodec' \cup WasDiscarded' /\ WasEmitted' = WasEmitted /\ WasDiscarded' = WasDiscarded
    <3>1. \A d \in Created : Contents(d)' = Contents(d)
      BY <2>2 DEF Contents
    <3>2. Contents(c)' = {}
      BY <2>2, NewCodecIs DEF Contents
    <3>3. UNION {Contents(d)' : d \in Created'} = UNION {Contents(d) : d \in Created}
      BY <2>2, <3>1, <3>2
    <3>4. InsideCodec' = InsideCodec
      BY <1>1, <3>3 DEF InsideCodec
    <3>5. WasEmitted' = WasEmitted /\ WasDiscarded' = WasDiscarded /\ acceptedObjects' = acceptedObjects
      BY <1>1 DEF fates, WasEmitted, WasDiscarded
    <3>q. QED  BY <3>4, <3>5 DEF CodecInv, CodecFates
  <2>12. InputComesAfter' /\ input' \in 1..MaxInputs + 1
    BY <1>1, <1>2, <1>3, <2>3, <2>4, InputMoves DEF fates
  <2>13. RestTyped'
    <3>1. hasStream' \in BOOLEAN
      BY <1>3, <1>7
    <3>q. QED  BY <1>1, <2>12, <3>1 DEF fates, asking, RestTyped, CodecInv, CodecTypes
  <2>14. OtherFates'
    <3>1. doing'["flush"] = doing["flush"]
      BY <2>4 DEF Callers
    <3>q. QED  BY <1>1, <2>11, <3>1, FatesStay DEF fates, asking
  <2>q. QED  BY <1>1, <2>9, <2>10, <2>11, <2>12, <2>13, <2>14, CodecParts
<1>q. QED  BY <1>2, <1>5, <1>6, <1>7 DEF GetOrCreateCodec

\* The types of what a call may leave alone.
LEMMA TypesNow ==
  ASSUME CodecInv
  PROVE  /\ kernelClosed \in BOOLEAN /\ hasStream \in BOOLEAN /\ dirtyCache \in BOOLEAN
         /\ kernelLock \in Callers \cup {Nobody}
         /\ (codecOfStream # NoCodec => codecOfStream \in Created) /\ codecOfStream \in 0..Len(codecs)
         /\ \A p \in Callers : doing[p] # "idle" => p \in company \cup {"send"} /\ (p = "resize" => codecKind = "encoder")
<1>1. Created = 1..Len(codecs) /\ Len(codecs) \in Nat
  BY DEF CodecInv, CodecTypes, Created
<1>2. \A p \in Callers : doing[p] # "idle" => p \in company \cup {"send"} /\ (p = "resize" => codecKind = "encoder")
  BY DEF CodecInv, CallPlace
<1>q. QED  BY <1>1, <1>2 DEF CodecInv, CodecTypes, NoCodec

\* A call starts.
LEMMA StartedKeeps ==
  ASSUME CodecInv, StartFlush \/ \E p \in Callers : Start(p)
  PROVE  CodecInv'
<1>1. PICK p \in Callers, place \in {"get", "failed"} :
        /\ doing[p] = "idle" /\ p \in company /\ To(p, place) /\ p \notin {"send", "resize"}
        /\ promised' = promised \/ (promised' = acceptedObjects /\ p = "flush")
        /\ UNCHANGED <<settings, table, kernelLock, codecs, with, loop, received, input, fates, cuts, asking>>
  <2>1. CASE StartFlush
    BY <2>1 DEF StartFlush, Callers
  <2>2. CASE \E p \in Callers : Start(p)
    BY <2>2 DEF Start
  <2>q. QED  BY <2>1, <2>2
<1>2. Walks(p, place, with[p])
  BY <1>1, WithStays DEF Walks, HasLock, Places, table, fates
<1>3. Strolls(p, place, with[p])
  BY <1>1, <1>2, TypesNow DEF Strolls, table, asking
<1>q. QED  BY <1>1, <1>3, StrollKeeps

\* Flush finds the codec.
LEMMA GetCodecToFlushKeeps ==
  ASSUME CodecInv, GetCodecToFlush
  PROVE  CodecInv'
<1>1. doing["flush"] = "get" /\ "flush" \in Callers /\ "flush" \in company \cup {"send"}
      /\ UNCHANGED <<settings, table, kernelLock, codecs, loop, received, input, fates, promised, cuts, answer, insideAll>>
  BY TypesNow DEF GetCodecToFlush, Callers
<1>2. CASE codecOfStream = NoCodec /\ To("flush", "done") /\ dirtyCache' = FALSE /\ UNCHANGED with
  <2>1. Walks("flush", "done", with["flush"])
    BY <1>1, <1>2, WithStays DEF Walks, HasLock, Places, table, fates
  <2>2. Strolls("flush", "done", with["flush"])
    BY <1>1, <1>2, <2>1, TypesNow DEF Strolls, table
  <2>q. QED  BY <1>1, <2>2, StrollKeeps
<1>3. CASE codecOfStream # NoCodec /\ To("flush", "enter") /\ with' = [with EXCEPT !["flush"] = codecOfStream] /\ UNCHANGED dirtyCache
  <2>1. Walks("flush", "enter", codecOfStream)
    BY <1>1, <1>3, WithTakes, TypesNow DEF Walks, HasLock, Places, table, fates
  <2>2. Strolls("flush", "enter", codecOfStream)
    BY <1>1, <1>3, <2>1, TypesNow DEF Strolls, table
  <2>q. QED  BY <1>1, <2>2, StrollKeeps
<1>q. QED  BY <1>2, <1>3 DEF GetCodecToFlush

\* A codec is used that is not there.
LEMMA CrashKeeps ==
  ASSUME CodecInv, NEW p \in Callers, doing[p] \notin {"emit", "idle", "failed", "crashed"}, To(p, "crashed"),
         UNCHANGED <<settings, table, kernelLock, codecs, with, loop, received, input, fates, promised, cuts, asking>>
  PROVE  CodecInv'
<1>1. Walks(p, "crashed", with[p])
  BY WithStays, TypesNow DEF Walks, HasLock, Places, table, fates
<1>2. Strolls(p, "crashed", with[p])
  BY <1>1, TypesNow DEF Strolls, table, asking
<1>3. p = "send" => InputComesAfter' /\ input' \in 1..MaxInputs + 1
  <2>1. ASSUME p = "send"  PROVE doing'["send"] = "crashed" /\ (doing["send"] \notin {"idle", "failed"} => input <= MaxInputs)
    BY <2>1 DEF CodecInv, CodecTypes, InputComesAfter, To
  <2>2. acceptedObjects' = acceptedObjects
    BY DEF fates
  <2>q. QED  BY <2>1, <2>2, InputMoves
<1>q. QED  BY <1>2, <1>3, StrollKeeps

\* Close and the resets take Locker.
LEMMA TakeLockerKeeps ==
  ASSUME CodecInv, NEW p \in Callers, TakeLocker(p)
  PROVE  CodecInv'
<1>1. /\ doing[p] = "get" /\ p \in {"close", "reset"} /\ kernelLock = Nobody /\ p \in company
      /\ kernelClosed' = (kernelClosed \/ p = "close")
      /\ UNCHANGED <<settings, codecOfStream, hasStream, codecs, loop, received, input, fates, promised, cuts, asking>>
  BY TypesNow DEF TakeLocker
<1>2. kernelClosed' \in BOOLEAN /\ (kernelClosed' => kernelClosed \/ "close" \in company) /\ (kernelClosed => kernelClosed')
  BY <1>1
<1>3. CASE codecOfStream = NoCodec /\ To(p, "done") /\ UNCHANGED <<kernelLock, with>>
  <2>1. Walks(p, "done", with[p])
    BY <1>1, <1>2, <1>3, WithStays DEF Walks, HasLock, Places, fates
  <2>2. Strolls(p, "done", with[p])
    BY <1>1, <1>2, <1>3, <2>1, TypesNow DEF Strolls, asking
  <2>q. QED  BY <1>1, <2>2, StrollKeeps
<1>4. ASSUME NEW place \in {"enter", "remove"}, codecOfStream # NoCodec, kernelLock' = p, To(p, place),
             with' = [with EXCEPT ![p] = codecOfStream]
      PROVE  CodecInv'
  <2>1. Walks(p, place, codecOfStream)
    BY <1>1, <1>2, <1>4, WithTakes, TypesNow DEF Walks, HasLock, Places, fates
  <2>2. Strolls(p, place, codecOfStream)
    BY <1>1, <1>2, <1>4, <2>1, TypesNow DEF Strolls, asking
  <2>q. QED  BY <1>1, <2>2, StrollKeeps
<1>q. QED  BY <1>3, <1>4 DEF TakeLocker

\* The resolution is to be changed.
LEMMA StartResizeKeeps ==
  ASSUME CodecInv, StartResize
  PROVE  CodecInv'
<1>1. "resize" \in Callers
  BY DEF Callers
<1>2. Walks("resize", "enter", codecOfStream)
  BY <1>1, WithTakes, TypesNow DEF StartResize, Walks, HasLock, Places, table, fates
<1>3. Strolls("resize", "enter", codecOfStream)
  BY <1>1, <1>2, TypesNow DEF StartResize, Strolls, table, asking
<1>q. QED  BY <1>1, <1>3, StrollKeeps

\* IsDirty is asked, and asks the codec if its cache does not know.
LEMMA AskKeeps ==
  ASSUME CodecInv, Ask
  PROVE  CodecInv'
<1>1. PICK place \in {"done", "get"} : To("ask", place) /\ answer' \in {"dirty", "none"}
  BY DEF Ask
<1>2. "ask" \in Callers /\ doing["ask"] \in {"idle", "done"} /\ "ask" \in company
      /\ UNCHANGED <<settings, table, kernelLock, codecs, with, loop, received, input, fates, promised, cuts, dirtyCache>>
  BY DEF Callers, Ask
<1>3. Walks("ask", place, with["ask"])
  BY <1>1, <1>2, WithStays DEF Walks, HasLock, Places, table, fates
<1>4. Strolls("ask", place, with["ask"])
  BY <1>1, <1>2, <1>3, TypesNow DEF Strolls, table
<1>q. QED  BY <1>2, <1>4, StrollKeeps

\* A codec that says it is clean is empty, and so are the hands of its users.
LEMMA IsDirtyKeeps ==
  ASSUME CodecInv, IsDirty
  PROVE  CodecInv'
<1>1. "ask" \in Callers /\ doing["ask"] = "get" /\ "ask" \in company \cup {"send"} /\ To("ask", "done")
      /\ dirtyCache' = (codecOfStream # NoCodec /\ codecs[codecOfStream].dirty)
      /\ answer' = (IF dirtyCache' THEN "dirty" ELSE "clean") /\ insideAll' = insideAll \cap InsideCodec
      /\ UNCHANGED <<settings, table, kernelLock, codecs, with, loop, received, input, fates, promised, cuts>>
  BY TypesNow DEF Callers, IsDirty
<1>2. dirtyCache' \in BOOLEAN
  BY <1>1, CodecsAre, CodecFields, TypesNow DEF CodecInv
<1>3. ASSUME ~dirtyCache', cuts = 0, "resize" \notin company, NEW o \in InsideCodec  PROVE FALSE
  <2>1. codecOfStream \in Created => ~codecs[codecOfStream].dirty
    <3>1. codecOfStream \in Created => codecOfStream # NoCodec
      BY CodecsAre DEF CodecInv
    <3>q. QED  BY <3>1, <1>1, <1>3
  <2>2. CASE codecOfStream \in Created /\ codecs[codecOfStream].open /\ o \in Contents(codecOfStream)
    <3>1. codecs[codecOfStream].held = <<>>
      BY <2>1, <2>2, <1>3 DEF CodecInv, CodecHolds
    <3>q. QED  BY <2>2, <3>1 DEF Contents
  <2>3. CASE \E p \in Callers : doing[p] = "emit" /\ with[p] = codecOfStream /\ codecOfStream \in Created
    BY <2>1, <2>3, <1>3 DEF CodecInv, CallCodec, Codec
  <2>q. QED  BY <2>2, <2>3, InsideIsCurrent
<1>4. UNCHANGED <<answer, insideAll>> \/ answer' \in {"dirty", "none"}
     \/ (answer' = "clean" /\ (insideAll' = {} \/ cuts # 0 \/ "resize" \in company))
  <2>1. CASE dirtyCache'
    BY <2>1, <1>1
  <2>2. CASE ~dirtyCache'
    BY <2>2, <1>1, <1>3
  <2>q. QED  BY <2>1, <2>2
<1>5. Walks("ask", "done", with["ask"])
  BY <1>1, WithStays DEF Walks, HasLock, Places, table, fates
<1>6. Strolls("ask", "done", with["ask"])
  BY <1>1, <1>2, <1>4, <1>5, TypesNow DEF Strolls, table
<1>q. QED  BY <1>1, <1>6, StrollKeeps

\* Who has the lock of a codec has that of the stream, and nobody else has an object in hand.
LEMMA AtWork ==
  ASSUME CodecInv, NEW p \in Callers, doing[p] \in HasLock
  PROVE  /\ with[p] \in Created /\ Codec(p) \in Codecs /\ Codec(p).lock = p /\ with[p] = codecOfStream
         /\ CodecHolds(Codec(p)) /\ CallCodec(p) /\ CallPlace(p)
         /\ \A q \in Callers \ {p} : received[q] = NoObject
         /\ \A d \in Created \ {with[p]} : codecs[d].held = <<>>
<1>1. CallPlace(p) /\ CallCodec(p) /\ p # Nobody
  BY DEF CodecInv, Callers, Nobody
<1>2. with[p] \in Created /\ Codec(p).lock = p /\ Codec(p) \in Codecs
  BY <1>1, CodecsAre DEF CodecInv, CallPlace, Codec
<1>3. with[p] = codecOfStream /\ CodecHolds(Codec(p))
  BY <1>1, <1>2 DEF CodecInv, CodecPlace, Codec
<1>4. ASSUME NEW q \in Callers \ {p}, received[q] # NoObject  PROVE FALSE
  <2>1. doing[q] \in HasLock /\ q # Nobody
    BY <1>4 DEF CodecInv, CallPlace, HasLock, Callers, Nobody
  <2>2. with[q] \in Created /\ Codec(q).lock = q
    BY <2>1 DEF CodecInv, CallPlace
  <2>3. with[q] = codecOfStream
    BY <2>1, <2>2 DEF CodecInv, CodecPlace, Codec
  <2>q. QED  BY <1>2, <1>3, <2>2, <2>3 DEF Codec
<1>5. \A d \in Created \ {with[p]} : codecs[d].held = <<>>
  BY <1>3 DEF CodecInv, CodecPlace, CodecHolds
<1>q. QED  BY <1>1, <1>2, <1>3, <1>4, <1>5

\* A step with the codec keeps the invariant if what it does with the objects does.
LEMMA WorkDone ==
  ASSUME CodecInv, NEW p \in Callers, NEW place, NEW new, Works(p, place, new), CodecHolds(new)', CallCodec(p)',
         ObjectsInOrder', acceptedObjects' = WasEmitted' \cup InsideCodec' \cup WasDiscarded',
         acceptedObjects \subseteq acceptedObjects', acceptedObjects' \subseteq Objects, emitted' \in Seq(Objects),
         hasStream' \in BOOLEAN, dirtyCache' \in BOOLEAN, kernelLock' \in Callers \cup {Nobody}, cuts' \in 0..MaxCuts,
         UNCHANGED <<promised, answer, insideAll>>, InputComesAfter', input' \in 1..MaxInputs + 1,
         WasEmitted \subseteq WasEmitted', WasDiscarded \subseteq WasDiscarded',
         \A d \in discarded' : d \in discarded \/ (d[2] # "flush" /\ (d[2] # "cut" => d[2] \in company)),
         p = "flush" /\ place = "done" /\ cuts = 0 => promised \subseteq WasEmitted' \cup WasDiscarded'
  PROVE  CodecInv'
<1>1. CallsAndCodecs' /\ TablesTyped'
  BY WorkKeeps
<1>2. UNCHANGED settings /\ kernelClosed' = kernelClosed /\ (cuts' = 0 => cuts = 0)
  BY DEF Works
<1>3. RestTyped'
  BY <1>2 DEF RestTyped, CodecInv, CodecTypes
<1>4. doing'[p] = place /\ \A q \in Callers \ {p} : doing'[q] = doing[q]
  BY DEF Works, To, CodecInv, CodecTypes
<1>5. doing'["flush"] = "done" /\ cuts = 0 => doing["flush"] = "done" \/ promised \subseteq WasEmitted' \cup WasDiscarded'
  BY <1>4 DEF Callers
<1>6. OtherFates'
  BY <1>2, <1>5, FatesStay
<1>q. QED  BY <1>1, <1>2, <1>3, <1>6, CodecParts

\* No more than that objects are lost happens to them.
Shrinks(p, new, lost, reason) ==
  /\ UNCHANGED <<acceptedObjects, emitted, promised, answer, insideAll>>
  /\ new.held \in {Codec(p).held, <<>>} /\ received'[p] \in {received[p], NoObject}
  /\ discarded' = discarded \cup {<<o, reason>> : o \in lost}
  /\ ({new.held[i] : i \in DOMAIN new.held} \cup ({received'[p]} \ {NoObject})) \cup lost = Here(p, with[p])
  /\ lost = {} \/ reason = "cut" \/ (reason # "flush" /\ reason \in company)
  /\ hasStream' \in BOOLEAN /\ dirtyCache' \in BOOLEAN /\ kernelLock' \in Callers \cup {Nobody} /\ cuts' \in 0..MaxCuts

\* Then the invariant stays.
LEMMA ShrinkDone ==
  ASSUME CodecInv, NEW p \in Callers, NEW place, NEW new, NEW lost, NEW reason,
         Works(p, place, new), Shrinks(p, new, lost, reason), CodecHolds(new)', CallCodec(p)',
         InputComesAfter', input' \in 1..MaxInputs + 1,
         p = "flush" /\ place = "done" /\ cuts = 0 => promised \subseteq WasEmitted \cup WasDiscarded'
  PROVE  CodecInv'
<1>1. PICK c \in Created : c = with[p]
  BY DEF Works
<1>2. Created' = Created /\ codecs'[c] = new /\ (\A d \in Created \ {c} : codecs'[d] = codecs[d]) /\ codecs[c] = Codec(p)
  <2>1. DOMAIN codecs' = DOMAIN codecs /\ codecs'[c] = new /\ \A d \in DOMAIN codecs \ {c} : codecs'[d] = codecs[d]
    BY <1>1 DEF Works, Update, CodecInv, CodecTypes, Created
  <2>q. QED  BY <2>1, <1>1 DEF Created, Codec
<1>3. \A q \in Callers \ {p} : received'[q] = received[q]
  BY DEF Works
<1>4. ObjectsInOrder'
  BY <1>1, <1>2, <1>3, ObjectsStayInOrder DEF Shrinks
<1>5. WasEmitted' = WasEmitted /\ WasDiscarded' = WasDiscarded \cup lost
  <2>1. emitted' = emitted /\ discarded' = discarded \cup {<<o, reason>> : o \in lost}
    BY DEF Shrinks
  <2>2. WasDiscarded' = WasDiscarded \cup lost
    BY <2>1, DiscardAdds
  <2>q. QED  BY <2>1, <2>2 DEF WasEmitted
<1>6. Here(p, c)' \cup lost = Here(p, c)
  <2>1. Contents(c)' = {new.held[i] : i \in DOMAIN new.held}
    BY <1>2 DEF Contents
  <2>2. {new.held[i] : i \in DOMAIN new.held} \subseteq Objects
    <3>1. new.held \in Seq(Objects)
      BY CodecFields DEF Works
    <3>q. QED  BY <3>1
  <2>3. NoObject \notin Objects
    BY DEF NoObject, Objects
  <2>4. Here(p, c)' = {new.held[i] : i \in DOMAIN new.held} \cup ({received'[p]} \ {NoObject})
    BY <2>1, <2>2, <2>3 DEF Here
  <2>5. Here(p, with[p]) = Here(p, c)
    BY <1>1
  <2>q. QED  BY <2>4, <2>5 DEF Shrinks
<1>7. acceptedObjects' = WasEmitted' \cup InsideCodec' \cup WasDiscarded'
  <2>1. acceptedObjects' = acceptedObjects \cup {} /\ WasEmitted' = WasEmitted \cup {} /\ Here(p, c)' \cup {} \cup lost = Here(p, c) \cup {}
    BY <1>5, <1>6 DEF Shrinks
  <2>2. \A d \in Created \ {c} : codecs'[d].held = codecs[d].held
    BY <1>2
  <2>q. QED  BY <2>1, <2>2, <1>2, <1>3, <1>5, FatesMove
<1>8. \A d \in discarded' : d \in discarded \/ (d[2] # "flush" /\ (d[2] # "cut" => d[2] \in company))
  BY DEF Shrinks
<1>9. acceptedObjects \subseteq Objects /\ emitted \in Seq(Objects)
  BY DEF CodecInv, CodecTypes
<1>q. QED  BY <1>4, <1>5, <1>7, <1>8, <1>9, WorkDone DEF Shrinks

\* After a step with the codec.
LEMMA WorkIs ==
  ASSUME CodecInv, NEW p \in Callers, NEW place, NEW new, Works(p, place, new)
  PROVE  /\ Codec(p)' = new /\ doing'[p] = place /\ (\A q \in Callers \ {p} : doing'[q] = doing[q])
         /\ (Uncut' => Uncut /\ cuts = 0) /\ (cuts' = 0 => cuts = 0)
         /\ codecKind' = codecKind /\ delay' = delay /\ company' = company
<1>1. codecs'[with[p]] = new /\ with' = with
  BY DEF Works, Update, Created
<1>2. doing'[p] = place /\ \A q \in Callers \ {p} : doing'[q] = doing[q]
  BY DEF Works, To, CodecInv, CodecTypes
<1>3. (cuts' = 0 => cuts = 0) /\ UNCHANGED settings /\ kernelClosed' = kernelClosed
  BY DEF Works
<1>4. Uncut' => Uncut /\ cuts = 0
  BY <1>3 DEF Uncut, settings
<1>q. QED  BY <1>1, <1>2, <1>3, <1>4 DEF Codec, settings

\* Who is about to take the lock of a codec that is free finds it without what a call leaves for its own return.
LEMMA AtDoor ==
  ASSUME CodecInv, NEW p \in Callers, doing[p] \in {"enter", "remove"}, CodecFree(p)
  PROVE  /\ with[p] \in Created /\ Codec(p) \in Codecs /\ Codec(p).lock = Nobody
         /\ CodecHolds(Codec(p)) /\ CallPlace(p) /\ received[p] = NoObject
         /\ (delay = 0 => Codec(p).held = <<>>) /\ (Uncut => ~Codec(p).ending)
         /\ (Codec(p).open => with[p] = codecOfStream /\ InsideCodec = Contents(with[p]))
<1>1. CallPlace(p) /\ with[p] \in Created /\ received[p] = NoObject
  BY DEF CodecInv, CallPlace, HasLock
<1>2. Codec(p) \in Codecs /\ CodecPlace(with[p]) /\ CodecHolds(Codec(p)) /\ Codec(p).lock = Nobody
  BY <1>1, CodecsAre DEF CodecInv, Codec, CodecFree
<1>3. (delay = 0 => Codec(p).held = <<>>) /\ (Uncut => ~Codec(p).ending)
  BY <1>2 DEF CodecHolds
<1>4. ASSUME Codec(p).open  PROVE with[p] = codecOfStream /\ InsideCodec = Contents(with[p])
  <2>1. with[p] = codecOfStream
    BY <1>2, <1>4 DEF CodecPlace, Codec
  <2>2. \A q \in Callers : q # Nobody
    BY DEF Callers, Nobody
  <2>3. InsideCodec \subseteq Contents(with[p])
    BY <1>2, <2>1, <2>2, InsideIsCurrent DEF Codec
  <2>4. Contents(with[p]) \subseteq InsideCodec
    <3>1. Contents(with[p]) \subseteq Objects
      BY <1>2, CodecFields DEF Contents, Codec
    <3>2. NoObject \notin Objects
      BY DEF NoObject, Objects
    <3>q. QED  BY <1>1, <3>1, <3>2 DEF InsideCodec
  <2>q. QED  BY <2>1, <2>3, <2>4
<1>q. QED  BY <1>1, <1>2, <1>3, <1>4

\* A step with the codec that moves no object.
LEMMA QuietWork ==
  ASSUME CodecInv, NEW p \in Callers, NEW place, NEW new, Works(p, place, new), new.held = Codec(p).held,
         UNCHANGED <<acceptedObjects, emitted, discarded, promised, answer, insideAll, received, cuts>>,
         hasStream' \in BOOLEAN, dirtyCache' \in BOOLEAN, kernelLock' \in Callers \cup {Nobody},
         CodecHolds(new)', CallCodec(p)', InputComesAfter', input' \in 1..MaxInputs + 1,
         p = "flush" /\ place = "done" /\ cuts = 0 => promised \subseteq WasEmitted \cup WasDiscarded
  PROVE  CodecInv'
<1>1. Shrinks(p, new, {}, "cut")
  <2>1. {new.held[i] : i \in DOMAIN new.held} = Contents(with[p])
    BY DEF Contents, Codec
  <2>2. Contents(with[p]) \subseteq Objects /\ NoObject \notin Objects
    <3>1. codecs[with[p]] \in Codecs
      BY CodecsAre DEF Works, CodecInv
    <3>2. \A i \in DOMAIN codecs[with[p]].held : codecs[with[p]].held[i] \in Objects
      BY <3>1, CodecFields
    <3>q. QED  BY <3>2 DEF Contents, NoObject, Objects
  <2>3. {new.held[i] : i \in DOMAIN new.held} \cup ({received'[p]} \ {NoObject}) = Here(p, with[p])
    BY <2>1, <2>2 DEF Here
  <2>4. cuts' \in 0..MaxCuts
    BY DEF CodecInv, CodecTypes
  <2>q. QED  BY <2>3, <2>4 DEF Shrinks
<1>2. WasDiscarded' = WasDiscarded
  BY DEF WasDiscarded
<1>q. QED  BY <1>1, <1>2, ShrinkDone

\* A call takes the lock of an open codec.
LEMMA TakingLockKeeps ==
  ASSUME CodecInv, NEW p \in Callers, NEW place \in {"put", "receive", "request"}, doing[p] = "enter", CodecFree(p), Codec(p).open,
         To(p, place), Update(p, [Codec(p) EXCEPT !.lock = p]),
         (place = "put" /\ p = "send" /\ UNCHANGED loop)
           \/ (place = "receive" /\ codecKind = "encoder" /\ delay # 0 /\ p # "send" /\ loop' = [loop EXCEPT ![p] = "before"])
           \/ (place = "request" /\ delay # 0 /\ p # "send" /\ loop' = [loop EXCEPT ![p] = "after"]),
         UNCHANGED <<settings, table, kernelLock, with, received, input, fates, promised, cuts, asking>>
  PROVE  CodecInv'
<1>1. PICK new : new = [Codec(p) EXCEPT !.lock = p]
  OBVIOUS
<1>2. new \in Codecs /\ new.lock = p /\ new.open /\ new.held = Codec(p).held /\ new.ending = Codec(p).ending /\ new.next = Codec(p).next
      /\ new.dirty = Codec(p).dirty /\ p # Nobody /\ new.giving = Codec(p).giving
  <2>1. Codec(p) \in Codecs /\ p # Nobody
    BY AtDoor DEF Callers, Nobody
  <2>q. QED  BY <1>1, <2>1 DEF Codecs
<1>3. loop' \in [Callers -> {"none", "sent", "retry", "before", "after"}] /\ (\A q \in Callers \ {p} : loop'[q] = loop[q])
      /\ (loop'[p] = "sent" => p = "send") /\ (place = "receive" => loop'[p] = "before")
      /\ (place = "request" => loop'[p] = "after")
  <2>1. loop \in [Callers -> {"none", "sent", "retry", "before", "after"}] /\ (p # "send" => loop[p] # "sent")
    BY DEF CodecInv, CodecTypes, CallPlace
  <2>2. place = "put" => loop' = loop
    OBVIOUS
  <2>q. QED  BY <2>1, <2>2
<1>4. Works(p, place, new)
  <2>1. received' \in [Callers -> 0..MaxInputs] /\ received'[p] = NoObject
    BY AtDoor DEF CodecInv, CodecTypes
  <2>2. place \in HasLock /\ place \in Places \ {"stream", "check", "type", "enter", "remove"} /\ place # "emit"
    BY DEF HasLock, Places
  <2>3. Update(p, new) /\ with[p] \in Created /\ with[p] = codecOfStream /\ Codec(p).lock = Nobody
    BY <1>1, AtDoor
  <2>q. QED  BY <1>2, <1>3, <2>1, <2>2, <2>3 DEF Works, table
<1>5. CodecHolds(new)'
  BY <1>2, <1>4, AtDoor, WorkIs DEF CodecHolds
<1>6. CallCodec(p)'
  BY <1>2, <1>3, <1>4, AtDoor, WorkIs DEF CallCodec
<1>7. InputComesAfter' /\ input' \in 1..MaxInputs + 1
  <2>1. acceptedObjects' = acceptedObjects /\ input' = input
    BY DEF fates
  <2>2. CASE p = "send"
    <3>1. doing["send"] \in {"idle", "failed", "get", "stream", "check", "type", "enter"}
      BY <2>2
    <3>2. doing'["send"] = place /\ doing["send"] # "crashed" /\ ~SendHasPut /\ input <= MaxInputs
      BY <2>2, <3>1, <1>4, NotPutYet, WorkIs
    <3>q. QED  BY <2>1, <3>2, InputMoves
  <2>3. CASE p # "send"
    BY <2>1, <2>3, <1>3, <1>4, WorkIs, InputStays DEF Callers
  <2>q. QED  BY <2>2, <2>3
<1>q. QED  BY <1>2, <1>4, <1>5, <1>6, <1>7, TypesNow, QuietWork DEF fates, asking, table

\* SendInput enters the codec.
LEMMA EnterToSendKeeps ==
  ASSUME CodecInv, EnterToSend
  PROVE  CodecInv'
BY TakingLockKeeps DEF EnterToSend, Callers

\* And so does Flush.
LEMMA EnterToFlushKeeps ==
  ASSUME CodecInv, NEW p \in Callers, EnterToFlush(p)
  PROVE  CodecInv'
<1>1. codecKind \in {"encoder", "decoder"} /\ delay # 0 /\ p # "send"
  BY DEF EnterToFlush, Flushes, CodecInv, CodecTypes
<1>q. QED  BY <1>1, TakingLockKeeps DEF EnterToFlush

\* The object in hand is to be put later.
LEMMA PutLaterKeeps ==
  ASSUME CodecInv, PutLater
  PROVE  CodecInv'
<1>1. PICK new : new = [Codec("send") EXCEPT !.dirty = TRUE]
  OBVIOUS
<1>2. PICK place \in {"request", "receive"} : To("send", place) /\ (codecKind = "encoder" => place = "receive")
  BY DEF PutLater, AfterPut
<1>3. "send" \in Callers /\ doing["send"] = "put" /\ doing["send"] \in HasLock /\ ~Codec("send").ending
      /\ Update("send", new) /\ loop' = [loop EXCEPT !["send"] = "retry"]
      /\ UNCHANGED <<settings, table, kernelLock, with, received, input, fates, promised, cuts, asking>>
  BY <1>1 DEF Callers, PutLater, HasLock, NoRoom, Refused
<1>4. new \in Codecs /\ new.lock = "send" /\ new.open = Codec("send").open /\ new.held = Codec("send").held
      /\ new.ending = Codec("send").ending /\ new.next = Codec("send").next /\ new.dirty /\ new.giving = Codec("send").giving
      /\ "send" # Nobody
  <2>1. Codec("send") \in Codecs /\ Codec("send").lock = "send" /\ "send" # Nobody
    BY <1>3, AtWork DEF Nobody
  <2>q. QED  BY <1>1, <2>1 DEF Codecs
<1>5. loop' \in [Callers -> {"none", "sent", "retry", "before", "after"}] /\ (\A q \in Callers \ {"send"} : loop'[q] = loop[q])
      /\ loop'["send"] = "retry"
  BY <1>3 DEF CodecInv, CodecTypes
<1>6. Works("send", place, new)
  <2>1. received' \in [Callers -> 0..MaxInputs] /\ received'["send"] = NoObject
    BY <1>3, AtWork DEF CodecInv, CodecTypes, CallPlace
  <2>2. place \in HasLock /\ place \in Places \ {"stream", "check", "type", "enter", "remove"} /\ place # "emit"
    BY DEF HasLock, Places
  <2>3. with["send"] \in Created /\ with["send"] = codecOfStream /\ Codec("send").lock = "send"
    BY <1>3, AtWork
  <2>q. QED  BY <1>2, <1>3, <1>4, <1>5, <2>1, <2>2, <2>3 DEF Works, table
<1>7. CodecHolds(new)'
  BY <1>3, <1>4, <1>6, AtWork, WorkIs DEF CodecHolds
<1>8. CallCodec("send")'
  BY <1>2, <1>3, <1>4, <1>5, <1>6, WorkIs DEF CallCodec
<1>9. InputComesAfter' /\ input' \in 1..MaxInputs + 1
  <2>1. acceptedObjects' = acceptedObjects /\ input' = input /\ doing'["send"] = place /\ input <= MaxInputs
    BY <1>3, <1>6, WorkIs DEF fates, CodecInv, InputComesAfter
  <2>2. ~SendHasPut
    BY <1>3 DEF SendHasPut
  <2>q. QED  BY <1>3, <2>1, <2>2, InputMoves
<1>q. QED  BY <1>3, <1>4, <1>6, <1>7, <1>8, <1>9, TypesNow, QuietWork DEF fates, asking, table

\* The codec is left.
EndsCall(p, place, new) ==
  /\ Works(p, place, new) /\ CallCodec(p)' /\ InputComesAfter' /\ input' \in 1..MaxInputs + 1
  /\ dirtyCache' \in BOOLEAN /\ kernelLock' \in Callers \cup {Nobody}
  /\ doing'[p] = place /\ place \notin HasLock

\* At the end of a call.
LEMMA EndCallWorks ==
  ASSUME CodecInv, NEW p \in Callers, doing[p] \in HasLock \cup {"enter"}, NEW codec \in Codecs, NEW succeeds \in BOOLEAN,
         EndCall(p, codec, succeeds), UNCHANGED <<settings, kernelClosed, codecOfStream, with, acceptedObjects>>,
         cuts' = 0 => cuts = 0, received' \in [Callers -> 0..MaxInputs], received'[p] = NoObject,
         loop' \in [Callers -> {"none", "sent", "retry", "before", "after"}], loop'[p] = "sent" => p = "send",
         \A q \in Callers \ {p} : loop'[q] = loop[q] /\ received'[q] = received[q],
         with[p] \in Created, Codec(p).lock \in {Nobody, p}, codec.open => with[p] = codecOfStream
  PROVE  \E place, new : /\ EndsCall(p, place, new) /\ new = [codec EXCEPT !.lock = Nobody]
                         /\ (place = "done" => succeeds)
<1>1. PICK new : new = [codec EXCEPT !.lock = Nobody]
  OBVIOUS
<1>2. PICK place \in {"failed", "idle", "done"} : To(p, place) /\ (place = "done" => succeeds) /\ (p = "send" => place # "done")
  BY DEF EndCall
<1>3. Update(p, new) /\ new \in Codecs /\ new.lock = Nobody /\ new.open = codec.open
  BY <1>1 DEF EndCall, Codecs
<1>4. CallPlace(p) /\ p # Nobody
  BY DEF CodecInv, Callers, Nobody
<1>5. kernelLock \in {Nobody, p} \/ kernelLock' = kernelLock
  <2>1. p = "reset" => kernelLock = p
    BY <1>4 DEF CallPlace
  <2>q. QED  BY <2>1 DEF EndCall
<1>6. place \notin HasLock \cup {"crashed", "emit"} /\ place \in Places \ {"stream", "check", "type", "enter", "remove"}
  BY DEF HasLock, Places
<1>7. Works(p, place, new)
  BY <1>2, <1>3, <1>4, <1>5, <1>6 DEF Works
<1>8. doing'[p] = place /\ \A q \in Callers \ {p} : doing'[q] = doing[q]
  BY <1>7, WorkIs
<1>9. CallCodec(p)'
  BY <1>6, <1>8 DEF CallCodec, HasLock
<1>10. InputComesAfter' /\ input' \in 1..MaxInputs + 1
  <2>1. CASE p = "send"
    <3>1. doing["send"] \notin {"idle", "failed", "crashed"}
      BY <2>1 DEF HasLock
    <3>2. input <= MaxInputs
      BY <3>1 DEF CodecInv, InputComesAfter
    <3>3. doing'["send"] = place /\ input' = input + 1 /\ place \in {"idle", "failed"}
      BY <1>2, <1>8, <2>1 DEF EndCall
    <3>q. QED  BY <3>1, <3>2, <3>3, InputMoves
  <2>2. CASE p # "send"
    <3>1. doing'["send"] = doing["send"] /\ loop'["send"] = loop["send"] /\ input' = input
      BY <1>8, <2>2 DEF EndCall, Callers
    <3>q. QED  BY <3>1, InputStays
  <2>q. QED  BY <2>1, <2>2
<1>11. dirtyCache' \in BOOLEAN /\ kernelLock' \in Callers \cup {Nobody}
  <2>1. dirtyCache' \in BOOLEAN
    BY TypesNow DEF EndCall
  <2>2. kernelLock' \in Callers \cup {Nobody}
    BY TypesNow DEF EndCall
  <2>q. QED  BY <2>1, <2>2
<1>12. EndsCall(p, place, new)
  BY <1>6, <1>7, <1>8, <1>9, <1>10, <1>11 DEF EndsCall
<1>q. QED  BY <1>1, <1>2, <1>12

\* Also if nothing else happens.
LEMMA EndCallEnds ==
  ASSUME CodecInv, NEW p \in Callers, doing[p] \in HasLock \cup {"enter"}, NEW codec \in Codecs, NEW succeeds \in BOOLEAN,
         EndCall(p, codec, succeeds),
         UNCHANGED <<settings, kernelClosed, codecOfStream, with, acceptedObjects, cuts, loop, received>>,
         doing[p] # "emit", with[p] \in Created, Codec(p).lock \in {Nobody, p}, codec.open => with[p] = codecOfStream
  PROVE  \E place, new : /\ EndsCall(p, place, new) /\ new = [codec EXCEPT !.lock = Nobody]
                         /\ (place = "done" => succeeds)
<1>1. received' \in [Callers -> 0..MaxInputs] /\ received'[p] = NoObject
      /\ loop' \in [Callers -> {"none", "sent", "retry", "before", "after"}] /\ (loop'[p] = "sent" => p = "send")
  BY DEF CodecInv, CodecTypes, CallPlace
<1>2. \A q \in Callers \ {p} : loop'[q] = loop[q] /\ received'[q] = received[q]
  OBVIOUS
<1>3. cuts' = 0 => cuts = 0
  OBVIOUS
<1>4. UNCHANGED <<settings, kernelClosed, codecOfStream, with, acceptedObjects>>
  OBVIOUS
<1>q. QED  BY <1>1, <1>2, <1>3, <1>4, EndCallWorks

\* SendInput is refused.
LEMMA PutRefusedKeeps ==
  ASSUME CodecInv, PutRefused
  PROVE  CodecInv'
<1>1. PICK codec : codec = [Codec("send") EXCEPT !.dirty = TRUE]
  OBVIOUS
<1>2. "send" \in Callers /\ doing["send"] = "put" /\ doing["send"] \in HasLock /\ Codec("send").ending
      /\ UNCHANGED <<settings, table, kernelLock, with, loop, received, fates, promised, cuts, asking>>
  BY DEF Callers, PutRefused, HasLock, Refused
<1>3. codec \in Codecs /\ codec.lock = "send" /\ codec.open = Codec("send").open /\ codec.held = Codec("send").held
      /\ codec.next = Codec("send").next /\ codec.dirty
  <2>1. Codec("send") \in Codecs /\ Codec("send").lock = "send"
    BY <1>2, AtWork
  <2>q. QED  BY <1>1, <2>1 DEF Codecs
<1>s. PICK succeeds \in BOOLEAN : ~succeeds
  OBVIOUS
<1>4. EndCall("send", codec, succeeds)
  <2>1. Update("send", [codec EXCEPT !.lock = Nobody])
    BY <1>1 DEF PutRefused
  <2>2. dirtyCache' = (dirtyCache /\ ~("send" = "flush" /\ succeeds))
    BY <1>2, TypesNow DEF asking
  <2>3. To("send", "failed") /\ input' = input + 1 /\ kernelLock' = kernelLock
    BY <1>2 DEF PutRefused, FailSend
  <2>4. To("send", CASE ~succeeds -> "failed" [] succeeds /\ "send" = "send" -> "idle" [] OTHER -> "done")
    <3>1. (CASE ~succeeds -> "failed" [] succeeds /\ "send" = "send" -> "idle" [] OTHER -> "done") = "failed"
      BY <1>s
    <3>q. QED  BY <2>3, <3>1 DEF To
  <2>5. input' = (IF "send" = "send" THEN input + 1 ELSE input) /\ kernelLock' = (IF "send" = "reset" THEN Nobody ELSE kernelLock)
    BY <2>3
  <2>q. QED  BY <2>1, <2>2, <2>4, <2>5 DEF EndCall
<1>5. PICK place, new : EndsCall("send", place, new) /\ new = [codec EXCEPT !.lock = Nobody]
  <2>1. UNCHANGED <<settings, kernelClosed, codecOfStream, with, acceptedObjects, cuts, loop, received>>
    BY <1>2 DEF table, fates
  <2>3. with["send"] \in Created /\ with["send"] = codecOfStream /\ Codec("send").lock \in {Nobody, "send"}
    BY <1>2, AtWork
  <2>q. QED  BY <1>2, <1>3, <1>4, <2>1, <2>3, EndCallEnds
<1>6. new.open = codec.open /\ new.held = codec.held /\ new.next = codec.next /\ new.dirty /\ new.lock = Nobody
  BY <1>3, <1>5 DEF Codecs
<1>7. CodecHolds(new)'
  <2>1. CodecHolds(Codec("send")) /\ ~Uncut /\ (delay = 0 => Codec("send").held = <<>>)
    BY <1>2, AtWork DEF CallCodec
  <2>2. ~Uncut' /\ delay' = delay /\ company' = company /\ codecKind' = codecKind
    BY <1>2, <1>5, <2>1, WorkIs DEF EndsCall
  <2>q. QED  BY <1>3, <1>6, <2>1, <2>2 DEF CodecHolds
<1>q. QED  BY <1>2, <1>3, <1>5, <1>6, <1>7, TypesNow, QuietWork DEF EndsCall, fates, asking, table

\* If nothing is inside, all that was promised is out.
LEMMA AllOut ==
  ASSUME CodecInv, InsideCodec = {}
  PROVE  promised \subseteq WasEmitted \cup WasDiscarded
BY DEF CodecInv, CodecFates, CodecTypes

\* Nothing is inside when the call with the lock has an empty codec and no object.
LEMMA NothingInside ==
  ASSUME CodecInv, NEW p \in Callers, doing[p] \in HasLock \ {"emit"}, Codec(p).held = <<>>
  PROVE  InsideCodec = {}
<1>1. \A q \in Callers : received[q] = NoObject
  BY AtWork DEF CallPlace
<1>2. \A c \in Created : codecs[c].held = <<>>
  BY AtWork DEF Codec
<1>q. QED  BY <1>1, <1>2 DEF InsideCodec, Contents

\* A codec without a delay needs no flush.
LEMMA NothingToFlushKeeps ==
  ASSUME CodecInv, NEW p \in Callers, NothingToFlush(p)
  PROVE  CodecInv'
<1>1. doing[p] = "enter" /\ CodecFree(p)
      /\ UNCHANGED <<settings, table, with, loop, received, fates, promised, cuts, answer, insideAll>>
  BY DEF NothingToFlush
<1>2. CASE ~Codec(p).open
  BY <1>1, <1>2, CrashKeeps DEF NothingToFlush, asking
<1>3. CASE Codec(p).open
  <2>1. delay = 0 /\ EndCall(p, [Codec(p) EXCEPT !.dirty = FALSE], TRUE)
    BY <1>3 DEF NothingToFlush
  <2>2. PICK codec : codec = [Codec(p) EXCEPT !.dirty = FALSE]
    OBVIOUS
  <2>3. Codec(p) \in Codecs /\ Codec(p).held = <<>> /\ with[p] \in Created /\ with[p] = codecOfStream /\ Codec(p).lock = Nobody
        /\ CodecHolds(Codec(p)) /\ (Uncut => ~Codec(p).ending) /\ InsideCodec = Contents(with[p])
    BY <1>1, <1>3, <2>1, AtDoor
  <2>4. codec \in Codecs /\ codec.held = <<>> /\ codec.next = Codec(p).next /\ codec.ending = Codec(p).ending
        /\ codec.open = Codec(p).open
    BY <2>2, <2>3 DEF Codecs
  <2>5. PICK place, new : EndsCall(p, place, new) /\ new = [codec EXCEPT !.lock = Nobody]
    <3>1. PICK succeeds \in BOOLEAN : succeeds = TRUE
      OBVIOUS
    <3>2. EndCall(p, codec, succeeds)
      BY <2>1, <2>2, <3>1, Zenon
    <3>3. UNCHANGED <<settings, kernelClosed, codecOfStream, with, acceptedObjects, cuts, loop, received>>
      BY <1>1 DEF table, fates
    <3>q. QED  BY <1>1, <2>3, <2>4, <3>2, <3>3, EndCallEnds
  <2>6. new.held = <<>> /\ new.next = Codec(p).next /\ new.ending = Codec(p).ending /\ new.lock = Nobody
    BY <2>4, <2>5 DEF Codecs
  <2>7. CodecHolds(new)'
    BY <2>3, <2>5, <2>6, WorkIs DEF CodecHolds, EndsCall
  <2>8. promised \subseteq WasEmitted \cup WasDiscarded
    <3>1. Contents(with[p]) = {}
      BY <2>3 DEF Contents, Codec
    <3>q. QED  BY <2>3, <3>1, AllOut
  <2>q. QED  BY <1>1, <2>3, <2>5, <2>6, <2>7, <2>8, TypesNow, QuietWork DEF EndsCall, table, fates
<1>q. QED  BY <1>2, <1>3

\* Flush is requested.
LEMMA RequestKeeps ==
  ASSUME CodecInv, NEW p \in Callers, Request(p)
  PROVE  CodecInv'
<1>1. doing[p] = "request" /\ doing[p] \in HasLock /\ doing[p] # "emit" /\ Codec(p).open
      /\ UNCHANGED <<settings, table, with, loop, received, fates, promised, cuts, answer, insideAll>>
  BY DEF Request, HasLock
<1>2. /\ with[p] \in Created /\ Codec(p) \in Codecs /\ Codec(p).lock = p /\ with[p] = codecOfStream
      /\ CodecHolds(Codec(p)) /\ CallCodec(p) /\ received[p] = NoObject /\ p # Nobody
  BY <1>1, AtWork DEF CallPlace, Callers, Nobody
<1>3. CASE codecKind = "decoder" /\ Codec(p).ending
  <2>1. PICK codec : codec = [Codec(p) EXCEPT !.dirty = FALSE]
    OBVIOUS
  <2>2. PICK succeeds \in BOOLEAN : succeeds = TRUE
    OBVIOUS
  <2>3. EndCall(p, codec, succeeds)
    <3>1. EndCall(p, [Codec(p) EXCEPT !.dirty = FALSE], TRUE)
      BY <1>3 DEF Request
    <3>q. QED  BY <2>1, <2>2, <3>1, Zenon
  <2>4. codec \in Codecs /\ codec.held = Codec(p).held /\ codec.next = Codec(p).next /\ codec.open = Codec(p).open
    BY <1>2, <2>1 DEF Codecs
  <2>5. UNCHANGED <<settings, kernelClosed, codecOfStream, with, acceptedObjects, cuts, loop, received>>
    BY <1>1 DEF table, fates
  <2>6. PICK place, new : EndsCall(p, place, new) /\ new = [codec EXCEPT !.lock = Nobody]
    BY <1>1, <1>2, <2>3, <2>4, <2>5, EndCallEnds
  <2>7. new.held = Codec(p).held /\ new.next = Codec(p).next /\ new.open = Codec(p).open
    BY <2>4, <2>6 DEF Codecs
  <2>8. cuts # 0 /\ delay # 0
    BY <1>1, <1>2, <1>3 DEF CallCodec, Uncut
  <2>9. CodecHolds(new)'
    <3>1. ~Uncut' /\ cuts' # 0 /\ delay' # 0 /\ codecKind' = codecKind /\ company' = company
      BY <2>6, <2>8, WorkIs DEF EndsCall
    <3>q. QED  BY <1>2, <2>7, <3>1 DEF CodecHolds
  <2>q. QED  BY <1>1, <2>6, <2>7, <2>8, <2>9, TypesNow, QuietWork DEF EndsCall, table, fates
<1>4. CASE ~(codecKind = "decoder" /\ Codec(p).ending)
  <2>1. PICK new : new = [Codec(p) EXCEPT !.ending = TRUE]
    OBVIOUS
  <2>2. new \in Codecs /\ new.lock = p /\ new.open /\ new.held = Codec(p).held /\ new.ending /\ new.next = Codec(p).next
        /\ new.dirty = Codec(p).dirty /\ new.giving = Codec(p).giving
    BY <1>1, <1>2, <2>1 DEF Codecs
  <2>3. To(p, "receive") /\ Update(p, new) /\ UNCHANGED <<input, dirtyCache, kernelLock>>
    BY <1>4, <2>1 DEF Request
  <2>4. Works(p, "receive", new)
    <3>1. received' \in [Callers -> 0..MaxInputs] /\ received'[p] = NoObject
          /\ loop' \in [Callers -> {"none", "sent", "retry", "before", "after"}] /\ (loop'[p] = "sent" => p = "send")
      BY <1>1, <1>2, AtWork DEF CodecInv, CodecTypes, CallPlace
    <3>2. "receive" \in HasLock /\ "receive" \in Places \ {"stream", "check", "type", "enter", "remove"}
      BY DEF HasLock, Places
    <3>q. QED  BY <1>1, <1>2, <2>2, <2>3, <3>1, <3>2 DEF Works, table
  <2>5. CodecHolds(new)'
    BY <1>2, <2>2, <2>4, WorkIs DEF CodecHolds
  <2>6. CallCodec(p)'
    <3>1. codecKind = "encoder" => loop'[p] = "after"
      BY <1>1, <1>2 DEF CallCodec
    <3>q. QED  BY <2>2, <2>4, <3>1, WorkIs DEF CallCodec
  <2>7. InputComesAfter' /\ input' \in 1..MaxInputs + 1
    <3>1. acceptedObjects' = acceptedObjects /\ input' = input /\ doing'[p] = "receive" /\ loop' = loop
          /\ \A q \in Callers \ {p} : doing'[q] = doing[q]
      BY <1>1, <2>3, <2>4, WorkIs DEF fates
    <3>2. CASE p = "send"
      <4>1. SendHasPut' = SendHasPut /\ doing["send"] # "crashed" /\ input <= MaxInputs
        BY <1>1, <3>1, <3>2 DEF SendHasPut, CodecInv, InputComesAfter
      <4>q. QED  BY <3>1, <3>2, <4>1, InputMoves
    <3>3. CASE p # "send"
      BY <3>1, <3>3, InputStays DEF Callers
    <3>q. QED  BY <3>2, <3>3
  <2>q. QED  BY <1>1, <2>2, <2>3, <2>4, <2>5, <2>6, <2>7, TypesNow, QuietWork DEF table, fates
<1>q. QED  BY <1>3, <1>4

\* What is left after the flush is forgotten: nothing.
LEMMA ForgetAllKeeps ==
  ASSUME CodecInv, NEW p \in Callers, ForgetAll(p)
  PROVE  CodecInv'
<1>1. doing[p] = "forget" /\ doing[p] \in HasLock \ {"emit"} /\ doing[p] # "emit" /\ (Codec(p).open \/ ~canFlush)
      /\ UNCHANGED <<settings, table, with, loop, received, acceptedObjects, emitted, promised, cuts, answer, insideAll>>
  BY DEF ForgetAll, HasLock
<1>2. /\ with[p] \in Created /\ Codec(p) \in Codecs /\ Codec(p).lock = p /\ with[p] = codecOfStream
      /\ CodecHolds(Codec(p)) /\ Codec(p).held = <<>> /\ received[p] = NoObject /\ p # Nobody
  BY <1>1, AtWork DEF CallCodec, CallPlace, Callers, Nobody
<1>3. discarded' = discarded
  <2>1. Contents(with[p]) = {}
    BY <1>2 DEF Contents, Codec
  <2>q. QED  BY <2>1 DEF ForgetAll, Discard
<1>s. PICK succeeds \in BOOLEAN :
        LET codec == [(IF codecKind = "decoder" \/ canFlush THEN Flushed(Codec(p)) ELSE Reinit(Codec(p), succeeds)) EXCEPT !.dirty = FALSE]
        IN IF p = "send" /\ loop[p] = "retry"
           THEN To(p, "put") /\ Update(p, codec) /\ UNCHANGED <<input, dirtyCache, kernelLock>>
           ELSE EndCall(p, codec, succeeds)
  BY DEF ForgetAll
<1>4. PICK codec :
        /\ codec = [(IF codecKind = "decoder" \/ canFlush THEN Flushed(Codec(p)) ELSE Reinit(Codec(p), succeeds)) EXCEPT !.dirty = FALSE]
        /\ IF p = "send" /\ loop[p] = "retry"
           THEN To(p, "put") /\ Update(p, codec) /\ UNCHANGED <<input, dirtyCache, kernelLock>>
           ELSE EndCall(p, codec, succeeds)
  BY <1>s
<1>5. codec \in Codecs /\ codec.held = <<>> /\ ~codec.ending /\ (codec.next => Codec(p).next) /\ codec.lock = p
  <2>1. <<>> \in Seq(Objects)
    OBVIOUS
  <2>2. CASE codecKind = "decoder" \/ canFlush
    <3>1. codec = [Flushed(Codec(p)) EXCEPT !.dirty = FALSE]
      BY <1>4, <2>2
    <3>q. QED  BY <3>1, <1>2, <2>1 DEF Flushed, Codecs
  <2>3. CASE ~(codecKind = "decoder" \/ canFlush)
    <3>1. codec = [Reinit(Codec(p), succeeds) EXCEPT !.dirty = FALSE]
      BY <1>4, <2>3
    <3>q. QED  BY <3>1, <1>2, <2>1 DEF Reinit, Closed, Codecs
  <2>q. QED  BY <2>2, <2>3
<1>6. InsideCodec = {}
  BY <1>1, <1>2, NothingInside
<1>7. CASE p = "send" /\ loop[p] = "retry"
  <2>1. To(p, "put") /\ Update(p, codec) /\ UNCHANGED <<input, dirtyCache, kernelLock>>
    BY <1>4, <1>7
  <2>2. Works(p, "put", codec)
    <3>1. received' \in [Callers -> 0..MaxInputs] /\ received'[p] = NoObject
          /\ loop' \in [Callers -> {"none", "sent", "retry", "before", "after"}] /\ (loop'[p] = "sent" => p = "send")
      BY <1>1, <1>2, AtWork DEF CodecInv, CodecTypes, CallPlace
    <3>2. "put" \in HasLock /\ "put" \in Places \ {"stream", "check", "type", "enter", "remove"}
      BY DEF HasLock, Places
    <3>q. QED  BY <1>1, <1>2, <1>5, <2>1, <3>1, <3>2 DEF Works, table
  <2>3. CodecHolds(codec)'
    BY <1>2, <1>5, <2>2, WorkIs DEF CodecHolds
  <2>4. CallCodec(p)'
    BY <1>5, <2>2, WorkIs DEF CallCodec
  <2>5. InputComesAfter' /\ input' \in 1..MaxInputs + 1
    <3>1. acceptedObjects' = acceptedObjects /\ input' = input /\ doing'["send"] = "put"
      BY <1>1, <1>7, <2>1, <2>2, WorkIs
    <3>2. ~SendHasPut /\ doing["send"] # "crashed" /\ input <= MaxInputs
      BY <1>1, <1>7 DEF SendHasPut, CodecInv, InputComesAfter
    <3>q. QED  BY <3>1, <3>2, InputMoves
  <2>q. QED  BY <1>1, <1>2, <1>3, <1>5, <1>7, <2>1, <2>2, <2>3, <2>4, <2>5, TypesNow, QuietWork DEF table
<1>8. CASE ~(p = "send" /\ loop[p] = "retry")
  <2>1. EndCall(p, codec, succeeds)
    BY <1>4, <1>8
  <2>2. UNCHANGED <<settings, kernelClosed, codecOfStream, with, acceptedObjects, cuts, loop, received>>
    BY <1>1 DEF table
  <2>3. PICK place, new : EndsCall(p, place, new) /\ new = [codec EXCEPT !.lock = Nobody]
    BY <1>1, <1>2, <1>5, <2>1, <2>2, EndCallEnds
  <2>4. new.held = <<>> /\ (new.next => Codec(p).next) /\ ~new.ending
    BY <1>5, <2>3 DEF Codecs
  <2>5. CodecHolds(new)'
    BY <1>2, <2>3, <2>4, WorkIs DEF CodecHolds, EndsCall
  <2>q. QED  BY <1>1, <1>2, <1>3, <1>6, <2>3, <2>4, <2>5, AllOut, TypesNow, QuietWork DEF EndsCall, table
<1>q. QED  BY <1>7, <1>8

\* A codec after a change of the resolution is as it was, or new.
LEMMA ChangeIs ==
  ASSUME NEW rest \in Codecs, NEW codec \in AfterReceive(rest)
  PROVE  /\ codec \in Codecs /\ codec.lock = rest.lock
         /\ codec = rest \/ (rest.next /\ codec.held = <<>> /\ ~codec.ending /\ ~codec.next)
<1>1. <<>> \in Seq(Objects)
  OBVIOUS
<1>2. CASE codec = rest
  BY <1>2
<1>3. ASSUME NEW succeeds \in BOOLEAN, rest.next, codec = Reinit(rest, succeeds)
      PROVE  codec \in Codecs /\ codec.lock = rest.lock /\ codec.held = <<>> /\ ~codec.ending /\ ~codec.next
  BY <1>1, <1>3 DEF Reinit, Closed, Codecs
<1>q. QED  BY <1>2, <1>3 DEF AfterReceive

\* What it held before is in it or is lost.
ChangesTo(p, rest, codec, new, lost) ==
  /\ LostByChange(rest, codec) = {<<o, "resize">> : o \in lost}
  /\ ({new.held[i] : i \in DOMAIN new.held} \cup ({received'[p]} \ {NoObject})) \cup lost = Here(p, with[p])
  /\ (codec = rest => lost = {})

\* So it is.
LEMMA ChangeLoses ==
  ASSUME CodecInv, NEW p \in Callers, NEW rest, NEW codec, NEW new, with[p] \in Created, rest.held = Codec(p).held,
         codec = rest \/ codec.held = <<>>, new.held = codec.held, received'[p] = received[p]
  PROVE  \E lost : ChangesTo(p, rest, codec, new, lost)
<1> DEFINE lost == Contents(with[p]) \ {new.held[i] : i \in DOMAIN new.held}
<1>1. Contents(with[p]) = {rest.held[i] : i \in DOMAIN rest.held}
  BY DEF Contents, Codec
<1>2. {new.held[i] : i \in DOMAIN new.held} \subseteq Contents(with[p])
  BY <1>1
<1>3. Contents(with[p]) \subseteq Objects /\ NoObject \notin Objects
  <2>1. codecs[with[p]] \in Codecs
    BY CodecsAre DEF CodecInv
  <2>2. \A i \in DOMAIN codecs[with[p]].held : codecs[with[p]].held[i] \in Objects
    BY <2>1, CodecFields
  <2>q. QED  BY <2>2 DEF Contents, NoObject, Objects
<1>4. {new.held[i] : i \in DOMAIN new.held} = {codec.held[i] : i \in DOMAIN codec.held}
  OBVIOUS
<1>5. LostByChange(rest, codec) = {<<o, "resize">> : o \in lost}
  BY <1>1, <1>4 DEF LostByChange
<1>q. QED  BY <1>1, <1>2, <1>3, <1>5 DEF Here, ChangesTo

\* Nothing more is received.
LEMMA ReceiveEndsKeeps ==
  ASSUME CodecInv, NEW p \in Callers, ReceiveEnds(p)
  PROVE  CodecInv'
<1> DEFINE ended == Codec(p).ending
           fails == codecKind = "encoder" /\ ended = (loop[p] # "after")
<1>1. doing[p] = "receive" /\ doing[p] \in HasLock /\ Codec(p).open /\ ~Yields(p)
      /\ UNCHANGED <<settings, table, with, received, acceptedObjects, emitted, promised, cuts, answer, insideAll>>
      /\ loop' = IF loop[p] = "before" THEN [loop EXCEPT ![p] = "after"] ELSE loop
  BY DEF ReceiveEnds, HasLock
<1>2. /\ with[p] \in Created /\ Codec(p) \in Codecs /\ Codec(p).lock = p /\ with[p] = codecOfStream
      /\ CodecHolds(Codec(p)) /\ CallCodec(p) /\ CallPlace(p) /\ received[p] = NoObject /\ p # Nobody
      /\ codecKind \in {"encoder", "decoder"}
  BY <1>1, AtWork DEF CallPlace, Callers, Nobody, CodecInv, CodecTypes
<1>3. PICK rest : rest = CleanedBy(Codec(p), ended)
  OBVIOUS
<1>4. /\ rest \in Codecs /\ rest.lock = p /\ rest.open /\ rest.held = Codec(p).held /\ rest.ending = ended
      /\ rest.next = Codec(p).next /\ rest.giving = Codec(p).giving
      /\ (rest.dirty <=> (Codec(p).dirty /\ ~ended /\ delay > 0))
  BY <1>1, <1>2, <1>3 DEF CleanedBy, Codecs
<1>5. Codec(p).held # <<>> => ~ended /\ ~Codec(p).giving /\ delay = 1
  BY <1>1, <1>2 DEF Yields, CodecHolds, CodecInv, CodecTypes
<1>6. PICK codec \in AfterReceive(rest) :
        /\ discarded' = discarded \cup LostByChange(rest, codec)
        /\ IF fails \/ (loop[p] = "sent" /\ ~ended)
           THEN EndCall(p, codec, ~fails)
           ELSE To(p, FollowsLoop(p, ended)) /\ Update(p, codec) /\ UNCHANGED <<input, dirtyCache, kernelLock>>
  BY <1>3 DEF ReceiveEnds
<1>7. /\ codec \in Codecs /\ codec.lock = p
      /\ codec = rest \/ (rest.next /\ codec.held = <<>> /\ ~codec.ending /\ ~codec.next)
  BY <1>4, ChangeIs
<1>8. loop' \in [Callers -> {"none", "sent", "retry", "before", "after"}] /\ (\A q \in Callers \ {p} : loop'[q] = loop[q])
      /\ (loop'[p] = "sent" => p = "send") /\ (loop'[p] = "sent" <=> loop[p] = "sent")
      /\ (loop[p] = "before" => loop'[p] = "after") /\ loop[p] \in {"none", "sent", "retry", "before", "after"}
  BY <1>1, <1>2 DEF CodecInv, CodecTypes, CallPlace
<1>9. received' \in [Callers -> 0..MaxInputs] /\ received'[p] = NoObject /\ received' = received
  BY <1>1, <1>2 DEF CodecInv, CodecTypes
<1>10. Uncut /\ fails => ~ended
  BY <1>1, <1>2 DEF CallCodec
<1>11. ASSUME NEW new, NEW place, Works(p, place, new), new.held = codec.held, new.ending = codec.ending, new.next = codec.next,
              new.open = codec.open, new.dirty = codec.dirty, new.giving = codec.giving,
              new.lock = Nobody => (Uncut => ~ended), InputComesAfter', input' \in 1..MaxInputs + 1, CallCodec(p)',
              dirtyCache' \in BOOLEAN, kernelLock' \in Callers \cup {Nobody},
              ~(p = "flush" /\ place = "done")
       PROVE  CodecInv'
  <2>1. CodecHolds(new)'
    <3>1. ~new.open => new.held = <<>>
      BY <1>4, <1>7, <1>11
    <3>2. new.next => codecKind = "encoder" /\ "resize" \in company
      BY <1>2, <1>4, <1>7, <1>11 DEF CodecHolds
    <3>3. delay = 0 => new.held = <<>>
      BY <1>4, <1>5, <1>7, <1>11
    <3>4. cuts = 0 /\ new.open /\ ~new.dirty => new.held = <<>>
      BY <1>1, <1>2, <1>4, <1>5, <1>7, <1>11 DEF CodecHolds
    <3>5. Uncut /\ new.ending => new.lock # Nobody
      BY <1>4, <1>7, <1>11
    <3>q. QED  BY <1>11, <3>1, <3>2, <3>3, <3>4, <3>5, WorkIs DEF CodecHolds
  <2>2. PICK lost : ChangesTo(p, rest, codec, new, lost)
    <3>1. codec = rest \/ codec.held = <<>>
      BY <1>7
    <3>2. received'[p] = received[p]
      BY <1>9
    <3>3. with[p] \in Created /\ rest.held = Codec(p).held /\ new.held = codec.held
      BY <1>2, <1>4, <1>11
    <3>q. QED  BY <3>1, <3>2, <3>3, ChangeLoses
  <2>3. Shrinks(p, new, lost, "resize")
    <3>2. lost = {} \/ "resize" \in company
      BY <1>2, <1>4, <1>7, <2>2 DEF CodecHolds, ChangesTo
    <3>3. new.held \in {Codec(p).held, <<>>}
      BY <1>4, <1>7, <1>11
    <3>4. hasStream' \in BOOLEAN /\ cuts' \in 0..MaxCuts
      BY <1>1 DEF table, CodecInv, CodecTypes
    <3>q. QED  BY <1>1, <1>6, <1>9, <1>11, <2>2, <3>2, <3>3, <3>4 DEF Shrinks, ChangesTo
  <2>q. QED  BY <1>11, <2>1, <2>3, ShrinkDone
<1>12. CASE fails \/ (loop[p] = "sent" /\ ~ended)
  <2>1. PICK succeeds \in BOOLEAN : succeeds <=> ~fails
    <3>1. CASE fails
      <4>1. FALSE <=> ~fails
        BY <3>1
      <4>q. QED  BY <4>1
    <3>2. CASE ~fails
      <4>1. TRUE <=> ~fails
        BY <3>2
      <4>q. QED  BY <4>1
    <3>q. QED  BY <3>1, <3>2
  <2>2. EndCall(p, codec, succeeds)
    BY <1>6, <1>12, <2>1 DEF EndCall
  <2>3. UNCHANGED <<settings, kernelClosed, codecOfStream, with, acceptedObjects>>
    BY <1>1 DEF table
  <2>4. PICK place, new : EndsCall(p, place, new) /\ new = [codec EXCEPT !.lock = Nobody] /\ (place = "done" => succeeds)
    <3>1. cuts' = 0 => cuts = 0
      BY <1>1
    <3>2. \A q \in Callers \ {p} : loop'[q] = loop[q] /\ received'[q] = received[q]
      BY <1>8, <1>9
    <3>3. Codec(p).lock \in {Nobody, p} /\ (codec.open => with[p] = codecOfStream) /\ doing[p] \in HasLock \cup {"enter"}
      BY <1>1, <1>2
    <3>4. loop'[p] = "sent" => p = "send"
      BY <1>8
    <3>q. QED  BY <1>2, <1>7, <1>8, <1>9, <2>2, <2>3, <3>1, <3>2, <3>3, <3>4, EndCallWorks
  <2>5. new.held = codec.held /\ new.ending = codec.ending /\ new.next = codec.next /\ new.open = codec.open
        /\ new.dirty = codec.dirty /\ new.giving = codec.giving /\ new.lock = Nobody
    BY <1>7, <2>4 DEF Codecs
  <2>6. ~(p = "flush" /\ place = "done")
    BY <1>2, <1>12, <2>1, <2>4 DEF CallPlace
  <2>q. QED  BY <1>10, <1>11, <1>12, <2>4, <2>5, <2>6 DEF EndsCall
<1>13. CASE ~(fails \/ (loop[p] = "sent" /\ ~ended))
  <2>1. PICK place \in {"forget", "request", "put"} : place = FollowsLoop(p, ended)
    BY DEF FollowsLoop
  <2>2. /\ (place = "forget" => loop[p] = "after" \/ ended) /\ (place = "request" => loop[p] = "before" /\ ~ended)
        /\ (place = "put" => loop[p] \notin {"after", "before"} /\ ~ended)
    BY <2>1 DEF FollowsLoop
  <2>3. To(p, place) /\ Update(p, codec) /\ UNCHANGED <<input, dirtyCache, kernelLock>>
    BY <1>6, <1>13, <2>1
  <2>4. Works(p, place, codec)
    <3>1. place \in HasLock /\ place \in Places \ {"stream", "check", "type", "enter", "remove"} /\ place # "emit"
      BY DEF HasLock, Places
    <3>2. UNCHANGED <<settings, with, kernelClosed, codecOfStream, kernelLock, received>> /\ (cuts' = 0 => cuts = 0)
      BY <1>1, <2>3 DEF table
    <3>q. QED  BY <1>1, <1>2, <1>7, <1>8, <1>9, <2>3, <3>1, <3>2 DEF Works
  <2>5. CallCodec(p)'
    <3>1. place = "forget" => codec.held = <<>>
      <4>1. codecKind = "encoder" /\ loop[p] = "after" /\ ~ended => fails
        <5>1. ended \in BOOLEAN
          BY <1>2, CodecFields
        <5>q. QED  BY <5>1
      <4>2. codecKind = "decoder" /\ loop[p] = "after" => ended
        BY <1>1, <1>2 DEF CallCodec
      <4>3. place = "forget" => ended
        BY <1>2, <1>13, <2>2, <4>1, <4>2
      <4>q. QED  BY <1>4, <1>5, <1>7, <4>3
    <3>2. place # "forget" => ~codec.ending
      BY <1>4, <1>7, <2>2
    <3>3. delay = 0 => codec.held = <<>>
      BY <1>4, <1>5, <1>7
    <3>4. place = "request" => loop'[p] = "after"
      BY <1>8, <2>2
    <3>q. QED  BY <2>4, <3>1, <3>2, <3>3, <3>4, WorkIs DEF CallCodec
  <2>6. InputComesAfter' /\ input' \in 1..MaxInputs + 1
    <3>1. acceptedObjects' = acceptedObjects /\ input' = input /\ doing'[p] = place
          /\ \A q \in Callers \ {p} : doing'[q] = doing[q]
      BY <1>1, <2>3, <2>4, WorkIs
    <3>2. CASE p = "send"
      <4>1. SendHasPut' \/ ~SendHasPut
        BY <1>1, <1>8, <1>13, <2>2, <3>1, <3>2 DEF SendHasPut
      <4>2. doing["send"] # "crashed" /\ input <= MaxInputs
        BY <1>1, <3>2 DEF CodecInv, InputComesAfter
      <4>q. QED  BY <3>1, <3>2, <4>1, <4>2, InputMoves
    <3>3. CASE p # "send"
      BY <1>8, <3>1, <3>3, InputStays DEF Callers
    <3>q. QED  BY <3>2, <3>3
  <2>7. codec.lock # Nobody /\ dirtyCache' \in BOOLEAN /\ kernelLock' \in Callers \cup {Nobody} /\ place # "done"
    BY <1>2, <1>7, <2>3, TypesNow
  <2>q. QED  BY <1>11, <2>4, <2>5, <2>6, <2>7
<1>q. QED  BY <1>12, <1>13

\* There is no codec to receive from.
LEMMA UseOfNoneKeeps ==
  ASSUME CodecInv, NEW p \in Callers, UseOfNone(p)
  PROVE  CodecInv'
BY CrashKeeps DEF UseOfNone

\* What was received cannot be emitted, and the call fails.
LEMMA EmitFailsKeeps ==
  ASSUME CodecInv, NEW p \in Callers, EmitFails(p)
  PROVE  CodecInv'
<1>1. doing[p] = "emit" /\ doing[p] \in HasLock /\ received' = [received EXCEPT ![p] = NoObject]
      /\ UNCHANGED <<settings, table, with, loop, acceptedObjects, emitted, promised, answer, insideAll>>
  BY DEF EmitFails, HasLock
<1>2. PICK reason \in Stops(p) \cup (IF cuts < MaxCuts THEN {"cut"} ELSE {}) :
        Discard({received[p]}, reason) /\ cuts' = IF reason = "cut" THEN cuts + 1 ELSE cuts
  BY DEF EmitFails
<1>3. /\ with[p] \in Created /\ Codec(p) \in Codecs /\ Codec(p).lock = p /\ with[p] = codecOfStream
      /\ CodecHolds(Codec(p)) /\ CallCodec(p) /\ CallPlace(p) /\ received[p] # NoObject /\ p # Nobody
  BY <1>1, AtWork DEF CallPlace, Callers, Nobody
<1>4. reason = "cut" \/ (reason = "close" /\ codecKind = "encoder" /\ kernelClosed /\ "close" \in company)
  BY <1>2 DEF Stops, CodecInv, CodecFates
<1>5. cuts' \in 0..MaxCuts /\ (cuts' = 0 => cuts = 0 /\ reason # "cut")
  <2>1. cuts \in Nat /\ MaxCuts \in Nat /\ cuts <= MaxCuts
    BY CodecAssumption DEF CodecInv, CodecTypes
  <2>2. reason = "cut" => cuts < MaxCuts
    BY <1>2 DEF Stops
  <2>q. QED  BY <1>2, <2>1, <2>2
<1>s. PICK succeeds \in BOOLEAN : succeeds = FALSE
  OBVIOUS
<1>6. PICK codec : codec = Codec(p)
  OBVIOUS
<1>7. EndCall(p, codec, succeeds)
  <2>1. EndCall(p, Codec(p), FALSE)
    BY DEF EmitFails
  <2>q. QED  BY <1>s, <1>6, <2>1, Zenon
<1>8. received' \in [Callers -> 0..MaxInputs] /\ received'[p] = NoObject /\ \A q \in Callers \ {p} : received'[q] = received[q]
  <2>1. received \in [Callers -> 0..MaxInputs] /\ NoObject \in 0..MaxInputs
    BY CodecAssumption DEF CodecInv, CodecTypes, NoObject
  <2>q. QED  BY <1>1, <2>1
<1>9. PICK place, new : EndsCall(p, place, new) /\ new = [codec EXCEPT !.lock = Nobody] /\ (place = "done" => succeeds)
  <2>1. UNCHANGED <<settings, kernelClosed, codecOfStream, with, acceptedObjects>> /\ (cuts' = 0 => cuts = 0)
    BY <1>1, <1>5 DEF table
  <2>2. loop' \in [Callers -> {"none", "sent", "retry", "before", "after"}] /\ (loop'[p] = "sent" => p = "send")
    BY <1>1, <1>3 DEF CodecInv, CodecTypes, CallPlace
  <2>3. \A q \in Callers \ {p} : loop'[q] = loop[q] /\ received'[q] = received[q]
    BY <1>1, <1>8
  <2>4. codec \in Codecs /\ Codec(p).lock \in {Nobody, p} /\ (codec.open => with[p] = codecOfStream) /\ doing[p] \in HasLock \cup {"enter"}
    BY <1>1, <1>3, <1>6
  <2>q. QED  BY <1>3, <1>7, <1>8, <2>1, <2>2, <2>3, <2>4, EndCallWorks
<1>10. new.open = Codec(p).open /\ new.held = Codec(p).held /\ new.next = Codec(p).next /\ new.dirty = Codec(p).dirty
       /\ new.giving = Codec(p).giving /\ new.ending = Codec(p).ending /\ Works(p, place, new)
  BY <1>3, <1>6, <1>9 DEF Codecs, EndsCall
<1>11. CodecHolds(new)'
  <2>1. ~Uncut'
    <3>1. codecKind' = codecKind /\ kernelClosed' = kernelClosed
      BY <1>1 DEF settings, table
    <3>q. QED  BY <1>4, <1>5, <3>1 DEF Uncut
  <2>2. delay = 0 => new.held = <<>>
    BY <1>1, <1>3, <1>10 DEF CallCodec
  <2>q. QED  BY <1>3, <1>10, <2>1, <2>2, WorkIs DEF CodecHolds
<1>12. Shrinks(p, new, {received[p]}, reason)
  <2>1. {new.held[i] : i \in DOMAIN new.held} = Contents(with[p])
    BY <1>10 DEF Contents, Codec
  <2>2. Contents(with[p]) \subseteq Objects /\ NoObject \notin Objects
    <3>1. \A i \in DOMAIN Codec(p).held : Codec(p).held[i] \in Objects
      BY <1>3, CodecFields
    <3>q. QED  BY <3>1 DEF Contents, NoObject, Objects, Codec
  <2>3. ({new.held[i] : i \in DOMAIN new.held} \cup ({received'[p]} \ {NoObject})) \cup {received[p]} = Here(p, with[p])
    BY <1>3, <1>8, <2>1, <2>2 DEF Here
  <2>4. hasStream' \in BOOLEAN /\ dirtyCache' \in BOOLEAN /\ kernelLock' \in Callers \cup {Nobody}
    BY <1>1, <1>9, TypesNow DEF table, EndsCall
  <2>5. discarded' = discarded \cup {<<o, reason>> : o \in {received[p]}}
    BY <1>2 DEF Discard
  <2>6. reason = "cut" \/ (reason # "flush" /\ reason \in company)
    BY <1>4
  <2>q. QED  BY <1>1, <1>5, <1>8, <1>10, <2>3, <2>4, <2>5, <2>6 DEF Shrinks
<1>13. ~(p = "flush" /\ place = "done")
  BY <1>s, <1>9
<1>q. QED  BY <1>9, <1>10, <1>11, <1>12, <1>13, ShrinkDone DEF EndsCall

\* An object goes out, in order.
LEMMA EmitKeeps ==
  ASSUME CodecInv, NEW p \in Callers, Emit(p)
  PROVE  CodecInv'
<1>1. doing[p] = "emit" /\ doing[p] \in HasLock /\ received' = [received EXCEPT ![p] = NoObject] /\ To(p, "receive")
      /\ emitted' = Append(emitted, received[p])
      /\ UNCHANGED <<settings, table, kernelLock, codecs, with, loop, input, acceptedObjects, discarded, promised, cuts, asking>>
  BY DEF Emit, HasLock
<1>2. /\ with[p] \in Created /\ Codec(p) \in Codecs /\ Codec(p).lock = p /\ with[p] = codecOfStream
      /\ CodecHolds(Codec(p)) /\ CallCodec(p) /\ CallPlace(p) /\ received[p] # NoObject /\ p # Nobody
      /\ \A q \in Callers \ {p} : received[q] = NoObject
  BY <1>1, AtWork DEF CallPlace, Callers, Nobody
<1>3. PICK new : new = Codec(p)
  OBVIOUS
<1>4. PICK o : o = received[p]
  OBVIOUS
<1>5. /\ received' \in [Callers -> 0..MaxInputs] /\ received'[p] = NoObject /\ (\A q \in Callers \ {p} : received'[q] = received[q])
      /\ o \in Objects
  <2>1. received \in [Callers -> 0..MaxInputs] /\ NoObject \in 0..MaxInputs
    BY CodecAssumption DEF CodecInv, CodecTypes, NoObject
  <2>2. o \in Objects
    <3>1. o \in 0..MaxInputs /\ o # 0
      BY <1>2, <1>4, <2>1 DEF NoObject
    <3>q. QED  BY <3>1 DEF Objects
  <2>q. QED  BY <1>1, <2>1, <2>2
<1>6. emitted \in Seq(Objects) /\ emitted' = Append(emitted, o)
  BY <1>1, <1>4 DEF CodecInv, CodecTypes
<1>7. /\ emitted' \in Seq(Objects) /\ DOMAIN emitted' = DOMAIN emitted \cup {Len(emitted) + 1}
      /\ emitted'[Len(emitted) + 1] = o /\ (\A i \in DOMAIN emitted : emitted'[i] = emitted[i] /\ i \in 1..Len(emitted))
      /\ Len(emitted) \in Nat
  BY <1>5, <1>6
<1>8. Update(p, new)
  <2>1. codecs = [codecs EXCEPT ![with[p]] = codecs[with[p]]]
    BY DEF CodecInv, CodecTypes
  <2>q. QED  BY <1>1, <1>3, <2>1 DEF Update, Codec
<1>9. Works(p, "receive", new)
  <2>1. "receive" \in HasLock /\ "receive" \in Places \ {"stream", "check", "type", "enter", "remove"}
    BY DEF HasLock, Places
  <2>2. loop' \in [Callers -> {"none", "sent", "retry", "before", "after"}] /\ (loop'[p] = "sent" => p = "send") /\ loop' = loop
    BY <1>1, <1>2 DEF CodecInv, CodecTypes, CallPlace
  <2>3. UNCHANGED <<settings, with, kernelClosed, codecOfStream, kernelLock>> /\ (cuts' = 0 => cuts = 0)
    BY <1>1 DEF table
  <2>q. QED  BY <1>1, <1>2, <1>3, <1>5, <1>8, <2>1, <2>2, <2>3 DEF Works
<1>10. CodecHolds(new)' /\ CallCodec(p)'
  <2>1. CodecHolds(new)'
    BY <1>2, <1>3, <1>9, WorkIs DEF CodecHolds
  <2>2. CallCodec(p)'
    <3>1. loop' = loop
      BY <1>1
    <3>q. QED  BY <1>1, <1>2, <1>3, <1>9, <3>1, WorkIs DEF CallCodec
  <2>q. QED  BY <2>1, <2>2
<1>11. ObjectsInOrder
  BY DEF CodecInv
<1>12. ObjectsInOrder'
  <2>1. Created' = Created /\ codecs' = codecs /\ \A c \in Created : Contents(c)' = Contents(c)
    BY <1>1 DEF Created, Contents
  <2>2. Sorted(emitted)'
    <3>1. \A i \in DOMAIN emitted : emitted[i] < o
      BY <1>2, <1>4, <1>11 DEF ObjectsInOrder
    <3>2. \A i, j \in DOMAIN emitted : i < j => emitted[i] < emitted[j]
      BY <1>11 DEF ObjectsInOrder, Sorted
    <3>3. ASSUME NEW i \in DOMAIN emitted', NEW j \in DOMAIN emitted', i < j  PROVE emitted'[i] < emitted'[j]
      <4>1. i \in DOMAIN emitted
        BY <1>7, <3>3
      <4>q. QED  BY <1>7, <3>1, <3>2, <3>3, <4>1
    <3>q. QED  BY <3>3 DEF Sorted
  <2>3. \A c \in Created' : Sorted(codecs[c].held)'
    BY <1>11, <2>1 DEF ObjectsInOrder, Sorted
  <2>4. \A q \in Callers : received'[q] = NoObject
    BY <1>2, <1>5
  <2>5. \A c \in Created : \A x \in Contents(c) : o < x
    BY <1>2, <1>4, <1>11 DEF ObjectsInOrder
  <2>6. \A i \in DOMAIN emitted' : \A c \in Created' : \A x \in Contents(c)' : emitted'[i] < x
    BY <1>7, <1>11, <2>1, <2>5 DEF ObjectsInOrder
  <2>q. QED  BY <2>2, <2>3, <2>4, <2>6 DEF ObjectsInOrder
<1>13. WasEmitted' = WasEmitted \cup {o} /\ WasDiscarded' = WasDiscarded
  <2>1. WasEmitted' = WasEmitted \cup {o}
    BY <1>7 DEF WasEmitted
  <2>q. QED  BY <1>1, <2>1 DEF WasDiscarded
<1>14. acceptedObjects' = WasEmitted' \cup InsideCodec' \cup WasDiscarded'
  <2>1. PICK c \in Created : c = with[p]
    BY <1>2
  <2>2. Created' = Created /\ (\A d \in Created \ {c} : codecs'[d].held = codecs[d].held) /\ Contents(c)' = Contents(c)
    BY <1>1 DEF Created, Contents
  <2>3. Here(p, c)' \cup {o} \cup {} = Here(p, c) \cup {}
    BY <1>2, <1>4, <1>5, <2>2 DEF Here
  <2>4. acceptedObjects' = acceptedObjects \cup {} /\ WasDiscarded' = WasDiscarded \cup {}
    BY <1>1, <1>13
  <2>q. QED  BY <1>5, <1>13, <2>2, <2>3, <2>4, FatesMove
<1>15. InputComesAfter' /\ input' \in 1..MaxInputs + 1
  <2>1. acceptedObjects' = acceptedObjects /\ input' = input /\ loop' = loop /\ doing'[p] = "receive"
        /\ \A q \in Callers \ {p} : doing'[q] = doing[q]
    BY <1>1, <1>9, WorkIs
  <2>2. CASE p = "send"
    <3>1. SendHasPut' = SendHasPut /\ doing["send"] # "crashed" /\ input <= MaxInputs
      BY <1>1, <2>1, <2>2 DEF SendHasPut, CodecInv, InputComesAfter
    <3>q. QED  BY <2>1, <2>2, <3>1, InputMoves
  <2>3. CASE p # "send"
    BY <2>1, <2>3, InputStays DEF Callers
  <2>q. QED  BY <2>2, <2>3
<1>16. acceptedObjects' \subseteq Objects /\ acceptedObjects \subseteq acceptedObjects' /\ cuts' \in 0..MaxCuts
       /\ UNCHANGED <<promised, answer, insideAll>> /\ discarded' = discarded
       /\ hasStream' \in BOOLEAN /\ dirtyCache' \in BOOLEAN /\ kernelLock' \in Callers \cup {Nobody}
  BY <1>1, TypesNow DEF CodecInv, CodecTypes, asking, table
<1>17. WasEmitted \subseteq WasEmitted' /\ WasDiscarded \subseteq WasDiscarded'
       /\ (\A d \in discarded' : d \in discarded \/ (d[2] # "flush" /\ (d[2] # "cut" => d[2] \in company)))
       /\ ~(p = "flush" /\ "receive" = "done")
  BY <1>13, <1>16
<1>q. QED  BY <1>7, <1>9, <1>10, <1>12, <1>14, <1>15, <1>16, <1>17, WorkDone

\* An object goes in, after those that are in.
LEMMA PutKeeps ==
  ASSUME CodecInv, Put
  PROVE  CodecInv'
<1>1. /\ "send" \in Callers /\ doing["send"] = "put" /\ doing["send"] \in HasLock /\ Codec("send").open /\ ~Codec("send").ending
      /\ acceptedObjects' = acceptedObjects \cup {input} /\ loop' = [loop EXCEPT !["send"] = "sent"]
      /\ UNCHANGED <<settings, table, kernelLock, with, received, input, emitted, discarded, promised, cuts, asking>>
  BY DEF Put, Callers, HasLock, Refused
<1>2. /\ with["send"] \in Created /\ Codec("send") \in Codecs /\ Codec("send").lock = "send" /\ with["send"] = codecOfStream
      /\ CodecHolds(Codec("send")) /\ CallCodec("send") /\ "send" # Nobody
      /\ \A q \in Callers : received[q] = NoObject
  BY <1>1, AtWork DEF CallPlace, Nobody
<1>3. PICK place \in {"request", "receive"} : To("send", place) /\ (codecKind = "encoder" => place = "receive")
  BY DEF Put, AfterPut
<1>4. PICK new : new = [Codec("send") EXCEPT !.held = Append(@, input), !.giving = Len(Codec("send").held) = delay,
                                           !.dirty = TRUE, !.keySeen = TRUE]
  OBVIOUS
<1>5. Update("send", new)
  BY <1>4 DEF Put
<1>6. input \in Objects /\ ~SendHasPut /\ input <= MaxInputs
  <2>1. input \in 1..MaxInputs + 1 /\ input <= MaxInputs /\ MaxInputs \in Nat
    BY <1>1, CodecAssumption DEF CodecInv, CodecTypes, InputComesAfter
  <2>2. input \in Objects
    BY <2>1 DEF Objects
  <2>q. QED  BY <1>1, <2>1, <2>2 DEF SendHasPut
<1>7. PICK held \in Seq(Objects) : held = Codec("send").held
  BY <1>2, CodecFields
<1>8. /\ Append(held, input) \in Seq(Objects) /\ Len(held) \in Nat /\ Len(Append(held, input)) = Len(held) + 1
      /\ DOMAIN Append(held, input) = DOMAIN held \cup {Len(held) + 1}
      /\ Append(held, input)[Len(held) + 1] = input /\ \A i \in DOMAIN held : Append(held, input)[i] = held[i] /\ i \in 1..Len(held)
  BY <1>6
<1>9. /\ new \in Codecs /\ new.lock = "send" /\ new.open /\ ~new.ending /\ new.next = Codec("send").next /\ new.dirty
      /\ new.held = Append(held, input)
  BY <1>1, <1>2, <1>4, <1>7, <1>8 DEF Codecs
<1>10. delay = 0 => held = <<>> /\ new.giving
  <2>1. delay = 0 => held = <<>>
    BY <1>1, <1>2, <1>7 DEF CallCodec
  <2>2. new.giving = (Len(held) = delay)
    BY <1>2, <1>4, <1>7 DEF Codecs
  <2>3. Len(<<>>) = 0
    OBVIOUS
  <2>q. QED  BY <2>1, <2>2, <2>3
<1>11. Works("send", place, new)
  <2>1. received' \in [Callers -> 0..MaxInputs] /\ received'["send"] = NoObject
    BY <1>1, <1>2 DEF CodecInv, CodecTypes
  <2>2. place \in HasLock /\ place \in Places \ {"stream", "check", "type", "enter", "remove"} /\ place # "emit"
    BY DEF HasLock, Places
  <2>3. loop' \in [Callers -> {"none", "sent", "retry", "before", "after"}] /\ \A q \in Callers \ {"send"} : loop'[q] = loop[q]
    BY <1>1 DEF CodecInv, CodecTypes
  <2>4. UNCHANGED <<settings, with, kernelClosed, codecOfStream, kernelLock, received>> /\ (cuts' = 0 => cuts = 0)
    BY <1>1 DEF table
  <2>q. QED  BY <1>1, <1>2, <1>3, <1>5, <1>9, <2>1, <2>2, <2>3, <2>4 DEF Works
<1>12. CodecHolds(new)'
  <2>1. delay = 0 => Len(new.held) <= 1
    BY <1>8, <1>9, <1>10
  <2>q. QED  BY <1>1, <1>2, <1>9, <1>10, <1>11, <2>1, WorkIs DEF CodecHolds
<1>13. CallCodec("send")'
  <2>1. loop'["send"] = "sent"
    BY <1>1 DEF CodecInv, CodecTypes
  <2>q. QED  BY <1>1, <1>3, <1>9, <1>11, <2>1, WorkIs DEF CallCodec
<1>14. PICK c \in Created : c = with["send"]
  BY <1>2
<1>15. Created' = Created /\ codecs'[c] = new /\ (\A d \in Created \ {c} : codecs'[d] = codecs[d]) /\ codecs[c].held = held
  BY <1>2, <1>5, <1>7, <1>14 DEF Update, CodecInv, CodecTypes, Created, Codec
<1>16. Contents(c)' = Contents(c) \cup {input} /\ (\A d \in Created \ {c} : Contents(d)' = Contents(d))
  <2>1. Contents(c)' = {Append(held, input)[i] : i \in DOMAIN Append(held, input)}
    BY <1>9, <1>15 DEF Contents
  <2>2. Contents(c) = {held[i] : i \in DOMAIN held}
    BY <1>15 DEF Contents
  <2>3. {Append(held, input)[i] : i \in DOMAIN Append(held, input)} = {held[i] : i \in DOMAIN held} \cup {input}
    BY <1>8
  <2>4. \A d \in Created \ {c} : Contents(d)' = Contents(d)
    BY <1>15 DEF Contents
  <2>q. QED  BY <2>1, <2>2, <2>3, <2>4
<1>17. (\A o \in acceptedObjects : o < input /\ o \in Nat) /\ WasEmitted \subseteq acceptedObjects /\ acceptedObjects \subseteq Objects
       /\ \A d \in Created : Contents(d) \subseteq acceptedObjects
  <2>1. WasEmitted \subseteq acceptedObjects /\ InsideCodec \subseteq acceptedObjects /\ acceptedObjects \subseteq Objects
    BY DEF CodecInv, CodecFates, CodecTypes
  <2>2. \A d \in Created : Contents(d) \subseteq Objects
    <3>1. \A d \in Created : codecs[d] \in Codecs
      BY CodecsAre DEF CodecInv
    <3>2. \A d \in Created : \A i \in DOMAIN codecs[d].held : codecs[d].held[i] \in Objects
      BY <3>1, CodecFields
    <3>q. QED  BY <3>2 DEF Contents
  <2>3. NoObject \notin Objects /\ \A o \in Objects : o \in Nat
    BY CodecAssumption DEF NoObject, Objects
  <2>4. \A d \in Created : Contents(d) \subseteq InsideCodec
    BY <2>2, <2>3 DEF InsideCodec
  <2>5. \A o \in acceptedObjects : o < input
    BY <1>1, <1>6 DEF CodecInv, InputComesAfter
  <2>q. QED  BY <2>1, <2>3, <2>4, <2>5
<1>18. ObjectsInOrder
  BY DEF CodecInv
<1>19. ObjectsInOrder'
  <2>1. Sorted(new.held)
    <3>1. \A i \in DOMAIN held : held[i] < input
      BY <1>14, <1>15, <1>17 DEF Contents
    <3>2. \A i, j \in DOMAIN held : i < j => held[i] < held[j]
      BY <1>15, <1>18 DEF ObjectsInOrder, Sorted
    <3>3. ASSUME NEW i \in DOMAIN Append(held, input), NEW j \in DOMAIN Append(held, input), i < j
          PROVE  Append(held, input)[i] < Append(held, input)[j]
      <4>1. i \in DOMAIN held
        BY <1>8, <3>3
      <4>q. QED  BY <1>8, <3>1, <3>2, <3>3, <4>1
    <3>q. QED  BY <1>9, <3>3 DEF Sorted
  <2>2. \A d \in Created' : Sorted(codecs[d].held)'
    BY <1>15, <1>18, <2>1 DEF ObjectsInOrder, Sorted
  <2>3. Sorted(emitted)'
    BY <1>1, <1>18 DEF ObjectsInOrder, Sorted
  <2>4. \A q \in Callers : received'[q] = NoObject
    BY <1>1, <1>2
  <2>5. \A i \in DOMAIN emitted : emitted[i] < input
    BY <1>17 DEF WasEmitted
  <2>6. \A i \in DOMAIN emitted' : \A d \in Created' : \A x \in Contents(d)' : emitted'[i] < x
    BY <1>1, <1>15, <1>16, <1>18, <2>5 DEF ObjectsInOrder
  <2>q. QED  BY <2>2, <2>3, <2>4, <2>6 DEF ObjectsInOrder
<1>20. WasEmitted' = WasEmitted /\ WasDiscarded' = WasDiscarded
  BY <1>1 DEF WasEmitted, WasDiscarded
<1>21. acceptedObjects' = WasEmitted' \cup InsideCodec' \cup WasDiscarded'
  <2>1. Here("send", c)' \cup {} \cup {} = Here("send", c) \cup {input}
    <3>1. NoObject # input
      BY <1>6 DEF NoObject, Objects
    <3>q. QED  BY <1>1, <1>16, <3>1 DEF Here
  <2>2. acceptedObjects' = acceptedObjects \cup {input} /\ WasEmitted' = WasEmitted \cup {} /\ WasDiscarded' = WasDiscarded \cup {}
    BY <1>1, <1>20
  <2>3. (\A d \in Created \ {c} : codecs'[d].held = codecs[d].held) /\ \A q \in Callers \ {"send"} : received'[q] = received[q]
    BY <1>1, <1>15
  <2>q. QED  BY <1>1, <1>15, <2>1, <2>2, <2>3, FatesMove
<1>22. InputComesAfter' /\ input' \in 1..MaxInputs + 1
  <2>1. input' = input /\ input \in 1..MaxInputs + 1 /\ doing'["send"] = place /\ loop'["send"] = "sent"
    BY <1>1, <1>11, WorkIs DEF CodecInv, CodecTypes
  <2>2. \A o \in acceptedObjects' : o <= input'
    <3>1. input <= input
      BY <2>1
    <3>2. \A o \in acceptedObjects : o <= input
      BY <1>17, <2>1
    <3>q. QED  BY <1>1, <2>1, <3>1, <3>2
  <2>3. SendHasPut'
    BY <2>1 DEF SendHasPut
  <2>q. QED  BY <1>6, <2>1, <2>2, <2>3 DEF InputComesAfter
<1>23. acceptedObjects' \subseteq Objects /\ acceptedObjects \subseteq acceptedObjects' /\ cuts' \in 0..MaxCuts /\ emitted' \in Seq(Objects)
       /\ UNCHANGED <<promised, answer, insideAll>> /\ discarded' = discarded
       /\ hasStream' \in BOOLEAN /\ dirtyCache' \in BOOLEAN /\ kernelLock' \in Callers \cup {Nobody}
  BY <1>1, <1>6, TypesNow DEF CodecInv, CodecTypes, asking, table
<1>24. WasEmitted \subseteq WasEmitted' /\ WasDiscarded \subseteq WasDiscarded'
       /\ (\A d \in discarded' : d \in discarded \/ (d[2] # "flush" /\ (d[2] # "cut" => d[2] \in company)))
       /\ ~("send" = "flush" /\ place = "done")
  BY <1>20, <1>23
<1>q. QED  BY <1>1, <1>11, <1>12, <1>13, <1>19, <1>21, <1>22, <1>23, <1>24, WorkDone

\* The first object of a sequence and the others.
LEMMA HeadAndTail ==
  ASSUME NEW held \in Seq(Objects), held # <<>>
  PROVE  /\ Tail(held) \in Seq(Objects) /\ Head(held) \in Objects /\ Len(Tail(held)) = Len(held) - 1 /\ Len(held) \in Nat
         /\ 1 \in DOMAIN held /\ Head(held) = held[1]
         /\ \A i \in DOMAIN Tail(held) : Tail(held)[i] = held[i + 1] /\ i + 1 \in DOMAIN held /\ i \in Nat /\ 1 < i + 1
         /\ {held[i] : i \in DOMAIN held} = {Head(held)} \cup {Tail(held)[i] : i \in DOMAIN Tail(held)}
<1>1. /\ Tail(held) \in Seq(Objects) /\ Head(held) \in Objects /\ Len(Tail(held)) = Len(held) - 1 /\ Len(held) \in Nat
      /\ 1 \in DOMAIN held /\ Head(held) = held[1] /\ DOMAIN held = 1..Len(held) /\ DOMAIN Tail(held) = 1..Len(held) - 1
      /\ \A i \in 1..Len(held) - 1 : Tail(held)[i] = held[i + 1]
  OBVIOUS
<1>2. \A i \in DOMAIN Tail(held) : Tail(held)[i] = held[i + 1] /\ i + 1 \in DOMAIN held /\ i \in Nat /\ 1 < i + 1
  BY <1>1
<1>3. \A j \in DOMAIN held : j = 1 \/ (j - 1 \in DOMAIN Tail(held) /\ (j - 1) + 1 = j)
  BY <1>1
<1>4. \A j \in DOMAIN held : held[j] = Head(held) \/ \E i \in DOMAIN Tail(held) : held[j] = Tail(held)[i]
  BY <1>1, <1>2, <1>3
<1>q. QED  BY <1>1, <1>2, <1>4

\* An object comes out of the codec, the first of those inside.
LEMMA ReceiveKeeps ==
  ASSUME CodecInv, NEW p \in Callers, Receive(p)
  PROVE  CodecInv'
<1>1. doing[p] = "receive" /\ doing[p] \in HasLock /\ Codec(p).open /\ Yields(p)
      /\ UNCHANGED <<settings, table, kernelLock, with, loop, input, acceptedObjects, emitted, promised, cuts, asking>>
  BY DEF Receive, HasLock
<1>2. /\ with[p] \in Created /\ Codec(p) \in Codecs /\ Codec(p).lock = p /\ with[p] = codecOfStream
      /\ CodecHolds(Codec(p)) /\ CallCodec(p) /\ CallPlace(p) /\ p # Nobody /\ p \in company \cup {"send"}
      /\ \A q \in Callers : received[q] = NoObject
  BY <1>1, AtWork, TypesNow DEF CallPlace, Callers, Nobody
<1>3. PICK held \in Seq(Objects) : held = Codec(p).held /\ held # <<>>
  BY <1>1, <1>2, CodecFields DEF Yields
<1>4. PICK first \in Objects : first = Head(held)
  BY <1>3, HeadAndTail
<1>5. PICK rest : rest = [Codec(p) EXCEPT !.held = Tail(@), !.giving = @ /\ Len(Codec(p).held) > 1]
  OBVIOUS
<1>6. /\ rest \in Codecs /\ rest.held = Tail(held) /\ rest.lock = p /\ rest.open /\ rest.ending = Codec(p).ending
      /\ rest.dirty = Codec(p).dirty /\ rest.next = Codec(p).next
  <2>1. Tail(held) \in Seq(Objects)
    BY <1>3, HeadAndTail
  <2>2. (Codec(p).giving /\ Len(Codec(p).held) > 1) \in BOOLEAN
    OBVIOUS
  <2>q. QED  BY <1>1, <1>2, <1>3, <1>5, <2>1, <2>2 DEF Codecs
<1>7. PICK new \in AfterReceive(rest) :
        /\ Update(p, new)
        /\ discarded' = discarded \cup LostByChange(rest, new) \cup (IF p = "reset" THEN {<<first, "reset">>} ELSE {})
  BY <1>3, <1>4, <1>5 DEF Receive
<1>8. /\ new \in Codecs /\ new.lock = p
      /\ new = rest \/ (rest.next /\ new.held = <<>> /\ ~new.ending /\ ~new.next)
  BY <1>6, ChangeIs
<1>9. PICK place \in {"receive", "emit"} :
        /\ place = (IF p = "reset" THEN "receive" ELSE "emit") /\ To(p, place)
        /\ IF p = "reset" THEN received' = received ELSE received' = [received EXCEPT ![p] = first]
  <2>1. doing = [doing EXCEPT ![p] = "receive"]
    BY <1>1 DEF CodecInv, CodecTypes
  <2>q. QED  BY <1>3, <1>4, <2>1 DEF Receive, To
<1>10. /\ received' \in [Callers -> 0..MaxInputs] /\ (\A q \in Callers \ {p} : received'[q] = NoObject)
       /\ received'[p] = (IF p = "reset" THEN NoObject ELSE first) /\ first # NoObject
  <2>1. received \in [Callers -> 0..MaxInputs] /\ first \in 0..MaxInputs /\ first # NoObject
    <3>1. first \in 1..MaxInputs
      BY <1>4 DEF Objects
    <3>q. QED  BY <3>1, CodecAssumption DEF CodecInv, CodecTypes, NoObject
  <2>q. QED  BY <1>2, <1>9, <2>1
<1>11. Works(p, place, new)
  <2>1. place \in HasLock /\ place \in Places \ {"stream", "check", "type", "enter", "remove"}
    BY DEF HasLock, Places
  <2>2. loop' \in [Callers -> {"none", "sent", "retry", "before", "after"}] /\ (loop'[p] = "sent" => p = "send") /\ loop' = loop
    BY <1>1, <1>2 DEF CodecInv, CodecTypes, CallPlace
  <2>3. UNCHANGED <<settings, with, kernelClosed, codecOfStream, kernelLock>> /\ (cuts' = 0 => cuts = 0)
    BY <1>1 DEF table
  <2>4. \A q \in Callers \ {p} : received'[q] = received[q]
    BY <1>2, <1>10
  <2>5. received'[p] # NoObject <=> place = "emit"
    BY <1>9, <1>10
  <2>q. QED  BY <1>1, <1>2, <1>7, <1>8, <1>9, <1>10, <2>1, <2>2, <2>3, <2>4, <2>5 DEF Works
<1>12. delay = 0 => rest.held = <<>>
  <2>1. delay = 0 => Len(held) <= 1
    BY <1>2, <1>3 DEF CodecHolds
  <2>2. Len(held) <= 1 => Tail(held) = <<>>
    <3>1. Tail(held) \in Seq(Objects) /\ Len(Tail(held)) = Len(held) - 1 /\ Len(held) \in Nat
      BY <1>3, HeadAndTail
    <3>2. Len(held) <= 1 => Len(Tail(held)) <= 0
      BY <3>1
    <3>q. QED  BY <3>1, <3>2
  <2>q. QED  BY <1>6, <2>1, <2>2
<1>13. cuts = 0 => Codec(p).dirty
  BY <1>1, <1>2, <1>3 DEF CodecHolds
<1>14. rest.next => codecKind = "encoder" /\ "resize" \in company
  BY <1>2, <1>6 DEF CodecHolds
<1>15. CodecHolds(new)'
  <2>1. ~new.open => new.held = <<>>
    BY <1>6, <1>8
  <2>2. delay = 0 => new.held = <<>>
    BY <1>8, <1>12
  <2>3. cuts = 0 /\ ~new.dirty => new.held = <<>>
    BY <1>6, <1>8, <1>13
  <2>4. new.next => codecKind = "encoder" /\ "resize" \in company
    BY <1>8, <1>14
  <2>5. <<>> \in Seq(Objects) /\ Len(<<>>) <= 1
    OBVIOUS
  <2>q. QED  BY <1>2, <1>8, <1>11, <2>1, <2>2, <2>3, <2>4, <2>5, WorkIs DEF CodecHolds
<1>16. CallCodec(p)'
  <2>1. loop' = loop
    BY <1>1
  <2>2. delay = 0 => new.held = <<>>
    BY <1>8, <1>12
  <2>3. Uncut /\ codecKind = "encoder" /\ loop[p] # "after" => ~new.ending
    BY <1>1, <1>2, <1>6, <1>8 DEF CallCodec
  <2>4. codecKind = "decoder" /\ loop[p] = "after" => new.ending
    BY <1>1, <1>2, <1>6, <1>8, <1>14 DEF CallCodec
  <2>5. cuts = 0 /\ "resize" \notin company => new.dirty
    BY <1>6, <1>8, <1>13, <1>14
  <2>q. QED  BY <1>9, <1>11, <2>1, <2>2, <2>3, <2>4, <2>5, WorkIs DEF CallCodec
<1>17. PICK c \in Created : c = with[p]
  BY <1>2
<1>18. Created' = Created /\ codecs'[c] = new /\ (\A d \in Created \ {c} : codecs'[d] = codecs[d]) /\ codecs[c].held = held
       /\ \A d \in Created \ {c} : codecs[d].held = <<>>
  <2>1. \A d \in Created \ {c} : codecs[d].held = <<>>
    BY <1>1, <1>17, AtWork
  <2>q. QED  BY <1>3, <1>7, <1>17, <2>1 DEF Update, CodecInv, CodecTypes, Created, Codec
<1>19. PICK tail : tail = {Tail(held)[i] : i \in DOMAIN Tail(held)}
  OBVIOUS
<1>20. Contents(c) = {first} \cup tail /\ (new = rest => Contents(c)' = tail) /\ (new.held = <<>> => Contents(c)' = {})
       /\ \A d \in Created \ {c} : Contents(d) = {} /\ Contents(d)' = {}
  <2>1. Contents(c) = {first} \cup tail
    <3>1. Contents(c) = {held[i] : i \in DOMAIN held}
      BY <1>18 DEF Contents
    <3>2. {held[i] : i \in DOMAIN held} = {Head(held)} \cup {Tail(held)[i] : i \in DOMAIN Tail(held)}
      BY <1>3, HeadAndTail
    <3>q. QED  BY <1>4, <1>19, <3>1, <3>2
  <2>2. new = rest => Contents(c)' = tail
    <3>1. tail = {rest.held[i] : i \in DOMAIN rest.held}
      BY <1>6, <1>19
    <3>2. Contents(c)' = {new.held[i] : i \in DOMAIN new.held}
      BY <1>18 DEF Contents
    <3>q. QED  BY <3>1, <3>2
  <2>3. new.held = <<>> => Contents(c)' = {}
    BY <1>18 DEF Contents
  <2>q. QED  BY <1>18, <2>1, <2>2, <2>3 DEF Contents
<1>21. PICK lost : LostByChange(rest, new) = {<<o, "resize">> : o \in lost} /\ lost = tail \ Contents(c)'
  <2>1. Contents(c)' = {new.held[i] : i \in DOMAIN new.held}
    BY <1>18 DEF Contents
  <2>2. tail = {rest.held[i] : i \in DOMAIN rest.held}
    BY <1>6, <1>19
  <2>q. QED  BY <2>1, <2>2 DEF LostByChange
<1>22. ObjectsInOrder
  BY DEF CodecInv
<1>23. (\A x \in tail : first < x) /\ Sorted(Tail(held))
  <2>1. \A i, j \in DOMAIN held : i < j => held[i] < held[j]
    BY <1>18, <1>22 DEF ObjectsInOrder, Sorted
  <2>2. /\ 1 \in DOMAIN held /\ first = held[1]
        /\ \A i \in DOMAIN Tail(held) : Tail(held)[i] = held[i + 1] /\ i + 1 \in DOMAIN held /\ i \in Nat /\ 1 < i + 1
    BY <1>3, <1>4, HeadAndTail
  <2>3. \A i \in DOMAIN Tail(held) : first < Tail(held)[i]
    BY <2>1, <2>2
  <2>4. \A i, j \in DOMAIN Tail(held) : i < j => Tail(held)[i] < Tail(held)[j]
    <3>1. ASSUME NEW i \in DOMAIN Tail(held), NEW j \in DOMAIN Tail(held), i < j  PROVE i + 1 < j + 1
      BY <2>2, <3>1
    <3>q. QED  BY <2>1, <2>2, <3>1
  <2>q. QED  BY <1>19, <2>3, <2>4 DEF Sorted
<1>24. \A d \in Created' : Contents(d)' \subseteq tail /\ Contents(d)' \subseteq Contents(d)
  BY <1>8, <1>18, <1>20
<1>25. ObjectsInOrder'
  <2>1. Sorted(new.held)
    <3>1. Sorted(<<>>)
      BY DEF Sorted
    <3>q. QED  BY <1>6, <1>8, <1>23, <3>1
  <2>2. \A d \in Created' : Sorted(codecs[d].held)'
    BY <1>18, <1>22, <2>1 DEF ObjectsInOrder, Sorted
  <2>3. Sorted(emitted)'
    BY <1>1, <1>22 DEF ObjectsInOrder, Sorted
  <2>4. \A q \in Callers : received'[q] # NoObject => received'[q] = first
    BY <1>10
  <2>5. \A i \in DOMAIN emitted : emitted[i] < first
    BY <1>20, <1>22 DEF ObjectsInOrder
  <2>6. \A i \in DOMAIN emitted' : \A d \in Created' : \A x \in Contents(d)' : emitted'[i] < x
    BY <1>1, <1>18, <1>22, <1>24 DEF ObjectsInOrder
  <2>7. \A i \in DOMAIN emitted' : \A q \in Callers : received'[q] # NoObject => emitted'[i] < received'[q]
    BY <1>1, <2>4, <2>5
  <2>8. \A q \in Callers : received'[q] # NoObject => \A d \in Created' : \A x \in Contents(d)' : received'[q] < x
    BY <1>23, <1>24, <2>4
  <2>q. QED  BY <2>2, <2>3, <2>6, <2>7, <2>8 DEF ObjectsInOrder
<1>26. PICK gone : gone = lost \cup (IF p = "reset" THEN {first} ELSE {})
  OBVIOUS
<1>27. WasDiscarded' = WasDiscarded \cup gone /\ WasEmitted' = WasEmitted
  <2>1. \A o : <<o, "resize">>[1] = o /\ <<o, "reset">>[1] = o
    OBVIOUS
  <2>2. {d[1] : d \in LostByChange(rest, new)} = lost
    <3>1. \A d \in LostByChange(rest, new) : d[1] \in lost
      BY <1>21, <2>1
    <3>2. \A o \in lost : <<o, "resize">> \in LostByChange(rest, new) /\ <<o, "resize">>[1] = o
      BY <1>21, <2>1
    <3>q. QED  BY <3>1, <3>2
  <2>3. {d[1] : d \in (IF p = "reset" THEN {<<first, "reset">>} ELSE {})} = (IF p = "reset" THEN {first} ELSE {})
    BY <2>1
  <2>4. PICK a, b : a = LostByChange(rest, new) /\ b = (IF p = "reset" THEN {<<first, "reset">>} ELSE {})
    OBVIOUS
  <2>5. discarded' = (discarded \cup a) \cup b
    BY <1>7, <2>4
  <2>6. WasDiscarded' = (WasDiscarded \cup {d[1] : d \in a}) \cup {d[1] : d \in b}
    BY <2>5 DEF WasDiscarded
  <2>7. {d[1] : d \in a} = lost /\ {d[1] : d \in b} = (IF p = "reset" THEN {first} ELSE {})
    BY <2>2, <2>3, <2>4
  <2>q. QED  BY <1>1, <1>26, <2>6, <2>7 DEF WasEmitted
<1>28. acceptedObjects' = WasEmitted' \cup InsideCodec' \cup WasDiscarded'
  <2>1. Here(p, c)' \cup {} \cup gone = Here(p, c) \cup {}
    <3>1. tail \subseteq Objects /\ NoObject \notin Objects
      <4>1. \A i \in DOMAIN Tail(held) : Tail(held)[i] \in Objects
        <5>1. Tail(held) \in Seq(Objects)
          BY <1>3, HeadAndTail
        <5>q. QED  BY <5>1
      <4>q. QED  BY <1>19, <4>1 DEF NoObject, Objects
    <3>2. Here(p, c) = {first} \cup tail
      BY <1>2, <1>4, <1>20, <3>1 DEF Here
    <3>3. Contents(c)' \cup lost = tail
      BY <1>8, <1>20, <1>21
    <3>4. Here(p, c)' = (Contents(c)' \cup {received'[p]}) \ {NoObject}
      BY DEF Here
    <3>q. QED  BY <1>10, <1>26, <3>1, <3>2, <3>3, <3>4
  <2>2. acceptedObjects' = acceptedObjects \cup {} /\ WasEmitted' = WasEmitted \cup {}
    BY <1>1, <1>27
  <2>3. (\A d \in Created \ {c} : codecs'[d].held = codecs[d].held) /\ \A q \in Callers \ {p} : received'[q] = received[q]
    BY <1>2, <1>10, <1>18
  <2>q. QED  BY <1>18, <1>27, <2>1, <2>2, <2>3, FatesMove
<1>29. InputComesAfter' /\ input' \in 1..MaxInputs + 1
  <2>1. acceptedObjects' = acceptedObjects /\ input' = input /\ loop' = loop /\ doing'[p] = place
        /\ \A q \in Callers \ {p} : doing'[q] = doing[q]
    BY <1>1, <1>11, WorkIs
  <2>2. CASE p = "send"
    <3>1. SendHasPut' = SendHasPut /\ doing["send"] # "crashed" /\ input <= MaxInputs
      BY <1>1, <2>1, <2>2 DEF SendHasPut, CodecInv, InputComesAfter
    <3>q. QED  BY <2>1, <2>2, <3>1, InputMoves
  <2>3. CASE p # "send"
    BY <2>1, <2>3, InputStays DEF Callers
  <2>q. QED  BY <2>2, <2>3
<1>30. \A d \in discarded' : d \in discarded \/ (d[2] # "flush" /\ (d[2] # "cut" => d[2] \in company))
  <2>1. \A o : <<o, "resize">>[2] = "resize" /\ <<o, "reset">>[2] = "reset"
    OBVIOUS
  <2>2. ASSUME NEW d \in LostByChange(rest, new)  PROVE d[2] = "resize" /\ "resize" \in company
    <3>1. PICK o \in lost : d = <<o, "resize">>
      BY <1>21, <2>2
    <3>2. new # rest
      BY <1>20, <1>21, <3>1
    <3>q. QED  BY <1>8, <1>14, <2>1, <3>1, <3>2
  <2>3. p = "reset" => "reset" \in company
    BY <1>2
  <2>q. QED  BY <1>7, <2>1, <2>2, <2>3
<1>31. acceptedObjects' \subseteq Objects /\ acceptedObjects \subseteq acceptedObjects' /\ cuts' \in 0..MaxCuts /\ emitted' \in Seq(Objects)
       /\ UNCHANGED <<promised, answer, insideAll>>
       /\ hasStream' \in BOOLEAN /\ dirtyCache' \in BOOLEAN /\ kernelLock' \in Callers \cup {Nobody}
  BY <1>1, TypesNow DEF CodecInv, CodecTypes, asking, table
<1>32. WasEmitted \subseteq WasEmitted' /\ WasDiscarded \subseteq WasDiscarded' /\ ~(p = "flush" /\ place = "done")
  BY <1>27
<1>q. QED  BY <1>11, <1>15, <1>16, <1>25, <1>28, <1>29, <1>30, <1>31, <1>32, WorkDone

\* All that is in the codec is thrown away.
LEMMA EmptiedKeeps ==
  ASSUME CodecInv, NEW p \in Callers, doing[p] \in {"enter", "remove"}, CodecFree(p), NEW new, Works(p, "done", new), p # "send",
         new.held = <<>>, ~new.ending, new.next => Codec(p).next,
         p \in company, p # "flush", Discard(Contents(with[p]), p),
         UNCHANGED <<acceptedObjects, emitted, promised, answer, insideAll, loop, received, input, cuts>>,
         hasStream' \in BOOLEAN, dirtyCache' \in BOOLEAN, kernelLock' \in Callers \cup {Nobody}
  PROVE  CodecInv'
<1>1. CodecHolds(Codec(p)) /\ received[p] = NoObject
  BY AtDoor
<1>2. CodecHolds(new)'
  <2>1. <<>> \in Seq(Objects) /\ Len(<<>>) <= 1
    OBVIOUS
  <2>q. QED  BY <1>1, <2>1, WorkIs DEF CodecHolds
<1>3. CallCodec(p)'
  BY WorkIs DEF CallCodec
<1>4. InputComesAfter' /\ input' \in 1..MaxInputs + 1
  <2>1. doing'["send"] = doing["send"]
    BY WorkIs DEF Callers
  <2>q. QED  BY <2>1, InputStays
<1>5. Shrinks(p, new, Contents(with[p]), p)
  <2>1. {new.held[i] : i \in DOMAIN new.held} = {}
    OBVIOUS
  <2>2. Contents(with[p]) \subseteq Objects /\ NoObject \notin Objects
    <3>1. \A i \in DOMAIN Codec(p).held : Codec(p).held[i] \in Objects
      BY AtDoor, CodecFields
    <3>q. QED  BY <3>1 DEF Contents, NoObject, Objects, Codec
  <2>3. ({new.held[i] : i \in DOMAIN new.held} \cup ({received'[p]} \ {NoObject})) \cup Contents(with[p]) = Here(p, with[p])
    BY <1>1, <2>1, <2>2 DEF Here
  <2>4. discarded' = discarded \cup {<<o, p>> : o \in Contents(with[p])} /\ cuts' \in 0..MaxCuts
    BY DEF Discard, CodecInv, CodecTypes
  <2>q. QED  BY <2>3, <2>4 DEF Shrinks
<1>q. QED  BY <1>2, <1>3, <1>4, <1>5, ShrinkDone

\* The call is over, and the codec not its own.
LEMMA DoneWorks ==
  ASSUME CodecInv, NEW p \in Callers, doing[p] \in {"enter", "remove"}, CodecFree(p), p # "send",
         NEW new \in Codecs, new.lock = Nobody, Update(p, new), To(p, "done"),
         UNCHANGED <<settings, with, kernelClosed, loop, received>>, cuts' = cuts,
         kernelLock \in {Nobody, p} \/ UNCHANGED <<kernelLock, codecOfStream>>,
         UNCHANGED codecOfStream \/ (codecOfStream' = NoCodec /\ codecOfStream = with[p]),
         new.open => with[p] = codecOfStream'
  PROVE  Works(p, "done", new)
<1>1. with[p] \in Created /\ Codec(p).lock = Nobody /\ CallPlace(p) /\ received[p] = NoObject
  BY AtDoor
<1>2. "done" \notin HasLock \cup {"crashed", "emit"} /\ "done" \in Places \ {"stream", "check", "type", "enter", "remove"}
  BY DEF HasLock, Places
<1>3. /\ loop' \in [Callers -> {"none", "sent", "retry", "before", "after"}] /\ received' \in [Callers -> 0..MaxInputs]
      /\ loop'[p] # "sent"
  BY <1>1 DEF CodecInv, CodecTypes, CallPlace
<1>4. \A q \in Callers \ {p} : loop'[q] = loop[q] /\ received'[q] = received[q]
  OBVIOUS
<1>q. QED  BY <1>1, <1>2, <1>3, <1>4 DEF Works

\* The codec is closed and taken from the table.
LEMMA RemoveCodecKeeps ==
  ASSUME CodecInv, NEW p \in Callers, RemoveCodec(p)
  PROVE  CodecInv'
<1>1. /\ p \in {"close", "reset"} /\ doing[p] \in {"enter", "remove"} /\ CodecFree(p)
      /\ UNCHANGED <<settings, kernelClosed, with, loop, received, input, acceptedObjects, emitted, promised, cuts, asking>>
  BY DEF RemoveCodec
<1>2. /\ with[p] \in Created /\ Codec(p) \in Codecs /\ Codec(p).lock = Nobody /\ CodecHolds(Codec(p)) /\ CallPlace(p)
      /\ with[p] = codecOfStream /\ kernelLock = p /\ p \in company /\ received[p] = NoObject
      /\ (delay = 0 => Codec(p).held = <<>>)
  BY <1>1, AtDoor, TypesNow DEF CallPlace
<1>3. CASE WaitsForItself(p)
  <2>1. PICK new : new = [Codec(p) EXCEPT !.lock = p]
    OBVIOUS
  <2>2. Update(p, new) /\ To(p, "stuck") /\ UNCHANGED <<codecOfStream, hasStream, kernelLock, discarded>>
    BY <1>3, <2>1 DEF RemoveCodec
  <2>3. new \in Codecs /\ new.lock = p /\ new.open = Codec(p).open /\ new.held = Codec(p).held /\ new.next = Codec(p).next
        /\ new.dirty = Codec(p).dirty /\ new.ending = Codec(p).ending /\ p # Nobody
    BY <1>1, <1>2, <2>1 DEF Codecs, Nobody
  <2>4. Works(p, "stuck", new)
    <3>1. "stuck" \in HasLock /\ "stuck" \in Places \ {"stream", "check", "type", "enter", "remove"}
      BY DEF HasLock, Places
    <3>2. /\ loop' \in [Callers -> {"none", "sent", "retry", "before", "after"}] /\ received' \in [Callers -> 0..MaxInputs]
          /\ (loop'[p] = "sent" => p = "send")
      BY <1>1, <1>2 DEF CodecInv, CodecTypes, CallPlace
    <3>3. \A q \in Callers \ {p} : loop'[q] = loop[q] /\ received'[q] = received[q]
      BY <1>1
    <3>q. QED  BY <1>1, <1>2, <2>2, <2>3, <3>1, <3>2, <3>3 DEF Works
  <2>5. CodecHolds(new)' /\ CallCodec(p)'
    <3>1. CodecHolds(new)'
      BY <1>2, <2>3, <2>4, WorkIs DEF CodecHolds
    <3>2. CallCodec(p)'
      BY <2>4, WorkIs DEF CallCodec
    <3>q. QED  BY <3>1, <3>2
  <2>6. InputComesAfter' /\ input' \in 1..MaxInputs + 1
    <3>1. doing'["send"] = doing["send"]
      BY <1>1, <2>4, WorkIs DEF Callers
    <3>q. QED  BY <1>1, <3>1, InputStays
  <2>q. QED  BY <1>1, <2>2, <2>3, <2>4, <2>5, <2>6, TypesNow, QuietWork DEF asking
<1>4. CASE ~WaitsForItself(p)
  <2>1. PICK new : new = Closed(Codec(p))
    OBVIOUS
  <2>2. Discard(Contents(with[p]), p) /\ Update(p, new) /\ codecOfStream' = NoCodec
        /\ hasStream' = (hasStream /\ p = "close") /\ kernelLock' = Nobody /\ To(p, "done")
    BY <1>4, <2>1 DEF RemoveCodec
  <2>3. new \in Codecs /\ new.lock = Nobody /\ ~new.open /\ new.held = <<>> /\ new.next = Codec(p).next /\ ~new.ending
    <3>1. <<>> \in Seq(Objects)
      OBVIOUS
    <3>q. QED  BY <1>2, <2>1, <3>1 DEF Closed, Codecs
  <2>4. Works(p, "done", new)
    BY <1>1, <1>2, <2>2, <2>3, DoneWorks
  <2>5. hasStream' \in BOOLEAN /\ dirtyCache' \in BOOLEAN /\ kernelLock' \in Callers \cup {Nobody}
    BY <1>1, <2>2, TypesNow DEF asking
  <2>q. QED  BY <1>1, <1>2, <2>2, <2>3, <2>4, <2>5, EmptiedKeeps DEF asking
<1>q. QED  BY <1>3, <1>4

\* A decoder is reset.
LEMMA ResetDecoderKeeps ==
  ASSUME CodecInv, ResetDecoder
  PROVE  CodecInv'
<1>1. /\ "reset" \in Callers /\ doing["reset"] = "enter" /\ doing["reset"] \in {"enter", "remove"} /\ CodecFree("reset")
      /\ Discard(Contents(with["reset"]), "reset") /\ kernelLock' = Nobody /\ To("reset", "done")
      /\ UNCHANGED <<settings, table, with, loop, received, input, acceptedObjects, emitted, promised, cuts, asking>>
  BY DEF ResetDecoder, Callers
<1>2. /\ Codec("reset") \in Codecs /\ Codec("reset").lock = Nobody /\ with["reset"] = codecOfStream /\ kernelLock = "reset"
      /\ "reset" \in company
  BY <1>1, AtDoor, TypesNow DEF CallPlace
<1>3. PICK new : new = [Flushed(Codec("reset")) EXCEPT !.keySeen = FALSE]
  OBVIOUS
<1>4. Update("reset", new)
  BY <1>3 DEF ResetDecoder
<1>5. new \in Codecs /\ new.lock = Nobody /\ new.held = <<>> /\ new.next = Codec("reset").next /\ ~new.ending
  <2>1. <<>> \in Seq(Objects)
    OBVIOUS
  <2>q. QED  BY <1>2, <1>3, <2>1 DEF Flushed, Codecs
<1>6. Works("reset", "done", new)
  BY <1>1, <1>2, <1>4, <1>5, DoneWorks DEF table
<1>7. hasStream' \in BOOLEAN /\ dirtyCache' \in BOOLEAN /\ kernelLock' \in Callers \cup {Nobody}
  BY <1>1, TypesNow DEF asking, table
<1>q. QED  BY <1>1, <1>2, <1>5, <1>6, <1>7, EmptiedKeeps DEF asking

\* The resolution is changed, now or later.
LEMMA SetResolutionKeeps ==
  ASSUME CodecInv, SetResolution
  PROVE  CodecInv'
<1>1. /\ "resize" \in Callers /\ doing["resize"] = "enter" /\ doing["resize"] \in {"enter", "remove"} /\ CodecFree("resize")
      /\ UNCHANGED <<settings, table, kernelLock, with, loop, received, input, acceptedObjects, emitted, promised, cuts, asking>>
  BY DEF SetResolution, Callers
<1>2. /\ Codec("resize") \in Codecs /\ Codec("resize").lock = Nobody /\ "resize" \in company /\ codecKind = "encoder"
      /\ CodecHolds(Codec("resize")) /\ (Codec("resize").open => with["resize"] = codecOfStream)
      /\ (delay = 0 => Codec("resize").held = <<>>)
  BY <1>1, AtDoor, TypesNow
<1>3. hasStream' \in BOOLEAN /\ dirtyCache' \in BOOLEAN /\ kernelLock' \in Callers \cup {Nobody}
  BY <1>1, TypesNow DEF asking, table
<1>4. CASE Update("resize", [Codec("resize") EXCEPT !.next = TRUE]) /\ To("resize", "done") /\ UNCHANGED discarded
  <2>1. PICK new : new = [Codec("resize") EXCEPT !.next = TRUE]
    OBVIOUS
  <2>2. new \in Codecs /\ new.lock = Nobody /\ new.open = Codec("resize").open /\ new.held = Codec("resize").held
        /\ new.dirty = Codec("resize").dirty /\ new.ending = Codec("resize").ending
    BY <1>2, <2>1 DEF Codecs
  <2>3. Works("resize", "done", new)
    <3>1. UNCHANGED <<settings, with, kernelClosed, loop, received>> /\ cuts' = cuts /\ UNCHANGED <<kernelLock, codecOfStream>>
      BY <1>1 DEF table
    <3>q. QED  BY <1>1, <1>2, <1>4, <2>1, <2>2, <3>1, DoneWorks
  <2>4. CodecHolds(new)'
    <3>1. Uncut => ~new.ending
      BY <1>1, <2>2, AtDoor
    <3>q. QED  BY <1>1, <1>2, <2>2, <2>3, <3>1, WorkIs DEF CodecHolds
  <2>5. CallCodec("resize")'
    BY <1>1, <2>3, WorkIs DEF CallCodec
  <2>6. InputComesAfter' /\ input' \in 1..MaxInputs + 1
    <3>1. doing'["send"] = doing["send"]
      BY <1>1, <2>3, WorkIs DEF Callers
    <3>q. QED  BY <1>1, <3>1, InputStays
  <2>q. QED  BY <1>1, <1>3, <1>4, <2>2, <2>3, <2>4, <2>5, <2>6, QuietWork DEF asking
<1>5. CASE ~Codec("resize").open /\ To("resize", "crashed") /\ UNCHANGED <<codecs, discarded>>
  BY <1>1, <1>5, CrashKeeps DEF fates
<1>6. ASSUME NEW succeeds \in BOOLEAN, Codec("resize").open, Discard(Contents(with["resize"]), "resize"), To("resize", "done"),
             Update("resize", [Reinit(Codec("resize"), succeeds) EXCEPT !.next = Codec("resize").next /\ ~succeeds])
      PROVE  CodecInv'
  <2>1. PICK new : new = [Reinit(Codec("resize"), succeeds) EXCEPT !.next = Codec("resize").next /\ ~succeeds]
    OBVIOUS
  <2>2. new \in Codecs /\ new.lock = Nobody /\ new.held = <<>> /\ (new.next => Codec("resize").next) /\ ~new.ending
    <3>1. <<>> \in Seq(Objects)
      OBVIOUS
    <3>2. PICK codec : codec = Codec("resize")
      OBVIOUS
    <3>3. codec \in Codecs /\ codec.lock = Nobody
      BY <1>2, <3>2
    <3>4. new = [open |-> succeeds, ending |-> FALSE, held |-> <<>>, giving |-> FALSE, dirty |-> codec.dirty /\ ~succeeds,
                 lock |-> codec.lock, keySeen |-> codec.keySeen, next |-> codec.next /\ ~succeeds]
      BY <2>1, <3>2, <3>3 DEF Reinit, Closed, Codecs
    <3>5. new.lock = Nobody /\ new.held = <<>> /\ ~new.ending /\ (new.next => codec.next)
      BY <3>3, <3>4
    <3>6. (codec.dirty /\ ~succeeds) \in BOOLEAN /\ (codec.next /\ ~succeeds) \in BOOLEAN /\ codec.keySeen \in BOOLEAN
          /\ codec.lock \in Callers \cup {Nobody}
      BY <3>3 DEF Codecs
    <3>7. new \in Codecs
      BY <3>1, <3>4, <3>6 DEF Codecs
    <3>q. QED  BY <3>2, <3>5, <3>7
  <2>3. Works("resize", "done", new)
    <3>1. UNCHANGED <<settings, with, kernelClosed, loop, received>> /\ cuts' = cuts /\ UNCHANGED <<kernelLock, codecOfStream>>
      BY <1>1 DEF table
    <3>q. QED  BY <1>1, <1>2, <1>6, <2>1, <2>2, <3>1, DoneWorks
  <2>q. QED  BY <1>1, <1>2, <1>3, <1>6, <2>2, <2>3, EmptiedKeeps DEF asking
<1>q. QED  BY <1>4, <1>5, <1>6 DEF SetResolution

\* Every step keeps the invariant.
LEMMA CodecKeeps ==
  ASSUME CodecInv, CodecNext \/ UNCHANGED codecKernel
  PROVE  CodecInv'
<1>1. CASE SendInput
  BY <1>1, CheckClosedKeeps, GetOrCreateCodecKeeps, FindOutputStreamKeeps, CheckCodecKeeps, EnterToSendKeeps,
     DropInputKeeps, PutKeeps, PutLaterKeeps, PutRefusedKeeps DEF SendInput
<1>2. CASE StartFlush \/ GetCodecToFlush \/ StartResize \/ SetResolution \/ Ask \/ IsDirty
  BY <1>2, StartedKeeps, GetCodecToFlushKeeps, StartResizeKeeps, SetResolutionKeeps, AskKeeps, IsDirtyKeeps
<1>3. CASE Removing
  BY <1>3, TakeLockerKeeps, RemoveCodecKeeps, ResetDecoderKeeps DEF Removing
<1>4. ASSUME NEW p \in Callers, Start(p) \/ Flushing(p) \/ Draining(p)  PROVE CodecInv'
  <2>1. CASE Start(p)
    BY <2>1, StartedKeeps
  <2>2. CASE Flushing(p)
    BY <2>2, NothingToFlushKeeps, EnterToFlushKeeps, RequestKeeps, ForgetAllKeeps DEF Flushing
  <2>3. CASE Draining(p)
    BY <2>3, ReceiveKeeps, ReceiveEndsKeeps, UseOfNoneKeeps, EmitKeeps, EmitFailsKeeps DEF Draining
  <2>q. QED  BY <1>4, <2>1, <2>2, <2>3
<1>5. CASE UNCHANGED codecKernel
  <2>1. UNCHANGED <<codecKind, delay, canFlush, reentrant, drained, company, kernelClosed, codecOfStream, hasStream,
                    kernelLock, codecs, doing, with, loop, received, input, acceptedObjects, emitted, discarded, promised,
                    cuts, dirtyCache, answer, insideAll>>
    BY <1>5 DEF codecKernel, settings, table, fates, asking
  <2>2. CodecTypes'
    BY <2>1 DEF CodecInv, CodecTypes
  <2>3. \A p \in Callers : CallPlace(p)' /\ CallCodec(p)'
    BY <2>1 DEF CodecInv, CallPlace, CallCodec, Codec, Created, Uncut
  <2>4. \A c \in Created' : CodecPlace(c)' /\ CodecHolds(codecs[c])'
    BY <2>1 DEF CodecInv, CodecPlace, CodecHolds, Created, Uncut
  <2>5. ObjectsInOrder' /\ InputComesAfter'
    BY <2>1 DEF CodecInv, ObjectsInOrder, InputComesAfter, Sorted, SendHasPut, Created, Contents
  <2>6. CodecFates'
    BY <2>1 DEF CodecInv, CodecFates, WasEmitted, WasDiscarded, InsideCodec, Created, Contents, FlushedIsOut
  <2>q. QED  BY <2>2, <2>3, <2>4, <2>5, <2>6 DEF CodecInv
<1>q. QED  BY <1>1, <1>2, <1>3, <1>4, <1>5 DEF CodecNext

\* The invariant says what is to be shown.
LEMMA CodecImplies ==
  ASSUME CodecInv
  PROVE  CodecTypeOK /\ CodecSafe
<1>1. CodecTypeOK
  <2>1. \A c \in Created : codecs[c].lock \in Callers \cup {Nobody} /\ Contents(c) \subseteq acceptedObjects
    <3>1. ASSUME NEW c \in Created  PROVE codecs[c].lock \in Callers \cup {Nobody} /\ Contents(c) \subseteq acceptedObjects
      <4>1. codecs[c] \in Codecs
        BY CodecsAre DEF CodecInv
      <4>2. Contents(c) \subseteq Objects /\ NoObject \notin Objects
        <5>1. \A i \in DOMAIN codecs[c].held : codecs[c].held[i] \in Objects
          BY <4>1, CodecFields
        <5>q. QED  BY <5>1 DEF Contents, NoObject, Objects
      <4>3. Contents(c) \subseteq InsideCodec
        BY <4>2 DEF InsideCodec
      <4>q. QED  BY <4>1, <4>3, CodecFields DEF CodecInv, CodecFates
    <3>q. QED  BY <3>1
  <2>2. codecOfStream \in 0..MaxCodecs /\ with \in [Callers -> 0..MaxCodecs]
    <3>1. Len(codecs) \in Nat /\ Len(codecs) <= MaxCodecs /\ MaxCodecs \in Nat
      BY CodecAssumption DEF CodecInv, CodecTypes
    <3>2. 0..Len(codecs) \subseteq 0..MaxCodecs
      BY <3>1
    <3>q. QED  BY <3>2 DEF CodecInv, CodecTypes
  <2>q. QED  BY <2>1, <2>2 DEF CodecInv, CodecTypes, CodecTypeOK
<1>2. AcceptedComesOut
  BY DEF CodecInv, CodecFates, ObjectsInOrder, Sorted, AcceptedComesOut
<1>3. FlushedIsOut
  BY DEF CodecInv, CodecFates
<1>4. CleanIsEmpty
  BY DEF CodecInv, CodecFates, CodecHolds, CleanIsEmpty
<1>5. OpenIsKept
  BY DEF CodecInv, CodecPlace, OpenIsKept
<1>6. RefusesAfterCut
  BY DEF CodecInv, CodecHolds, RefusesAfterCut, Uncut
<1>q. QED  BY <1>1, <1>2, <1>3, <1>4, <1>5, <1>6 DEF CodecSafe

----------------------------------------------------------------------------
(* TranscoderKernel.                                                       *)

TranscoderTypes ==
  /\ consumed \in BOOLEAN /\ callNb \in 0..Len(Gives)
  /\ callAt \in {"idle", "begin", "decode", "decoded", "closing", "closed", "release", "return"}
  /\ toGive \in Seq(Given) /\ framesCh \in Seq(Given) /\ Len(framesCh) <= FramesChSize
  /\ encoderAt \in {"takes", "sends", "ended"} /\ encoderError \in BOOLEAN
  /\ encoding \in Given \cup {0} /\ (encoderAt = "sends" => encoding \in Given)
  /\ resultPackets \in Seq(Given \ RawObjects) /\ Len(resultPackets) <= ResultsChSize
  /\ resultFrames \in Seq(Given \cap RawObjects) /\ Len(resultFrames) <= ResultsChSize
  /\ resultsClosed \in 0..2
  /\ readerAt \in {"none", "reads", "has", "ended"}
  /\ reading \in Given \cup {0} /\ (readerAt = "has" => reading \in Given)
  /\ kept \in Seq(Given) /\ Len(kept) <= KeptLimit
  /\ hasStarted \in BOOLEAN /\ startedBy \in 0..Len(Gives)
  /\ toRelease \in Seq(Given) /\ sentOut \in Seq(Given) /\ dropped \subseteq Given
  /\ closeAt \in {"no", "signalled", "decoder", "encoder", "done"} /\ failures \in 0..MaxErrors

\* Which goroutine may be where while the call is where it is.
Stations ==
  /\ callAt # "idle" => callNb > 0
  /\ callAt \notin {"decode", "decoded"} => encoderAt = "ended"
  /\ callAt = "decode" => encoderAt # "ended"
  /\ encoderAt = "ended" => framesCh = <<>>
  /\ callAt # "decode" => toGive = <<>>
  /\ callAt \in {"begin", "decode", "decoded"} => (readerAt = "none" <=> hasStarted) /\ readerAt # "ended" /\ resultsClosed = 0
  /\ callAt \in {"closing", "closed", "release", "return"} => readerAt # "none"
  /\ callAt \in {"closing", "closed", "release"} => ~hasStarted
  /\ callAt = "idle" => readerAt \in {"none", "ended"}
  /\ callAt = "closing" => resultsClosed < 2
  /\ readerAt = "none" => resultPackets = <<>> /\ resultFrames = <<>>
  /\ readerAt = "ended" => resultPackets = <<>> \/ resultFrames = <<>>
  /\ startedBy <= callNb /\ (hasStarted <=> startedBy > 0)
  /\ hasStarted => (startedBy = callNb => callAt \in {"return", "idle"}) /\ (callAt = "return" => startedBy = callNb)
  /\ toRelease # <<>> => callAt = "release"

\* The objects on their way, from the last to the first.
AtReader == IF readerAt = "has" THEN {reading} ELSE {}
InResults == ElementsOf(resultPackets) \cup ElementsOf(resultFrames)
AtEncoder == IF encoderAt = "sends" THEN {encoding} ELSE {}
YetToCome == UNION {ElementsOf(Gives[k]) : k \in {l \in DOMAIN Gives : l > callNb \/ (l = callNb /\ callAt = "begin")}}
ToEncode == AtEncoder \cup ElementsOf(framesCh) \cup ElementsOf(toGive)

Encoded == AtReader \cup InResults \cup ElementsOf(kept) \cup ElementsOf(sentOut) \cup ElementsOf(toRelease)

Below(S, T) == \A o \in S, p \in T : o < p
Rising(s) == \A i, j \in DOMAIN s : i < j => s[i] < s[j]

\* Frames and packets have a channel each.
SameLane(o, p) == (o \in RawObjects) = (p \in RawObjects)
Before(S, T) == \A o \in S, p \in T : SameLane(o, p) => o < p
InLanes(s) == \A i, j \in DOMAIN s : i < j /\ SameLane(s[i], s[j]) => s[i] < s[j]

Calm == failures = 0 /\ closeAt = "no"

\* Up to the encoder there is one way.
EncodedInOrder ==
  /\ Rising(framesCh) /\ Rising(toGive)
  /\ Below(AtEncoder, ElementsOf(framesCh) \cup ElementsOf(toGive) \cup YetToCome)
  /\ Below(ElementsOf(framesCh), ElementsOf(toGive) \cup YetToCome) /\ Below(ElementsOf(toGive), YetToCome)
  /\ Below(Encoded, ToEncode \cup YetToCome)

\* Behind it there are two.
KeptInOrder ==
  /\ InLanes(kept) /\ Before(ElementsOf(kept), AtReader \cup InResults) /\ Before(AtReader, InResults)
  /\ Calm => ~encoderError /\ Before(dropped, AtReader \cup InResults) /\ Below(dropped, ToEncode \cup YetToCome)

SentSoFar ==
  failures = 0 =>
    /\ InLanes(sentOut) /\ InLanes(toRelease) /\ Before(ElementsOf(sentOut), ElementsOf(toRelease))
    /\ ~hasStarted /\ callAt # "release" => sentOut = <<>>

\* What a call has given and is neither sent, nor dropped, nor to be sent.
Accounted ==
  ElementsOf(sentOut) \cup dropped \cup
    (IF hasStarted THEN {} ELSE IF callAt = "release" THEN ElementsOf(toRelease) ELSE ElementsOf(kept))
Unsent(k) == ElementsOf(Gives[k]) \ Accounted
FewUnsent(k) == \E a, b, c \in Given \cup {0} : Unsent(k) \subseteq {a, b, c}

\* The calls that have returned.
LeftBehind(k) ==
  /\ hasStarted /\ k > startedBy => Unsent(k) = {}
  /\ k # startedBy => /\ \E a \in Given \cup {0} : Unsent(k) \subseteq {a}
                      /\ \A o \in Unsent(k) : LastOfKind(k, o)
  /\ FewUnsent(k)

\* The call that is under way.
UnderWay ==
  /\ callAt \in {"decode", "decoded"} /\ readerAt = "none" =>
       ElementsOf(Gives[callNb]) \subseteq ElementsOf(sentOut) \cup dropped \cup ToEncode
  /\ callAt \in {"decode", "decoded", "closing", "closed", "return"} /\ ~hasStarted =>
       ElementsOf(Gives[callNb]) \subseteq ElementsOf(kept) \cup dropped \cup AtReader \cup InResults \cup ToEncode
  /\ callAt = "release" \/ (callAt = "return" /\ hasStarted) => FewUnsent(callNb)
  /\ callAt = "release" => ElementsOf(toRelease) \subseteq ElementsOf(kept) \cup dropped

NothingElseIsLost ==
  Calm => UnderWay /\ \A k \in 1..callNb : k < callNb \/ callAt = "idle" => LeftBehind(k)

TranscoderInv ==
  TranscoderTypes /\ Stations /\ EncodedInOrder /\ KeptInOrder /\ SentSoFar /\ NothingElseIsLost

\* The objects of a call are numbers, and later ones are greater.
LEMMA GivenAre ==
  /\ Given \subseteq Nat \ {0}
  /\ \A k \in DOMAIN Gives : Gives[k] \in Seq(Given) /\ ElementsOf(Gives[k]) \subseteq Given /\ Rising(Gives[k])
  /\ \A k, l \in DOMAIN Gives : k < l => Below(ElementsOf(Gives[k]), ElementsOf(Gives[l]))
  /\ DOMAIN Gives = 1..Len(Gives) /\ Len(Gives) \in Nat
<1>1. \A k \in DOMAIN Gives : Gives[k] \in Seq(Nat \ {0})
  BY TranscoderAssumption
<1>2. Given \subseteq Nat \ {0}
  BY <1>1 DEF Given
<1>3. ASSUME NEW k \in DOMAIN Gives  PROVE Gives[k] \in Seq(Given) /\ ElementsOf(Gives[k]) \subseteq Given
  <2>1. \A i \in 1..Len(Gives[k]) : Gives[k][i] \in Given
    BY <1>1 DEF Given
  <2>2. Gives[k] \in Seq(Given)
    BY <2>1, <1>1
  <2>q. QED  BY <2>1, <2>2, <1>1 DEF ElementsOf
<1>4. \A k \in DOMAIN Gives : Rising(Gives[k])
  BY TranscoderAssumption DEF Rising
<1>5. \A k, l \in DOMAIN Gives : k < l => Below(ElementsOf(Gives[k]), ElementsOf(Gives[l]))
  BY TranscoderAssumption DEF Below, ElementsOf
<1>q. QED  BY <1>2, <1>3, <1>4, <1>5, TranscoderAssumption

\* The constants, for what needs no more.
LEMMA TranscoderConstants ==
  /\ Len(Gives) \in Nat /\ KeptLimit \in Nat \ {0} /\ MaxErrors \in Nat /\ 0 \notin Given
  /\ \A k \in 1..Len(Gives) : Gives[k] \in Seq(Given) /\ ElementsOf(Gives[k]) \subseteq Given
BY GivenAre, TranscoderAssumption

\* What is put at the end of a sequence.
LEMMA PutAtEnd ==
  ASSUME NEW s \in Seq(Given), NEW x \in Given
  PROVE  /\ Append(s, x) \in Seq(Given) /\ Len(Append(s, x)) = Len(s) + 1 /\ Append(s, x) # <<>>
         /\ ElementsOf(Append(s, x)) = ElementsOf(s) \cup {x}
         /\ Rising(s) /\ Below(ElementsOf(s), {x}) => Rising(Append(s, x))
         /\ InLanes(s) /\ Before(ElementsOf(s), {x}) => InLanes(Append(s, x))
<1> DEFINE t == Append(s, x)
<1>1. t \in Seq(Given) /\ Len(t) = Len(s) + 1 /\ Len(s) \in Nat /\ DOMAIN t = 1..(Len(s) + 1) /\ DOMAIN s = 1..Len(s)
  OBVIOUS
<1>2. t[Len(s) + 1] = x /\ \A i \in DOMAIN s : t[i] = s[i] /\ s[i] \in ElementsOf(s)
  BY DEF ElementsOf
<1>3. ElementsOf(t) = ElementsOf(s) \cup {x}
  BY <1>1, <1>2 DEF ElementsOf
<1>4. \A i, j \in DOMAIN t : i < j => i \in DOMAIN s /\ (j \in DOMAIN s \/ j = Len(s) + 1)
  BY <1>1
<1>5. Rising(s) /\ Below(ElementsOf(s), {x}) => Rising(t)
  BY <1>2, <1>4 DEF Rising, Below
<1>6. InLanes(s) /\ Before(ElementsOf(s), {x}) => InLanes(t)
  BY <1>2, <1>4 DEF InLanes, Before
<1>7. t # <<>>
  BY <1>1
<1>q. QED  BY <1>1, <1>3, <1>5, <1>6, <1>7

\* What is taken from the front of one.
LEMMA TakenFromFront ==
  ASSUME NEW s \in Seq(Given), s # <<>>
  PROVE  /\ Head(s) \in Given /\ Tail(s) \in Seq(Given) /\ Len(Tail(s)) = Len(s) - 1
         /\ ElementsOf(s) = {Head(s)} \cup ElementsOf(Tail(s))
         /\ Rising(s) => Rising(Tail(s)) /\ Below({Head(s)}, ElementsOf(Tail(s)))
         /\ InLanes(s) => InLanes(Tail(s)) /\ Before({Head(s)}, ElementsOf(Tail(s)))
<1> DEFINE t == Tail(s)
<1>1. t \in Seq(Given) /\ Len(t) = Len(s) - 1 /\ Len(s) \in Nat \ {0} /\ DOMAIN t = 1..(Len(s) - 1) /\ DOMAIN s = 1..Len(s)
  OBVIOUS
<1>2. Head(s) = s[1] /\ s[1] \in Given /\ 1 \in DOMAIN s /\ \A i \in DOMAIN t : t[i] = s[i + 1] /\ i + 1 \in DOMAIN s
  BY <1>1
<1>3. \A i \in DOMAIN s : i = 1 \/ (i - 1 \in DOMAIN t /\ s[i] = t[i - 1])
  BY <1>1, <1>2
<1>4. ElementsOf(s) = {Head(s)} \cup ElementsOf(t)
  <2>1. \A i \in DOMAIN s : s[i] = Head(s) \/ \E j \in DOMAIN t : s[i] = t[j]
    BY <1>2, <1>3
  <2>2. Head(s) \in ElementsOf(s) /\ \A i \in DOMAIN t : t[i] \in ElementsOf(s)
    BY <1>2 DEF ElementsOf
  <2>3. ElementsOf(s) = {s[i] : i \in DOMAIN s} /\ ElementsOf(t) = {t[i] : i \in DOMAIN t}
    BY DEF ElementsOf
  <2>4. ASSUME NEW x \in ElementsOf(s)  PROVE x \in {Head(s)} \cup ElementsOf(t)
    <3>1. PICK i \in DOMAIN s : x = s[i]
      BY <2>3, <2>4
    <3>q. QED  BY <2>1, <2>3, <3>1
  <2>5. ASSUME NEW x \in ElementsOf(t)  PROVE x \in ElementsOf(s)
    BY <2>2, <2>3, <2>5
  <2>q. QED  BY <2>2, <2>4, <2>5
<1>5. \A i \in DOMAIN t : 1 < i + 1
  BY <1>1
<1>6. \A i, j \in DOMAIN t : i < j => i + 1 < j + 1
  BY <1>1
<1>7. Rising(s) => Rising(t) /\ Below({Head(s)}, ElementsOf(t))
  BY <1>2, <1>5, <1>6 DEF Rising, Below, ElementsOf
<1>8. InLanes(s) => InLanes(t) /\ Before({Head(s)}, ElementsOf(t))
  BY <1>2, <1>5, <1>6 DEF InLanes, Before, ElementsOf
<1>q. QED  BY <1>1, <1>2, <1>4, <1>7, <1>8

\* A sequence of at most one.
LEMMA OneAtMost ==
  ASSUME NEW s \in Seq(Given), Len(s) <= 1, s # <<>>
  PROVE  Tail(s) = <<>> /\ ElementsOf(s) = {Head(s)}
<1>1. Len(s) = 1 /\ DOMAIN s = {1} /\ Head(s) = s[1]
  <2>1. Len(s) \in Nat /\ Len(s) # 0 /\ DOMAIN s = 1..Len(s) /\ Head(s) = s[1]
    OBVIOUS
  <2>2. Len(s) = 1 /\ 1..1 = {1}
    BY <2>1
  <2>q. QED  BY <2>1, <2>2
<1>2. Len(Tail(s)) = 0 /\ Tail(s) \in Seq(Given)
  BY <1>1
<1>3. ElementsOf(s) = {Head(s)}
  BY <1>1 DEF ElementsOf
<1>q. QED  BY <1>2, <1>3

LEMMA NoElements == ElementsOf(<<>>) = {}
BY DEF ElementsOf

\* A transcoder starts with its invariant.
LEMMA TranscoderInitially == TranscoderInit => TranscoderInv
<1> SUFFICES ASSUME TranscoderInit  PROVE TranscoderInv
  OBVIOUS
<1> USE DEF TranscoderInit
<1>1. TranscoderTypes
  <2>1. <<>> \in Seq(Given) /\ <<>> \in Seq(Given \ RawObjects) /\ <<>> \in Seq(Given \cap RawObjects) /\ Len(<<>>) = 0
    OBVIOUS
  <2>2. 0 \in 0..Len(Gives) /\ 0 \in 0..MaxErrors /\ 0 <= KeptLimit
    BY TranscoderConstants
  <2>3. /\ framesCh \in Seq(Given) /\ Len(framesCh) <= FramesChSize
        /\ resultPackets \in Seq(Given \ RawObjects) /\ Len(resultPackets) <= ResultsChSize
        /\ resultFrames \in Seq(Given \cap RawObjects) /\ Len(resultFrames) <= ResultsChSize
        /\ kept \in Seq(Given) /\ Len(kept) <= KeptLimit
        /\ toGive \in Seq(Given) /\ toRelease \in Seq(Given) /\ sentOut \in Seq(Given)
    BY <2>1, <2>2 DEF FramesChSize, ResultsChSize
  <2>4. consumed \in BOOLEAN /\ hasStarted \in BOOLEAN /\ encoderError \in BOOLEAN
    BY Zenon
  <2>5. /\ callNb = 0 /\ callAt = "idle" /\ encoderAt = "ended" /\ encoding = 0 /\ resultsClosed = 0 /\ readerAt = "none"
        /\ reading = 0 /\ startedBy = 0 /\ dropped = {} /\ closeAt = "no" /\ failures = 0
    BY Zenon
  <2> HIDE DEF TranscoderInit
  <2>q. QED  BY <2>2, <2>3, <2>4, <2>5 DEF TranscoderTypes
<1>2. Stations
  BY DEF Stations
<1>3. EncodedInOrder
  BY NoElements DEF EncodedInOrder, Rising, Below, AtEncoder, AtReader, InResults, ToEncode, Encoded
<1>4. KeptInOrder
  BY NoElements DEF KeptInOrder, InLanes, Before, Below, AtReader, InResults
<1>5. SentSoFar
  BY NoElements DEF SentSoFar, InLanes, Before
<1>6. NothingElseIsLost
  BY DEF NothingElseIsLost, UnderWay
<1>q. QED  BY <1>1, <1>2, <1>3, <1>4, <1>5, <1>6 DEF TranscoderInv

\* The variables keep their types.
LEMMA TranscoderTypesKeep == TranscoderInv /\ TranscoderNext => TranscoderTypes'
<1> SUFFICES ASSUME TranscoderTypes, Stations, TranscoderNext  PROVE TranscoderTypes'
  BY DEF TranscoderInv
<1> USE TranscoderConstants DEF TranscoderTypes, codecsPart, resultsPart, readerPart, startPart
<1>1. CASE StartCall
  <2>1. callNb' \in 1..Len(Gives) /\ ElementsOf(Gives[callNb']) \subseteq Given
    BY <1>1 DEF StartCall
  <2>2. callNb' \in 0..Len(Gives) /\ dropped' \subseteq Given
    BY <1>1, <2>1 DEF StartCall
  <2>3. resultPackets' \in Seq(Given \ RawObjects) /\ Len(resultPackets') <= ResultsChSize
        /\ resultFrames' \in Seq(Given \cap RawObjects) /\ Len(resultFrames') <= ResultsChSize /\ resultsClosed' \in 0..2
    <3>1. \/ resultPackets' = resultPackets /\ resultFrames' = resultFrames /\ resultsClosed' = resultsClosed
          \/ resultPackets' = <<>> /\ resultFrames' = <<>> /\ resultsClosed' = 0
      BY <1>1 DEF StartCall
    <3>2. <<>> \in Seq(Given \ RawObjects) /\ <<>> \in Seq(Given \cap RawObjects) /\ Len(<<>>) = 0
      OBVIOUS
    <3>3. CASE resultPackets' = resultPackets /\ resultFrames' = resultFrames /\ resultsClosed' = resultsClosed
      BY <3>3 DEF ResultsChSize
    <3>4. CASE resultPackets' = <<>> /\ resultFrames' = <<>> /\ resultsClosed' = 0
      BY <3>2, <3>4 DEF ResultsChSize
    <3>q. QED  BY <3>1, <3>3, <3>4
  <2>4. callAt' \in {callAt, "begin"} /\ readerAt' \in {readerAt, "none", "reads"} /\ (readerAt' = "has" => readerAt = "has")
    BY <1>1 DEF StartCall
  <2>5. UNCHANGED <<consumed, toGive, framesCh, encoderAt, encoderError, encoding>>
    BY <1>1 DEF StartCall
  <2>6. UNCHANGED <<reading, kept, hasStarted, startedBy, toRelease, sentOut, closeAt, failures>>
    BY <1>1 DEF StartCall
  <2>q. QED  BY <2>2, <2>3, <2>4, <2>5, <2>6
<1>2. CASE BeginDecode
  <2>1. callNb \in 1..Len(Gives) /\ Gives[callNb] \in Seq(Given) /\ ElementsOf(Gives[callNb]) \subseteq Given
    BY <1>2 DEF BeginDecode, Stations
  <2>2. toGive' \in Seq(Given) /\ dropped' \subseteq Given
    BY <1>2, <2>1 DEF BeginDecode
  <2>q. QED  BY <1>2, <2>2 DEF BeginDecode
<1>3. CASE DecodeOne
  <2>1. toGive' \in Seq(Given) /\ framesCh' \in Seq(Given) /\ Len(framesCh') <= FramesChSize
    BY <1>3, TakenFromFront, PutAtEnd DEF DecodeOne, FramesChSize
  <2>q. QED  BY <1>3, <2>1 DEF DecodeOne
<1>4. CASE DecodeEnds
  BY <1>4 DEF DecodeEnds
<1>5. CASE DecodeFails
  <2>1. ElementsOf(toGive) \subseteq Given
    BY DEF ElementsOf
  <2>2. failures' \in 0..MaxErrors /\ toGive' \in Seq(Given) /\ dropped' \subseteq Given
    BY <1>5, <2>1 DEF DecodeFails
  <2>q. QED  BY <1>5, <2>2 DEF DecodeFails
<1>6. CASE AfterEncoder
  BY <1>6 DEF AfterEncoder
<1>7. CASE CloseResults
  <2>1. resultsClosed' \in 0..2
    BY <1>7 DEF CloseResults, Stations
  <2>q. QED  BY <1>7, <2>1 DEF CloseResults
<1>8. CASE CountStreams
  BY <1>8 DEF CountStreams
<1>9. CASE ReleaseOne
  BY <1>9 DEF ReleaseOne
<1>10. CASE ReleaseCut
  BY <1>10 DEF ReleaseCut
<1>11. CASE ReleaseEnds
  BY <1>11 DEF ReleaseEnds
<1>12. CASE ReturnCall
  BY <1>12 DEF ReturnCall
<1>13. CASE EncoderTakes
  <2>1. Head(framesCh) \in Given /\ framesCh' \in Seq(Given) /\ Len(framesCh') <= FramesChSize
    BY <1>13, TakenFromFront DEF EncoderTakes, FramesChSize
  <2>q. QED  BY <1>13, <2>1 DEF EncoderTakes
<1>14. CASE EncoderSends
  <2>1. sentOut' \in Seq(Given)
    BY <1>14, PutAtEnd DEF EncoderSends
  <2>2. resultPackets' \in Seq(Given \ RawObjects) /\ Len(resultPackets') <= ResultsChSize
    <3>1. CASE ~Direct /\ encoding \notin RawObjects
      BY <1>14, <3>1 DEF EncoderSends, HasRoom, ResultsChSize
    <3>2. CASE Direct \/ encoding \in RawObjects
      BY <1>14, <3>2 DEF EncoderSends
    <3>q. QED  BY <3>1, <3>2
  <2>3. resultFrames' \in Seq(Given \cap RawObjects) /\ Len(resultFrames') <= ResultsChSize
    <3>1. CASE ~Direct /\ encoding \in RawObjects
      BY <1>14, <3>1 DEF EncoderSends, HasRoom, ResultsChSize
    <3>2. CASE Direct \/ encoding \notin RawObjects
      BY <1>14, <3>2 DEF EncoderSends
    <3>q. QED  BY <3>1, <3>2
  <2>q. QED  BY <1>14, <2>1, <2>2, <2>3 DEF EncoderSends
<1>15. CASE EncoderFails
  BY <1>15 DEF EncoderFails
<1>16. CASE EncoderEnds
  BY <1>16 DEF EncoderEnds
<1>17. CASE Read
  <2>1. CASE resultPackets # <<>> /\ reading' = Head(resultPackets) /\ resultPackets' = <<>> /\ UNCHANGED resultFrames
    <3>1. Head(resultPackets) \in Given /\ resultPackets' \in Seq(Given \ RawObjects) /\ Len(resultPackets') <= ResultsChSize
      BY <2>1 DEF ResultsChSize
    <3>q. QED  BY <1>17, <2>1, <3>1 DEF Read
  <2>2. CASE resultFrames # <<>> /\ reading' = Head(resultFrames) /\ resultFrames' = <<>> /\ UNCHANGED resultPackets
    <3>1. Head(resultFrames) \in Given /\ resultFrames' \in Seq(Given \cap RawObjects) /\ Len(resultFrames') <= ResultsChSize
      BY <2>2 DEF ResultsChSize
    <3>q. QED  BY <1>17, <2>2, <3>1 DEF Read
  <2>q. QED  BY <1>17, <2>1, <2>2 DEF Read
<1>18. CASE Keep
  <2>1. reading \in Given /\ Len(kept) \in Nat
    BY <1>18 DEF Keep
  <2>2. CASE Len(kept) >= KeptLimit
    <3>1. Len(kept) = KeptLimit /\ kept # <<>>
      BY <2>1, <2>2
    <3>2. Head(kept) \in Given /\ Tail(kept) \in Seq(Given) /\ Len(Tail(kept)) = Len(kept) - 1
      BY <3>1, TakenFromFront
    <3>3. kept' = Append(Tail(kept), reading) /\ dropped' = dropped \cup {Head(kept)}
      BY <1>18, <2>2 DEF Keep
    <3>4. kept' \in Seq(Given) /\ Len(kept') = Len(Tail(kept)) + 1
      BY <2>1, <3>2, <3>3, PutAtEnd
    <3>5. Len(kept') <= KeptLimit
      BY <2>1, <3>1, <3>2, <3>4
    <3>6. readerAt' = "reads" /\ dropped' \subseteq Given
      BY <1>18, <3>2, <3>3 DEF Keep
    <3>7. UNCHANGED <<consumed, callNb, callAt, toGive, framesCh, encoderAt, encoderError, encoding>>
      BY <1>18 DEF Keep
    <3>8. UNCHANGED <<resultPackets, resultFrames, resultsClosed, reading, hasStarted, startedBy, toRelease, sentOut, closeAt, failures>>
      BY <1>18 DEF Keep
    <3>q. QED  BY <3>4, <3>5, <3>6, <3>7, <3>8
  <2>3. CASE ~(Len(kept) >= KeptLimit)
    <3>1. kept' = Append(kept, reading) /\ dropped' = dropped
      BY <1>18, <2>3 DEF Keep
    <3>2. kept' \in Seq(Given) /\ Len(kept') = Len(kept) + 1
      BY <2>1, <3>1, PutAtEnd
    <3>3. Len(kept') <= KeptLimit
      BY <2>1, <2>3, <3>2
    <3>q. QED  BY <1>18, <3>1, <3>2, <3>3 DEF Keep
  <2>q. QED  BY <2>2, <2>3
<1>19. CASE ReaderEnds
  BY <1>19 DEF ReaderEnds
<1>20. CASE CloseTranscoder
  BY <1>20 DEF CloseTranscoder
<1>21. CASE StopConsuming
  <2>1. consumed' \in BOOLEAN
    BY <1>21, Zenon DEF StopConsuming
  <2>2. UNCHANGED <<callNb, callAt, toGive, framesCh, encoderAt, encoding, encoderError, resultPackets, resultFrames,
                    resultsClosed, readerAt, reading, kept, hasStarted, startedBy, toRelease, sentOut, dropped, closeAt,
                    failures>>
    BY <1>21, Zenon DEF StopConsuming
  <2>q. QED  BY <2>1, <2>2
<1>q. QED
  BY <1>1, <1>2, <1>3, <1>4, <1>5, <1>6, <1>7, <1>8, <1>9, <1>10, <1>11, <1>12, <1>13, <1>14, <1>15, <1>16, <1>17, <1>18, <1>19, <1>20, <1>21
     DEF TranscoderNext, CallGoesOn, EncoderGoesOn, ReaderGoesOn

\* The goroutines stay where they may be.
LEMMA StationsKeep == TranscoderInv /\ TranscoderNext => Stations'
<1> SUFFICES ASSUME TranscoderTypes, Stations, TranscoderNext  PROVE Stations'
  BY DEF TranscoderInv
<1> USE DEF Stations, codecsPart, resultsPart, readerPart, startPart
<1>t. /\ callNb \in 0..Len(Gives) /\ Len(Gives) \in Nat /\ startedBy \in 0..Len(Gives) /\ resultsClosed \in 0..2
      /\ callAt \in {"idle", "begin", "decode", "decoded", "closing", "closed", "release", "return"}
      /\ hasStarted \in BOOLEAN
  BY TranscoderConstants DEF TranscoderTypes
<1>1. CASE StartCall
  BY <1>1, <1>t DEF StartCall
<1>2. CASE BeginDecode
  BY <1>2, <1>t DEF BeginDecode
<1>3. CASE DecodeOne
  BY <1>3, <1>t DEF DecodeOne
<1>4. CASE DecodeEnds
  BY <1>4, <1>t DEF DecodeEnds
<1>5. CASE DecodeFails
  BY <1>5, <1>t DEF DecodeFails
<1>6. CASE AfterEncoder
  BY <1>6, <1>t DEF AfterEncoder
<1>7. CASE CloseResults
  BY <1>7, <1>t DEF CloseResults
<1>8. CASE CountStreams
  BY <1>8, <1>t DEF CountStreams
<1>9. CASE ReleaseOne
  BY <1>9, <1>t DEF ReleaseOne
<1>10. CASE ReleaseCut
  BY <1>10, <1>t DEF ReleaseCut
<1>11. CASE ReleaseEnds
  BY <1>11, <1>t DEF ReleaseEnds
<1>12. CASE ReturnCall
  BY <1>12, <1>t DEF ReturnCall
<1>13. CASE EncoderTakes
  BY <1>13, <1>t DEF EncoderTakes
<1>14. CASE EncoderSends
  BY <1>14, <1>t DEF EncoderSends, Direct
<1>15. CASE EncoderFails
  BY <1>15, <1>t DEF EncoderFails
<1>16. CASE EncoderEnds
  BY <1>16, <1>t DEF EncoderEnds
<1>17. CASE Read
  BY <1>17, <1>t DEF Read
<1>18. CASE Keep
  BY <1>18, <1>t DEF Keep
<1>19. CASE ReaderEnds
  BY <1>19, <1>t DEF ReaderEnds, SeesTheEnd
<1>20. CASE CloseTranscoder
  BY <1>20, <1>t DEF CloseTranscoder
<1>21. CASE StopConsuming
  BY <1>21, <1>t DEF StopConsuming
<1>q. QED
  BY <1>1, <1>2, <1>3, <1>4, <1>5, <1>6, <1>7, <1>8, <1>9, <1>10, <1>11, <1>12, <1>13, <1>14, <1>15, <1>16, <1>17, <1>18, <1>19, <1>20, <1>21
     DEF TranscoderNext, CallGoesOn, EncoderGoesOn, ReaderGoesOn

\* No object comes twice.
LEMMA ComesOnce ==
  TranscoderTypes /\ Stations /\ TranscoderNext => YetToCome' \subseteq YetToCome
<1> SUFFICES ASSUME TranscoderTypes, Stations, TranscoderNext  PROVE YetToCome' \subseteq YetToCome
  OBVIOUS
<1>t. callNb \in Nat
  BY TranscoderConstants DEF TranscoderTypes
<1>1. \A l \in DOMAIN Gives : l \in Nat
  BY GivenAre
<1>2. \A l \in DOMAIN Gives : l > callNb' \/ (l = callNb' /\ callAt' = "begin") => l > callNb \/ (l = callNb /\ callAt = "begin")
  <2>1. CASE StartCall
    BY <2>1, <1>t, <1>1 DEF StartCall
  <2>2. CASE callNb' = callNb /\ (callAt' = "begin" => callAt = "begin")
    BY <2>2
  <2>3. StartCall \/ (callNb' = callNb /\ (callAt' = "begin" => callAt = "begin"))
    BY DEF TranscoderNext, CallGoesOn, EncoderGoesOn, ReaderGoesOn, BeginDecode, DecodeOne, DecodeEnds, DecodeFails,
           AfterEncoder, CloseResults, CountStreams, ReleaseOne, ReleaseCut, ReleaseEnds, ReturnCall, EncoderTakes,
           EncoderSends, EncoderFails, EncoderEnds, Read, Keep, ReaderEnds, CloseTranscoder, StopConsuming
  <2>q. QED  BY <2>1, <2>2, <2>3
<1>q. QED  BY <1>2 DEF YetToCome

\* What leaves the encoder joins those that have left it, and the rest is less.
LEMMA EncodedStays ==
  ASSUME EncodedInOrder, YetToCome' \subseteq YetToCome, AtEncoder' \subseteq AtEncoder,
         framesCh' = framesCh, toGive' \in {toGive, <<>>},
         Encoded' \subseteq Encoded \cup AtEncoder, AtEncoder \cap AtEncoder' = {} \/ Encoded' \subseteq Encoded
  PROVE  EncodedInOrder'
<1>1. Rising(framesCh') /\ Rising(toGive') /\ ElementsOf(framesCh') = ElementsOf(framesCh) /\ ElementsOf(toGive') \subseteq ElementsOf(toGive)
  BY NoElements DEF EncodedInOrder, Rising
<1>2. ToEncode' \subseteq ToEncode
  BY <1>1 DEF ToEncode
<1>3. Below(AtEncoder', ElementsOf(framesCh') \cup ElementsOf(toGive') \cup YetToCome')
  BY <1>1 DEF EncodedInOrder, Below
<1>4. Below(ElementsOf(framesCh'), ElementsOf(toGive') \cup YetToCome') /\ Below(ElementsOf(toGive'), YetToCome')
  BY <1>1 DEF EncodedInOrder, Below
<1>5. Below(Encoded', ToEncode' \cup YetToCome')
  <2>1. CASE Encoded' \subseteq Encoded
    BY <1>2, <2>1 DEF EncodedInOrder, Below
  <2>2. CASE AtEncoder \cap AtEncoder' = {}
    <3>1. AtEncoder' = {}
      BY <2>2
    <3>2. ToEncode' \subseteq ElementsOf(framesCh) \cup ElementsOf(toGive)
      BY <1>1, <3>1 DEF ToEncode
    <3>3. Below(AtEncoder, ToEncode' \cup YetToCome')
      BY <3>2 DEF EncodedInOrder, Below
    <3>4. Below(Encoded, ToEncode' \cup YetToCome')
      BY <1>2 DEF EncodedInOrder, Below
    <3>q. QED  BY <3>3, <3>4 DEF Below
  <2>q. QED  BY <2>1, <2>2
<1>q. QED  BY <1>1, <1>3, <1>4, <1>5 DEF EncodedInOrder

\* What is kept after a Keep: what was, without the oldest if there were too many, and
\* then the object read.
LEMMA KeepsLast ==
  ASSUME Keep, kept \in Seq(Given), reading \in Given
  PROVE  /\ ElementsOf(kept') \subseteq ElementsOf(kept) \cup {reading} /\ reading \in ElementsOf(kept')
         /\ dropped \subseteq dropped' /\ dropped' \subseteq dropped \cup ElementsOf(kept)
         /\ ElementsOf(kept) \subseteq ElementsOf(kept') \cup dropped'
         /\ InLanes(kept) /\ Before(ElementsOf(kept), {reading}) => InLanes(kept')
<1>1. CASE Len(kept) >= KeptLimit
  <2>1. kept # <<>> /\ kept' = Append(Tail(kept), reading) /\ dropped' = dropped \cup {Head(kept)}
    BY <1>1, TranscoderConstants DEF Keep
  <2>2. /\ Head(kept) \in Given /\ Tail(kept) \in Seq(Given) /\ ElementsOf(kept) = {Head(kept)} \cup ElementsOf(Tail(kept))
        /\ InLanes(kept) => InLanes(Tail(kept))
    BY <2>1, TakenFromFront
  <2>3. /\ ElementsOf(kept') = ElementsOf(Tail(kept)) \cup {reading}
        /\ InLanes(Tail(kept)) /\ Before(ElementsOf(Tail(kept)), {reading}) => InLanes(kept')
    BY <2>1, <2>2, PutAtEnd
  <2>4. Before(ElementsOf(kept), {reading}) => Before(ElementsOf(Tail(kept)), {reading})
    BY <2>2 DEF Before
  <2>q. QED  BY <2>1, <2>2, <2>3, <2>4
<1>2. CASE ~(Len(kept) >= KeptLimit)
  <2>1. kept' = Append(kept, reading) /\ dropped' = dropped
    BY <1>2 DEF Keep
  <2>q. QED  BY <2>1, PutAtEnd
<1>q. QED  BY <1>1, <1>2

\* What comes out of the encoder comes before all that is yet to enter it.
LEMMA EncodedKeeps == TranscoderInv /\ TranscoderNext => EncodedInOrder'
<1> SUFFICES ASSUME TranscoderTypes, Stations, EncodedInOrder, TranscoderNext  PROVE EncodedInOrder'
  BY DEF TranscoderInv
<1> USE DEF codecsPart, resultsPart, readerPart, startPart
<1>y. YetToCome' \subseteq YetToCome
  BY ComesOnce
<1>t. /\ toGive \in Seq(Given) /\ framesCh \in Seq(Given) /\ kept \in Seq(Given) /\ toRelease \in Seq(Given) /\ sentOut \in Seq(Given)
      /\ (readerAt = "has" => reading \in Given) /\ (encoderAt = "sends" => encoding \in Given)
      /\ resultPackets \in Seq(Given) /\ Len(resultPackets) <= 1 /\ resultFrames \in Seq(Given) /\ Len(resultFrames) <= 1
  BY DEF TranscoderTypes, ResultsChSize
<1>1. CASE StartCall
  <2>1. AtReader' = {} /\ InResults' \subseteq InResults
    BY <1>1, NoElements DEF StartCall, Stations, AtReader, InResults
  <2>2. UNCHANGED <<kept, sentOut, toRelease, framesCh, toGive, encoderAt, encoding>>
    BY <1>1 DEF StartCall
  <2>q. QED  BY <2>1, <2>2, <1>y, EncodedStays DEF Encoded, AtEncoder
<1>2. CASE BeginDecode
  <2>1. callNb \in DOMAIN Gives /\ callNb \in Nat
    BY <1>2, TranscoderConstants, GivenAre DEF BeginDecode, Stations, TranscoderTypes
  <2>2. toGive' \in {Gives[callNb], <<>>}
    BY <1>2 DEF BeginDecode, Stations
  <2>3. Rising(toGive') /\ ElementsOf(toGive') \subseteq ElementsOf(Gives[callNb])
    BY <2>1, <2>2, GivenAre, NoElements DEF Rising
  <2>4. ElementsOf(Gives[callNb]) \subseteq YetToCome
    BY <1>2, <2>1 DEF BeginDecode, YetToCome
  <2>5. Below(ElementsOf(Gives[callNb]), YetToCome')
    BY <1>2, <2>1, GivenAre DEF BeginDecode, YetToCome, Below
  <2>6. AtEncoder' = {} /\ framesCh' = <<>> /\ framesCh = <<>> /\ Encoded' = Encoded
    BY <1>2 DEF BeginDecode, Stations, AtEncoder, Encoded, AtReader, InResults
  <2>7. ToEncode' \subseteq YetToCome
    BY <2>3, <2>4, <2>6, NoElements DEF ToEncode
  <2>8. Below(Encoded', ToEncode' \cup YetToCome')
    BY <2>6, <2>7, <1>y DEF EncodedInOrder, Below
  <2>9. Below(ElementsOf(toGive'), YetToCome')
    BY <2>3, <2>5 DEF Below
  <2>q. QED  BY <2>3, <2>6, <2>8, <2>9, NoElements DEF EncodedInOrder, Rising, Below
<1>3. CASE DecodeOne
  <2> DEFINE h == Head(toGive)
  <2>1. /\ ElementsOf(toGive) = {h} \cup ElementsOf(toGive') /\ Rising(toGive') /\ Below({h}, ElementsOf(toGive')) /\ h \in Given
    BY <1>3, <1>t, TakenFromFront DEF DecodeOne, EncodedInOrder
  <2>2. Below(ElementsOf(framesCh), {h})
    BY <2>1 DEF EncodedInOrder, Below
  <2>3. ElementsOf(framesCh') = ElementsOf(framesCh) \cup {h} /\ Rising(framesCh')
    BY <1>3, <1>t, <2>1, <2>2, PutAtEnd DEF DecodeOne, EncodedInOrder
  <2>4. AtEncoder' = AtEncoder /\ Encoded' = Encoded
    BY <1>3 DEF DecodeOne, AtEncoder, Encoded, AtReader, InResults
  <2>5. ToEncode' = ToEncode
    BY <2>1, <2>3, <2>4 DEF ToEncode
  <2>6. Below(AtEncoder', ElementsOf(framesCh') \cup ElementsOf(toGive') \cup YetToCome')
    BY <2>1, <2>3, <2>4, <1>y DEF EncodedInOrder, Below
  <2>7. Below(ElementsOf(framesCh'), ElementsOf(toGive') \cup YetToCome') /\ Below(ElementsOf(toGive'), YetToCome')
    BY <2>1, <2>3, <1>y DEF EncodedInOrder, Below
  <2>8. Below(Encoded', ToEncode' \cup YetToCome')
    BY <2>4, <2>5, <1>y DEF EncodedInOrder, Below
  <2>q. QED  BY <2>1, <2>3, <2>6, <2>7, <2>8 DEF EncodedInOrder
<1>4. CASE DecodeEnds
  <2>1. framesCh' = framesCh /\ toGive' \in {toGive, <<>>} /\ AtEncoder' \subseteq AtEncoder
    BY <1>4 DEF DecodeEnds, AtEncoder
  <2>2. Encoded' \subseteq Encoded
    BY <1>4, NoElements DEF DecodeEnds, Encoded, AtReader, InResults
  <2>q. QED  BY <2>1, <2>2, <1>y, EncodedStays
<1>5. CASE DecodeFails
  <2>1. framesCh' = framesCh /\ toGive' \in {toGive, <<>>} /\ AtEncoder' \subseteq AtEncoder
    BY <1>5 DEF DecodeFails, AtEncoder
  <2>2. Encoded' \subseteq Encoded
    BY <1>5, NoElements DEF DecodeFails, Encoded, AtReader, InResults
  <2>q. QED  BY <2>1, <2>2, <1>y, EncodedStays
<1>6. CASE AfterEncoder
  <2>1. framesCh' = framesCh /\ toGive' \in {toGive, <<>>} /\ AtEncoder' \subseteq AtEncoder
    BY <1>6 DEF AfterEncoder, AtEncoder
  <2>2. Encoded' \subseteq Encoded
    BY <1>6, NoElements DEF AfterEncoder, Encoded, AtReader, InResults
  <2>q. QED  BY <2>1, <2>2, <1>y, EncodedStays
<1>7. CASE CloseResults
  <2>1. framesCh' = framesCh /\ toGive' \in {toGive, <<>>} /\ AtEncoder' \subseteq AtEncoder
    BY <1>7 DEF CloseResults, AtEncoder
  <2>2. Encoded' \subseteq Encoded
    BY <1>7, NoElements DEF CloseResults, Encoded, AtReader, InResults
  <2>q. QED  BY <2>1, <2>2, <1>y, EncodedStays
<1>8. CASE CountStreams
  <2>1. framesCh' = framesCh /\ toGive' \in {toGive, <<>>} /\ AtEncoder' \subseteq AtEncoder
    BY <1>8 DEF CountStreams, AtEncoder
  <2>2. Encoded' \subseteq Encoded
    BY <1>8, NoElements DEF CountStreams, Encoded, AtReader, InResults
  <2>q. QED  BY <2>1, <2>2, <1>y, EncodedStays
<1>9. CASE ReleaseOne
  <2>1. /\ ElementsOf(toRelease) = {Head(toRelease)} \cup ElementsOf(toRelease') /\ Head(toRelease) \in Given
        /\ ElementsOf(sentOut') = ElementsOf(sentOut) \cup {Head(toRelease)}
    BY <1>9, <1>t, TakenFromFront, PutAtEnd DEF ReleaseOne
  <2>2. UNCHANGED <<kept, resultPackets, resultFrames, readerAt, reading, framesCh, toGive, encoderAt, encoding>>
    BY <1>9 DEF ReleaseOne
  <2>q. QED  BY <2>1, <2>2, <1>y, EncodedStays DEF Encoded, AtEncoder, AtReader, InResults
<1>10. CASE ReleaseCut
  <2>1. framesCh' = framesCh /\ toGive' \in {toGive, <<>>} /\ AtEncoder' \subseteq AtEncoder
    BY <1>10 DEF ReleaseCut, AtEncoder
  <2>2. Encoded' \subseteq Encoded
    BY <1>10, NoElements DEF ReleaseCut, Encoded, AtReader, InResults
  <2>q. QED  BY <2>1, <2>2, <1>y, EncodedStays
<1>11. CASE ReleaseEnds
  <2>1. framesCh' = framesCh /\ toGive' \in {toGive, <<>>} /\ AtEncoder' \subseteq AtEncoder
    BY <1>11 DEF ReleaseEnds, AtEncoder
  <2>2. Encoded' \subseteq Encoded
    BY <1>11, NoElements DEF ReleaseEnds, Encoded, AtReader, InResults
  <2>q. QED  BY <2>1, <2>2, <1>y, EncodedStays
<1>12. CASE ReturnCall
  <2>1. framesCh' = framesCh /\ toGive' \in {toGive, <<>>} /\ AtEncoder' \subseteq AtEncoder
    BY <1>12 DEF ReturnCall, AtEncoder
  <2>2. Encoded' \subseteq Encoded
    BY <1>12, NoElements DEF ReturnCall, Encoded, AtReader, InResults
  <2>q. QED  BY <2>1, <2>2, <1>y, EncodedStays
<1>13. CASE EncoderTakes
  <2> DEFINE h == Head(framesCh)
  <2>1. /\ ElementsOf(framesCh) = {h} \cup ElementsOf(framesCh') /\ Rising(framesCh') /\ Below({h}, ElementsOf(framesCh'))
    BY <1>13, <1>t, TakenFromFront DEF EncoderTakes, EncodedInOrder
  <2>2. AtEncoder = {} /\ AtEncoder' \subseteq {h} /\ Encoded' = Encoded /\ toGive' = toGive
    BY <1>13 DEF EncoderTakes, AtEncoder, Encoded, AtReader, InResults
  <2>3. ToEncode' \subseteq ToEncode
    BY <2>1, <2>2 DEF ToEncode
  <2>4. Below(AtEncoder', ElementsOf(framesCh') \cup ElementsOf(toGive') \cup YetToCome')
    BY <2>1, <2>2, <1>y DEF EncodedInOrder, Below
  <2>5. Below(ElementsOf(framesCh'), ElementsOf(toGive') \cup YetToCome') /\ Below(ElementsOf(toGive'), YetToCome')
    BY <2>1, <2>2, <1>y DEF EncodedInOrder, Below
  <2>6. Below(Encoded', ToEncode' \cup YetToCome')
    BY <2>2, <2>3, <1>y DEF EncodedInOrder, Below
  <2>q. QED  BY <2>1, <2>2, <2>4, <2>5, <2>6 DEF EncodedInOrder
<1>14. CASE EncoderSends
  <2>1. AtEncoder = {encoding} /\ AtEncoder' = {} /\ encoding \in Given
    BY <1>14, <1>t DEF EncoderSends, AtEncoder
  <2>2. /\ ElementsOf(sentOut') \subseteq ElementsOf(sentOut) \cup {encoding}
        /\ ElementsOf(resultFrames') \subseteq ElementsOf(resultFrames) \cup {encoding}
        /\ ElementsOf(resultPackets') \subseteq ElementsOf(resultPackets) \cup {encoding}
    BY <1>14, <1>t, <2>1, PutAtEnd DEF EncoderSends
  <2>3. UNCHANGED <<kept, toRelease, framesCh, toGive, readerAt, reading>>
    BY <1>14 DEF EncoderSends
  <2>4. Encoded' \subseteq Encoded \cup AtEncoder
    BY <2>1, <2>2, <2>3 DEF Encoded, AtReader, InResults
  <2>q. QED  BY <2>1, <2>3, <2>4, <1>y, EncodedStays
<1>15. CASE EncoderFails
  <2>1. AtEncoder' = {} /\ UNCHANGED <<framesCh, toGive>> /\ Encoded' = Encoded
    BY <1>15 DEF EncoderFails, AtEncoder, Encoded, AtReader, InResults
  <2>q. QED  BY <2>1, <1>y, EncodedStays
<1>16. CASE EncoderEnds
  <2>1. framesCh' = framesCh /\ toGive' \in {toGive, <<>>} /\ AtEncoder' \subseteq AtEncoder
    BY <1>16 DEF EncoderEnds, AtEncoder
  <2>2. Encoded' \subseteq Encoded
    BY <1>16, NoElements DEF EncoderEnds, Encoded, AtReader, InResults
  <2>q. QED  BY <2>1, <2>2, <1>y, EncodedStays
<1>17. CASE Read
  <2>1. AtReader' \cup InResults' \subseteq InResults
    <3>1. CASE resultPackets # <<>> /\ reading' = Head(resultPackets) /\ resultPackets' = <<>> /\ UNCHANGED resultFrames
      BY <1>17, <3>1, <1>t, OneAtMost, NoElements DEF Read, AtReader, InResults
    <3>2. CASE resultFrames # <<>> /\ reading' = Head(resultFrames) /\ resultFrames' = <<>> /\ UNCHANGED resultPackets
      BY <1>17, <3>2, <1>t, OneAtMost, NoElements DEF Read, AtReader, InResults
    <3>q. QED  BY <1>17, <3>1, <3>2 DEF Read
  <2>2. UNCHANGED <<kept, sentOut, toRelease, framesCh, toGive, encoderAt, encoding>>
    BY <1>17 DEF Read
  <2>q. QED  BY <2>1, <2>2, <1>y, EncodedStays DEF Encoded, AtEncoder
<1>18. CASE Keep
  <2>1. AtReader = {reading} /\ AtReader' = {} /\ reading \in Given
    BY <1>18, <1>t DEF Keep, AtReader
  <2>2. ElementsOf(kept') \subseteq ElementsOf(kept) \cup {reading}
    BY <1>18, <1>t, <2>1, KeepsLast
  <2>3. UNCHANGED <<resultPackets, resultFrames, sentOut, toRelease, framesCh, toGive, encoderAt, encoding>>
    BY <1>18 DEF Keep
  <2>q. QED  BY <2>1, <2>2, <2>3, <1>y, EncodedStays DEF Encoded, AtEncoder, InResults
<1>19. CASE ReaderEnds
  <2>1. framesCh' = framesCh /\ toGive' \in {toGive, <<>>} /\ AtEncoder' \subseteq AtEncoder
    BY <1>19 DEF ReaderEnds, AtEncoder
  <2>2. Encoded' \subseteq Encoded
    BY <1>19, NoElements DEF ReaderEnds, Encoded, AtReader, InResults
  <2>q. QED  BY <2>1, <2>2, <1>y, EncodedStays
<1>20. CASE CloseTranscoder
  <2>1. framesCh' = framesCh /\ toGive' \in {toGive, <<>>} /\ AtEncoder' \subseteq AtEncoder
    BY <1>20 DEF CloseTranscoder, AtEncoder
  <2>2. Encoded' \subseteq Encoded
    BY <1>20, NoElements DEF CloseTranscoder, Encoded, AtReader, InResults
  <2>q. QED  BY <2>1, <2>2, <1>y, EncodedStays
<1>21. CASE StopConsuming
  <2>1. framesCh' = framesCh /\ toGive' \in {toGive, <<>>} /\ AtEncoder' \subseteq AtEncoder
    BY <1>21 DEF StopConsuming, AtEncoder
  <2>2. Encoded' \subseteq Encoded
    BY <1>21, NoElements DEF StopConsuming, Encoded, AtReader, InResults
  <2>q. QED  BY <2>1, <2>2, <1>y, EncodedStays
<1>q. QED
  BY <1>1, <1>2, <1>3, <1>4, <1>5, <1>6, <1>7, <1>8, <1>9, <1>10, <1>11, <1>12, <1>13, <1>14, <1>15, <1>16, <1>17, <1>18, <1>19, <1>20, <1>21
     DEF TranscoderNext, CallGoesOn, EncoderGoesOn, ReaderGoesOn

\* What has failed or been closed stays so.
LEMMA CalmBefore == TranscoderTypes /\ TranscoderNext /\ Calm' => Calm
<1> SUFFICES ASSUME TranscoderTypes, TranscoderNext, Calm'  PROVE Calm
  OBVIOUS
<1>1. failures \in Nat
  BY TranscoderConstants DEF TranscoderTypes
<1>2. failures' \in {failures, failures + 1} /\ (closeAt' = closeAt \/ closeAt' # "no")
  BY DEF TranscoderNext, CallGoesOn, EncoderGoesOn, ReaderGoesOn, StartCall, BeginDecode, DecodeOne, DecodeEnds, DecodeFails,
       AfterEncoder, CloseResults, CountStreams, ReleaseOne, ReleaseCut, ReleaseEnds, ReturnCall, EncoderTakes,
       EncoderSends, EncoderFails, EncoderEnds, Read, Keep, ReaderEnds, CloseTranscoder, StopConsuming
<1>q. QED  BY <1>1, <1>2 DEF Calm

\* Less on its way is no less in order.
LEMMA KeptStays ==
  ASSUME KeptInOrder, YetToCome' \subseteq YetToCome \/ ~Calm', kept' \in {kept, <<>>},
         AtReader' \subseteq AtReader, InResults' \subseteq InResults,
         Calm' => /\ Calm /\ ~encoderError' /\ dropped' = dropped
                  /\ ToEncode' \subseteq ToEncode \cup YetToCome
  PROVE  KeptInOrder'
<1>1. InLanes(kept') /\ ElementsOf(kept') \subseteq ElementsOf(kept)
  BY NoElements DEF KeptInOrder, InLanes
<1>2. Before(ElementsOf(kept'), AtReader' \cup InResults') /\ Before(AtReader', InResults')
  BY <1>1 DEF KeptInOrder, Before
<1>3. Calm' => Before(dropped', AtReader' \cup InResults')
  BY DEF KeptInOrder, Before
<1>4. Calm' => Below(dropped', ToEncode' \cup YetToCome')
  BY DEF KeptInOrder, Below
<1>q. QED  BY <1>1, <1>2, <1>3, <1>4 DEF KeptInOrder

\* What is behind the encoder is in order, in either of its two lanes.
LEMMA KeptKeeps == TranscoderInv /\ TranscoderNext => KeptInOrder'
<1> SUFFICES ASSUME TranscoderTypes, Stations, EncodedInOrder, KeptInOrder, TranscoderNext  PROVE KeptInOrder'
  BY DEF TranscoderInv
<1> USE DEF codecsPart, resultsPart, readerPart, startPart
<1>y. YetToCome' \subseteq YetToCome /\ (Calm' => Calm)
  BY ComesOnce, CalmBefore
<1>t. /\ toGive \in Seq(Given) /\ framesCh \in Seq(Given) /\ kept \in Seq(Given) /\ toRelease \in Seq(Given) /\ sentOut \in Seq(Given)
      /\ (readerAt = "has" => reading \in Given) /\ (encoderAt = "sends" => encoding \in Given)
      /\ resultPackets \in Seq(Given) /\ Len(resultPackets) <= 1 /\ resultFrames \in Seq(Given) /\ Len(resultFrames) <= 1
  BY DEF TranscoderTypes, ResultsChSize
<1>e. Calm' => ~encoderError
  BY <1>y DEF KeptInOrder
<1>1. CASE StartCall
  <2>1. AtReader' = {} /\ InResults' \subseteq InResults
    BY <1>1, NoElements DEF StartCall, Stations, AtReader, InResults
  <2>2. UNCHANGED <<kept, framesCh, toGive, encoderAt, encoding, encoderError>> /\ (Calm' => dropped' = dropped)
    BY <1>1 DEF StartCall, Calm
  <2>q. QED  BY <2>1, <2>2, <1>y, <1>e, KeptStays DEF ToEncode, AtEncoder
<1>2. CASE BeginDecode
  <2>1. /\ AtReader' = AtReader /\ InResults' = InResults /\ kept' = kept
        /\ (Calm' => dropped' = dropped /\ toGive' = Gives[callNb] /\ ~encoderError')
    BY <1>2 DEF BeginDecode, AtReader, InResults, Calm
  <2>2. callNb \in DOMAIN Gives
    BY <1>2, TranscoderConstants, GivenAre DEF BeginDecode, Stations, TranscoderTypes
  <2>3. ElementsOf(Gives[callNb]) \subseteq YetToCome
    BY <1>2, <2>2 DEF BeginDecode, YetToCome
  <2>4. AtEncoder' = {} /\ framesCh' = <<>>
    BY <1>2 DEF BeginDecode, Stations, AtEncoder
  <2>5. Calm' => ToEncode' \subseteq YetToCome
    BY <2>1, <2>3, <2>4, NoElements DEF ToEncode
  <2>q. QED  BY <2>1, <2>5, <1>y, KeptStays
<1>3. CASE DecodeOne
  <2>1. UNCHANGED <<AtReader, InResults, AtEncoder, kept, dropped, encoderError>>
    BY <1>3 DEF DecodeOne, AtReader, InResults, AtEncoder
  <2>2. ElementsOf(toGive) = {Head(toGive)} \cup ElementsOf(toGive') /\ Head(toGive) \in Given
    BY <1>3, <1>t, TakenFromFront DEF DecodeOne
  <2>3. ElementsOf(framesCh') = ElementsOf(framesCh) \cup {Head(toGive)}
    BY <1>3, <1>t, <2>2, PutAtEnd DEF DecodeOne
  <2>4. ToEncode' = ToEncode
    BY <2>1, <2>2, <2>3 DEF ToEncode
  <2>q. QED  BY <2>1, <2>4, <1>y, <1>e, KeptStays
<1>4. CASE DecodeEnds
  <2>1. kept' \in {kept, <<>>} /\ AtReader' = AtReader /\ InResults' = InResults /\ UNCHANGED <<dropped, encoderError>>
    BY <1>4 DEF DecodeEnds, AtReader, InResults
  <2>2. ToEncode' \subseteq ToEncode
    BY <1>4 DEF DecodeEnds, ToEncode, AtEncoder
  <2>q. QED  BY <2>1, <2>2, <1>y, <1>e, KeptStays
<1>5. CASE DecodeFails
  <2>1. AtReader' = AtReader /\ InResults' = InResults /\ kept' = kept
    BY <1>5 DEF DecodeFails, AtReader, InResults
  <2>2. ~Calm'
    BY <1>5, TranscoderConstants DEF DecodeFails, Calm, TranscoderTypes
  <2>q. QED  BY <2>1, <2>2, <1>y, KeptStays
<1>6. CASE AfterEncoder
  <2>1. kept' \in {kept, <<>>} /\ AtReader' = AtReader /\ InResults' = InResults /\ UNCHANGED <<dropped, encoderError>>
    BY <1>6 DEF AfterEncoder, AtReader, InResults
  <2>2. ToEncode' \subseteq ToEncode
    BY <1>6 DEF AfterEncoder, ToEncode, AtEncoder
  <2>q. QED  BY <2>1, <2>2, <1>y, <1>e, KeptStays
<1>7. CASE CloseResults
  <2>1. kept' \in {kept, <<>>} /\ AtReader' = AtReader /\ InResults' = InResults /\ UNCHANGED <<dropped, encoderError>>
    BY <1>7 DEF CloseResults, AtReader, InResults
  <2>2. ToEncode' \subseteq ToEncode
    BY <1>7 DEF CloseResults, ToEncode, AtEncoder
  <2>q. QED  BY <2>1, <2>2, <1>y, <1>e, KeptStays
<1>8. CASE CountStreams
  <2>1. kept' \in {kept, <<>>} /\ AtReader' = AtReader /\ InResults' = InResults /\ UNCHANGED <<dropped, encoderError>>
    BY <1>8 DEF CountStreams, AtReader, InResults
  <2>2. ToEncode' \subseteq ToEncode
    BY <1>8 DEF CountStreams, ToEncode, AtEncoder
  <2>q. QED  BY <2>1, <2>2, <1>y, <1>e, KeptStays
<1>9. CASE ReleaseOne
  <2>1. kept' \in {kept, <<>>} /\ AtReader' = AtReader /\ InResults' = InResults /\ UNCHANGED <<dropped, encoderError>>
    BY <1>9 DEF ReleaseOne, AtReader, InResults
  <2>2. ToEncode' \subseteq ToEncode
    BY <1>9 DEF ReleaseOne, ToEncode, AtEncoder
  <2>q. QED  BY <2>1, <2>2, <1>y, <1>e, KeptStays
<1>10. CASE ReleaseCut
  <2>1. kept' \in {kept, <<>>} /\ AtReader' = AtReader /\ InResults' = InResults /\ UNCHANGED <<dropped, encoderError>>
    BY <1>10 DEF ReleaseCut, AtReader, InResults
  <2>2. ToEncode' \subseteq ToEncode
    BY <1>10 DEF ReleaseCut, ToEncode, AtEncoder
  <2>q. QED  BY <2>1, <2>2, <1>y, <1>e, KeptStays
<1>11. CASE ReleaseEnds
  <2>1. kept' \in {kept, <<>>} /\ AtReader' = AtReader /\ InResults' = InResults /\ UNCHANGED <<dropped, encoderError>>
    BY <1>11 DEF ReleaseEnds, AtReader, InResults
  <2>2. ToEncode' \subseteq ToEncode
    BY <1>11 DEF ReleaseEnds, ToEncode, AtEncoder
  <2>q. QED  BY <2>1, <2>2, <1>y, <1>e, KeptStays
<1>12. CASE ReturnCall
  <2>1. kept' \in {kept, <<>>} /\ AtReader' = AtReader /\ InResults' = InResults /\ UNCHANGED <<dropped, encoderError>>
    BY <1>12 DEF ReturnCall, AtReader, InResults
  <2>2. ToEncode' \subseteq ToEncode
    BY <1>12 DEF ReturnCall, ToEncode, AtEncoder
  <2>q. QED  BY <2>1, <2>2, <1>y, <1>e, KeptStays
<1>13. CASE EncoderTakes
  <2>1. UNCHANGED <<AtReader, InResults, kept, encoderError, toGive>>
    BY <1>13 DEF EncoderTakes, AtReader, InResults
  <2>2. Calm' => dropped' = dropped
    BY <1>13, <1>e DEF EncoderTakes
  <2>3. ElementsOf(framesCh) = {Head(framesCh)} \cup ElementsOf(framesCh')
    BY <1>13, <1>t, TakenFromFront DEF EncoderTakes
  <2>4. AtEncoder' \subseteq {Head(framesCh)}
    BY <1>13 DEF EncoderTakes, AtEncoder
  <2>5. ToEncode' \subseteq ToEncode
    BY <2>1, <2>3, <2>4 DEF ToEncode
  <2>q. QED  BY <2>1, <2>2, <2>5, <1>y, <1>e, KeptStays
<1>14. CASE EncoderSends
  <2>1. encoding \in Given /\ AtEncoder = {encoding} /\ AtEncoder' = {}
    BY <1>14, <1>t DEF EncoderSends, AtEncoder
  <2>2. /\ ElementsOf(resultFrames') \subseteq ElementsOf(resultFrames) \cup {encoding}
        /\ ElementsOf(resultPackets') \subseteq ElementsOf(resultPackets) \cup {encoding}
    BY <1>14, <1>t, <2>1, PutAtEnd DEF EncoderSends
  <2>3. UNCHANGED <<kept, AtReader, framesCh, toGive, dropped, encoderError, failures, closeAt>>
    BY <1>14 DEF EncoderSends, AtReader
  <2>4. InResults' \subseteq InResults \cup {encoding} /\ encoding \in ToEncode /\ ToEncode' \subseteq ToEncode
    BY <2>1, <2>2, <2>3 DEF InResults, ToEncode
  <2>5. Before(ElementsOf(kept) \cup AtReader, {encoding})
    BY <2>4 DEF EncodedInOrder, Below, Before, Encoded
  <2>6. Calm' => Before(dropped, {encoding})
    BY <1>y, <2>4 DEF KeptInOrder, Below, Before
  <2>7. Before(ElementsOf(kept'), AtReader' \cup InResults') /\ Before(AtReader', InResults')
    BY <2>3, <2>4, <2>5 DEF KeptInOrder, Before
  <2>8. Calm' => Before(dropped', AtReader' \cup InResults')
    BY <1>y, <2>3, <2>4, <2>6 DEF KeptInOrder, Before
  <2>9. Calm' => Below(dropped', ToEncode' \cup YetToCome')
    BY <1>y, <2>3, <2>4 DEF KeptInOrder, Below
  <2>q. QED  BY <2>3, <2>7, <2>8, <2>9, <1>e DEF KeptInOrder
<1>15. CASE EncoderFails
  <2>1. AtReader' = AtReader /\ InResults' = InResults /\ kept' = kept
    BY <1>15 DEF EncoderFails, AtReader, InResults
  <2>2. ~Calm'
    BY <1>15, TranscoderConstants DEF EncoderFails, EncoderClosed, Calm, TranscoderTypes
  <2>q. QED  BY <2>1, <2>2, <1>y, KeptStays
<1>16. CASE EncoderEnds
  <2>1. kept' \in {kept, <<>>} /\ AtReader' = AtReader /\ InResults' = InResults /\ UNCHANGED <<dropped, encoderError>>
    BY <1>16 DEF EncoderEnds, AtReader, InResults
  <2>2. ToEncode' \subseteq ToEncode
    BY <1>16 DEF EncoderEnds, ToEncode, AtEncoder
  <2>q. QED  BY <2>1, <2>2, <1>y, <1>e, KeptStays
<1>17. CASE Read
  <2>1. \E o \in Given : /\ AtReader' = {o} /\ InResults' \cup {o} \subseteq InResults
                         /\ \A p \in InResults' : ~SameLane(o, p)
    <3>t. /\ \A o \in ElementsOf(resultPackets) : o \notin RawObjects
          /\ \A o \in ElementsOf(resultFrames) : o \in RawObjects
      BY DEF TranscoderTypes, ElementsOf
    <3>1. CASE resultPackets # <<>> /\ reading' = Head(resultPackets) /\ resultPackets' = <<>> /\ UNCHANGED resultFrames
      <4>1. ElementsOf(resultPackets) = {Head(resultPackets)} /\ Head(resultPackets) \in Given
        BY <3>1, <1>t, OneAtMost, TakenFromFront
      <4>2. AtReader' = {Head(resultPackets)} /\ InResults' = ElementsOf(resultFrames)
        BY <1>17, <3>1, NoElements DEF Read, AtReader, InResults
      <4>q. QED  BY <4>1, <4>2, <3>t DEF InResults, SameLane
    <3>2. CASE resultFrames # <<>> /\ reading' = Head(resultFrames) /\ resultFrames' = <<>> /\ UNCHANGED resultPackets
      <4>1. ElementsOf(resultFrames) = {Head(resultFrames)} /\ Head(resultFrames) \in Given
        BY <3>2, <1>t, OneAtMost, TakenFromFront
      <4>2. AtReader' = {Head(resultFrames)} /\ InResults' = ElementsOf(resultPackets)
        BY <1>17, <3>2, NoElements DEF Read, AtReader, InResults
      <4>q. QED  BY <4>1, <4>2, <3>t DEF InResults, SameLane
    <3>q. QED  BY <1>17, <3>1, <3>2 DEF Read
  <2>2. UNCHANGED <<kept, framesCh, toGive, AtEncoder, dropped, encoderError>> /\ ToEncode' = ToEncode
    BY <1>17 DEF Read, AtEncoder, ToEncode
  <2>3. Before(ElementsOf(kept'), AtReader' \cup InResults') /\ Before(AtReader', InResults')
    BY <2>1, <2>2 DEF KeptInOrder, Before
  <2>4. Calm' => Before(dropped', AtReader' \cup InResults')
    BY <1>y, <2>1, <2>2 DEF KeptInOrder, Before
  <2>5. Calm' => Below(dropped', ToEncode' \cup YetToCome')
    BY <1>y, <2>2 DEF KeptInOrder, Below
  <2>q. QED  BY <2>2, <2>3, <2>4, <2>5, <1>e DEF KeptInOrder
<1>18. CASE Keep
  <2>1. AtReader = {reading} /\ AtReader' = {} /\ reading \in Given
    BY <1>18, <1>t DEF Keep, AtReader
  <2>2. /\ ElementsOf(kept') \subseteq ElementsOf(kept) \cup {reading} /\ dropped' \subseteq dropped \cup ElementsOf(kept)
        /\ InLanes(kept) /\ Before(ElementsOf(kept), {reading}) => InLanes(kept')
    BY <1>18, <1>t, <2>1, KeepsLast
  <2>3. UNCHANGED <<InResults, framesCh, toGive, AtEncoder, encoderError>> /\ ToEncode' = ToEncode
    BY <1>18 DEF Keep, AtEncoder, InResults, ToEncode
  <2>4. InLanes(kept')
    BY <2>1, <2>2 DEF KeptInOrder, Before
  <2>5. Before(ElementsOf(kept'), AtReader' \cup InResults') /\ Before(AtReader', InResults')
    BY <2>1, <2>2, <2>3 DEF KeptInOrder, Before
  <2>6. Calm' => Before(dropped', AtReader' \cup InResults')
    BY <1>y, <2>1, <2>2, <2>3 DEF KeptInOrder, Before
  <2>7. Calm' => Below(dropped', ToEncode' \cup YetToCome')
    BY <1>y, <2>2, <2>3 DEF KeptInOrder, EncodedInOrder, Below, Encoded
  <2>q. QED  BY <2>3, <2>4, <2>5, <2>6, <2>7, <1>e DEF KeptInOrder
<1>19. CASE ReaderEnds
  <2>1. kept' \in {kept, <<>>} /\ AtReader' = AtReader /\ InResults' = InResults /\ UNCHANGED <<dropped, encoderError>>
    BY <1>19 DEF ReaderEnds, AtReader, InResults
  <2>2. ToEncode' \subseteq ToEncode
    BY <1>19 DEF ReaderEnds, ToEncode, AtEncoder
  <2>q. QED  BY <2>1, <2>2, <1>y, <1>e, KeptStays
<1>20. CASE CloseTranscoder
  <2>1. kept' \in {kept, <<>>} /\ AtReader' = AtReader /\ InResults' = InResults /\ UNCHANGED <<dropped, encoderError>>
    BY <1>20 DEF CloseTranscoder, AtReader, InResults
  <2>2. ToEncode' \subseteq ToEncode
    BY <1>20 DEF CloseTranscoder, ToEncode, AtEncoder
  <2>q. QED  BY <2>1, <2>2, <1>y, <1>e, KeptStays
<1>21. CASE StopConsuming
  <2>1. kept' \in {kept, <<>>} /\ AtReader' = AtReader /\ InResults' = InResults /\ UNCHANGED <<dropped, encoderError>>
    BY <1>21 DEF StopConsuming, AtReader, InResults
  <2>2. ToEncode' \subseteq ToEncode
    BY <1>21 DEF StopConsuming, ToEncode, AtEncoder
  <2>q. QED  BY <2>1, <2>2, <1>y, <1>e, KeptStays
<1>q. QED
  BY <1>1, <1>2, <1>3, <1>4, <1>5, <1>6, <1>7, <1>8, <1>9, <1>10, <1>11, <1>12, <1>13, <1>14, <1>15, <1>16, <1>17, <1>18, <1>19, <1>20, <1>21
     DEF TranscoderNext, CallGoesOn, EncoderGoesOn, ReaderGoesOn

\* What is sent is in order, what was kept as well as the rest.
LEMMA SentKeeps == TranscoderInv /\ TranscoderNext => SentSoFar'
<1> SUFFICES ASSUME TranscoderTypes, Stations, EncodedInOrder, KeptInOrder, SentSoFar, TranscoderNext, failures' = 0
             PROVE  /\ InLanes(sentOut') /\ InLanes(toRelease') /\ Before(ElementsOf(sentOut'), ElementsOf(toRelease'))
                    /\ ~hasStarted' /\ callAt' # "release" => sentOut' = <<>>
  BY DEF TranscoderInv, SentSoFar
<1> USE DEF codecsPart, resultsPart, readerPart, startPart
<1>t. /\ toRelease \in Seq(Given) /\ sentOut \in Seq(Given) /\ (encoderAt = "sends" => encoding \in Given)
      /\ failures \in Nat
  BY TranscoderConstants DEF TranscoderTypes
<1>f. failures = 0 /\ ~ReleaseCut
  <2>1. failures' \in {failures, failures + 1} /\ (ReleaseCut => failures' = failures + 1)
    BY DEF TranscoderNext, CallGoesOn, EncoderGoesOn, ReaderGoesOn, StartCall, BeginDecode, DecodeOne, DecodeEnds, DecodeFails,
       AfterEncoder, CloseResults, CountStreams, ReleaseOne, ReleaseCut, ReleaseEnds, ReturnCall, EncoderTakes,
       EncoderSends, EncoderFails, EncoderEnds, Read, Keep, ReaderEnds, CloseTranscoder, StopConsuming
  <2>q. QED  BY <2>1, <1>t
<1>s. /\ InLanes(sentOut) /\ InLanes(toRelease) /\ Before(ElementsOf(sentOut), ElementsOf(toRelease))
      /\ ~hasStarted /\ callAt # "release" => sentOut = <<>>
  BY <1>f DEF SentSoFar
<1>1. CASE CountStreams
  <2>1. sentOut = <<>> /\ sentOut' = sentOut /\ toRelease' \in {toRelease, kept}
    BY <1>1, <1>s DEF CountStreams, Stations
  <2>q. QED  BY <2>1, <1>s, NoElements DEF KeptInOrder, Before
<1>2. CASE ReleaseOne
  <2> DEFINE h == Head(toRelease)
  <2>1. /\ h \in Given /\ ElementsOf(toRelease) = {h} \cup ElementsOf(toRelease') /\ InLanes(toRelease')
        /\ Before({h}, ElementsOf(toRelease'))
    BY <1>2, <1>t, <1>s, TakenFromFront DEF ReleaseOne
  <2>2. Before(ElementsOf(sentOut), {h})
    BY <2>1, <1>s DEF Before
  <2>3. ElementsOf(sentOut') = ElementsOf(sentOut) \cup {h} /\ InLanes(sentOut')
    BY <1>2, <1>t, <1>s, <2>1, <2>2, PutAtEnd DEF ReleaseOne
  <2>4. Before(ElementsOf(sentOut'), ElementsOf(toRelease'))
    BY <2>1, <2>3, <1>s DEF Before
  <2>5. callAt' = "release"
    BY <1>2 DEF ReleaseOne
  <2>q. QED  BY <2>1, <2>3, <2>4, <2>5
<1>3. CASE ReleaseEnds
  <2>1. sentOut' = sentOut /\ toRelease' = toRelease /\ hasStarted'
    BY <1>3, Zenon DEF ReleaseEnds
  <2>q. QED  BY <2>1, <1>s
<1>4. CASE EncoderSends
  <2>1. toRelease' = toRelease /\ toRelease = <<>> /\ hasStarted' = hasStarted /\ callAt' = callAt
    BY <1>4 DEF EncoderSends, Stations
  <2>2. CASE Direct
    <3>1. sentOut' = Append(sentOut, encoding) /\ encoding \in Given /\ AtEncoder = {encoding}
      BY <1>4, <1>t, <2>2 DEF EncoderSends, AtEncoder
    <3>2. Before(ElementsOf(sentOut), {encoding})
      BY <3>1 DEF EncodedInOrder, Encoded, ToEncode, Below, Before
    <3>3. InLanes(sentOut')
      BY <3>1, <3>2, <1>t, <1>s, PutAtEnd
    <3>4. hasStarted
      BY <1>4, <2>2 DEF EncoderSends, Direct, Stations
    <3>q. QED  BY <2>1, <3>3, <3>4, <1>s, NoElements DEF Before
  <2>3. CASE ~Direct
    <3>1. sentOut' = sentOut
      BY <1>4, <2>3 DEF EncoderSends
    <3>q. QED  BY <2>1, <3>1, <1>s
  <2>q. QED  BY <2>2, <2>3
<1>5. CASE UNCHANGED <<sentOut, toRelease, hasStarted>> /\ (callAt = "release" => callAt' = "release")
  BY <1>5, <1>s
<1>6. \/ CountStreams \/ ReleaseOne \/ ReleaseEnds \/ EncoderSends
      \/ UNCHANGED <<sentOut, toRelease, hasStarted>> /\ (callAt = "release" => callAt' = "release")
  BY <1>f DEF TranscoderNext, CallGoesOn, EncoderGoesOn, ReaderGoesOn, StartCall, BeginDecode, DecodeOne, DecodeEnds, DecodeFails,
       AfterEncoder, CloseResults, ReturnCall, EncoderTakes,
       EncoderFails, EncoderEnds, Read, Keep, ReaderEnds, CloseTranscoder, StopConsuming
<1>q. QED  BY <1>1, <1>2, <1>3, <1>4, <1>5, <1>6

\* What happens to objects in a calm step: one is moved on, or a call ends.
LEMMA AccountedGrows ==
  ASSUME TranscoderTypes, Stations, KeptInOrder, TranscoderNext, Calm'
  PROVE  Accounted \subseteq Accounted'
<1> USE DEF codecsPart, resultsPart, readerPart, startPart
<1>t. /\ kept \in Seq(Given) /\ toRelease \in Seq(Given) /\ sentOut \in Seq(Given) /\ hasStarted \in BOOLEAN
      /\ (readerAt = "has" => reading \in Given) /\ (encoderAt = "sends" => encoding \in Given)
  BY DEF TranscoderTypes
<1>f. ~ReleaseCut
  BY CalmBefore DEF ReleaseCut, Calm
<1>1. CASE CountStreams
  <2>1. UNCHANGED <<sentOut, dropped, hasStarted, kept>> /\ callAt = "closed" /\ ~hasStarted
    BY <1>1 DEF CountStreams, Stations
  <2>2. callAt' = "release" => toRelease' = kept
    BY <1>1 DEF CountStreams
  <2>q. QED  BY <2>1, <2>2 DEF Accounted
<1>2. CASE ReleaseOne
  <2>1. /\ ElementsOf(sentOut') = ElementsOf(sentOut) \cup {Head(toRelease)}
        /\ ElementsOf(toRelease) = {Head(toRelease)} \cup ElementsOf(toRelease')
    BY <1>2, <1>t, TakenFromFront, PutAtEnd DEF ReleaseOne
  <2>2. UNCHANGED <<dropped, hasStarted, kept, callAt>>
    BY <1>2 DEF ReleaseOne
  <2>q. QED  BY <2>1, <2>2 DEF Accounted
<1>3. CASE ReleaseEnds
  <2>1. toRelease = <<>> /\ callAt = "release" /\ ~hasStarted /\ UNCHANGED <<sentOut, dropped>>
    BY <1>3 DEF ReleaseEnds, Stations
  <2>q. QED  BY <2>1, NoElements DEF Accounted
<1>4. CASE EncoderSends
  <2>1. ElementsOf(sentOut) \subseteq ElementsOf(sentOut')
    BY <1>4, <1>t, PutAtEnd DEF EncoderSends
  <2>2. UNCHANGED <<dropped, hasStarted, kept, toRelease, callAt>>
    BY <1>4 DEF EncoderSends
  <2>q. QED  BY <2>1, <2>2 DEF Accounted
<1>5. CASE Keep
  <2>1. dropped \subseteq dropped' /\ ElementsOf(kept) \subseteq ElementsOf(kept') \cup dropped'
    BY <1>5, <1>t, KeepsLast DEF Keep
  <2>2. UNCHANGED <<sentOut, hasStarted, toRelease, callAt>>
    BY <1>5 DEF Keep
  <2>q. QED  BY <2>1, <2>2 DEF Accounted
<1>6. CASE /\ UNCHANGED <<sentOut, hasStarted, kept, toRelease>> /\ dropped \subseteq dropped'
           /\ (callAt' = "release" <=> callAt = "release")
  BY <1>6 DEF Accounted
<1>7. \/ CountStreams \/ ReleaseOne \/ ReleaseEnds \/ EncoderSends \/ Keep
      \/ /\ UNCHANGED <<sentOut, hasStarted, kept, toRelease>> /\ dropped \subseteq dropped'
         /\ (callAt' = "release" <=> callAt = "release")
  BY <1>f DEF TranscoderNext, CallGoesOn, EncoderGoesOn, ReaderGoesOn, StartCall, BeginDecode, DecodeOne, DecodeEnds, DecodeFails, AfterEncoder, CloseResults, ReturnCall, EncoderTakes, EncoderFails, EncoderEnds, Read, ReaderEnds, CloseTranscoder, StopConsuming
<1>q. QED  BY <1>1, <1>2, <1>3, <1>4, <1>5, <1>6, <1>7

\* Only what the encoder sends is no more to be encoded.
LEMMA StaysToEncode ==
  ASSUME TranscoderTypes, Stations, KeptInOrder, TranscoderNext, Calm'
  PROVE  ToEncode \subseteq ToEncode' \/ (EncoderSends /\ ToEncode \subseteq ToEncode' \cup {encoding})
<1> USE DEF codecsPart, resultsPart, readerPart, startPart
<1>t. toGive \in Seq(Given) /\ framesCh \in Seq(Given) /\ failures \in Nat
  BY TranscoderConstants DEF TranscoderTypes
<1>c. Calm /\ ~encoderError
  BY CalmBefore DEF KeptInOrder
<1>f. ~DecodeFails /\ ~EncoderFails
  BY <1>c, <1>t DEF DecodeFails, EncoderFails, EncoderClosed, Calm
<1>1. CASE BeginDecode
  <2>1. ToEncode = {}
    BY <1>1, NoElements DEF BeginDecode, Stations, ToEncode, AtEncoder
  <2>q. QED  BY <2>1
<1>2. CASE DecodeOne
  <2>1. ElementsOf(toGive) = {Head(toGive)} \cup ElementsOf(toGive') /\ Head(toGive) \in Given
    BY <1>2, <1>t, TakenFromFront DEF DecodeOne
  <2>2. ElementsOf(framesCh') = ElementsOf(framesCh) \cup {Head(toGive)} /\ AtEncoder' = AtEncoder
    BY <1>2, <1>t, <2>1, PutAtEnd DEF DecodeOne, AtEncoder
  <2>q. QED  BY <2>1, <2>2 DEF ToEncode
<1>3. CASE EncoderTakes
  <2>1. ElementsOf(framesCh) = {Head(framesCh)} \cup ElementsOf(framesCh') /\ toGive' = toGive
    BY <1>3, <1>t, TakenFromFront DEF EncoderTakes
  <2>2. AtEncoder' = {Head(framesCh)} /\ AtEncoder = {}
    BY <1>3, <1>c DEF EncoderTakes, AtEncoder
  <2>q. QED  BY <2>1, <2>2 DEF ToEncode
<1>4. CASE EncoderSends
  <2>1. UNCHANGED <<toGive, framesCh>> /\ AtEncoder \subseteq {encoding}
    BY <1>4 DEF EncoderSends, AtEncoder
  <2>q. QED  BY <1>4, <2>1 DEF ToEncode
<1>5. CASE EncoderEnds
  BY <1>5 DEF EncoderEnds, ToEncode, AtEncoder
<1>6. CASE UNCHANGED <<toGive, framesCh, encoderAt, encoding>>
  BY <1>6 DEF ToEncode, AtEncoder
<1>7. \/ BeginDecode \/ DecodeOne \/ EncoderTakes \/ EncoderSends \/ EncoderEnds
      \/ UNCHANGED <<toGive, framesCh, encoderAt, encoding>>
  BY <1>f DEF TranscoderNext, CallGoesOn, EncoderGoesOn, ReaderGoesOn, StartCall, DecodeEnds, DecodeFails, AfterEncoder, CloseResults, CountStreams, ReleaseOne, ReleaseCut, ReleaseEnds, ReturnCall, EncoderTakes, Read, Keep, ReaderEnds, CloseTranscoder, StopConsuming
<1>q. QED  BY <1>1, <1>2, <1>3, <1>4, <1>5, <1>6, <1>7

\* Without a reader an object is sent once it is encoded.
LEMMA EncodedIsSent ==
  ASSUME TranscoderTypes, Stations, KeptInOrder, TranscoderNext, Calm', readerAt = "none"
  PROVE  ElementsOf(sentOut) \cup dropped \cup ToEncode \subseteq ElementsOf(sentOut') \cup dropped' \cup ToEncode'
<1> USE DEF codecsPart, resultsPart, readerPart, startPart
<1>t. /\ toRelease \in Seq(Given) /\ sentOut \in Seq(Given) /\ (encoderAt = "sends" => encoding \in Given)
  BY DEF TranscoderTypes
<1>1. CASE EncoderSends
  <2>1. ElementsOf(sentOut') = ElementsOf(sentOut) \cup {encoding} /\ dropped' = dropped
    BY <1>1, <1>t, PutAtEnd DEF EncoderSends, Direct
  <2>q. QED  BY <2>1, StaysToEncode
<1>2. CASE ~EncoderSends
  <2>1. dropped \subseteq dropped'
    BY <1>2 DEF TranscoderNext, CallGoesOn, EncoderGoesOn, ReaderGoesOn, StartCall, BeginDecode, DecodeOne, DecodeEnds, DecodeFails, AfterEncoder, CloseResults, CountStreams, ReleaseOne, ReleaseCut, ReleaseEnds, ReturnCall, EncoderTakes, EncoderFails, EncoderEnds, Read, ReaderEnds, CloseTranscoder, StopConsuming, Keep
  <2>2. ElementsOf(sentOut) \subseteq ElementsOf(sentOut')
    <3>1. CASE ReleaseOne
      <4>1. sentOut' = Append(sentOut, Head(toRelease)) /\ Head(toRelease) \in Given
        BY <3>1, <1>t, TakenFromFront DEF ReleaseOne
      <4>q. QED  BY <4>1, <1>t, PutAtEnd
    <3>2. ReleaseOne \/ sentOut' = sentOut
      BY <1>2 DEF TranscoderNext, CallGoesOn, EncoderGoesOn, ReaderGoesOn, StartCall, BeginDecode, DecodeOne, DecodeEnds, DecodeFails, AfterEncoder, CloseResults, CountStreams, ReleaseCut, ReleaseEnds, ReturnCall, EncoderTakes, EncoderFails, EncoderEnds, Read, ReaderEnds, CloseTranscoder, StopConsuming, Keep
    <3>q. QED  BY <3>1, <3>2
  <2>q. QED  BY <1>2, <2>1, <2>2, StaysToEncode
<1>q. QED  BY <1>1, <1>2


\* With a reader it is read and kept.
LEMMA EncodedIsKept ==
  ASSUME TranscoderTypes, Stations, KeptInOrder, TranscoderNext, Calm', readerAt # "none", ~StartCall, ~ReleaseEnds
  PROVE  /\ AtReader \cup InResults \cup ToEncode \cup ElementsOf(kept) \cup dropped
              \subseteq AtReader' \cup InResults' \cup ToEncode' \cup ElementsOf(kept') \cup dropped'
         /\ ElementsOf(kept) \cup dropped \subseteq ElementsOf(kept') \cup dropped'
<1> USE DEF codecsPart, resultsPart, readerPart, startPart
<1>t. /\ kept \in Seq(Given) /\ (encoderAt = "sends" => encoding \in Given) /\ (readerAt = "has" => reading \in Given)
      /\ resultPackets \in Seq(Given) /\ Len(resultPackets) <= 1 /\ resultFrames \in Seq(Given) /\ Len(resultFrames) <= 1
  BY DEF TranscoderTypes, ResultsChSize
<1>e. ~EncoderSends => ToEncode \subseteq ToEncode'
  BY StaysToEncode
<1>1. CASE EncoderSends
  <2>1. /\ encoding \in ElementsOf(resultFrames') \cup ElementsOf(resultPackets')
        /\ ElementsOf(resultFrames) \subseteq ElementsOf(resultFrames') /\ ElementsOf(resultPackets) \subseteq ElementsOf(resultPackets')
    <3>1. encoding \in Given
      BY <1>1, <1>t DEF EncoderSends
    <3>2. /\ ElementsOf(Append(resultFrames, encoding)) = ElementsOf(resultFrames) \cup {encoding}
          /\ ElementsOf(Append(resultPackets, encoding)) = ElementsOf(resultPackets) \cup {encoding}
      BY <3>1, <1>t, PutAtEnd
    <3>3. CASE encoding \in RawObjects
      <4>1. resultFrames' = Append(resultFrames, encoding) /\ resultPackets' = resultPackets
        BY <1>1, <3>3 DEF EncoderSends, Direct
      <4>q. QED  BY <3>2, <4>1
    <3>4. CASE encoding \notin RawObjects
      <4>1. resultFrames' = resultFrames /\ resultPackets' = Append(resultPackets, encoding)
        BY <1>1, <3>4 DEF EncoderSends, Direct
      <4>q. QED  BY <3>2, <4>1
    <3>q. QED  BY <3>3, <3>4
  <2>2. UNCHANGED <<AtReader, kept, dropped>>
    BY <1>1 DEF EncoderSends, AtReader
  <2>q. QED  BY <2>1, <2>2, StaysToEncode DEF InResults
<1>2. CASE Read
  <2>1. InResults \subseteq InResults' \cup AtReader' /\ AtReader = {}
    <3>1. CASE resultPackets # <<>> /\ reading' = Head(resultPackets) /\ resultPackets' = <<>> /\ UNCHANGED resultFrames
      <4>1. ElementsOf(resultPackets) = {Head(resultPackets)}
        BY <3>1, <1>t, OneAtMost
      <4>q. QED  BY <1>2, <3>1, <4>1 DEF Read, AtReader, InResults
    <3>2. CASE resultFrames # <<>> /\ reading' = Head(resultFrames) /\ resultFrames' = <<>> /\ UNCHANGED resultPackets
      <4>1. ElementsOf(resultFrames) = {Head(resultFrames)}
        BY <3>2, <1>t, OneAtMost
      <4>q. QED  BY <1>2, <3>2, <4>1 DEF Read, AtReader, InResults
    <3>q. QED  BY <1>2, <3>1, <3>2 DEF Read
  <2>2. ~EncoderSends /\ UNCHANGED <<kept, dropped>>
    BY <1>2 DEF Read, EncoderSends
  <2>q. QED  BY <2>1, <2>2, <1>e
<1>3. CASE Keep
  <2>1. /\ dropped \subseteq dropped' /\ ElementsOf(kept) \subseteq ElementsOf(kept') \cup dropped' /\ reading \in ElementsOf(kept')
    BY <1>3, <1>t, KeepsLast DEF Keep
  <2>2. ~EncoderSends /\ InResults' = InResults /\ AtReader \subseteq {reading}
    BY <1>3 DEF Keep, EncoderSends, AtReader, InResults
  <2>q. QED  BY <2>1, <2>2, <1>e
<1>4. CASE ~EncoderSends /\ ~Read /\ ~Keep
  <2>1. dropped \subseteq dropped' /\ UNCHANGED <<AtReader, InResults, kept>>
    BY <1>4 DEF TranscoderNext, CallGoesOn, EncoderGoesOn, ReaderGoesOn, BeginDecode, DecodeOne, DecodeEnds, DecodeFails, AfterEncoder, CloseResults, CountStreams, ReleaseOne, ReleaseCut, ReturnCall, EncoderTakes, EncoderFails, EncoderEnds, ReaderEnds, CloseTranscoder, StopConsuming, AtReader, InResults
  <2>q. QED  BY <1>4, <2>1, <1>e
<1>q. QED  BY <1>1, <1>2, <1>3, <1>4

\* What is in a channel of one is one object or none.
LEMMA InOneChannel ==
  ASSUME NEW s \in Seq(Given), Len(s) <= 1
  PROVE  \E a \in Given \cup {0} : ElementsOf(s) \subseteq {a}
<1>1. CASE s = <<>>
  BY <1>1, NoElements
<1>2. CASE s # <<>>
  BY <1>2, OneAtMost, TakenFromFront
<1>q. QED  BY <1>1, <1>2

\* A call that has returned has lost no more than before.
LEMMA LeftBehindStays ==
  ASSUME NEW k \in 1..Len(Gives), LeftBehind(k), Accounted \subseteq Accounted', TranscoderTypes, Stations,
         UNCHANGED <<hasStarted, startedBy>> \/ (~hasStarted /\ startedBy' \in Nat /\ k < startedBy')
  PROVE  LeftBehind(k)'
<1>1. Unsent(k)' \subseteq Unsent(k)
  BY DEF Unsent
<1>2. hasStarted' /\ k > startedBy' => hasStarted /\ k > startedBy
  <2>1. ASSUME startedBy' \in Nat, k < startedBy'  PROVE ~(k > startedBy')
    BY <2>1, TranscoderConstants
  <2>q. QED  BY <2>1
<1>3. k # startedBy' => k # startedBy
  BY DEF Stations, TranscoderTypes
<1>4. FewUnsent(k)'
  BY <1>1 DEF LeftBehind, FewUnsent
<1>5. hasStarted' /\ k > startedBy' => Unsent(k)' = {}
  BY <1>1, <1>2 DEF LeftBehind
<1>6. k # startedBy' => /\ \E a \in Given \cup {0} : Unsent(k)' \subseteq {a}
                        /\ \A o \in Unsent(k)' : LastOfKind(k, o)
  BY <1>1, <1>3 DEF LeftBehind
<1>q. QED  BY <1>4, <1>5, <1>6 DEF LeftBehind

\* The call that is under way gives what is accounted for, until it has started.
LEMMA UnderWayKeeps == TranscoderInv /\ TranscoderNext /\ Calm' => UnderWay'
<1> SUFFICES ASSUME TranscoderTypes, Stations, KeptInOrder, NothingElseIsLost, TranscoderNext, Calm'  PROVE UnderWay'
  BY DEF TranscoderInv
<1> USE DEF codecsPart, resultsPart, readerPart, startPart
<1>c. Calm /\ UnderWay
  BY CalmBefore DEF NothingElseIsLost
<1>f. ~ReleaseCut
  BY <1>c DEF ReleaseCut, Calm
<1>t. /\ resultPackets \in Seq(Given) /\ Len(resultPackets) <= 1 /\ resultFrames \in Seq(Given) /\ Len(resultFrames) <= 1
      /\ toRelease \in Seq(Given) /\ reading \in Given \cup {0}
  BY DEF TranscoderTypes, ResultsChSize
<1>b. BeginDecode => ElementsOf(Gives[callNb']) \subseteq ToEncode'
  BY <1>c DEF BeginDecode, Calm, ToEncode
<1>1. ASSUME callAt' \in {"decode", "decoded"}, readerAt' = "none"
      PROVE  ElementsOf(Gives[callNb']) \subseteq ElementsOf(sentOut') \cup dropped' \cup ToEncode'
  <2>1. CASE ~BeginDecode
    <3>1. callAt \in {"decode", "decoded"} /\ readerAt = "none" /\ callNb' = callNb
      BY <1>1, <2>1 DEF TranscoderNext, CallGoesOn, EncoderGoesOn, ReaderGoesOn, StartCall, DecodeOne, DecodeEnds, DecodeFails, AfterEncoder, CloseResults, CountStreams, ReleaseOne, ReleaseCut, ReleaseEnds, ReturnCall, EncoderTakes, EncoderSends, EncoderFails, EncoderEnds, Read, Keep, ReaderEnds, CloseTranscoder, StopConsuming
    <3>q. QED  BY <1>c, <3>1, EncodedIsSent DEF UnderWay
  <2>q. QED  BY <1>b, <2>1
<1>2. ASSUME callAt' \in {"decode", "decoded", "closing", "closed", "return"}, ~hasStarted'
      PROVE  ElementsOf(Gives[callNb']) \subseteq
               ElementsOf(kept') \cup dropped' \cup AtReader' \cup InResults' \cup ToEncode'
  <2>1. CASE ~BeginDecode
    <3>1. /\ callAt \in {"decode", "decoded", "closing", "closed", "return"} /\ ~hasStarted /\ callNb' = callNb
          /\ ~StartCall /\ ~ReleaseEnds
      <4>1. CASE StartCall \/ DecodeFails \/ ReleaseCut
        BY <1>2, <1>f, <2>1, <4>1 DEF StartCall, DecodeFails, ReleaseCut, ReleaseEnds
      <4>2. CASE CallGoesOn
        BY <1>2, <1>f, <2>1, <4>2 DEF CallGoesOn, BeginDecode, DecodeOne, DecodeEnds, AfterEncoder, CloseResults, CountStreams, ReleaseOne, ReleaseEnds, ReturnCall, StartCall
      <4>3. CASE EncoderGoesOn \/ EncoderFails
        BY <1>2, <1>f, <2>1, <4>3 DEF EncoderGoesOn, EncoderFails, EncoderTakes, EncoderSends, EncoderEnds, StartCall, ReleaseEnds
      <4>4. CASE ReaderGoesOn \/ CloseTranscoder \/ StopConsuming
        BY <1>2, <1>f, <2>1, <4>4 DEF ReaderGoesOn, Read, Keep, ReaderEnds, CloseTranscoder, StopConsuming, StartCall, ReleaseEnds
      <4>q. QED  BY <4>1, <4>2, <4>3, <4>4 DEF TranscoderNext
    <3>2. readerAt # "none"
      BY <3>1 DEF Stations
    <3>q. QED  BY <1>c, <3>1, <3>2, EncodedIsKept DEF UnderWay
  <2>q. QED  BY <1>b, <2>1
<1>3. ASSUME callAt' = "release" \/ (callAt' = "return" /\ hasStarted')  PROVE FewUnsent(callNb)' /\ callNb' = callNb
  <2>1. CASE CountStreams
    <3>1. /\ callAt = "closed" /\ callAt' = "release" /\ toRelease' = kept /\ ~hasStarted /\ UNCHANGED <<hasStarted, sentOut, dropped>>
          /\ callNb' = callNb
      BY <1>3, <2>1 DEF CountStreams, Stations
    <3>2. ToEncode = {}
      BY <3>1, NoElements DEF Stations, ToEncode, AtEncoder
    <3>3. ElementsOf(Gives[callNb]) \subseteq ElementsOf(kept) \cup dropped \cup AtReader \cup InResults
      BY <1>c, <3>1, <3>2 DEF UnderWay
    <3>4. Unsent(callNb)' \subseteq AtReader \cup InResults
      BY <3>1, <3>3 DEF Unsent, Accounted
    <3>5. PICK a \in Given \cup {0} : ElementsOf(resultPackets) \subseteq {a}
      BY <1>t, InOneChannel
    <3>6. PICK b \in Given \cup {0} : ElementsOf(resultFrames) \subseteq {b}
      BY <1>t, InOneChannel
    <3>7. Unsent(callNb)' \subseteq {reading, a, b}
      BY <3>4, <3>5, <3>6 DEF AtReader, InResults
    <3>q. QED  BY <1>t, <3>1, <3>7 DEF FewUnsent
  <2>2. CASE ~CountStreams
    <3>1. (callAt = "release" \/ (callAt = "return" /\ hasStarted)) /\ callNb' = callNb
      <4>1. CASE StartCall \/ DecodeFails \/ ReleaseCut
        BY <1>3, <1>f, <2>2, <4>1 DEF StartCall, DecodeFails, ReleaseCut, ReleaseEnds
      <4>2. CASE CallGoesOn
        BY <1>3, <1>f, <2>2, <4>2 DEF CallGoesOn, BeginDecode, DecodeOne, DecodeEnds, AfterEncoder, CloseResults, CountStreams, ReleaseOne, ReleaseEnds, ReturnCall, StartCall
      <4>3. CASE EncoderGoesOn \/ EncoderFails
        BY <1>3, <1>f, <2>2, <4>3 DEF EncoderGoesOn, EncoderFails, EncoderTakes, EncoderSends, EncoderEnds, StartCall, ReleaseEnds
      <4>4. CASE ReaderGoesOn \/ CloseTranscoder \/ StopConsuming
        BY <1>3, <1>f, <2>2, <4>4 DEF ReaderGoesOn, Read, Keep, ReaderEnds, CloseTranscoder, StopConsuming, StartCall, ReleaseEnds
      <4>q. QED  BY <4>1, <4>2, <4>3, <4>4 DEF TranscoderNext
    <3>2. Unsent(callNb)' \subseteq Unsent(callNb)
      BY <3>1, AccountedGrows DEF Unsent
    <3>q. QED  BY <1>c, <3>1, <3>2 DEF UnderWay, FewUnsent
  <2>q. QED  BY <2>1, <2>2
<1>4. ASSUME callAt' = "release"  PROVE ElementsOf(toRelease') \subseteq ElementsOf(kept') \cup dropped'
  <2>1. CASE CountStreams
    BY <1>4, <2>1 DEF CountStreams
  <2>2. CASE ~CountStreams
    <3>1. callAt = "release" /\ ~StartCall /\ ~ReleaseEnds
      BY <1>4, <2>2 DEF TranscoderNext, CallGoesOn, EncoderGoesOn, ReaderGoesOn, StartCall, BeginDecode, DecodeOne, DecodeEnds, DecodeFails, AfterEncoder, CloseResults, ReleaseOne, ReleaseCut, ReleaseEnds, ReturnCall, EncoderTakes, EncoderSends, EncoderFails, EncoderEnds, Read, Keep, ReaderEnds, CloseTranscoder, StopConsuming
    <3>2. ElementsOf(toRelease') \subseteq ElementsOf(toRelease)
      <4>1. CASE ReleaseOne
        BY <4>1, <1>t, TakenFromFront DEF ReleaseOne
      <4>2. ReleaseOne \/ toRelease' = toRelease
        BY <1>f, <2>2, <3>1 DEF TranscoderNext, CallGoesOn, EncoderGoesOn, ReaderGoesOn, StartCall, BeginDecode, DecodeOne, DecodeEnds, DecodeFails, AfterEncoder, CloseResults, ReleaseCut, ReleaseEnds, ReturnCall, EncoderTakes, EncoderSends, EncoderFails, EncoderEnds, Read, Keep, ReaderEnds, CloseTranscoder, StopConsuming
      <4>q. QED  BY <4>1, <4>2
    <3>q. QED  BY <1>c, <3>1, <3>2, EncodedIsKept DEF UnderWay, Stations
  <2>q. QED  BY <2>1, <2>2
<1>q. QED  BY <1>1, <1>2, <1>3, <1>4 DEF UnderWay

\* A call that returns has lost no more than its end.
LEMMA LossKeeps == TranscoderInv /\ TranscoderNext => NothingElseIsLost'
<1> SUFFICES ASSUME TranscoderInv, TranscoderNext, Calm',
                    NEW k \in 1..callNb', k < callNb' \/ callAt' = "idle"
             PROVE  LeftBehind(k)'
  BY UnderWayKeeps DEF NothingElseIsLost
<1> USE DEF codecsPart, resultsPart, readerPart, startPart
<1>i. TranscoderTypes /\ Stations /\ KeptInOrder /\ Calm /\ UnderWay
      /\ \A l \in 1..callNb : l < callNb \/ callAt = "idle" => LeftBehind(l)
  BY CalmBefore DEF TranscoderInv, NothingElseIsLost
<1>a. Accounted \subseteq Accounted'
  BY <1>i, AccountedGrows
<1>f. ~ReleaseCut
  BY <1>i DEF ReleaseCut, Calm
<1>n. /\ callNb \in Nat /\ callNb' \in Nat /\ callNb' <= Len(Gives) /\ Len(Gives) \in Nat /\ k \in 1..Len(Gives)
      /\ startedBy \in Nat /\ startedBy <= callNb
  <2>1. Len(Gives) \in Nat /\ callNb \in 0..Len(Gives) /\ callNb' \in 0..Len(Gives) /\ k \in 1..callNb'
    BY <1>i, TranscoderTypesKeep, TranscoderConstants DEF TranscoderTypes
  <2>2. startedBy \in 0..Len(Gives) /\ startedBy <= callNb
    BY <1>i DEF TranscoderTypes, Stations
  <2>q. QED  BY <2>1, <2>2
<1>t. /\ resultPackets \in Seq(Given) /\ Len(resultPackets) <= 1 /\ resultFrames \in Seq(Given) /\ Len(resultFrames) <= 1
  BY <1>i DEF TranscoderTypes, ResultsChSize
<1>1. CASE k \in 1..callNb /\ (k < callNb \/ callAt = "idle")
  <2>1. LeftBehind(k)
    BY <1>i, <1>1
  <2>2. CASE ReleaseEnds
    <3>1. ~hasStarted /\ startedBy' = callNb /\ k < startedBy'
      BY <1>1, <1>i, <2>2 DEF ReleaseEnds, Stations
    <3>q. QED  BY <1>a, <1>i, <1>n, <2>1, <3>1, LeftBehindStays
  <2>3. CASE UNCHANGED <<hasStarted, startedBy>>
    BY <1>a, <1>i, <1>n, <2>1, <2>3, LeftBehindStays
  <2>4. ReleaseEnds \/ UNCHANGED <<hasStarted, startedBy>>
    BY DEF TranscoderNext, CallGoesOn, EncoderGoesOn, ReaderGoesOn, StartCall, BeginDecode, DecodeOne, DecodeEnds,
           DecodeFails, AfterEncoder, CloseResults, CountStreams, ReleaseOne, ReleaseCut, ReturnCall, EncoderTakes,
           EncoderSends, EncoderFails, EncoderEnds, Read, Keep, ReaderEnds, CloseTranscoder, StopConsuming
  <2>q. QED  BY <2>2, <2>3, <2>4
<1>2. CASE ~(k \in 1..callNb /\ (k < callNb \/ callAt = "idle"))
  <2>1. callAt # "idle" /\ callNb' = callNb /\ k = callNb /\ callAt' = "idle"
    <3>1. ~StartCall
      <4>1. ASSUME StartCall  PROVE callAt = "idle" /\ callNb' = callNb + 1 /\ callAt' = "begin"
        BY <4>1, <1>i DEF StartCall, Calm
      <4>q. QED  BY <4>1, <1>2, <1>n
    <3>2. callNb' = callNb
      BY <3>1 DEF TranscoderNext, CallGoesOn, EncoderGoesOn, ReaderGoesOn, BeginDecode, DecodeOne, DecodeEnds, DecodeFails,
           AfterEncoder, CloseResults, CountStreams, ReleaseOne, ReleaseCut, ReleaseEnds, ReturnCall, EncoderTakes,
           EncoderSends, EncoderFails, EncoderEnds, Read, Keep, ReaderEnds, CloseTranscoder, StopConsuming
    <3>q. QED  BY <1>2, <1>n, <3>2
  <2>2. AfterEncoder \/ ReturnCall
    BY <1>f, <2>1 DEF TranscoderNext, CallGoesOn, EncoderGoesOn, ReaderGoesOn, StartCall, BeginDecode, DecodeOne, DecodeEnds,
           DecodeFails, CloseResults, CountStreams, ReleaseOne, ReleaseCut, ReleaseEnds, EncoderTakes, EncoderSends,
           EncoderFails, EncoderEnds, Read, Keep, ReaderEnds, CloseTranscoder, StopConsuming
  <2>3. ToEncode = {}
    BY <1>i, <2>2, NoElements DEF AfterEncoder, ReturnCall, Stations, ToEncode, AtEncoder
  <2>4. UNCHANGED <<sentOut, dropped, kept, hasStarted, startedBy>>
    BY <2>2 DEF AfterEncoder, ReturnCall
  <2>5. CASE AfterEncoder
    <3>1. hasStarted /\ readerAt = "none" /\ callAt = "decoded" /\ startedBy # callNb
      BY <1>i, <2>1, <2>5 DEF AfterEncoder, Stations
    <3>2. ElementsOf(Gives[k]) \subseteq ElementsOf(sentOut) \cup dropped
      BY <1>i, <2>1, <2>3, <3>1 DEF UnderWay
    <3>3. Unsent(k)' = {}
      BY <2>4, <3>1, <3>2 DEF Unsent, Accounted
    <3>q. QED  BY <3>3 DEF LeftBehind, FewUnsent
  <2>6. CASE ReturnCall /\ hasStarted
    <3>1. startedBy = callNb /\ callAt = "return"
      BY <1>i, <2>6 DEF ReturnCall, Stations
    <3>2. FewUnsent(k)
      BY <1>i, <2>1, <2>6, <3>1 DEF UnderWay
    <3>3. Unsent(k)' \subseteq Unsent(k)
      BY <1>a DEF Unsent
    <3>4. FewUnsent(k)'
      BY <3>2, <3>3 DEF FewUnsent
    <3>5. k = startedBy' /\ ~(k > startedBy')
      BY <2>1, <2>4, <3>1, <1>n
    <3>q. QED  BY <3>4, <3>5 DEF LeftBehind
  <2>7. CASE ReturnCall /\ ~hasStarted
    <3>1. callAt = "return" /\ readerAt = "ended" /\ AtReader = {}
      BY <2>7 DEF ReturnCall, AtReader
    <3>2. ElementsOf(Gives[k]) \subseteq ElementsOf(kept) \cup dropped \cup InResults
      BY <1>i, <2>1, <2>3, <2>7, <3>1 DEF UnderWay
    <3>3. Unsent(k)' \subseteq InResults /\ ElementsOf(kept) \cup dropped \subseteq Accounted'
      BY <2>1, <2>4, <2>7, <3>2 DEF Unsent, Accounted
    <3>4. resultPackets = <<>> \/ resultFrames = <<>>
      BY <1>i, <3>1 DEF Stations
    <3>5. PICK a \in Given \cup {0} : InResults \subseteq {a}
      <4>1. CASE resultPackets = <<>>
        BY <1>t, <4>1, InOneChannel, NoElements DEF InResults
      <4>2. CASE resultFrames = <<>>
        BY <1>t, <4>2, InOneChannel, NoElements DEF InResults
      <4>q. QED  BY <3>4, <4>1, <4>2
    <3>6. ASSUME NEW o \in Unsent(k)'  PROVE LastOfKind(k, o)
      <4>1. o \in InResults /\ o = a /\ o \in Nat
        BY <3>3, <3>5, <1>n, GivenAre DEF Unsent
      <4>2. ASSUME NEW i \in DOMAIN Gives[k], Gives[k][i] > o, SameLane(Gives[k][i], o)  PROVE FALSE
        <5> DEFINE p == Gives[k][i]
        <5>1. p \in ElementsOf(Gives[k]) /\ p \in Nat
          BY <1>n, GivenAre DEF ElementsOf
        <5>2. p \notin InResults
          BY <3>5, <4>1, <4>2, <5>1
        <5>3. p \in ElementsOf(kept) \cup dropped
          BY <3>2, <5>1, <5>2
        <5>4. p < o
          BY <1>i, <4>1, <4>2, <5>3 DEF KeptInOrder, Before
        <5>q. QED  BY <4>1, <4>2, <5>1, <5>4
      <4>q. QED  BY <4>2 DEF LastOfKind, SameLane
    <3>7. ~hasStarted' /\ Unsent(k)' \subseteq {a} /\ FewUnsent(k)'
      BY <2>4, <2>7, <3>3, <3>5 DEF FewUnsent
    <3>q. QED  BY <3>6, <3>7 DEF LeftBehind
  <2>q. QED  BY <2>2, <2>5, <2>6, <2>7
<1>q. QED  BY <1>1, <1>2

\* Every step of a transcoder keeps its invariant.
LEMMA TranscoderKeeps == TranscoderInv /\ TranscoderNext => TranscoderInv'
BY TranscoderTypesKeep, StationsKeep, EncodedKeeps, KeptKeeps, SentKeeps, LossKeeps DEF TranscoderInv

\* A transcoder that does not run keeps it.
LEMMA TranscoderRests == TranscoderInv /\ UNCHANGED transcoder => TranscoderInv'
<1> SUFFICES ASSUME TranscoderInv, UNCHANGED transcoder  PROVE TranscoderInv'
  OBVIOUS
<1>1. /\ UNCHANGED <<consumed, callNb, callAt, toGive, framesCh, encoderAt, encoding, encoderError>>
      /\ UNCHANGED <<resultPackets, resultFrames, resultsClosed, readerAt, reading, activeStreams>>
      /\ UNCHANGED <<kept, hasStarted, startedBy, toRelease, sentOut, dropped, closeAt, failures>>
  BY DEF transcoder, codecsPart, resultsPart, readerPart, startPart
<1>2. /\ AtReader' = AtReader /\ InResults' = InResults /\ YetToCome' = YetToCome /\ ToEncode' = ToEncode
      /\ Encoded' = Encoded /\ AtEncoder' = AtEncoder
  BY <1>1 DEF AtReader, InResults, AtEncoder, YetToCome, ToEncode, Encoded
<1>3. Accounted' = Accounted /\ (Calm' <=> Calm)
  BY <1>1 DEF Accounted, Calm
<1>4. \A k : Unsent(k)' = Unsent(k)
  BY <1>3 DEF Unsent
<1>5. TranscoderTypes'
  BY <1>1 DEF TranscoderInv, TranscoderTypes
<1>6. Stations'
  BY <1>1 DEF TranscoderInv, Stations
<1>7. EncodedInOrder' /\ KeptInOrder'
  BY <1>1, <1>2, <1>3 DEF TranscoderInv, EncodedInOrder, KeptInOrder
<1>8. SentSoFar'
  BY <1>1 DEF TranscoderInv, SentSoFar
<1>9. NothingElseIsLost'
  <2>1. \A k : FewUnsent(k)' <=> FewUnsent(k)
    BY <1>4 DEF FewUnsent
  <2>2. \A k : LeftBehind(k)' <=> LeftBehind(k)
    BY <1>1, <1>4, <2>1 DEF LeftBehind
  <2>3. UnderWay' <=> UnderWay
    BY <1>1, <1>2, <2>1 DEF UnderWay
  <2>q. QED  BY <1>1, <1>3, <2>2, <2>3 DEF TranscoderInv, NothingElseIsLost
<1>q. QED  BY <1>5, <1>6, <1>7, <1>8, <1>9 DEF TranscoderInv

\* The invariant says what is promised.
LEMMA TranscoderImplies == TranscoderInv => TranscoderSafe /\ TranscoderTypeOK
<1> SUFFICES ASSUME TranscoderInv  PROVE TranscoderSafe /\ TranscoderTypeOK
  OBVIOUS
<1>1. TranscoderTypeOK
  BY DEF TranscoderInv, TranscoderTypes, TranscoderTypeOK
<1>2. ComesInOrder
  <2> SUFFICES ASSUME failures = 0, NEW i \in DOMAIN sentOut, NEW j \in DOMAIN sentOut, i < j,
                      StreamGiving[sentOut[i]] = StreamGiving[sentOut[j]]
               PROVE  sentOut[i] < sentOut[j]
    BY DEF ComesInOrder
  <2>1. sentOut[i] \in Given /\ sentOut[j] \in Given
    BY DEF TranscoderInv, TranscoderTypes
  <2>2. SameLane(sentOut[i], sentOut[j])
    BY <2>1, TranscoderAssumption DEF SameLane
  <2>q. QED  BY <2>2 DEF TranscoderInv, SentSoFar, InLanes
<1>3. LosesOnlyTheLast
  <2> SUFFICES ASSUME NEW k \in 1..callNb, Calm, k < callNb \/ callAt = "idle"
               PROVE  /\ hasStarted /\ k > startedBy => MissingOf(k) = {}
                      /\ k # startedBy => Cardinality(MissingOf(k)) <= 1 /\ \A o \in MissingOf(k) : LastOfKind(k, o)
                      /\ Cardinality(MissingOf(k)) <= 2 * ResultsChSize + 1
    BY DEF LosesOnlyTheLast, Calm
  <2>1. LeftBehind(k) /\ UnderWay
    BY DEF TranscoderInv, NothingElseIsLost
  <2>2. MissingOf(k) \subseteq Unsent(k)
    <3>1. Accounted \subseteq ElementsOf(sentOut) \cup dropped \cup (IF hasStarted THEN {} ELSE ElementsOf(kept))
      BY <2>1 DEF UnderWay, Accounted
    <3>q. QED  BY <3>1 DEF MissingOf, Unsent
  <2>3. ASSUME NEW a, MissingOf(k) \subseteq {a}  PROVE Cardinality(MissingOf(k)) <= 1
    <3>1. IsFiniteSet({a}) /\ Cardinality({a}) = 1
      BY FS_Singleton
    <3>q. QED  BY <2>3, <3>1, FS_Subset
  <2>4. ASSUME NEW a, NEW b, NEW c, MissingOf(k) \subseteq {a, b, c}  PROVE Cardinality(MissingOf(k)) <= 3
    <3>1. IsFiniteSet({a}) /\ Cardinality({a}) = 1
      BY FS_Singleton
    <3>2. IsFiniteSet({a} \cup {b}) /\ Cardinality({a} \cup {b}) <= 2
      BY <3>1, FS_AddElement
    <3> DEFINE two == {a} \cup {b}
    <3>3. Cardinality(two) \in Nat
      BY <3>2, FS_CardinalityType
    <3>4. two \cup {c} = two \/ Cardinality(two \cup {c}) = Cardinality(two) + 1
      <4> HIDE DEF two
      <4>q. QED  BY <3>2, FS_AddElement DEF two
    <3>5. IsFiniteSet(two \cup {c})
      <4>1. IsFiniteSet(two)
        BY <3>2
      <4> HIDE DEF two
      <4>q. QED  BY <4>1, FS_AddElement
    <3>6. MissingOf(k) \subseteq two \cup {c}
      BY <2>4
    <3>7. Cardinality(two \cup {c}) <= 3 /\ Cardinality(two \cup {c}) \in Nat
      <4>1. Cardinality(two) <= 2
        BY <3>2
      <4>2. ASSUME two \cup {c} = two
            PROVE  Cardinality(two \cup {c}) <= 3 /\ Cardinality(two \cup {c}) \in Nat
        <5>1. Cardinality(two \cup {c}) = Cardinality(two)
          <6> HIDE DEF two
          <6>q. QED  BY <4>2, Zenon
        <5> DEFINE n == Cardinality(two)
                   m == Cardinality(two \cup {c})
        <5>2. n \in Nat /\ n <= 2 /\ m = n
          BY <3>3, <4>1, <5>1
        <5> HIDE DEF n, m
        <5>3. m <= 3 /\ m \in Nat
          BY <5>2
        <5>q. QED  BY <5>3 DEF m
      <4>3. ASSUME Cardinality(two \cup {c}) = Cardinality(two) + 1
            PROVE  Cardinality(two \cup {c}) <= 3 /\ Cardinality(two \cup {c}) \in Nat
        <5> DEFINE n == Cardinality(two)
                   m == Cardinality(two \cup {c})
        <5>2. n \in Nat /\ n <= 2 /\ m = n + 1
          BY <3>3, <4>1, <4>3
        <5> HIDE DEF n, m
        <5>3. m <= 3 /\ m \in Nat
          BY <5>2
        <5>q. QED  BY <5>3 DEF m
      <4> HIDE DEF two
      <4>q. QED  BY <3>4, <4>2, <4>3, Zenon
    <3>8. Cardinality(MissingOf(k)) <= Cardinality(two \cup {c}) /\ Cardinality(MissingOf(k)) \in Nat
      <4> HIDE DEF two
      <4>q. QED  BY <3>5, <3>6, FS_Subset, FS_CardinalityType
    <3>q. QED  BY <3>7, <3>8
  <2>5. Cardinality(MissingOf(k)) <= 2 * ResultsChSize + 1
    BY <2>1, <2>2, <2>4 DEF LeftBehind, FewUnsent, ResultsChSize
  <2>6. k # startedBy => Cardinality(MissingOf(k)) <= 1 /\ \A o \in MissingOf(k) : LastOfKind(k, o)
    BY <2>1, <2>2, <2>3 DEF LeftBehind
  <2>7. hasStarted /\ k > startedBy => MissingOf(k) = {}
    BY <2>1, <2>2 DEF LeftBehind
  <2>q. QED  BY <2>5, <2>6, <2>7
<1>q. QED  BY <1>1, <1>2, <1>3 DEF TranscoderSafe

==============================================================================
