----------------------------- MODULE ForwardPath -----------------------------
(***************************************************************************)
(* What happens to packets between the nodes of two sources and the node of*)
(* the route they are forwarded to.  Each source has a StreamForwarderCopy *)
(* (router/stream_forwarder_copy.go), which puts an AutoFixer between the  *)
(* two (preset/autofix): a node that converts headers if the first packet  *)
(* shows the need (preset/autoheaders, kernel/bitstream_filter.go), then   *)
(* one that maps stream indices (kernel/map_stream_indices.go).  The       *)
(* route's kernel (router/node_kernel.go) lets the time of video go on when*)
(* the source changes.                                                     *)
(*                                                                         *)
(* Between two nodes a queue of one packet stands for queues of hundreds.  *)
(* A kernel converts packets one for one, so that what it does to their    *)
(* bytes is left out, and frames, which go the same way.                   *)
(***************************************************************************)
EXTENDS Integers, Sequences, FiniteSets, SequencesExt

CONSTANTS
  Feeds,         \* the sources
  Feed,          \* per source, the packets it has, in this order
  MediaOf,       \* of a packet: "video", "audio" or "other"
  IndexOf,       \* of a packet, the index of its stream
  PTSOf, DTSOf,  \* in ticks of the streams' time base
  Unfixable,     \* packets that detection or a filter may fail on
  Unnotified,    \* sources for which NotifyAboutPacketSources may fail
  Settings,      \* <<shouldFixPTS, toFLV>>
  Stoppable,     \* sources whose forwarder a user may stop
  InboxSize      \* capacity of the route's input queue

NoPacket == 0
Packets == UNION {ToSet(Feed[s]) : s \in Feeds}
Indices == {IndexOf[o] : o \in Packets} \cup {0, 1}

\* Each packet is an object of its own.
ASSUME PathAssumption ==
  /\ NoPacket \notin Packets /\ InboxSize \in Nat \ {0} /\ "none" \notin Feeds
  /\ \A s, t \in Feeds : s # t => ToSet(Feed[s]) \cap ToSet(Feed[t]) = {}
  /\ \A s \in Feeds : /\ Feed[s] \in Seq(Packets)
                     /\ \A m, n \in DOMAIN Feed[s] : Feed[s][m] = Feed[s][n] => m = n
  /\ \A o \in Packets : PTSOf[o] \in Int /\ DTSOf[o] \in Int
  /\ Settings \subseteq BOOLEAN \X BOOLEAN

VARIABLES
  shouldFixPTS,  \* Config.ShouldFixPTS of the route's kernel
  toFLV,         \* the sink's format is "flv", which has an index assigner
  fwd,           \* per source, where its forwarder is: its Mutex is held in between
  userStop,      \* a user has asked it to stop
  linkedIn,      \* sources whose push list has the AutoFixer
  linkedOut,     \* those whose AutoFixer pushes to the route
  pathCtxDone,   \* those whose CancelFunc was called
  fixer,         \* per source: "ready", "served", "failed", "closed"
  detected,      \* AutoHeaders.IsSet
  next,          \* packets each source has sent
  unlinked,      \* those it sent while nobody was linked
  headers, mapper, leaving,     \* per source, the packet at each place
  arrivals,      \* the route's input queue
  previousSource,\* PreviousSource of each index
  timeShift,     \* per source: [exact, applied]
  latestPTS,
  skippedPackets,\* packets dropped by errSkip
  passed         \* what has come out: [from, packet, index, pts, dts]

forwarding == <<fwd, userStop, linkedIn, linkedOut, pathCtxDone>>
places == <<headers, mapper, leaving>>
routeNode == <<previousSource, timeShift, latestPTS, skippedPackets, passed>>
path == <<shouldFixPTS, toFLV, forwarding, fixer, detected, next, unlinked, places, arrivals, routeNode>>

Empty == [s \in Feeds |-> NoPacket]
Move(s, place) == fwd' = [fwd EXCEPT ![s] = place]

----------------------------------------------------------------------------
(* The forwarder.                                                          *)

ForwarderOnly == UNCHANGED <<shouldFixPTS, toFLV, detected, next, unlinked, places, arrivals, routeNode>>

\* CancelFunc is set before anything that may fail.
Start(s) ==
  /\ fwd[s] = "new" /\ Move(s, "notify")
  /\ UNCHANGED <<userStop, linkedIn, linkedOut, pathCtxDone, fixer>> /\ ForwarderOnly

\* The source's streams are made known to the nodes that it pushes to already.
\* When that fails CancelFunc stays set, so that the forwarder counts as open.
NotifyAboutPacketSources(s) ==
  /\ fwd[s] = "notify"
  /\ (s \in Unnotified /\ Move(s, "broken")) \/ Move(s, "linkIn")
  /\ UNCHANGED <<userStop, linkedIn, linkedOut, pathCtxDone, fixer>> /\ ForwarderOnly

AfterLinkServes(s) == [fixer EXCEPT ![s] = "served"]
AfterLink(s) == fixer
LinkIn(s) ==
  /\ fwd[s] = "linkIn" /\ Move(s, "linkOut") /\ linkedIn' = linkedIn \cup {s}
  /\ fixer' = AfterLink(s)
  /\ UNCHANGED <<userStop, linkedOut, pathCtxDone>> /\ ForwarderOnly

LinkOut(s) ==
  /\ fwd[s] = "linkOut" /\ Move(s, "serve") /\ linkedOut' = linkedOut \cup {s}
  /\ UNCHANGED <<userStop, linkedIn, pathCtxDone, fixer>> /\ ForwarderOnly

\* Two goroutines, one for each node of the AutoFixer.
ServeFixer(s) ==
  /\ fwd[s] = "serve" /\ Move(s, "on") /\ fixer' = [fixer EXCEPT ![s] = "served"]
  /\ UNCHANGED <<userStop, linkedIn, linkedOut, pathCtxDone>> /\ ForwarderOnly

UserStops(s) ==
  /\ s \in Stoppable /\ ~userStop[s] /\ userStop' = [userStop EXCEPT ![s] = TRUE]
  /\ UNCHANGED <<fwd, linkedIn, linkedOut, pathCtxDone, fixer>> /\ ForwarderOnly

\* Every error of the AutoFixer stops the forwarder, and nobody else is told.
StopWantedByUser(s) == userStop[s]
StopWanted(s) == userStop[s] \/ fixer[s] = "failed"

\* Stop finds what is not linked, too, and only says so.
RemovePushingFurther(s) ==
  /\ StopWanted(s)
  /\ \/ fwd[s] \in {"on", "broken"} /\ Move(s, "unlinkOut") /\ linkedIn' = linkedIn \ {s}
        /\ UNCHANGED <<linkedOut, pathCtxDone>>
     \/ fwd[s] = "unlinkOut" /\ Move(s, "cancel") /\ linkedOut' = linkedOut \ {s}
        /\ UNCHANGED <<linkedIn, pathCtxDone>>
     \/ fwd[s] = "cancel" /\ Move(s, "off") /\ pathCtxDone' = pathCtxDone \cup {s}
        /\ UNCHANGED <<linkedIn, linkedOut>>
  /\ UNCHANGED <<userStop, fixer>> /\ ForwarderOnly

\* Serve of both nodes returns and closes their processors with what is in them.
CloseFixer(s) ==
  /\ s \in pathCtxDone /\ fixer[s] \in {"served", "failed"}
  /\ fixer' = [fixer EXCEPT ![s] = "closed"]
  /\ headers' = [headers EXCEPT ![s] = NoPacket] /\ mapper' = [mapper EXCEPT ![s] = NoPacket]
  /\ UNCHANGED <<shouldFixPTS, toFLV, forwarding, detected, next, unlinked, leaving, arrivals, routeNode>>

----------------------------------------------------------------------------
(* The way of a packet.                                                    *)

PathOnly == UNCHANGED <<shouldFixPTS, toFLV, forwarding, routeNode>>

\* The source's Serve takes its push list with each packet.  The queue takes it
\* even if nobody reads it any more.
Send(s) ==
  /\ headers[s] = NoPacket /\ next[s] < Len(Feed[s]) /\ next' = [next EXCEPT ![s] = @ + 1]
  /\ LET o == Feed[s][next'[s]]
     IN IF s \in linkedIn THEN headers' = [headers EXCEPT ![s] = o] /\ UNCHANGED unlinked
                          ELSE unlinked' = unlinked \cup {o} /\ UNCHANGED headers
  /\ UNCHANGED <<fixer, detected, mapper, leaving, arrivals>> /\ PathOnly

\* The first packet decides which kernel handles it and all others ...
FixHeaders(s) ==
  /\ fixer[s] = "served" /\ headers[s] # NoPacket /\ mapper[s] = NoPacket
  /\ detected' = [detected EXCEPT ![s] = TRUE]
  /\ mapper' = [mapper EXCEPT ![s] = headers[s]] /\ headers' = [headers EXCEPT ![s] = NoPacket]
  /\ UNCHANGED <<fixer, next, unlinked, leaving, arrivals>> /\ PathOnly

\* ... unless that fails, which is not tried again; a filter may fail later.  The
\* reader ends either way.
FixFails(s) ==
  /\ fixer[s] = "served" /\ headers[s] \in Unfixable
  /\ fixer' = [fixer EXCEPT ![s] = "failed"] /\ headers' = [headers EXCEPT ![s] = NoPacket]
  /\ UNCHANGED <<detected, next, unlinked, mapper, leaving, arrivals>> /\ PathOnly

\* StreamIndexAssign.
OutputIndices(o) ==
  CASE ~toFLV -> {IndexOf[o]}
    [] toFLV /\ MediaOf[o] = "video" -> {0}
    [] toFLV /\ MediaOf[o] = "audio" -> {1}
    [] OTHER -> {}

\* A packet without an index is dropped; so is one when nothing is linked.
MapIndices(s) ==
  /\ fixer[s] \in {"served", "failed"} /\ mapper[s] # NoPacket /\ leaving[s] = NoPacket
  /\ leaving' = IF OutputIndices(mapper[s]) # {} /\ s \in linkedOut
                THEN [leaving EXCEPT ![s] = mapper[s]] ELSE leaving
  /\ mapper' = [mapper EXCEPT ![s] = NoPacket]
  /\ UNCHANGED <<fixer, detected, next, unlinked, headers, arrivals>> /\ PathOnly

\* A push that has begun goes on when the forwarder is unlinked, and ends with
\* its context.
Arrive(s) ==
  /\ leaving[s] # NoPacket /\ Len(arrivals) < InboxSize
  /\ arrivals' = Append(arrivals, <<s, leaving[s]>>)
  /\ leaving' = [leaving EXCEPT ![s] = NoPacket]
  /\ UNCHANGED <<fixer, detected, next, unlinked, headers, mapper>> /\ PathOnly

CutOff(s) ==
  /\ leaving[s] # NoPacket /\ s \in pathCtxDone
  /\ leaving' = [leaving EXCEPT ![s] = NoPacket]
  /\ UNCHANGED <<fixer, detected, next, unlinked, headers, mapper, arrivals>> /\ PathOnly

----------------------------------------------------------------------------
(* The kernel of the route.                                                *)

\* From ticks to a duration and back, by way of floating-point numbers.
Rounded(t) == {t, IF t > 0 THEN t - 1 ELSE IF t < 0 THEN t + 1 ELSE t}

\* One for a time that moves on and one for the rounding.
NextPTS(t) == t + 2

Output(s, o, i, offset) ==
  passed' = Append(passed, [from |-> s, packet |-> o, index |-> i, pts |-> PTSOf[o] + offset,
                            dts |-> Min({DTSOf[o], PTSOf[o]}) + offset])

\* Audio and the like keep their time.
PassUnchanged(s, o, i) ==
  /\ MediaOf[o] # "video"
  /\ passed' = Append(passed, [from |-> s, packet |-> o, index |-> i, pts |-> PTSOf[o], dts |-> DTSOf[o]])
  /\ UNCHANGED <<timeShift, latestPTS, skippedPackets>>

KeepShift(s, o, i) ==
  /\ MediaOf[o] = "video" /\ previousSource[i] = s
  /\ Output(s, o, i, timeShift[s].applied) /\ latestPTS' = PTSOf[o] + timeShift[s].applied
  /\ UNCHANGED <<timeShift, skippedPackets>>

\* The first packet of another source.  If its time is late enough, or its
\* source has been shifted by more before, then it is not shifted at all.
ChangeSource(s, o, i) ==
  /\ MediaOf[o] = "video" /\ previousSource[i] # s
  /\ \E latest \in Rounded(latestPTS) :
       LET offset == NextPTS(latest) - PTSOf[o]
       IN IF offset < timeShift[s].exact
          THEN Output(s, o, i, 0) /\ latestPTS' = PTSOf[o] /\ UNCHANGED <<timeShift, skippedPackets>>
          ELSE IF ~shouldFixPTS
               THEN skippedPackets' = skippedPackets \cup {o} /\ UNCHANGED <<timeShift, latestPTS, passed>>
               ELSE \E applied \in Rounded(offset) :
                      /\ timeShift' = [timeShift EXCEPT ![s] = [exact |-> offset, applied |-> applied]]
                      /\ Output(s, o, i, offset) /\ latestPTS' = PTSOf[o] + offset
                      /\ UNCHANGED skippedPackets

MakeTimeMoveOnlyForward ==
  /\ arrivals # <<>> /\ arrivals' = Tail(arrivals)
  /\ LET s == Head(arrivals)[1]
         o == Head(arrivals)[2]
     IN \E i \in OutputIndices(o) :
          /\ previousSource' = [previousSource EXCEPT ![i] = s]
          /\ PassUnchanged(s, o, i) \/ KeepShift(s, o, i) \/ ChangeSource(s, o, i)
  /\ UNCHANGED <<shouldFixPTS, toFLV, forwarding, fixer, detected, next, unlinked, places>>

----------------------------------------------------------------------------

PathInit ==
  /\ \E setting \in Settings : shouldFixPTS = setting[1] /\ toFLV = setting[2]
  /\ fwd = [s \in Feeds |-> "new"] /\ userStop = [s \in Feeds |-> FALSE]
  /\ linkedIn = {} /\ linkedOut = {} /\ pathCtxDone = {}
  /\ fixer = [s \in Feeds |-> "ready"] /\ detected = [s \in Feeds |-> FALSE]
  /\ next = [s \in Feeds |-> 0] /\ unlinked = {}
  /\ headers = Empty /\ mapper = Empty /\ leaving = Empty
  /\ arrivals = <<>>
  /\ previousSource = [i \in Indices |-> "none"]
  /\ timeShift = [s \in Feeds |-> [exact |-> 0, applied |-> 0]]
  /\ latestPTS = 0 /\ skippedPackets = {} /\ passed = <<>>

ForwarderStep(s) ==
  \/ NotifyAboutPacketSources(s) \/ LinkIn(s) \/ LinkOut(s) \/ ServeFixer(s)
  \/ RemovePushingFurther(s) \/ CloseFixer(s)
PacketStep(s) == FixHeaders(s) \/ FixFails(s) \/ MapIndices(s) \/ Arrive(s) \/ CutOff(s)

PathNext ==
  \/ \E s \in Feeds : Start(s) \/ UserStops(s) \/ Send(s) \/ ForwarderStep(s) \/ PacketStep(s)
  \/ MakeTimeMoveOnlyForward

PathTypeOK ==
  /\ fwd \in [Feeds -> {"new", "notify", "linkIn", "linkOut", "serve", "on", "broken", "unlinkOut", "cancel", "off"}]
  /\ fixer \in [Feeds -> {"ready", "served", "failed", "closed"}]
  /\ linkedIn \cup linkedOut \cup pathCtxDone \subseteq Feeds
  /\ \A place \in {headers, mapper, leaving} : place \in [Feeds -> Packets \cup {NoPacket}]
  /\ previousSource \in [Indices -> Feeds \cup {"none"}] /\ latestPTS \in Int
  /\ arrivals \in Seq(Feeds \X Packets) /\ unlinked \cup skippedPackets \subseteq Packets

----------------------------------------------------------------------------
(* Properties.                                                             *)

PlaceOf(s, o) == CHOOSE n \in DOMAIN Feed[s] : Feed[s][n] = o
SentOf(s) == {Feed[s][i] : i \in 1..next[s]}
OnTheWay(s) ==
  {headers[s], mapper[s], leaving[s]} \cup {e[2] : e \in {a \in ToSet(arrivals) : a[1] = s}}

\* What a source sends arrives once and in its order.
ArrivesInOrder ==
  \A i, j \in DOMAIN passed :
    i < j /\ passed[i].from = passed[j].from =>
      PlaceOf(passed[i].from, passed[i].packet) < PlaceOf(passed[j].from, passed[j].packet)

\* Until a forwarder is stopped or fails it loses nothing that is sent from the
\* moment it is linked, but what the sink has no stream for and what the route
\* leaves out on a change of the source.
LosesNothing ==
  \A s \in Feeds : fwd[s] \in {"linkOut", "serve", "on"} /\ fixer[s] # "failed" =>
    \A o \in SentOf(s) \ (unlinked \cup skippedPackets) :
      o \in OnTheWay(s) \/ OutputIndices(o) = {} \/ \E i \in DOMAIN passed : passed[i].packet = o

\* The time of video does not go back, whoever sends, nor stand still when another
\* source takes over, unless a source comes back that has been shifted before: its
\* first packet is then not shifted.
IsVideo(i) == MediaOf[passed[i].packet] = "video"
Follows(j, i) == i < j /\ IsVideo(i) /\ IsVideo(j) /\ \A k \in (i + 1)..(j - 1) : ~IsVideo(k)
ComesBack(j, i) ==
  /\ passed[j].from # passed[i].from
  /\ \E k \in 1..(i - 1) : IsVideo(k) /\ passed[k].from = passed[j].from
IsLate(j, i) ==
  \/ passed[j].pts < passed[i].pts
  \/ passed[j].from # passed[i].from /\ passed[j].pts = passed[i].pts
TimeMovesForward ==
  /\ shouldFixPTS =>
       \A i, j \in DOMAIN passed : Follows(j, i) /\ IsLate(j, i) => ComesBack(j, i)
  /\ \A i \in DOMAIN passed : IsVideo(i) => passed[i].dts <= passed[i].pts

\* A forwarder that was stopped is in nobody's list and has no stream left.
StoppedIsUnlinked ==
  \A s \in Feeds : fwd[s] = "off" => s \notin linkedIn \cup linkedOut /\ s \in pathCtxDone

PathSafe == ArrivesInOrder /\ LosesNothing /\ TimeMovesForward /\ StoppedIsUnlinked

\* Whoever starts a forwarder gets it to work or to fail; one that is stopped, or
\* fails, gives up its place and ends its nodes.
HasToMove(s) ==
  \/ fwd[s] \notin {"new", "on", "broken", "off"}
  \/ fwd[s] \in {"on", "broken"} /\ (userStop[s] \/ fixer[s] = "failed")
  \/ fwd[s] = "off" /\ fixer[s] \notin {"ready", "closed"}
PathUnsettled == \E s \in Feeds : HasToMove(s)
=============================================================================
