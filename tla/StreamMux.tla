------------------------------ MODULE StreamMux ------------------------------
(***************************************************************************)
(* The stream multiplexer (preset/streammux) with one input and an output  *)
(* per sender key: the mode DifferentOutputsSameTracks.  The input pushes  *)
(* every packet to all outputs, and the barrier at the head of each output *)
(* passes it if OutputSwitch names this output.  A request finds or makes  *)
(* the output of its key and sets the switch; the barrier that meets the   *)
(* next key frame commits, moves OutputSyncer and leaves behind a          *)
(* goroutine that closes the previous output and then makes a new one in   *)
(* its place.                                                              *)
(*                                                                         *)
(* An output fails, or is asked for again, at any time, unless the run is  *)
(* calm: then no output fails, and a request waits until all that the last *)
(* one started has ended.                                                  *)
(***************************************************************************)
EXTENDS Integers

CONSTANTS
  Keys,         \* the sender keys
  BypassKeys,   \* those of EnableVideoTranscodingBypass
  NoKey,
  MaxOutputs, MaxEvents   \* bounds; a request or a failure is an event

ASSUME MuxAssumption == BypassKeys \subseteq Keys /\ NoKey \notin Keys /\ {MaxOutputs, MaxEvents} \subseteq Nat

IDs == 1..MaxOutputs
Nobody == 0   \* no output; of a switch, math.MinInt32

VARIABLES
  calm,
  sw,             \* OutputSwitch and the value of OutputSyncer
  output,         \* Outputs, by ID
  outputsMap,     \* OutputsMap: the ID of a key's output
  lastID,         \* how many outputs there were
  props,          \* the key that CurrentOutputProps configures
  sLocker, outputsLocker,  \* the locks are held
  barrier,        \* per output, the goroutine of its InputFilter
  input,          \* the input's packet, and to whom it is still to be pushed
  request,        \* the goroutine of a request
  closer,         \* the goroutine that closes an output, and has outputsLocker
  redo,           \* outputs whose key is to get a new output
  failure,        \* the handler of nodes' errors
  events          \* how many requests and failures there were

nodes == <<barrier, input>>
counted == <<calm, events>>
mux == <<calm, sw, output, outputsMap, lastID, props, sLocker, outputsLocker, nodes, request,
         closer, redo, failure, events>>

Frames == {"key", "delta"}
Idle == [pc |-> "idle", frame |-> "delta", from |-> Nobody, to |-> Nobody]
NoRequest == [pc |-> "idle", key |-> NoKey, persistent |-> FALSE, id |-> Nobody, synced |-> Nobody]
NoOutput == [key |-> NoKey, config |-> NoKey, closed |-> FALSE, pushed |-> FALSE, ended |-> FALSE]
NewUnlinked(key) == [NoOutput EXCEPT !.key = key]
NewOutput(key) == [NoOutput EXCEPT !.key = key, !.pushed = TRUE]
At(o, pc) == barrier[o].pc = pc
Go(o, pc) == barrier' = [barrier EXCEPT ![o].pc = pc]
Leave(o) == barrier' = [barrier EXCEPT ![o] = Idle]

\* All that a request has started has ended.
Settled == request.pc = "idle" /\ sw.next = Nobody /\ sw.mutex = Nobody /\ closer.pc = "none" /\ redo = {}

----------------------------------------------------------------------------
(* Outputs.                                                                *)

\* A closed output stays in OutputsMap until it is replaced here.
UsableAnyhow(key) == outputsMap[key] # Nobody
Usable(key) == outputsMap[key] # Nobody /\ ~output[outputsMap[key]].closed
OutputOfKey(key) == IF Usable(key) THEN outputsMap[key] ELSE lastID + 1

\* createAndConfigureOutput; the caller has sLocker.  The configuration is
\* stored in the encoder's factory, where GetKey finds it.
CreateAndConfigure(key, config) ==
  LET o == OutputOfKey(key)
  IN /\ o \in IDs
     /\ outputsMap' = [outputsMap EXCEPT ![key] = o]
     /\ lastID' = IF o > lastID THEN o ELSE lastID
     /\ output' = [output EXCEPT ![o] = [(IF o > lastID THEN NewOutput(key) ELSE @) EXCEPT !.config = config]]

----------------------------------------------------------------------------
(* Requests: SwitchToOutputByProps, which is persistent, and, without      *)
(* that, setResolutionBitRateCodec and EnableVideoTranscodingBypass.       *)

Request(key, persistent) ==
  /\ request.pc = "idle" /\ events < MaxEvents
  /\ calm => Settled
  /\ props = NoKey => persistent
  /\ ~sLocker /\ sLocker' = TRUE
  /\ events' = events + 1
  /\ request' = [pc |-> IF key \in BypassKeys /\ ~persistent THEN "active" ELSE "create",
                 key |-> key, persistent |-> persistent, id |-> Nobody, synced |-> Nobody]
  /\ UNCHANGED <<calm, sw, output, outputsMap, lastID, props, outputsLocker, nodes, closer, redo, failure>>

\* The bypass asks for the active output, with both locks.
GetActiveVideoOutput ==
  /\ request.pc = "active" /\ ~outputsLocker
  /\ request' = [request EXCEPT !.pc = "create"]
  /\ UNCHANGED <<sw, output, outputsMap, lastID, props, sLocker, outputsLocker, nodes, closer, redo, failure, counted>>

CreateRequested ==
  /\ request.pc = "create"
  /\ CreateAndConfigure(request.key, request.key)
  /\ request' = [request EXCEPT !.pc = "synced", !.id = OutputOfKey(request.key)]
  /\ UNCHANGED <<sw, props, sLocker, outputsLocker, nodes, closer, redo, failure, counted>>

\* setPreferredOutputForInput: "the order is important".
LoadSyncer ==
  /\ request.pc = "synced"
  /\ request' = [request EXCEPT !.pc = "current", !.synced = sw.synced]
  /\ UNCHANGED <<sw, output, outputsMap, lastID, props, sLocker, outputsLocker, nodes, closer, redo, failure, counted>>

Return == request' = NoRequest /\ sLocker' = FALSE

\* ErrSwitchAlreadyInProgress, ErrOutputAlreadyPreferred, or go on.
LoadSwitch ==
  /\ request.pc = "current"
  /\ \/ /\ (sw.current # request.synced \/ sw.current = request.id)
        /\ Return
     \/ /\ sw.current = request.synced /\ sw.current # request.id
        /\ request' = [request EXCEPT !.pc = "set"] /\ UNCHANGED sLocker
  /\ UNCHANGED <<sw, output, outputsMap, lastID, props, outputsLocker, nodes, closer, redo, failure, counted>>

\* SetValue of a switch with KeepUnless; then the request returns.
NextAfter(id) ==
  IF sw.current = id /\ sw.next \notin {Nobody, id} THEN Nobody ELSE id
SetPreferred ==
  /\ request.pc = "set" /\ sw.mutex = Nobody
  /\ sw' = [sw EXCEPT !.next = NextAfter(request.id)]
  /\ props' = IF request.persistent THEN request.key ELSE props
  /\ Return
  /\ UNCHANGED <<output, outputsMap, lastID, outputsLocker, nodes, closer, redo, failure, counted>>

----------------------------------------------------------------------------
(* Packets, up to the node after an output's barrier.                      *)

\* onInputPacket remembers key frames under sLocker.
Arrive(frame) ==
  /\ input.to = {} /\ (frame = "key" => ~sLocker)
  /\ input' = [frame |-> frame, to |-> {o \in IDs : output[o].pushed}]
  /\ UNCHANGED <<sw, output, outputsMap, lastID, props, sLocker, outputsLocker, barrier, request, closer, redo, failure, counted>>

\* What is pushed to a processor that has ended is lost.
PushTo(o) ==
  /\ o \in input.to /\ (output[o].ended \/ At(o, "idle"))
  /\ input' = [input EXCEPT !.to = @ \ {o}]
  /\ barrier' = IF output[o].ended THEN barrier ELSE [barrier EXCEPT ![o] = [Idle EXCEPT !.pc = "look", !.frame = input.frame]]
  /\ UNCHANGED <<sw, output, outputsMap, lastID, props, sLocker, outputsLocker, request, closer, redo, failure, counted>>

\* GetState.  KeepUnless lets a key frame commit, at whichever barrier.
MayCommit(o) == sw.next \notin {Nobody, sw.current} /\ barrier[o].frame = "key"
Look(o) ==
  /\ At(o, "look")
  /\ \/ /\ MayCommit(o)
        /\ barrier' = [barrier EXCEPT ![o] = [@ EXCEPT !.pc = "commit", !.from = sw.current, !.to = sw.next]]
     \/ /\ ~MayCommit(o) /\ sw.current = o /\ Go(o, "pass")
     \/ /\ ~MayCommit(o) /\ sw.current # o /\ Leave(o)
  /\ UNCHANGED <<sw, output, outputsMap, lastID, props, sLocker, outputsLocker, input, request, closer, redo, failure, counted>>

\* commitToNextValue, with CommitMutex.  If only the next value has changed,
\* the current one has been replaced and nobody is told.
Commit(o) ==
  LET b == barrier[o]
  IN /\ At(o, "commit") /\ sw.mutex = Nobody
     /\ \/ /\ sw.current = b.from /\ sw.next = b.to
           /\ sw' = [sw EXCEPT !.current = b.to, !.next = Nobody, !.mutex = o]
           /\ Go(o, "sync")
        \/ /\ sw.current = b.from /\ sw.next # b.to
           /\ sw' = [sw EXCEPT !.current = b.to]
           /\ Go(o, "look")
        \/ /\ sw.current # b.from
           /\ Go(o, "look") /\ UNCHANGED sw
     /\ UNCHANGED <<output, outputsMap, lastID, props, sLocker, outputsLocker, input, request, closer, redo, failure, counted>>

\* OnAfterSwitch, under CommitMutex: the syncer follows at once, ...
SyncOutput(o) ==
  /\ At(o, "sync")
  /\ sw' = [sw EXCEPT !.synced = barrier[o].to]
  /\ Go(o, "lock")
  /\ UNCHANGED <<output, outputsMap, lastID, props, sLocker, outputsLocker, input, request, closer, redo, failure, counted>>

\* ... outputsLocker is taken, and is for the closer to release.
AfterSwitch(o) ==
  LET prev == barrier[o].from
  IN /\ At(o, "lock") /\ ~outputsLocker
     /\ outputsLocker' = (prev # Nobody)
     /\ closer' = [pc |-> IF prev = Nobody THEN "none" ELSE "remove", id |-> prev]
     /\ sw' = [sw EXCEPT !.mutex = Nobody]
     /\ IF barrier[o].to = o THEN Go(o, "pass") ELSE Leave(o)
     /\ UNCHANGED <<output, outputsMap, lastID, props, sLocker, input, request, redo, failure, counted>>

\* The barrier emits the packet towards the output's pipeline.
Pass(o) ==
  /\ At(o, "pass") /\ Leave(o)
  /\ UNCHANGED <<sw, output, outputsMap, lastID, props, sLocker, outputsLocker, input, request, closer, redo, failure, counted>>

----------------------------------------------------------------------------
(* Closing.  EnableDraining is off.                                        *)

RemovePush ==
  /\ closer.pc = "remove"
  /\ output' = [output EXCEPT ![closer.id].pushed = FALSE]
  /\ closer' = [closer EXCEPT !.pc = "mark"]
  /\ UNCHANGED <<sw, outputsMap, lastID, props, sLocker, outputsLocker, nodes, request, redo, failure, counted>>

\* Output.close up to the first processor ...
MarkClosed(o) == output' = [output EXCEPT ![o].closed = TRUE]
BeginClose ==
  /\ closer.pc = "mark"
  /\ MarkClosed(closer.id)
  /\ closer' = [closer EXCEPT !.pc = "end"]
  /\ UNCHANGED <<sw, outputsMap, lastID, props, sLocker, outputsLocker, nodes, request, redo, failure, counted>>

\* ... whose Close waits for the barrier's goroutine, not for Serve.
EndClose ==
  /\ closer.pc = "end" /\ At(closer.id, "idle")
  /\ output' = [output EXCEPT ![closer.id].ended = TRUE]
  /\ redo' = redo \cup {closer.id}
  /\ closer' = [pc |-> "none", id |-> Nobody] /\ outputsLocker' = FALSE
  /\ UNCHANGED <<sw, outputsMap, lastID, props, sLocker, nodes, request, failure, counted>>

\* The key is what GetKey says, the configuration that of the last
\* persistent request.
Recreate(o) ==
  /\ o \in redo /\ ~sLocker
  /\ CreateAndConfigure(output[o].config, props)
  /\ redo' = redo \ {o}
  /\ UNCHANGED <<sw, props, sLocker, outputsLocker, nodes, request, closer, failure, counted>>

----------------------------------------------------------------------------
(* An error of an output's node.  That of the active output ends the mux   *)
(* and is left out; another output is forgotten and closed, without locks. *)

OutputFails(o) ==
  /\ ~calm /\ events < MaxEvents /\ failure.pc = "none"
  /\ o <= lastID /\ ~output[o].closed /\ sw.current # o
  /\ events' = events + 1
  /\ failure' = [pc |-> "forget", id |-> o]
  /\ UNCHANGED <<calm, sw, output, outputsMap, lastID, props, sLocker, outputsLocker, nodes, request, closer, redo>>

Forget ==
  /\ failure.pc = "forget"
  /\ outputsMap' = [k \in Keys |-> IF k = output[failure.id].config /\ outputsMap[k] = failure.id THEN Nobody ELSE outputsMap[k]]
  /\ failure' = [failure EXCEPT !.pc = "mark"]
  /\ UNCHANGED <<sw, output, lastID, props, sLocker, outputsLocker, nodes, request, closer, redo, counted>>

CloseFailed ==
  /\ failure.pc = "mark"
  /\ MarkClosed(failure.id)
  /\ failure' = [failure EXCEPT !.pc = "end"]
  /\ UNCHANGED <<sw, outputsMap, lastID, props, sLocker, outputsLocker, nodes, request, closer, redo, counted>>

EndFailed ==
  /\ failure.pc = "end" /\ At(failure.id, "idle")
  /\ output' = [output EXCEPT ![failure.id].ended = TRUE]
  /\ failure' = [pc |-> "none", id |-> Nobody]
  /\ UNCHANGED <<sw, outputsMap, lastID, props, sLocker, outputsLocker, nodes, request, closer, redo, counted>>

----------------------------------------------------------------------------

MuxInit ==
  /\ calm \in BOOLEAN
  /\ sw = [current |-> Nobody, next |-> Nobody, mutex |-> Nobody, synced |-> Nobody]
  /\ output = [o \in IDs |-> NoOutput]
  /\ outputsMap = [k \in Keys |-> Nobody] /\ lastID = 0 /\ props = NoKey
  /\ sLocker = FALSE /\ outputsLocker = FALSE
  /\ barrier = [o \in IDs |-> Idle]
  /\ input = [frame |-> "delta", to |-> {}]
  /\ request = NoRequest
  /\ closer = [pc |-> "none", id |-> Nobody] /\ failure = closer
  /\ redo = {} /\ events = 0

\* Every goroutine of the mux runs, and whoever waits for a lock gets it.
RequestStep == GetActiveVideoOutput \/ CreateRequested \/ LoadSyncer \/ LoadSwitch \/ SetPreferred
BarrierStep(o) == Look(o) \/ Commit(o) \/ SyncOutput(o) \/ AfterSwitch(o) \/ Pass(o)
CloserStep == RemovePush \/ BeginClose \/ EndClose
FailureStep == Forget \/ CloseFailed \/ EndFailed

MuxNext ==
  \/ \E key \in Keys, persistent \in BOOLEAN : Request(key, persistent)
  \/ RequestStep \/ CloserStep \/ FailureStep
  \/ \E frame \in Frames : Arrive(frame)
  \/ \E o \in IDs : PushTo(o) \/ BarrierStep(o) \/ Recreate(o) \/ OutputFails(o)

OutputType ==
  [key : Keys \cup {NoKey}, config : Keys \cup {NoKey}, closed : BOOLEAN, pushed : BOOLEAN, ended : BOOLEAN]
BarrierType ==
  [pc : {"idle", "look", "commit", "sync", "lock", "pass"}, frame : Frames, from : 0..MaxOutputs, to : 0..MaxOutputs]
RequestType ==
  [pc : {"idle", "active", "create", "synced", "current", "set"}, key : Keys \cup {NoKey},
   persistent : BOOLEAN, id : 0..MaxOutputs, synced : 0..MaxOutputs]
MuxTypeOK ==
  /\ calm \in BOOLEAN
  /\ sw \in [current : 0..MaxOutputs, next : 0..MaxOutputs, mutex : 0..MaxOutputs, synced : 0..MaxOutputs]
  /\ output \in [IDs -> OutputType] /\ barrier \in [IDs -> BarrierType] /\ request \in RequestType
  /\ outputsMap \in [Keys -> 0..MaxOutputs] /\ lastID \in 0..MaxOutputs /\ props \in Keys \cup {NoKey}
  /\ {sLocker, outputsLocker} \subseteq BOOLEAN
  /\ input \in [frame : Frames, to : SUBSET IDs]
  /\ closer \in [pc : {"none", "remove", "mark", "end"}, id : 0..MaxOutputs]
  /\ failure \in [pc : {"none", "forget", "mark", "end"}, id : 0..MaxOutputs]
  /\ redo \subseteq IDs /\ events \in 0..MaxEvents

----------------------------------------------------------------------------
(* Properties.                                                             *)

Open(o) == o \in 1..lastID /\ ~output[o].closed

\* However requests, recreations and failures interleave, a key has one open
\* output, but for one that has just failed: no output is left running that
\* nobody can find to close it.
OneOpenPerKey ==
  \A o, p \in 1..lastID :
    Open(o) /\ Open(p) /\ output[o].key = output[p].key => o = p \/ failure.id \in {o, p}

\* The output that is switched to stays open.
ActiveOpen == calm /\ sw.current # Nobody => Open(sw.current) /\ output[sw.current].pushed

\* Once the switch has been committed, the sending side has followed it.
SyncerFollows == calm /\ sw.mutex = Nobody => sw.synced = sw.current

\* The active output has the configuration of its key, not the one it was
\* remade with.
ActiveConfigured == calm /\ sw.current # Nobody => output[sw.current].config = output[sw.current].key

\* When all has ended there is an open output again for each key.
ReadyAgain == calm /\ Settled => \A k \in Keys : outputsMap[k] # Nobody => Open(outputsMap[k])

MuxSafe == OneOpenPerKey /\ ActiveOpen /\ SyncerFollows /\ ActiveConfigured /\ ReadyAgain

\* While key frames arrive, a request that was accepted ends with an output
\* of its key active on both sides, the previous output closed and replaced.
RequestReached ==
  \A k \in Keys : calm /\ request.pc = "set" /\ request.key = k
                  ~> Settled /\ sw.synced # Nobody /\ output[sw.synced].key = k
=============================================================================
