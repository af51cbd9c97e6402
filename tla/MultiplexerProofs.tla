-------------------------- MODULE MultiplexerProofs --------------------------
(***************************************************************************)
(* What is kept while outputs are switched: by the stream multiplexer, the *)
(* automatic bitrate and the transcoder with passthrough, and by all.      *)
(*                                                                         *)
(* The multiplexer, for any keys and any number of outputs, however        *)
(* requests, commits, closings and failures interleave: OutputsMap has     *)
(* every open output under its key, but for one that failed.  While the run*)
(* is calm one request goes through its phases at a time, the outputs that *)
(* a phase names are good ones, and an output that was switched from is    *)
(* closed before another request and never comes back, so that a barrier   *)
(* that saw it active and was slow to commit cannot bring it back.         *)
(*                                                                         *)
(* The automatic bitrate: a request for a change is no older than the last *)
(* contrary move of the bitrate, which would have cancelled it.            *)
(*                                                                         *)
(* The transcoder with passthrough: whoever commits the first switch       *)
(* commits the value that is wanted, and the second one is going to where  *)
(* the first is, or somebody who has swapped the first, or will win the    *)
(* swap, has still to tell it.                                             *)
(***************************************************************************)
EXTENDS MCStreamMux, SequenceTheorems, TLAPS

MuxSpec == MuxInit /\ [][MuxNext]_mux

----------------------------------------------------------------------------
(* The inductive invariant: at any time.                                    *)

Made == 1..lastID
NobodyOrMade == 0..lastID

\* Whoever names an output names one that was made.
Known ==
  /\ \A o \in Made : output[o].key \in Keys /\ output[o].config \in Keys
  /\ {sw.current, sw.next, request.id, closer.id, failure.id} \subseteq NobodyOrMade /\ redo \subseteq Made
  /\ \A o \in IDs : barrier[o].from \in NobodyOrMade /\ barrier[o].to \in NobodyOrMade
  /\ request.pc \in {"synced", "current", "set"} => request.id # Nobody
  /\ request.pc # "idle" => request.key \in Keys
  /\ closer.pc = "none" <=> closer.id = Nobody
  /\ failure.pc = "none" <=> failure.id = Nobody

\* OutputsMap has every open output under its own key, but for one that failed.
Mapped ==
  /\ \A k \in Keys : outputsMap[k] # Nobody => outputsMap[k] \in Made /\ output[outputsMap[k]].key = k
  /\ \A o \in Made : ~output[o].closed /\ failure.id # o => outputsMap[output[o].key] = o
  /\ failure.pc = "end" => output[failure.id].closed

\* Nothing is switched before the first request, which is persistent, has
\* left its configuration.
Started ==
  /\ \A o \in IDs : barrier[o].pc \in {"commit", "sync", "lock"} => barrier[o].to # Nobody
  /\ props = NoKey =>
       /\ request.pc # "idle" => request.persistent
       /\ sw.current = Nobody /\ sw.next = Nobody /\ closer.pc = "none" /\ redo = {}
       /\ \A o \in IDs : barrier[o].pc \notin {"commit", "sync", "lock"}

----------------------------------------------------------------------------
(* The inductive invariant: while calm.                                     *)

\* What a request starts goes through these phases, one at a time.
OnePhase ==
  /\ request.pc # "idle" => sw.next = Nobody /\ sw.mutex = Nobody /\ closer.pc = "none" /\ redo = {}
  /\ sw.next # Nobody => sw.mutex = Nobody /\ closer.pc = "none" /\ redo = {}
  /\ sw.mutex # Nobody => closer.pc = "none" /\ redo = {}
  /\ closer.pc # "none" => redo = {}

\* An output that may be switched to, or was until now.
Configured(o) == o \in Made /\ output[o].config = output[o].key /\ outputsMap[output[o].key] = o
Good(o) == Configured(o) /\ ~output[o].closed /\ output[o].pushed

RequestGood ==
  /\ request.pc \in {"synced", "current", "set"} => Good(request.id)
  /\ request.pc = "set" => request.id # sw.current
Switched ==
  /\ sw.current # Nobody => Good(sw.current)
  /\ sw.next # Nobody => Good(sw.next) /\ sw.next # sw.current

\* Who holds CommitMutex has made the switch and tells of it.
Telling ==
  /\ \A o \in IDs : barrier[o].pc \in {"sync", "lock"} <=> sw.mutex = o
  /\ sw.mutex = Nobody => sw.synced = sw.current
  /\ \A o \in IDs : sw.mutex = o =>
       /\ barrier[o].to = sw.current /\ barrier[o].from # sw.current
       /\ barrier[o].from # Nobody => Good(barrier[o].from)
       /\ barrier[o].pc = "lock" => sw.synced = sw.current

\* What was switched from does not come back.
Left(id) ==
  \/ id = Nobody /\ sw.current # Nobody
  \/ \E o \in IDs : sw.mutex = o /\ barrier[o].from = id
  \/ id # Nobody /\ (closer.id = id \/ output[id].closed)
Committed ==
  \A o \in IDs : barrier[o].pc = "commit" =>
    (barrier[o].from = sw.current /\ barrier[o].to = sw.next) \/ Left(barrier[o].from)

\* The output that is being closed, and the one that is to be replaced.
Replaced ==
  /\ closer.pc # "none" => Configured(closer.id) /\ closer.id # sw.current
  /\ closer.pc = "end" => output[closer.id].closed
  /\ \A o \in redo : Configured(o) /\ output[o].closed

\* Outputs are kept open and fed until then.
Kept ==
  /\ \A o \in Made : ~output[o].closed => output[o].pushed \/ closer.id = o
  /\ \A k \in Keys : outputsMap[k] # Nobody =>
       ~output[outputsMap[k]].closed \/ closer.id = outputsMap[k] \/ outputsMap[k] \in redo

CalmKeeps == failure.pc = "none" /\ OnePhase /\ RequestGood /\ Switched /\ Telling /\ Committed /\ Replaced /\ Kept

MuxInv == MuxTypeOK /\ Known /\ Mapped /\ Started /\ (calm => CalmKeeps)

----------------------------------------------------------------------------
(* Types.                                                                   *)

SwitchType == [current : 0..MaxOutputs, next : 0..MaxOutputs, mutex : 0..MaxOutputs, synced : 0..MaxOutputs]

\* The types at the start.
LEMMA MuxTypesInitially == MuxInit => MuxTypeOK
<1> SUFFICES ASSUME MuxInit PROVE MuxTypeOK
  OBVIOUS
<1>1. Nobody \in 0..MaxOutputs /\ 0 \in 0..MaxEvents
  BY MuxAssumption DEF Nobody
<1>2. NoOutput \in OutputType /\ Idle \in BarrierType /\ NoRequest \in RequestType
  BY <1>1 DEF NoOutput, OutputType, Idle, BarrierType, Frames, NoRequest, RequestType
<1>3. calm \in BOOLEAN /\ sLocker \in BOOLEAN /\ outputsLocker \in BOOLEAN
  BY DEF MuxInit
<1>4. /\ sw \in [current : 0..MaxOutputs, next : 0..MaxOutputs, mutex : 0..MaxOutputs, synced : 0..MaxOutputs]
      /\ closer \in [pc : {"none", "remove", "mark", "end"}, id : 0..MaxOutputs]
      /\ failure \in [pc : {"none", "forget", "mark", "end"}, id : 0..MaxOutputs]
  BY <1>1 DEF MuxInit
<1>5. output \in [IDs -> OutputType] /\ barrier \in [IDs -> BarrierType] /\ request \in RequestType
  BY <1>2 DEF MuxInit
<1>6. outputsMap \in [Keys -> 0..MaxOutputs] /\ lastID \in 0..MaxOutputs /\ props \in Keys \cup {NoKey}
  BY <1>1 DEF MuxInit, Nobody
<1>7. input \in [frame : Frames, to : SUBSET IDs] /\ redo \subseteq IDs /\ events \in 0..MaxEvents
  BY <1>1 DEF MuxInit, Frames
<1>q. QED  BY <1>3, <1>4, <1>5, <1>6, <1>7 DEF MuxTypeOK

\* An output gets its configuration, the one of the key if it is open, a new
\* one otherwise; no other output is touched.
Configures(key, setting, o) ==
  /\ o \in IDs /\ outputsMap' = [outputsMap EXCEPT ![key] = o]
  /\ \/ /\ o = outputsMap[key] /\ o \in Made /\ lastID' = lastID /\ ~output[o].closed
        /\ output' = [output EXCEPT ![o] = [@ EXCEPT !.config = setting]]
     \/ /\ o = lastID + 1 /\ lastID' = o
        /\ outputsMap[key] = Nobody \/ output[outputsMap[key]].closed
        /\ output' = [output EXCEPT ![o] = [NewOutput(key) EXCEPT !.config = setting]]

\* CreateAndConfigure does that.
LEMMA ConfiguresIt ==
  ASSUME MuxTypeOK, Known, Mapped, NEW key \in Keys, NEW setting, CreateAndConfigure(key, setting)
  PROVE  Configures(key, setting, OutputOfKey(key))
<1> DEFINE o == OutputOfKey(key)
<1>1. o \in IDs /\ lastID \in Nat /\ lastID <= MaxOutputs /\ MaxOutputs \in Nat
  BY MuxAssumption DEF CreateAndConfigure, MuxTypeOK
<1>2. /\ outputsMap' = [outputsMap EXCEPT ![key] = o]
      /\ lastID' = (IF o > lastID THEN o ELSE lastID)
      /\ output' = [output EXCEPT ![o] = [(IF o > lastID THEN NewOutput(key) ELSE @) EXCEPT !.config = setting]]
  BY DEF CreateAndConfigure
<1>3. CASE Usable(key)
  <2>1. o = outputsMap[key] /\ ~output[o].closed /\ o \in Made
    BY <1>3 DEF OutputOfKey, Usable, Mapped
  <2>2. ~(o > lastID)
    BY <1>1, <2>1 DEF Made, IDs
  <2> HIDE DEF o
  <2>3. lastID' = lastID /\ output' = [output EXCEPT ![o] = [@ EXCEPT !.config = setting]]
    BY <1>2, <2>2
  <2>q. QED  BY <1>1, <1>2, <2>1, <2>3 DEF Configures, o
<1>4. CASE ~Usable(key)
  <2>1. o = lastID + 1 /\ (outputsMap[key] = Nobody \/ output[outputsMap[key]].closed)
    BY <1>4 DEF OutputOfKey, Usable
  <2>2. o > lastID
    BY <1>1, <2>1
  <2> HIDE DEF o
  <2>3. lastID' = o /\ output' = [output EXCEPT ![o] = [NewOutput(key) EXCEPT !.config = setting]]
    BY <1>2, <2>2
  <2>q. QED  BY <1>1, <1>2, <2>1, <2>3 DEF Configures, o
<1>q. QED  BY <1>3, <1>4

\* The types of what is configured.
LEMMA ConfiguredTypes ==
  ASSUME MuxTypeOK, NEW key \in Keys, NEW setting \in Keys \cup {NoKey}, NEW o, Configures(key, setting, o)
  PROVE  /\ output' \in [IDs -> OutputType] /\ outputsMap' \in [Keys -> 0..MaxOutputs]
         /\ lastID' \in 0..MaxOutputs /\ o \in 0..MaxOutputs
<1>1. o \in IDs /\ MaxOutputs \in Nat /\ lastID \in 0..MaxOutputs
  BY MuxAssumption DEF Configures, MuxTypeOK
<1>2. lastID' \in 0..MaxOutputs /\ o \in 0..MaxOutputs
  BY <1>1 DEF Configures, IDs
<1>3. outputsMap' \in [Keys -> 0..MaxOutputs]
  BY <1>2 DEF Configures, MuxTypeOK
<1>4. output[o] \in OutputType
  BY <1>1 DEF MuxTypeOK
<1>5. [output[o] EXCEPT !.config = setting] \in OutputType /\ [NewOutput(key) EXCEPT !.config = setting] \in OutputType
  BY <1>4 DEF OutputType, NewOutput, NoOutput
<1>6. output' \in [IDs -> OutputType]
  BY <1>1, <1>5 DEF Configures, MuxTypeOK
<1>q. QED  BY <1>2, <1>3, <1>6

\* The steps that leave the barriers, the outputs and the request alone or
\* change one of their fields.
LEMMA FieldTypes ==
  ASSUME MuxTypeOK
  PROVE  /\ \A o \in IDs, pc \in {"idle", "look", "commit", "sync", "lock", "pass"} : Go(o, pc) => barrier' \in [IDs -> BarrierType]
         /\ \A o \in IDs : Leave(o) => barrier' \in [IDs -> BarrierType]
         /\ \A o \in IDs : MarkClosed(o) => output' \in [IDs -> OutputType]
         /\ \A pc \in {"idle", "active", "create", "synced", "current", "set"} : [request EXCEPT !.pc = pc] \in RequestType
         /\ NoRequest \in RequestType
<1>1. Nobody \in 0..MaxOutputs
  BY MuxAssumption DEF Nobody
<1>2. Idle \in BarrierType /\ NoRequest \in RequestType
  BY <1>1 DEF Idle, BarrierType, Frames, NoRequest, RequestType
<1>3. \A o \in IDs, pc \in {"idle", "look", "commit", "sync", "lock", "pass"} : [barrier[o] EXCEPT !.pc = pc] \in BarrierType
  BY DEF MuxTypeOK, BarrierType
<1>4. \A o \in IDs : [output[o] EXCEPT !.closed = TRUE] \in OutputType
  <2>1. \A o \in IDs : output[o] \in OutputType
    BY DEF MuxTypeOK
  <2>q. QED  BY <2>1 DEF OutputType
<1>5. \A pc \in {"idle", "active", "create", "synced", "current", "set"} : [request EXCEPT !.pc = pc] \in RequestType
  BY DEF MuxTypeOK, RequestType
<1>6. barrier \in [IDs -> BarrierType] /\ output \in [IDs -> OutputType]
  BY DEF MuxTypeOK
<1>7. \A o \in IDs, pc \in {"idle", "look", "commit", "sync", "lock", "pass"} : Go(o, pc) => barrier' \in [IDs -> BarrierType]
  BY <1>3, <1>6 DEF Go
<1>8. \A o \in IDs : Leave(o) => barrier' \in [IDs -> BarrierType]
  BY <1>2, <1>6 DEF Leave
<1>9. \A o \in IDs : MarkClosed(o) => output' \in [IDs -> OutputType]
  BY <1>4, <1>6 DEF MarkClosed
<1>q. QED  BY <1>2, <1>5, <1>7, <1>8, <1>9

\* Every step keeps the types.
LEMMA MuxTypesStep ==
  ASSUME MuxTypeOK, Known, Mapped, MuxNext \/ UNCHANGED mux
  PROVE  MuxTypeOK'
<1>1. /\ sw \in SwitchType /\ output \in [IDs -> OutputType] /\ barrier \in [IDs -> BarrierType] /\ request \in RequestType
      /\ outputsMap \in [Keys -> 0..MaxOutputs] /\ lastID \in 0..MaxOutputs /\ props \in Keys \cup {NoKey}
      /\ input \in [frame : Frames, to : SUBSET IDs] /\ redo \subseteq IDs /\ events \in 0..MaxEvents
      /\ closer \in [pc : {"none", "remove", "mark", "end"}, id : 0..MaxOutputs]
      /\ failure \in [pc : {"none", "forget", "mark", "end"}, id : 0..MaxOutputs]
  BY DEF MuxTypeOK, SwitchType
<1>2. calm \in BOOLEAN /\ sLocker \in BOOLEAN /\ outputsLocker \in BOOLEAN
  BY DEF MuxTypeOK
<1>3. Nobody \in 0..MaxOutputs /\ MaxOutputs \in Nat /\ MaxEvents \in Nat /\ IDs \subseteq 0..MaxOutputs
  BY MuxAssumption DEF Nobody, IDs
<1> USE DEF nodes, counted
<1>4. ASSUME NEW key \in Keys, NEW persistent \in BOOLEAN, Request(key, persistent)
      PROVE  MuxTypeOK'
  <2>1. request' \in RequestType
    BY <1>3, <1>4 DEF Request, RequestType
  <2>2. events' \in 0..MaxEvents
    BY <1>1, <1>3, <1>4 DEF Request
  <2>3. calm' \in BOOLEAN /\ sLocker' \in BOOLEAN /\ outputsLocker' \in BOOLEAN
    BY <1>2, <1>4 DEF Request
  <2>q. QED  BY <1>1, <1>4, <2>1, <2>2, <2>3 DEF Request, MuxTypeOK, SwitchType
<1>5. CASE GetActiveVideoOutput
  <2>1. request' \in RequestType
    BY <1>5, FieldTypes DEF GetActiveVideoOutput
  <2>q. QED  BY <1>1, <1>2, <1>5, <2>1 DEF GetActiveVideoOutput, MuxTypeOK, SwitchType
<1>6. CASE CreateRequested
  <2>1. request.key \in Keys
    BY <1>6 DEF CreateRequested, Known
  <2> DEFINE o == OutputOfKey(request.key)
  <2>2. Configures(request.key, request.key, o)
    BY <1>6, <2>1, ConfiguresIt DEF CreateRequested
  <2> HIDE DEF o
  <2>3. /\ output' \in [IDs -> OutputType] /\ outputsMap' \in [Keys -> 0..MaxOutputs]
        /\ lastID' \in 0..MaxOutputs /\ o \in 0..MaxOutputs
    BY <2>1, <2>2, ConfiguredTypes
  <2>4. request' = [request EXCEPT !.pc = "synced", !.id = o]
    BY <1>6 DEF CreateRequested, o
  <2>5. request' \in RequestType
    BY <1>1, <2>3, <2>4 DEF RequestType
  <2>q. QED  BY <1>1, <1>2, <1>6, <2>3, <2>5 DEF CreateRequested, MuxTypeOK, SwitchType
<1>7. CASE LoadSyncer
  <2>1. request' \in RequestType
    BY <1>1, <1>7 DEF LoadSyncer, RequestType, SwitchType
  <2>q. QED  BY <1>1, <1>2, <1>7, <2>1 DEF LoadSyncer, MuxTypeOK, SwitchType
<1>8. CASE LoadSwitch
  <2>1. request' \in RequestType
    BY <1>8, FieldTypes DEF LoadSwitch, Return
  <2>2. sLocker' \in BOOLEAN
    BY <1>2, <1>8 DEF LoadSwitch, Return
  <2>q. QED  BY <1>1, <1>2, <1>8, <2>1, <2>2 DEF LoadSwitch, MuxTypeOK, SwitchType
<1>9. CASE SetPreferred
  <2>1. request' \in RequestType
    BY <1>9, FieldTypes DEF SetPreferred, Return
  <2>2. sLocker' \in BOOLEAN
    BY <1>9 DEF SetPreferred, Return
  <2>3. sw' \in SwitchType /\ props' \in Keys \cup {NoKey}
    BY <1>1, <1>3, <1>9 DEF SetPreferred, NextAfter, SwitchType, RequestType
  <2>q. QED  BY <1>1, <1>2, <1>9, <2>1, <2>2, <2>3 DEF SetPreferred, MuxTypeOK, SwitchType
<1>10. ASSUME NEW frame \in Frames, Arrive(frame)
       PROVE  MuxTypeOK'
  BY <1>1, <1>2, <1>10 DEF Arrive, MuxTypeOK, SwitchType
<1>11. ASSUME NEW o \in IDs, PushTo(o)
       PROVE  MuxTypeOK'
  <2>1. [Idle EXCEPT !.pc = "look", !.frame = input.frame] \in BarrierType
    BY <1>1, <1>3 DEF Idle, BarrierType
  <2>2. barrier' \in [IDs -> BarrierType] /\ input' \in [frame : Frames, to : SUBSET IDs]
    BY <1>1, <1>11, <2>1 DEF PushTo
  <2>q. QED  BY <1>1, <1>2, <1>11, <2>2 DEF PushTo, MuxTypeOK, SwitchType
<1>12. ASSUME NEW o \in IDs, Look(o)
       PROVE  MuxTypeOK'
  <2>1. [barrier[o] EXCEPT !.pc = "commit", !.from = sw.current, !.to = sw.next] \in BarrierType
    <3>1. barrier[o] \in BarrierType /\ sw.current \in 0..MaxOutputs /\ sw.next \in 0..MaxOutputs
      BY <1>1 DEF SwitchType
    <3>q. QED  BY <3>1 DEF BarrierType
  <2>2. barrier' \in [IDs -> BarrierType]
    BY <1>1, <1>12, <2>1, FieldTypes DEF Look
  <2>q. QED  BY <1>1, <1>2, <1>12, <2>2 DEF Look, MuxTypeOK, SwitchType
<1>13. ASSUME NEW o \in IDs, Commit(o)
       PROVE  MuxTypeOK'
  <2>1. barrier' \in [IDs -> BarrierType]
    BY <1>13, FieldTypes DEF Commit
  <2>2. barrier[o] \in BarrierType
    BY <1>1
  <2>3. sw' \in SwitchType
    BY <1>1, <1>3, <1>13, <2>2 DEF Commit, SwitchType, BarrierType
  <2>q. QED  BY <1>1, <1>2, <1>13, <2>1, <2>3 DEF Commit, MuxTypeOK, SwitchType
<1>14. ASSUME NEW o \in IDs, SyncOutput(o)
       PROVE  MuxTypeOK'
  <2>1. barrier' \in [IDs -> BarrierType]
    BY <1>14, FieldTypes DEF SyncOutput
  <2>2. barrier[o] \in BarrierType
    BY <1>1
  <2>3. sw' \in SwitchType
    BY <1>1, <1>14, <2>2 DEF SyncOutput, SwitchType, BarrierType
  <2>q. QED  BY <1>1, <1>2, <1>14, <2>1, <2>3 DEF SyncOutput, MuxTypeOK, SwitchType
<1>15. ASSUME NEW o \in IDs, AfterSwitch(o)
       PROVE  MuxTypeOK'
  <2>1. barrier' \in [IDs -> BarrierType]
    BY <1>15, FieldTypes DEF AfterSwitch
  <2>2. barrier[o] \in BarrierType
    BY <1>1
  <2>3. sw' \in SwitchType /\ closer' \in [pc : {"none", "remove", "mark", "end"}, id : 0..MaxOutputs]
    BY <1>1, <1>3, <1>15, <2>2 DEF AfterSwitch, SwitchType, BarrierType
  <2>4. outputsLocker' \in BOOLEAN
    BY <1>15 DEF AfterSwitch
  <2>q. QED  BY <1>1, <1>2, <1>15, <2>1, <2>3, <2>4 DEF AfterSwitch, MuxTypeOK, SwitchType
<1>16. ASSUME NEW o \in IDs, Pass(o)
       PROVE  MuxTypeOK'
  <2>1. barrier' \in [IDs -> BarrierType]
    BY <1>16, FieldTypes DEF Pass
  <2>q. QED  BY <1>1, <1>2, <1>16, <2>1 DEF Pass, MuxTypeOK, SwitchType
<1>17. ASSUME NEW o \in IDs, Recreate(o)
       PROVE  MuxTypeOK'
  <2>1. output[o].config \in Keys
    BY <1>17 DEF Recreate, Known
  <2>2. Configures(output[o].config, props, OutputOfKey(output[o].config))
    BY <1>17, <2>1, ConfiguresIt DEF Recreate
  <2>3. output' \in [IDs -> OutputType] /\ outputsMap' \in [Keys -> 0..MaxOutputs] /\ lastID' \in 0..MaxOutputs
    BY <1>1, <2>1, <2>2, ConfiguredTypes
  <2>q. QED  BY <1>1, <1>2, <1>17, <2>3 DEF Recreate, MuxTypeOK, SwitchType
<1>18. CASE CloserStep
  <2>1. closer.id # Nobody
    BY <1>18 DEF CloserStep, RemovePush, BeginClose, EndClose, Known
  <2>2. closer.id \in IDs
    BY <1>1, <1>3, <2>1 DEF IDs, Nobody
  <2>3. output[closer.id] \in OutputType
    BY <1>1, <2>2
  <2>4. [output[closer.id] EXCEPT !.pushed = FALSE] \in OutputType /\ [output[closer.id] EXCEPT !.ended = TRUE] \in OutputType
    BY <2>3 DEF OutputType
  <2>5. output' \in [IDs -> OutputType]
    BY <1>1, <1>18, <2>2, <2>4, FieldTypes DEF CloserStep, RemovePush, BeginClose, EndClose
  <2>6. closer' \in [pc : {"none", "remove", "mark", "end"}, id : 0..MaxOutputs] /\ redo' \subseteq IDs
    BY <1>1, <1>3, <1>18, <2>2 DEF CloserStep, RemovePush, BeginClose, EndClose
  <2>7. outputsLocker' \in BOOLEAN
    BY <1>2, <1>18 DEF CloserStep, RemovePush, BeginClose, EndClose
  <2>q. QED  BY <1>1, <1>2, <1>18, <2>5, <2>6, <2>7 DEF CloserStep, RemovePush, BeginClose, EndClose, MuxTypeOK, SwitchType
<1>19. CASE FailureStep
  <2>1. failure.id # Nobody
    BY <1>19 DEF FailureStep, Forget, CloseFailed, EndFailed, Known
  <2>2. failure.id \in IDs
    BY <1>1, <1>3, <2>1 DEF IDs, Nobody
  <2>3. output[failure.id] \in OutputType
    BY <1>1, <2>2
  <2>4. [output[failure.id] EXCEPT !.ended = TRUE] \in OutputType
    BY <2>3 DEF OutputType
  <2>5. output' \in [IDs -> OutputType]
    BY <1>1, <1>19, <2>2, <2>4, FieldTypes DEF FailureStep, Forget, CloseFailed, EndFailed
  <2>6. failure' \in [pc : {"none", "forget", "mark", "end"}, id : 0..MaxOutputs]
    BY <1>1, <1>3, <1>19 DEF FailureStep, Forget, CloseFailed, EndFailed
  <2>7. outputsMap' \in [Keys -> 0..MaxOutputs]
    BY <1>1, <1>3, <1>19 DEF FailureStep, Forget, CloseFailed, EndFailed
  <2>q. QED  BY <1>1, <1>2, <1>19, <2>5, <2>6, <2>7 DEF FailureStep, Forget, CloseFailed, EndFailed, MuxTypeOK, SwitchType
<1>20. ASSUME NEW o \in IDs, OutputFails(o)
       PROVE  MuxTypeOK'
  <2>1. failure' \in [pc : {"none", "forget", "mark", "end"}, id : 0..MaxOutputs] /\ events' \in 0..MaxEvents
    BY <1>1, <1>3, <1>20 DEF OutputFails
  <2>q. QED  BY <1>1, <1>2, <1>20, <2>1 DEF OutputFails, MuxTypeOK, SwitchType
<1>21. CASE UNCHANGED mux
  BY <1>1, <1>2, <1>21 DEF mux, MuxTypeOK, SwitchType
<1>q. QED
  BY <1>4, <1>5, <1>6, <1>7, <1>8, <1>9, <1>10, <1>11, <1>12, <1>13, <1>14, <1>15, <1>16, <1>17, <1>18, <1>19, <1>20, <1>21
     DEF MuxNext, RequestStep, BarrierStep

----------------------------------------------------------------------------
(* At any time.                                                             *)

\* The parts that hold at any time hold at the start.
LEMMA MuxKnownInitially == MuxInit => Known /\ Mapped /\ Started
<1> SUFFICES ASSUME MuxInit PROVE Known /\ Mapped /\ Started
  OBVIOUS
<1>1. Made = {} /\ NobodyOrMade = {Nobody}
  BY DEF MuxInit, Made, NobodyOrMade, Nobody
<1>2. \A o \in IDs : barrier[o] = Idle
  BY DEF MuxInit
<1>3. Known
  BY <1>1, <1>2 DEF MuxInit, Known, Idle, NoRequest
<1>4. Mapped
  BY <1>1 DEF MuxInit, Mapped
<1>5. Started
  BY <1>2 DEF MuxInit, Started, Idle, NoRequest
<1>q. QED  BY <1>3, <1>4, <1>5

\* What a barrier does, to itself and to the others.
LEMMA BarrierMoves ==
  ASSUME MuxTypeOK, NEW o \in IDs, PushTo(o) \/ BarrierStep(o)
  PROVE  /\ UNCHANGED <<calm, output, outputsMap, lastID, props, sLocker, request, redo, failure>>
         /\ \A p \in IDs \ {o} : barrier'[p] = barrier[p]
         /\ barrier'[o].from \in {Nobody, barrier[o].from, sw.current}
         /\ barrier'[o].to \in {Nobody, barrier[o].to, sw.next}
         /\ barrier'[o].pc \in {"commit", "sync", "lock"} =>
              \/ barrier'[o].to = sw.next /\ barrier'[o].from = sw.current /\ MayCommit(o) /\ Look(o)
              \/ barrier'[o].to = barrier[o].to /\ barrier'[o].from = barrier[o].from
                   /\ barrier[o].pc \in {"commit", "sync", "lock"}
         /\ sw'.current = sw.current \/ (sw'.current = barrier[o].to /\ Commit(o))
         /\ sw'.next \in {sw.next, Nobody}
         /\ closer' = closer \/ (closer' = [pc |-> IF barrier[o].from = Nobody THEN "none" ELSE "remove", id |-> barrier[o].from] /\ AfterSwitch(o))
<1>1. barrier \in [IDs -> BarrierType] /\ sw \in SwitchType /\ barrier[o] \in BarrierType
  BY DEF MuxTypeOK, SwitchType
<1>2. \A pc : Go(o, pc) =>
        /\ \A p \in IDs \ {o} : barrier'[p] = barrier[p]
        /\ barrier'[o].pc = pc /\ barrier'[o].from = barrier[o].from /\ barrier'[o].to = barrier[o].to
  BY <1>1 DEF Go, BarrierType
<1>3. Leave(o) =>
        /\ \A p \in IDs \ {o} : barrier'[p] = barrier[p]
        /\ barrier'[o].pc = "idle" /\ barrier'[o].from = Nobody /\ barrier'[o].to = Nobody
  BY <1>1 DEF Leave, Idle
<1> USE DEF nodes, counted
<1>4. CASE PushTo(o)
  <2>1. CASE output[o].ended
    BY <1>4, <2>1 DEF PushTo
  <2>2. CASE ~output[o].ended
    <3>1. barrier' = [barrier EXCEPT ![o] = [Idle EXCEPT !.pc = "look", !.frame = input.frame]]
      BY <1>4, <2>2 DEF PushTo
    <3>2. /\ \A p \in IDs \ {o} : barrier'[p] = barrier[p]
          /\ barrier'[o].pc = "look" /\ barrier'[o].from = Nobody /\ barrier'[o].to = Nobody
      BY <1>1, <3>1 DEF Idle
    <3>q. QED  BY <1>4, <3>2 DEF PushTo
  <2>q. QED  BY <2>1, <2>2
<1>5. CASE Look(o)
  <2>1. CASE MayCommit(o)
    <3>1. barrier' = [barrier EXCEPT ![o] = [@ EXCEPT !.pc = "commit", !.from = sw.current, !.to = sw.next]]
      BY <1>5, <2>1 DEF Look
    <3>2. /\ \A p \in IDs \ {o} : barrier'[p] = barrier[p]
          /\ barrier'[o].pc = "commit" /\ barrier'[o].from = sw.current /\ barrier'[o].to = sw.next
      BY <1>1, <3>1 DEF BarrierType
    <3>q. QED  BY <1>5, <2>1, <3>2 DEF Look
  <2>2. CASE ~MayCommit(o)
    BY <1>2, <1>3, <1>5, <2>2 DEF Look
  <2>q. QED  BY <2>1, <2>2
<1>6. CASE Commit(o)
  <2>1. /\ \A p \in IDs \ {o} : barrier'[p] = barrier[p]
        /\ barrier'[o].from = barrier[o].from /\ barrier'[o].to = barrier[o].to
        /\ barrier[o].pc = "commit"
    BY <1>2, <1>6 DEF Commit, At
  <2>2. sw'.current \in {sw.current, barrier[o].to} /\ sw'.next \in {sw.next, Nobody}
    BY <1>1, <1>6 DEF Commit, SwitchType
  <2>q. QED  BY <1>6, <2>1, <2>2 DEF Commit
<1>7. CASE SyncOutput(o)
  <2>1. sw'.current = sw.current /\ sw'.next = sw.next
    BY <1>1, <1>7 DEF SyncOutput, SwitchType
  <2>q. QED  BY <1>2, <1>7, <2>1 DEF SyncOutput, At
<1>8. CASE AfterSwitch(o)
  <2>1. sw'.current = sw.current /\ sw'.next = sw.next
    BY <1>1, <1>8 DEF AfterSwitch, SwitchType
  <2>2. /\ \A p \in IDs \ {o} : barrier'[p] = barrier[p]
        /\ barrier'[o].from \in {Nobody, barrier[o].from} /\ barrier'[o].to \in {Nobody, barrier[o].to}
        /\ barrier'[o].pc \in {"pass", "idle"}
    BY <1>2, <1>3, <1>8 DEF AfterSwitch
  <2>q. QED  BY <1>8, <2>1, <2>2 DEF AfterSwitch
<1>9. CASE Pass(o)
  BY <1>3, <1>9 DEF Pass
<1>q. QED  BY <1>4, <1>5, <1>6, <1>7, <1>8, <1>9 DEF BarrierStep

\* What is known of an output that was configured, and of the others.
LEMMA ConfiguredKnown ==
  ASSUME MuxTypeOK, Mapped, NEW key \in Keys, NEW setting \in Keys, NEW o, Configures(key, setting, o)
  PROVE  /\ o \in IDs /\ o \in Made' /\ lastID <= lastID' /\ Made' = Made \cup {o}
         /\ \A p \in IDs \ {o} : output'[p] = output[p]
         /\ output'[o].key = key /\ output'[o].config = setting /\ ~output'[o].closed
         /\ outputsMap'[key] = o /\ \A k \in Keys \ {key} : outputsMap'[k] = outputsMap[k]
         /\ \/ o \in Made /\ o = outputsMap[key] /\ ~output[o].closed /\ (output'[o].pushed <=> output[o].pushed)
            \/ o \notin Made /\ (outputsMap[key] = Nobody \/ output[outputsMap[key]].closed) /\ output'[o].pushed
<1>1. /\ output \in [IDs -> OutputType] /\ outputsMap \in [Keys -> 0..MaxOutputs] /\ lastID \in Nat /\ MaxOutputs \in Nat
      /\ o \in IDs /\ outputsMap' = [outputsMap EXCEPT ![key] = o]
  BY MuxAssumption DEF MuxTypeOK, Configures
<1>2. outputsMap'[key] = o /\ \A k \in Keys \ {key} : outputsMap'[k] = outputsMap[k]
  BY <1>1
<1>3. CASE o = outputsMap[key] /\ o \in Made /\ lastID' = lastID /\ ~output[o].closed
           /\ output' = [output EXCEPT ![o] = [@ EXCEPT !.config = setting]]
  <2>1. output[o] \in OutputType /\ output[o].key = key
    BY <1>1, <1>3, MuxAssumption DEF Mapped, Made, Nobody
  <2>2. output'[o] = [output[o] EXCEPT !.config = setting] /\ \A p \in IDs \ {o} : output'[p] = output[p]
    BY <1>1, <1>3
  <2>3. output'[o].key = key /\ output'[o].config = setting
        /\ (output'[o].closed <=> output[o].closed) /\ (output'[o].pushed <=> output[o].pushed)
    BY <2>1, <2>2 DEF OutputType
  <2>4. Made' = Made /\ lastID <= lastID'
    BY <1>1, <1>3 DEF Made
  <2>q. QED  BY <1>1, <1>2, <1>3, <2>2, <2>3, <2>4
<1>4. CASE o = lastID + 1 /\ lastID' = o /\ (outputsMap[key] = Nobody \/ output[outputsMap[key]].closed)
           /\ output' = [output EXCEPT ![o] = [NewOutput(key) EXCEPT !.config = setting]]
  <2>1. output'[o] = [NewOutput(key) EXCEPT !.config = setting] /\ \A p \in IDs \ {o} : output'[p] = output[p]
    BY <1>1, <1>4
  <2>2. output'[o].key = key /\ output'[o].config = setting /\ ~output'[o].closed /\ output'[o].pushed
    BY <2>1 DEF NewOutput, NoOutput
  <2>3. Made' = Made \cup {o} /\ lastID <= lastID' /\ o \notin Made
    BY <1>1, <1>4 DEF Made
  <2>q. QED  BY <1>1, <1>2, <1>4, <2>1, <2>2, <2>3
<1>q. QED  BY <1>3, <1>4 DEF Configures

\* Recreate and a request configure for a key there is.
LEMMA WhoConfigures ==
  ASSUME MuxTypeOK, Known, Mapped, Started
  PROVE  /\ CreateRequested => request.key \in Keys /\ Configures(request.key, request.key, OutputOfKey(request.key))
         /\ \A o \in IDs : Recreate(o) =>
              /\ output[o].config \in Keys /\ props \in Keys
              /\ Configures(output[o].config, props, OutputOfKey(output[o].config))
<1>1. CreateRequested => request.key \in Keys
  BY DEF CreateRequested, Known
<1>2. ASSUME NEW o \in IDs, Recreate(o)
      PROVE  output[o].config \in Keys /\ props \in Keys
  BY <1>2 DEF Recreate, Known, Started, MuxTypeOK
<1>q. QED  BY <1>1, <1>2, ConfiguresIt DEF CreateRequested, Recreate

\* The closer and the handler of failures: of the outputs only flags change.
LEMMA CloserMoves ==
  ASSUME MuxTypeOK, Known, CloserStep
  PROVE  /\ UNCHANGED <<calm, sw, outputsMap, lastID, props, sLocker, barrier, request, failure>>
         /\ closer.id \in Made /\ closer.id \in IDs
         /\ \A p \in IDs \ {closer.id} : output'[p] = output[p]
         /\ output'[closer.id].key = output[closer.id].key /\ output'[closer.id].config = output[closer.id].config
         /\ output[closer.id].closed => output'[closer.id].closed
         /\ \/ closer.pc = "remove" /\ closer' = [pc |-> "mark", id |-> closer.id] /\ redo' = redo
                 /\ (output'[closer.id].closed <=> output[closer.id].closed)
            \/ closer.pc = "mark" /\ closer' = [pc |-> "end", id |-> closer.id] /\ redo' = redo
                 /\ output'[closer.id].closed /\ (output'[closer.id].pushed <=> output[closer.id].pushed)
            \/ closer.pc = "end" /\ closer' = [pc |-> "none", id |-> Nobody] /\ redo' = redo \cup {closer.id}
                 /\ (output'[closer.id].closed <=> output[closer.id].closed)
                 /\ (output'[closer.id].pushed <=> output[closer.id].pushed)
<1>1. /\ output \in [IDs -> OutputType] /\ lastID \in 0..MaxOutputs /\ MaxOutputs \in Nat
      /\ closer \in [pc : {"none", "remove", "mark", "end"}, id : 0..MaxOutputs]
  BY MuxAssumption DEF MuxTypeOK
<1>2. closer.id \in Made /\ closer.id \in IDs
  BY <1>1 DEF CloserStep, RemovePush, BeginClose, EndClose, Known, Made, NobodyOrMade, IDs, Nobody
<1>3. output[closer.id] \in OutputType
  BY <1>1, <1>2
<1> USE DEF nodes, counted
<1>4. CASE RemovePush
  <2>1. output' = [output EXCEPT ![closer.id] = [@ EXCEPT !.pushed = FALSE]] /\ closer' = [closer EXCEPT !.pc = "mark"]
    BY <1>4 DEF RemovePush
  <2>2. output'[closer.id] = [output[closer.id] EXCEPT !.pushed = FALSE] /\ \A p \in IDs \ {closer.id} : output'[p] = output[p]
    BY <1>1, <1>2, <2>1
  <2>3. output'[closer.id].key = output[closer.id].key /\ output'[closer.id].config = output[closer.id].config
        /\ (output'[closer.id].closed <=> output[closer.id].closed)
    BY <1>3, <2>2 DEF OutputType
  <2>4. closer' = [pc |-> "mark", id |-> closer.id]
    BY <1>1, <2>1
  <2>q. QED  BY <1>2, <1>4, <2>2, <2>3, <2>4 DEF RemovePush
<1>5. CASE BeginClose
  <2>1. output' = [output EXCEPT ![closer.id] = [@ EXCEPT !.closed = TRUE]] /\ closer' = [closer EXCEPT !.pc = "end"]
    BY <1>5 DEF BeginClose, MarkClosed
  <2>2. output'[closer.id] = [output[closer.id] EXCEPT !.closed = TRUE] /\ \A p \in IDs \ {closer.id} : output'[p] = output[p]
    BY <1>1, <1>2, <2>1
  <2>3. output'[closer.id].key = output[closer.id].key /\ output'[closer.id].config = output[closer.id].config
        /\ output'[closer.id].closed /\ (output'[closer.id].pushed <=> output[closer.id].pushed)
    BY <1>3, <2>2 DEF OutputType
  <2>4. closer' = [pc |-> "end", id |-> closer.id]
    BY <1>1, <2>1
  <2>q. QED  BY <1>2, <1>5, <2>2, <2>3, <2>4 DEF BeginClose
<1>6. CASE EndClose
  <2>1. output' = [output EXCEPT ![closer.id] = [@ EXCEPT !.ended = TRUE]]
    BY <1>6 DEF EndClose
  <2>2. output'[closer.id] = [output[closer.id] EXCEPT !.ended = TRUE] /\ \A p \in IDs \ {closer.id} : output'[p] = output[p]
    BY <1>1, <1>2, <2>1
  <2>3. output'[closer.id].key = output[closer.id].key /\ output'[closer.id].config = output[closer.id].config
        /\ (output'[closer.id].closed <=> output[closer.id].closed) /\ (output'[closer.id].pushed <=> output[closer.id].pushed)
    BY <1>3, <2>2 DEF OutputType
  <2>q. QED  BY <1>2, <1>6, <2>2, <2>3 DEF EndClose
<1>q. QED  BY <1>4, <1>5, <1>6 DEF CloserStep

\* So does the handler of failures.
LEMMA FailureMoves ==
  ASSUME MuxTypeOK, Known, FailureStep
  PROVE  /\ UNCHANGED <<calm, sw, lastID, props, sLocker, barrier, request, closer, redo>>
         /\ failure.id \in Made /\ failure.id \in IDs
         /\ \A p \in IDs \ {failure.id} : output'[p] = output[p]
         /\ output'[failure.id].key = output[failure.id].key /\ output'[failure.id].config = output[failure.id].config
         /\ output[failure.id].closed => output'[failure.id].closed
         /\ \/ failure.pc = "forget" /\ failure' = [pc |-> "mark", id |-> failure.id]
                 /\ \A k \in Keys : outputsMap'[k] = outputsMap[k] \/ (outputsMap[k] = failure.id /\ outputsMap'[k] = Nobody)
            \/ failure.pc = "mark" /\ failure' = [pc |-> "end", id |-> failure.id] /\ output'[failure.id].closed
                 /\ outputsMap' = outputsMap
            \/ failure.pc = "end" /\ failure' = [pc |-> "none", id |-> Nobody] /\ outputsMap' = outputsMap
<1>1. /\ output \in [IDs -> OutputType] /\ lastID \in 0..MaxOutputs /\ MaxOutputs \in Nat
      /\ failure \in [pc : {"none", "forget", "mark", "end"}, id : 0..MaxOutputs]
  BY MuxAssumption DEF MuxTypeOK
<1>2. failure.id \in Made /\ failure.id \in IDs
  BY <1>1 DEF FailureStep, Forget, CloseFailed, EndFailed, Known, Made, NobodyOrMade, IDs, Nobody
<1>3. output[failure.id] \in OutputType
  BY <1>1, <1>2
<1> USE DEF nodes, counted
<1>4. CASE Forget
  <2>1. failure' = [pc |-> "mark", id |-> failure.id]
    BY <1>1, <1>4 DEF Forget
  <2>2. \A k \in Keys : outputsMap'[k] = outputsMap[k] \/ (outputsMap[k] = failure.id /\ outputsMap'[k] = Nobody)
    BY <1>4 DEF Forget
  <2>q. QED  BY <1>2, <1>4, <2>1, <2>2 DEF Forget
<1>5. CASE CloseFailed
  <2>1. output' = [output EXCEPT ![failure.id] = [@ EXCEPT !.closed = TRUE]] /\ failure' = [failure EXCEPT !.pc = "end"]
    BY <1>5 DEF CloseFailed, MarkClosed
  <2>2. output'[failure.id] = [output[failure.id] EXCEPT !.closed = TRUE] /\ \A p \in IDs \ {failure.id} : output'[p] = output[p]
    BY <1>1, <1>2, <2>1
  <2>3. output'[failure.id].key = output[failure.id].key /\ output'[failure.id].config = output[failure.id].config
        /\ output'[failure.id].closed
    BY <1>3, <2>2 DEF OutputType
  <2>4. failure' = [pc |-> "end", id |-> failure.id]
    BY <1>1, <2>1
  <2>q. QED  BY <1>2, <1>5, <2>2, <2>3, <2>4 DEF CloseFailed
<1>6. CASE EndFailed
  <2>1. output' = [output EXCEPT ![failure.id] = [@ EXCEPT !.ended = TRUE]]
    BY <1>6 DEF EndFailed
  <2>2. output'[failure.id] = [output[failure.id] EXCEPT !.ended = TRUE] /\ \A p \in IDs \ {failure.id} : output'[p] = output[p]
    BY <1>1, <1>2, <2>1
  <2>3. output'[failure.id].key = output[failure.id].key /\ output'[failure.id].config = output[failure.id].config
        /\ (output'[failure.id].closed <=> output[failure.id].closed)
    BY <1>3, <2>2 DEF OutputType
  <2>q. QED  BY <1>2, <1>6, <2>2, <2>3 DEF EndFailed
<1>q. QED  BY <1>4, <1>5, <1>6 DEF FailureStep

\* A request that goes on: only its own fields, the switch and the locks.
LEMMA RequestMoves ==
  ASSUME MuxTypeOK, GetActiveVideoOutput \/ LoadSyncer \/ LoadSwitch \/ SetPreferred
  PROVE  /\ UNCHANGED <<calm, output, outputsMap, lastID, barrier, closer, redo, failure>>
         /\ sw'.current = sw.current /\ sw'.mutex = sw.mutex /\ sw'.synced = sw.synced
         /\ \/ sw' = sw /\ props' = props
            \/ SetPreferred /\ sw'.next \in {Nobody, request.id} /\ (props' = props \/ props' = request.key)
                 /\ (request.persistent => props' = request.key)
         /\ \/ request' = NoRequest
            \/ /\ ~SetPreferred /\ sw' = sw
               /\ request'.key = request.key /\ request'.persistent = request.persistent /\ request'.id = request.id
               /\ \/ request.pc = "active" /\ request'.pc = "create"
                  \/ request.pc = "synced" /\ request'.pc = "current"
                  \/ request.pc = "current" /\ request'.pc = "set" /\ sw.current # request.id
<1>1. sw \in SwitchType /\ request \in RequestType
  BY DEF MuxTypeOK, SwitchType
<1> USE DEF nodes, counted
<1>2. CASE GetActiveVideoOutput
  <2>1. request.pc = "active" /\ request' = [request EXCEPT !.pc = "create"]
    BY <1>2 DEF GetActiveVideoOutput
  <2>2. request'.pc = "create" /\ request'.key = request.key /\ request'.id = request.id /\ request'.persistent = request.persistent
    BY <1>1, <2>1 DEF RequestType
  <2>q. QED  BY <1>2, <2>1, <2>2 DEF GetActiveVideoOutput, SetPreferred
<1>3. CASE LoadSyncer
  <2>1. request.pc = "synced" /\ request' = [request EXCEPT !.pc = "current", !.synced = sw.synced]
    BY <1>3 DEF LoadSyncer
  <2>2. request'.pc = "current" /\ request'.key = request.key /\ request'.id = request.id /\ request'.persistent = request.persistent
    BY <1>1, <2>1 DEF RequestType
  <2>q. QED  BY <1>3, <2>1, <2>2 DEF LoadSyncer, SetPreferred
<1>4. CASE LoadSwitch
  <2>1. CASE request' = [request EXCEPT !.pc = "set"] /\ sw.current # request.id
    <3>1. request'.pc = "set" /\ request'.key = request.key /\ request'.id = request.id /\ request'.persistent = request.persistent
      BY <1>1, <2>1 DEF RequestType
    <3>q. QED  BY <1>4, <2>1, <3>1 DEF LoadSwitch, SetPreferred
  <2>q. QED  BY <1>4, <2>1 DEF LoadSwitch, Return
<1>5. CASE SetPreferred
  <2>1. sw'.current = sw.current /\ sw'.mutex = sw.mutex /\ sw'.synced = sw.synced /\ sw'.next = NextAfter(request.id)
    BY <1>1, <1>5 DEF SetPreferred, SwitchType
  <2>q. QED  BY <1>5, <2>1 DEF SetPreferred, Return, NextAfter
<1>q. QED  BY <1>2, <1>3, <1>4, <1>5

\* Whoever names an output still names one that was made.
LEMMA KnownStep ==
  ASSUME MuxTypeOK, Known, Mapped, Started, MuxNext \/ UNCHANGED mux
  PROVE  Known'
<1>1. lastID \in Nat /\ Nobody \in NobodyOrMade /\ Made \subseteq IDs /\ Made \subseteq NobodyOrMade
      /\ NobodyOrMade = Made \cup {Nobody} /\ Nobody \notin Made
  BY MuxAssumption DEF MuxTypeOK, Made, NobodyOrMade, Nobody, IDs
<1> USE DEF nodes, counted
<1>2. ASSUME NEW key \in Keys, NEW persistent \in BOOLEAN, Request(key, persistent)
      PROVE  Known'
  <2>1. request'.id = Nobody /\ request'.pc \in {"active", "create"} /\ request'.key = key
    BY <1>2 DEF Request
  <2>q. QED  BY <1>1, <1>2, <2>1 DEF Request, Known, Made, NobodyOrMade
<1>3. CASE GetActiveVideoOutput \/ LoadSyncer \/ LoadSwitch \/ SetPreferred
  <2>1. SetPreferred => request.id # Nobody
    BY DEF SetPreferred, Known
  <2>2. request'.id \in NobodyOrMade /\ sw'.next \in NobodyOrMade
    BY <1>1, <1>3, RequestMoves DEF Known, NoRequest
  <2>3. (request'.pc \in {"synced", "current", "set"} => request'.id # Nobody) /\ (request'.pc # "idle" => request'.key \in Keys)
    BY <1>3, RequestMoves DEF Known, NoRequest
  <2>q. QED  BY <1>3, <2>2, <2>3, RequestMoves DEF Known, Made, NobodyOrMade
<1>4. CASE CreateRequested
  <2> DEFINE o == OutputOfKey(request.key)
  <2>1. request.key \in Keys /\ Configures(request.key, request.key, o)
    BY <1>4, WhoConfigures
  <2> HIDE DEF o
  <2>2. o \in Made' /\ Made' = Made \cup {o} /\ (\A p \in IDs \ {o} : output'[p] = output[p])
        /\ lastID <= lastID' /\ output'[o].key \in Keys /\ output'[o].config \in Keys
    BY <2>1, ConfiguredKnown
  <2>3. request' = [request EXCEPT !.pc = "synced", !.id = o] /\ request \in RequestType
    BY <1>4 DEF CreateRequested, o, MuxTypeOK
  <2>4. request'.pc = "synced" /\ request'.id = o /\ request'.key = request.key
    BY <2>3 DEF RequestType
  <2>5. NobodyOrMade' = Made' \cup {Nobody} /\ Nobody \notin Made'
    BY <1>1, <2>1, MuxAssumption DEF Configures, Made, NobodyOrMade, Nobody
  <2>6. \A p \in Made' : output'[p].key \in Keys /\ output'[p].config \in Keys
    <3>1. \A p \in Made : p \in IDs /\ output[p].key \in Keys /\ output[p].config \in Keys
      BY <1>1 DEF Known
    <3> SUFFICES ASSUME NEW p \in Made' PROVE output'[p].key \in Keys /\ output'[p].config \in Keys
      OBVIOUS
    <3>2. p = o \/ (p \in Made /\ output'[p] = output[p])
      BY <1>1, <2>2
    <3>3. CASE p = o
      BY <2>2, <3>3
    <3>4. CASE p \in Made /\ output'[p] = output[p]
      BY <3>1, <3>4
    <3>q. QED  BY <3>2, <3>3, <3>4
  <2>7. NobodyOrMade \subseteq NobodyOrMade' /\ Made \subseteq Made'
    BY <1>1, <2>2, <2>5
  <2>8. o \in NobodyOrMade' /\ o # Nobody
    BY <2>2, <2>5
  <2>q. QED  BY <1>4, <2>1, <2>4, <2>6, <2>7, <2>8 DEF CreateRequested, Known
<1>5. ASSUME NEW c \in IDs, Recreate(c)
      PROVE  Known'
  <2> DEFINE o == OutputOfKey(output[c].config)
  <2>1. output[c].config \in Keys /\ props \in Keys /\ Configures(output[c].config, props, o)
    BY <1>5, WhoConfigures
  <2> HIDE DEF o
  <2>2. o \in Made' /\ Made' = Made \cup {o} /\ (\A p \in IDs \ {o} : output'[p] = output[p])
        /\ lastID <= lastID' /\ output'[o].key \in Keys /\ output'[o].config \in Keys
    BY <2>1, ConfiguredKnown
  <2>5. NobodyOrMade' = Made' \cup {Nobody} /\ Nobody \notin Made'
    BY <1>1, <2>1, MuxAssumption DEF Configures, Made, NobodyOrMade, Nobody
  <2>6. \A p \in Made' : output'[p].key \in Keys /\ output'[p].config \in Keys
    <3>1. \A p \in Made : p \in IDs /\ output[p].key \in Keys /\ output[p].config \in Keys
      BY <1>1 DEF Known
    <3> SUFFICES ASSUME NEW p \in Made' PROVE output'[p].key \in Keys /\ output'[p].config \in Keys
      OBVIOUS
    <3>2. p = o \/ (p \in Made /\ output'[p] = output[p])
      BY <1>1, <2>2
    <3>3. CASE p = o
      BY <2>2, <3>3
    <3>4. CASE p \in Made /\ output'[p] = output[p]
      BY <3>1, <3>4
    <3>q. QED  BY <3>2, <3>3, <3>4
  <2>7. NobodyOrMade \subseteq NobodyOrMade' /\ Made \subseteq Made'
    BY <1>1, <2>2, <2>5
  <2>q. QED  BY <1>5, <2>6, <2>7 DEF Recreate, Known
<1>6. ASSUME NEW o \in IDs, PushTo(o) \/ BarrierStep(o)
      PROVE  Known'
  <2>1. /\ UNCHANGED <<calm, output, outputsMap, lastID, props, sLocker, request, redo, failure>>
        /\ \A p \in IDs \ {o} : barrier'[p] = barrier[p]
        /\ barrier'[o].from \in {Nobody, barrier[o].from, sw.current}
        /\ barrier'[o].to \in {Nobody, barrier[o].to, sw.next}
        /\ sw'.current \in {sw.current, barrier[o].to} /\ sw'.next \in {sw.next, Nobody}
        /\ closer' = closer \/ closer' = [pc |-> IF barrier[o].from = Nobody THEN "none" ELSE "remove", id |-> barrier[o].from]
    BY <1>6, BarrierMoves
  <2>2. \A p \in IDs : barrier'[p].from \in NobodyOrMade /\ barrier'[p].to \in NobodyOrMade
    BY <1>1, <2>1 DEF Known
  <2>3. closer'.id \in NobodyOrMade /\ (closer'.pc = "none" <=> closer'.id = Nobody)
    BY <1>1, <2>1 DEF Known
  <2>4. sw'.current \in NobodyOrMade /\ sw'.next \in NobodyOrMade
    BY <1>1, <2>1 DEF Known
  <2>q. QED  BY <2>1, <2>2, <2>3, <2>4 DEF Known, Made, NobodyOrMade
<1>7. CASE CloserStep
  <2>1. \A p \in Made : output'[p].key = output[p].key /\ output'[p].config = output[p].config
    BY <1>1, <1>7, CloserMoves
  <2>2. redo' \subseteq Made /\ closer'.id \in NobodyOrMade /\ (closer'.pc = "none" <=> closer'.id = Nobody)
    BY <1>1, <1>7, CloserMoves DEF Known
  <2>3. UNCHANGED <<sw, lastID, barrier, request, failure>>
    BY <1>7, CloserMoves
  <2>q. QED  BY <2>1, <2>2, <2>3 DEF Known, Made, NobodyOrMade
<1>8. CASE FailureStep
  <2>1. \A p \in Made : output'[p].key = output[p].key /\ output'[p].config = output[p].config
    BY <1>1, <1>8, FailureMoves
  <2>2. failure'.id \in NobodyOrMade /\ (failure'.pc = "none" <=> failure'.id = Nobody)
    BY <1>1, <1>8, FailureMoves DEF Known
  <2>3. UNCHANGED <<sw, lastID, barrier, request, closer, redo>>
    BY <1>8, FailureMoves
  <2>q. QED  BY <2>1, <2>2, <2>3 DEF Known, Made, NobodyOrMade
<1>9. ASSUME NEW o \in IDs, OutputFails(o)
      PROVE  Known'
  <2>1. o \in Made /\ o # Nobody
    BY <1>1, <1>9, MuxAssumption DEF OutputFails, IDs, Made, Nobody
  <2>2. failure'.id = o /\ failure'.pc = "forget"
    BY <1>9 DEF OutputFails
  <2>q. QED  BY <1>1, <1>9, <2>1, <2>2 DEF OutputFails, Known, Made, NobodyOrMade
<1>10. CASE UNCHANGED mux \/ \E frame \in Frames : Arrive(frame)
  <2>1. UNCHANGED <<output, lastID, sw, request, closer, failure, redo, barrier>>
    BY <1>10 DEF mux, Arrive
  <2>q. QED  BY <2>1 DEF Known, Made, NobodyOrMade
<1>q. QED
  BY <1>2, <1>3, <1>4, <1>5, <1>6, <1>7, <1>8, <1>9, <1>10 DEF MuxNext, RequestStep

\* OutputsMap keeps every open output, under its key.
LEMMA MappedStep ==
  ASSUME MuxTypeOK, Known, Mapped, Started, MuxNext \/ UNCHANGED mux
  PROVE  Mapped'
<1>1. lastID \in Nat /\ Made \subseteq IDs /\ Nobody \notin Made /\ outputsMap \in [Keys -> 0..MaxOutputs]
  BY MuxAssumption DEF MuxTypeOK, Made, Nobody, IDs
<1> USE DEF nodes, counted
<1>2. CASE UNCHANGED <<output, outputsMap, lastID, failure>>
  BY <1>2 DEF Mapped, Made
<1>3. ASSUME NEW key \in Keys, NEW setting \in Keys, NEW o, Configures(key, setting, o), failure' = failure
      PROVE  Mapped'
  <2>1. /\ o \in IDs /\ o \in Made' /\ Made' = Made \cup {o}
        /\ \A p \in IDs \ {o} : output'[p] = output[p]
        /\ output'[o].key = key /\ ~output'[o].closed
        /\ outputsMap'[key] = o /\ \A k \in Keys \ {key} : outputsMap'[k] = outputsMap[k]
        /\ \/ o \in Made /\ o = outputsMap[key] /\ ~output[o].closed
           \/ o \notin Made /\ (outputsMap[key] = Nobody \/ output[outputsMap[key]].closed)
    BY <1>3, ConfiguredKnown
  <2>2. \A k \in Keys : outputsMap'[k] # Nobody => outputsMap'[k] \in Made' /\ output'[outputsMap'[k]].key = k
    BY <1>1, <2>1 DEF Mapped
  <2>3. ASSUME NEW p \in Made', ~output'[p].closed, failure'.id # p
        PROVE  outputsMap'[output'[p].key] = p
    <3>1. CASE p = o
      BY <2>1, <3>1
    <3>2. CASE p # o
      <4>1. p \in Made /\ output'[p] = output[p] /\ ~output[p].closed /\ failure.id # p
        BY <1>1, <1>3, <2>1, <2>3, <3>2
      <4>2. outputsMap[output[p].key] = p /\ output[p].key \in Keys
        BY <4>1 DEF Mapped, Known
      <4>3. output[p].key # key
        BY <1>1, <2>1, <4>1, <4>2, <3>2
      <4>q. QED  BY <2>1, <4>1, <4>2, <4>3
    <3>q. QED  BY <3>1, <3>2
  <2>4. failure'.pc = "end" => output'[failure'.id].closed
    <3>1. failure.pc = "end" => failure.id \in Made /\ output[failure.id].closed
      BY <1>1 DEF Mapped, Known, NobodyOrMade, Made, Nobody
    <3>q. QED  BY <1>1, <1>3, <2>1, <3>1
  <2>q. QED  BY <2>2, <2>3, <2>4 DEF Mapped
<1>4. CASE CreateRequested
  BY <1>3, <1>4, WhoConfigures DEF CreateRequested
<1>5. ASSUME NEW c \in IDs, Recreate(c)
      PROVE  Mapped'
  BY <1>3, <1>5, WhoConfigures DEF Recreate
<1>6. CASE CloserStep
  <2>1. /\ UNCHANGED <<outputsMap, lastID, failure>>
        /\ \A p \in Made : output'[p].key = output[p].key /\ (output[p].closed => output'[p].closed)
    BY <1>1, <1>6, CloserMoves
  <2>2. failure.pc = "end" => failure.id \in Made
    BY <1>1 DEF Known, NobodyOrMade, Made, Nobody
  <2>q. QED  BY <1>1, <2>1, <2>2 DEF Mapped, Made
<1>7. CASE FailureStep
  <2>1. /\ UNCHANGED lastID /\ failure.id \in Made
        /\ \A p \in Made : output'[p].key = output[p].key /\ (output[p].closed => output'[p].closed)
    BY <1>1, <1>7, FailureMoves
  <2>2. CASE failure' = [pc |-> "mark", id |-> failure.id]
             /\ \A k \in Keys : outputsMap'[k] = outputsMap[k] \/ (outputsMap[k] = failure.id /\ outputsMap'[k] = Nobody)
    <3>1. \A k \in Keys : outputsMap'[k] # Nobody => outputsMap'[k] \in Made' /\ output'[outputsMap'[k]].key = k
      BY <1>1, <2>1, <2>2 DEF Mapped, Made
    <3>2. \A p \in Made' : ~output'[p].closed /\ failure'.id # p => outputsMap'[output'[p].key] = p
      BY <1>1, <2>1, <2>2 DEF Mapped, Made, Known
    <3>q. QED  BY <2>2, <3>1, <3>2 DEF Mapped
  <2>3. CASE failure' = [pc |-> "end", id |-> failure.id] /\ output'[failure.id].closed /\ outputsMap' = outputsMap
    BY <1>1, <2>1, <2>3 DEF Mapped, Made
  <2>4. CASE failure.pc = "end" /\ failure' = [pc |-> "none", id |-> Nobody] /\ outputsMap' = outputsMap
    <3>1. output'[failure.id].closed
      BY <2>1, <2>4 DEF Mapped
    <3>q. QED  BY <1>1, <2>1, <2>4, <3>1 DEF Mapped, Made
  <2>q. QED  BY <1>7, <2>2, <2>3, <2>4, FailureMoves
<1>8. ASSUME NEW o \in IDs, OutputFails(o)
      PROVE  Mapped'
  <2>1. failure.id = Nobody /\ failure'.pc = "forget" /\ UNCHANGED <<output, outputsMap, lastID>>
    BY <1>8 DEF OutputFails, Known
  <2>q. QED  BY <1>1, <2>1 DEF Mapped, Made
<1>9. ASSUME NEW o \in IDs, PushTo(o) \/ BarrierStep(o)
      PROVE  Mapped'
  BY <1>2, <1>9, BarrierMoves
<1>10. CASE GetActiveVideoOutput \/ LoadSyncer \/ LoadSwitch \/ SetPreferred
  BY <1>2, <1>10, RequestMoves
<1>11. CASE UNCHANGED mux \/ (\E frame \in Frames : Arrive(frame)) \/ \E key \in Keys, persistent \in BOOLEAN : Request(key, persistent)
  BY <1>2, <1>11 DEF mux, Arrive, Request
<1>q. QED
  BY <1>4, <1>5, <1>6, <1>7, <1>8, <1>9, <1>10, <1>11 DEF MuxNext, RequestStep

\* Nothing is switched before the first persistent request has set its key.
LEMMA StartedStep ==
  ASSUME MuxTypeOK, Known, Mapped, Started, MuxNext \/ UNCHANGED mux
  PROVE  Started'
<1> USE DEF nodes, counted
<1>1. CASE UNCHANGED <<props, request, sw, closer, redo, barrier>>
  BY <1>1 DEF Started
<1>2. ASSUME NEW key \in Keys, NEW persistent \in BOOLEAN, Request(key, persistent)
      PROVE  Started'
  <2>1. request'.persistent = persistent /\ (props = NoKey => persistent)
    BY <1>2 DEF Request
  <2>q. QED  BY <1>2, <2>1 DEF Request, Started
<1>3. CASE GetActiveVideoOutput \/ LoadSyncer \/ LoadSwitch \/ SetPreferred
  <2>1. UNCHANGED <<barrier, closer, redo>> /\ sw'.current = sw.current
    BY <1>3, RequestMoves
  <2>2. CASE sw' = sw /\ props' = props
    <3>1. request'.pc # "idle" => request.pc # "idle" /\ request'.persistent = request.persistent
      BY <1>3, RequestMoves DEF NoRequest
    <3>q. QED  BY <2>1, <2>2, <3>1 DEF Started
  <2>3. CASE SetPreferred /\ (props' = props \/ props' = request.key) /\ (request.persistent => props' = request.key)
    <3>1. request.pc = "set" /\ request.key \in Keys
      BY <2>3 DEF SetPreferred, Known
    <3>2. props' # NoKey
      BY <2>3, <3>1, MuxAssumption DEF Started
    <3>q. QED  BY <2>1, <3>2 DEF Started
  <2>q. QED  BY <1>3, <2>2, <2>3, RequestMoves
<1>4. CASE CreateRequested
  <2>1. request'.pc = "synced" /\ request.pc = "create" /\ request'.persistent = request.persistent
    BY <1>4 DEF CreateRequested, MuxTypeOK, RequestType
  <2>q. QED  BY <1>4, <2>1 DEF CreateRequested, Started
<1>5. ASSUME NEW c \in IDs, Recreate(c)
      PROVE  Started'
  BY <1>5 DEF Recreate, Started
<1>6. ASSUME NEW o \in IDs, PushTo(o) \/ BarrierStep(o)
      PROVE  Started'
  <2>1. /\ UNCHANGED <<props, request, redo>>
        /\ \A p \in IDs \ {o} : barrier'[p] = barrier[p]
    BY <1>6, BarrierMoves
  <2>2. barrier'[o].pc \in {"commit", "sync", "lock"} =>
          (barrier'[o].to = sw.next /\ MayCommit(o)) \/ (barrier'[o].to = barrier[o].to /\ barrier[o].pc \in {"commit", "sync", "lock"})
    BY <1>6, BarrierMoves
  <2>3. MayCommit(o) => sw.next # Nobody
    BY DEF MayCommit
  <2>4. \A p \in IDs : barrier'[p].pc \in {"commit", "sync", "lock"} => barrier'[p].to # Nobody
    BY <2>1, <2>2, <2>3 DEF Started
  <2>5. CASE props = NoKey
    <3>1. \A p \in IDs : barrier[p].pc \notin {"commit", "sync", "lock"} /\ sw.next = Nobody /\ sw.current = Nobody
          /\ closer.pc = "none" /\ redo = {}
      BY <2>5 DEF Started
    <3>2. ~Commit(o) /\ ~AfterSwitch(o)
      BY <3>1 DEF Commit, AfterSwitch, At
    <3>3. sw'.current = Nobody /\ sw'.next = Nobody /\ closer' = closer
      BY <1>6, <3>1, <3>2, BarrierMoves
    <3>4. \A p \in IDs : barrier'[p].pc \notin {"commit", "sync", "lock"}
      BY <2>1, <2>2, <2>3, <3>1
    <3>q. QED  BY <2>1, <2>4, <2>5, <3>1, <3>3, <3>4 DEF Started
  <2>q. QED  BY <2>1, <2>4, <2>5 DEF Started
<1>7. CASE CloserStep
  <2>1. UNCHANGED <<props, request, sw, barrier>> /\ (closer.pc # "none")
    BY <1>7, CloserMoves
  <2>2. props # NoKey
    BY <2>1 DEF Started
  <2>q. QED  BY <2>1, <2>2 DEF Started
<1>8. CASE FailureStep
  BY <1>1, <1>8, FailureMoves
<1>9. CASE (\E o \in IDs : OutputFails(o)) \/ UNCHANGED mux \/ (\E frame \in Frames : Arrive(frame))
  BY <1>1, <1>9 DEF OutputFails, mux, Arrive
<1>q. QED
  BY <1>2, <1>3, <1>4, <1>5, <1>6, <1>7, <1>8, <1>9 DEF MuxNext, RequestStep

----------------------------------------------------------------------------
(* While calm.                                                              *)

Calm == MuxTypeOK /\ Known /\ Mapped /\ Started /\ CalmKeeps

\* An output stays good, and closed, while nobody touches outputs.
LEMMA SameOutputs ==
  ASSUME UNCHANGED <<output, outputsMap, lastID>>
  PROVE  \A o : (Configured(o)' <=> Configured(o)) /\ (Good(o)' <=> Good(o))
BY DEF Configured, Good, Made

\* What is left out of a step that is about requests only.
LEMMA SameRest ==
  ASSUME Calm, UNCHANGED <<output, outputsMap, lastID, closer, redo, barrier, failure>>,
         sw'.current = sw.current, sw'.mutex = sw.mutex, sw'.synced = sw.synced
  PROVE  failure'.pc = "none" /\ Telling' /\ Replaced' /\ Kept' /\ \A id : Left(id) => Left(id)'
<1>1. \A o : (Configured(o)' <=> Configured(o)) /\ (Good(o)' <=> Good(o))
  BY SameOutputs
<1>2. Telling'
  BY <1>1 DEF Calm, CalmKeeps, Telling
<1>3. Replaced'
  BY <1>1 DEF Calm, CalmKeeps, Replaced
<1>4. Kept'
  BY DEF Calm, CalmKeeps, Kept, Made
<1>5. \A id : Left(id) => Left(id)'
  BY DEF Left
<1>q. QED  BY <1>2, <1>3, <1>4, <1>5 DEF Calm, CalmKeeps

\* A request begins when all has ended, and goes on alone.
LEMMA CalmRequest ==
  ASSUME Calm, calm,
         (\E key \in Keys, persistent \in BOOLEAN : Request(key, persistent))
           \/ GetActiveVideoOutput \/ LoadSyncer \/ LoadSwitch
  PROVE  CalmKeeps'
<1>1. /\ UNCHANGED <<output, outputsMap, lastID, closer, redo, barrier, failure, sw>>
      /\ request'.pc \in {"synced", "current", "set"} => request.pc \in {"synced", "current"} /\ request'.id = request.id
      /\ request'.pc = "set" => sw.current # request.id
      /\ request'.pc # "idle" => request.pc # "idle" \/ Settled
  <2>1. CASE \E key \in Keys, persistent \in BOOLEAN : Request(key, persistent)
    BY <2>1 DEF Request, nodes
  <2>2. CASE GetActiveVideoOutput \/ LoadSyncer \/ LoadSwitch
    <3>1. ~SetPreferred
      BY <2>2 DEF GetActiveVideoOutput, LoadSyncer, LoadSwitch, SetPreferred
    <3>2. UNCHANGED <<output, outputsMap, lastID, closer, redo, barrier, failure, sw>>
      BY <2>2, <3>1, RequestMoves DEF Calm
    <3>3. MuxTypeOK
      BY DEF Calm
    <3>4. \/ request' = NoRequest
          \/ /\ request'.id = request.id
             /\ \/ request.pc = "active" /\ request'.pc = "create"
                \/ request.pc = "synced" /\ request'.pc = "current"
                \/ request.pc = "current" /\ request'.pc = "set" /\ sw.current # request.id
      BY <2>2, <3>3, RequestMoves
    <3>q. QED  BY <3>2, <3>4 DEF NoRequest
  <2>q. QED  BY <2>1, <2>2
<1>2. \A o : (Configured(o)' <=> Configured(o)) /\ (Good(o)' <=> Good(o))
  BY <1>1, SameOutputs
<1>3. OnePhase'
  BY <1>1 DEF Calm, CalmKeeps, OnePhase, Settled
<1>4. RequestGood'
  BY <1>1, <1>2 DEF Calm, CalmKeeps, RequestGood
<1>5. Switched'
  BY <1>1, <1>2 DEF Calm, CalmKeeps, Switched
<1>6. Committed'
  <2>1. \A id : Left(id) => Left(id)'
    BY <1>1, SameRest
  <2>q. QED  BY <1>1, <2>1 DEF Calm, CalmKeeps, Committed
<1>q. QED  BY <1>1, <1>3, <1>4, <1>5, <1>6, SameRest DEF CalmKeeps

\* No barrier that waits for a commit is right while nothing is requested.
LEMMA NothingToCommit ==
  ASSUME Calm, sw.next = Nobody
  PROVE  \A o \in IDs : barrier[o].pc = "commit" => Left(barrier[o].from)
BY DEF Calm, CalmKeeps, Committed, Started

\* The preferred output is set.
LEMMA CalmPrefer ==
  ASSUME Calm, SetPreferred
  PROVE  CalmKeeps'
<1>1. request.pc = "set"
  BY DEF SetPreferred
<1>2. /\ UNCHANGED <<output, outputsMap, lastID, barrier, closer, redo, failure>>
      /\ sw'.current = sw.current /\ sw'.mutex = sw.mutex /\ sw'.synced = sw.synced
      /\ sw'.next \in {sw.next, Nobody, request.id} /\ request' = NoRequest
  BY RequestMoves DEF Calm
<1>3. sw.next = Nobody /\ sw.mutex = Nobody /\ closer.pc = "none" /\ redo = {}
  BY <1>1 DEF Calm, CalmKeeps, OnePhase
<1>4. \A o : (Configured(o)' <=> Configured(o)) /\ (Good(o)' <=> Good(o))
  BY <1>2, SameOutputs
<1>5. OnePhase' /\ RequestGood'
  BY <1>2, <1>3 DEF OnePhase, RequestGood, NoRequest
<1>6. Switched'
  <2>1. Good(request.id) /\ request.id # sw.current
    BY <1>1 DEF Calm, CalmKeeps, RequestGood
  <2>q. QED  BY <1>2, <1>3, <1>4, <2>1 DEF Calm, CalmKeeps, Switched
<1>7. Committed'
  <2>1. \A id : Left(id) => Left(id)'
    BY <1>2, SameRest
  <2>q. QED  BY <1>2, <1>3, <2>1, NothingToCommit DEF Committed
<1>q. QED  BY <1>2, <1>5, <1>6, <1>7, SameRest DEF CalmKeeps

\* A barrier that neither commits nor tells: it has no part in a switch, or it
\* begins one that is right, or finds that it has come too late.
LEMMA CalmPackets ==
  ASSUME Calm, NEW o \in IDs, UNCHANGED <<output, outputsMap, lastID, sw, request, closer, redo, failure>>,
         \A p \in IDs \ {o} : barrier'[p] = barrier[p],
         barrier[o].pc \notin {"sync", "lock"}, barrier'[o].pc \notin {"sync", "lock"},
         barrier'[o].pc = "commit" => barrier'[o].from = sw.current /\ barrier'[o].to = sw.next
  PROVE  CalmKeeps'
<1>1. \A p : (Configured(p)' <=> Configured(p)) /\ (Good(p)' <=> Good(p))
  BY SameOutputs
<1>2. sw.mutex # o
  BY DEF Calm, CalmKeeps, Telling
<1>3. OnePhase' /\ RequestGood' /\ Switched' /\ Replaced'
  BY <1>1 DEF Calm, CalmKeeps, OnePhase, RequestGood, Switched, Replaced
<1>4. Telling'
  <2>1. \A p \in IDs : barrier'[p].pc \in {"sync", "lock"} <=> sw'.mutex = p
    BY <1>2 DEF Calm, CalmKeeps, Telling
  <2>2. \A p \in IDs : sw'.mutex = p => barrier'[p] = barrier[p]
    BY <1>2
  <2>q. QED  BY <1>1, <2>1, <2>2 DEF Calm, CalmKeeps, Telling
<1>5. \A id : Left(id) => Left(id)'
  BY <1>2 DEF Left
<1>6. Committed'
  BY <1>5 DEF Calm, CalmKeeps, Committed
<1>7. Kept'
  BY DEF Calm, CalmKeeps, Kept, Made
<1>q. QED  BY <1>3, <1>4, <1>6, <1>7 DEF Calm, CalmKeeps

\* What was left is not active.
LEMMA LeftIsNotActive ==
  ASSUME Calm, NEW id, Left(id), sw.mutex = Nobody
  PROVE  id # sw.current
<1>1. \A o \in IDs : o # Nobody
  BY MuxAssumption DEF IDs, Nobody
<1>2. CASE id = Nobody /\ sw.current # Nobody
  BY <1>2
<1>3. CASE id # Nobody /\ closer.id = id
  BY <1>3 DEF Calm, CalmKeeps, Replaced, Known
<1>4. CASE id # Nobody /\ output[id].closed
  BY <1>4 DEF Calm, CalmKeeps, Switched, Good
<1>q. QED  BY <1>1, <1>2, <1>3, <1>4 DEF Left

\* A barrier commits: the request is carried out, or was before.
LEMMA CalmCommit ==
  ASSUME Calm, NEW o \in IDs, Commit(o)
  PROVE  CalmKeeps'
<1>1. /\ UNCHANGED <<output, outputsMap, lastID, request, closer, redo, failure>>
      /\ \A p \in IDs \ {o} : barrier'[p] = barrier[p]
      /\ barrier[o].pc = "commit" /\ sw.mutex = Nobody /\ o # Nobody
  <2>1. \A p \in IDs \ {o} : barrier'[p] = barrier[p]
    BY BarrierMoves DEF Calm, BarrierStep
  <2>q. QED  BY <2>1, MuxAssumption DEF Commit, At, IDs, Nobody
<1>2. barrier \in [IDs -> BarrierType] /\ barrier[o] \in BarrierType /\ sw \in SwitchType
  BY DEF Calm, MuxTypeOK, SwitchType
<1>3. \A p : (Configured(p)' <=> Configured(p)) /\ (Good(p)' <=> Good(p))
  BY <1>1, SameOutputs
<1>4. CASE sw.current # barrier[o].from
  <2>1. UNCHANGED sw /\ Go(o, "look")
    BY <1>4 DEF Commit
  <2>2. barrier'[o].pc = "look"
    BY <1>2, <2>1 DEF Go, BarrierType
  <2>q. QED  BY <1>1, <2>1, <2>2, CalmPackets
<1>5. CASE sw.current = barrier[o].from
  <2>1. ~Left(barrier[o].from)
    BY <1>1, <1>5, LeftIsNotActive
  <2>2. sw.next = barrier[o].to /\ sw.next # Nobody
    BY <1>1, <2>1 DEF Calm, CalmKeeps, Committed, Started
  <2>3. sw' = [sw EXCEPT !.current = sw.next, !.next = Nobody, !.mutex = o] /\ Go(o, "sync")
    BY <1>5, <2>2 DEF Commit
  <2>4. sw'.current = sw.next /\ sw'.next = Nobody /\ sw'.mutex = o
    BY <1>2, <2>3 DEF SwitchType
  <2>5. barrier'[o].pc = "sync" /\ barrier'[o].from = sw.current /\ barrier'[o].to = sw.next
    BY <1>2, <1>5, <2>2, <2>3 DEF Go, BarrierType
  <2>6. request.pc = "idle" /\ closer.pc = "none" /\ redo = {} /\ Good(sw.next) /\ sw.next # sw.current
        /\ (sw.current # Nobody => Good(sw.current))
    BY <2>2 DEF Calm, CalmKeeps, OnePhase, Switched
  <2>7. OnePhase' /\ RequestGood' /\ Switched'
    BY <1>1, <1>3, <2>4, <2>6 DEF OnePhase, RequestGood, Switched
  <2>8. Telling'
    <3>1. \A p \in IDs \ {o} : barrier'[p].pc \notin {"sync", "lock"}
      BY <1>1 DEF Calm, CalmKeeps, Telling, IDs, Nobody
    <3>q. QED  BY <1>1, <1>3, <2>4, <2>5, <2>6, <3>1 DEF Telling
  <2>9. Committed'
    <3>1. ASSUME NEW p \in IDs, NEW id, barrier'[p].pc = "commit", barrier'[p].from = id
          PROVE  Left(id)'
      <4>1. p # o /\ barrier'[p] = barrier[p] /\ barrier[p].from = id
        BY <1>1, <2>5, <3>1
      <4>2. CASE id = sw.current
        BY <2>4, <2>5, <4>1, <4>2 DEF Left
      <4>3. CASE Left(id)
        <5>1. ~\E q \in IDs : sw.mutex = q
          BY <1>1, MuxAssumption DEF IDs, Nobody
        <5>q. QED  BY <1>1, <2>2, <2>4, <4>1, <4>3, <5>1 DEF Left
      <4>q. QED  BY <3>1, <4>1, <4>2, <4>3 DEF Calm, CalmKeeps, Committed
    <3>q. QED  BY <3>1 DEF Committed
  <2>10. Replaced' /\ Kept'
    BY <1>1, <1>3, <2>6 DEF Calm, CalmKeeps, Replaced, Kept, Made
  <2>q. QED  BY <1>1, <2>7, <2>8, <2>9, <2>10 DEF Calm, CalmKeeps
<1>q. QED  BY <1>4, <1>5

\* The syncer follows.
LEMMA CalmSync ==
  ASSUME Calm, NEW o \in IDs, SyncOutput(o)
  PROVE  CalmKeeps'
<1>1. /\ UNCHANGED <<output, outputsMap, lastID, request, closer, redo, failure>>
      /\ \A p \in IDs \ {o} : barrier'[p] = barrier[p]
      /\ barrier[o].pc = "sync"
  BY BarrierMoves DEF Calm, BarrierStep, SyncOutput, At
<1>2. barrier \in [IDs -> BarrierType] /\ barrier[o] \in BarrierType /\ sw \in SwitchType
  BY DEF Calm, MuxTypeOK, SwitchType
<1>3. \A p : (Configured(p)' <=> Configured(p)) /\ (Good(p)' <=> Good(p))
  BY <1>1, SameOutputs
<1>4. sw'.current = sw.current /\ sw'.next = sw.next /\ sw'.mutex = sw.mutex /\ sw'.synced = barrier[o].to
  BY <1>2 DEF SyncOutput, SwitchType
<1>5. barrier'[o].pc = "lock" /\ barrier'[o].from = barrier[o].from /\ barrier'[o].to = barrier[o].to
  BY <1>2 DEF SyncOutput, Go, BarrierType
<1>6. sw.mutex = o /\ barrier[o].to = sw.current /\ o # Nobody
  BY <1>1, MuxAssumption DEF Calm, CalmKeeps, Telling, IDs, Nobody
<1>7. OnePhase' /\ RequestGood' /\ Switched'
  BY <1>1, <1>3, <1>4 DEF Calm, CalmKeeps, OnePhase, RequestGood, Switched
<1>8. Telling'
  BY <1>1, <1>3, <1>4, <1>5, <1>6 DEF Calm, CalmKeeps, Telling
<1>9. \A id : Left(id) => Left(id)'
  BY <1>1, <1>4, <1>5, <1>6 DEF Left
<1>10. Committed'
  BY <1>1, <1>4, <1>5, <1>9 DEF Calm, CalmKeeps, Committed
<1>11. Replaced' /\ Kept'
  BY <1>1, <1>3, <1>4 DEF Calm, CalmKeeps, Replaced, Kept, Made
<1>q. QED  BY <1>1, <1>7, <1>8, <1>10, <1>11 DEF Calm, CalmKeeps

\* What was left is handed to the closer.
LEMMA CalmAfter ==
  ASSUME Calm, NEW o \in IDs, AfterSwitch(o)
  PROVE  CalmKeeps'
<1>1. /\ UNCHANGED <<output, outputsMap, lastID, request, redo, failure>>
      /\ \A p \in IDs \ {o} : barrier'[p] = barrier[p]
      /\ barrier[o].pc = "lock"
  BY BarrierMoves DEF Calm, BarrierStep, AfterSwitch, At
<1>2. barrier \in [IDs -> BarrierType] /\ barrier[o] \in BarrierType /\ sw \in SwitchType
  BY DEF Calm, MuxTypeOK, SwitchType
<1>3. \A p : (Configured(p)' <=> Configured(p)) /\ (Good(p)' <=> Good(p))
  BY <1>1, SameOutputs
<1>4. sw'.current = sw.current /\ sw'.next = sw.next /\ sw'.mutex = Nobody /\ sw'.synced = sw.synced
  BY <1>2 DEF AfterSwitch, SwitchType
<1>5. barrier'[o].pc \in {"pass", "idle"}
  BY <1>2 DEF AfterSwitch, Go, Leave, BarrierType, Idle
<1> DEFINE prev == barrier[o].from
<1>6. closer'.id = prev /\ (closer'.pc = IF prev = Nobody THEN "none" ELSE "remove")
  BY DEF AfterSwitch
<1>7. sw.mutex = o /\ barrier[o].to = sw.current /\ o # Nobody /\ prev # sw.current /\ (prev # Nobody => Good(prev))
      /\ sw.synced = sw.current
  BY <1>1, MuxAssumption DEF Calm, CalmKeeps, Telling, IDs, Nobody
<1>8. sw.current # Nobody
  BY <1>1, <1>7 DEF Calm, Started
<1>9. request.pc = "idle" /\ sw.next = Nobody /\ closer.pc = "none" /\ closer.id = Nobody /\ redo = {}
  BY <1>7 DEF Calm, CalmKeeps, OnePhase, Known
<1> HIDE DEF prev
<1>10. OnePhase' /\ RequestGood' /\ Switched'
  BY <1>1, <1>3, <1>4, <1>8, <1>9 DEF Calm, CalmKeeps, OnePhase, RequestGood, Switched
<1>11. Telling'
  <2>1. \A p \in IDs : p # Nobody
    BY MuxAssumption DEF IDs, Nobody
  <2>2. \A p \in IDs : barrier'[p].pc \notin {"sync", "lock"}
    BY <1>1, <1>5, <1>7 DEF Calm, CalmKeeps, Telling
  <2>q. QED  BY <1>4, <1>7, <2>1, <2>2 DEF Telling
<1>12. \A id : Left(id) => Left(id)'
  BY <1>1, <1>4, <1>6, <1>7, <1>8, <1>9 DEF Left, prev
<1>13. Committed'
  BY <1>1, <1>4, <1>5, <1>9, <1>12, NothingToCommit DEF Committed
<1>14. Replaced'
  BY <1>1, <1>3, <1>4, <1>6, <1>7, <1>9 DEF Replaced, Good
<1>15. Kept'
  <2>1. \A p \in Made : p # Nobody
    BY MuxAssumption DEF Calm, MuxTypeOK, Made, Nobody
  <2>2. Made' = Made
    BY <1>1 DEF Made
  <2>q. QED  BY <1>1, <1>9, <2>1, <2>2 DEF Calm, CalmKeeps, Kept
<1>q. QED  BY <1>1, <1>10, <1>11, <1>13, <1>14, <1>15 DEF Calm, CalmKeeps

\* Closing moves on.
LEMMA CalmClose ==
  ASSUME Calm, CloserStep
  PROVE  CalmKeeps'
<1>0. PICK c : c = closer.id
  OBVIOUS
<1>1. /\ UNCHANGED <<calm, sw, outputsMap, lastID, barrier, request, failure>>
      /\ c \in Made /\ c \in IDs /\ c # Nobody /\ closer.pc # "none"
      /\ \A p \in IDs \ {c} : output'[p] = output[p]
      /\ output'[c].key = output[c].key /\ output'[c].config = output[c].config
      /\ output[c].closed => output'[c].closed
  BY <1>0, CloserMoves, MuxAssumption DEF Calm, IDs, Nobody
<1>2. \/ closer' = [pc |-> "mark", id |-> c] /\ redo' = redo
      \/ closer' = [pc |-> "end", id |-> c] /\ redo' = redo /\ output'[c].closed
      \/ closer.pc = "end" /\ closer' = [pc |-> "none", id |-> Nobody] /\ redo' = redo \cup {c}
  BY <1>0, CloserMoves DEF Calm
<1>3. redo = {} /\ request.pc = "idle" /\ sw.next = Nobody /\ sw.mutex = Nobody /\ Configured(c) /\ c # sw.current
      /\ (closer.pc = "end" => output[c].closed)
  BY <1>0, <1>1 DEF Calm, CalmKeeps, OnePhase, Replaced
<1>4. Made \subseteq IDs /\ Made' = Made
  BY <1>0, <1>1, MuxAssumption DEF Calm, MuxTypeOK, Made, IDs
<1>5. Configured(c)'
  BY <1>0, <1>1, <1>3, <1>4 DEF Configured
<1>6. \A p \in IDs \ {c} : Good(p)' <=> Good(p)
  BY <1>0, <1>1, <1>4 DEF Good, Configured
<1>7. OnePhase' /\ RequestGood'
  BY <1>0, <1>1, <1>2, <1>3 DEF OnePhase, RequestGood
<1>8. Switched'
  <2>1. sw.current # Nobody => sw.current \in IDs \ {c}
    BY <1>3, <1>4 DEF Calm, CalmKeeps, Switched, Good, Configured
  <2>q. QED  BY <1>0, <1>1, <1>3, <1>6, <2>1 DEF Calm, CalmKeeps, Switched
<1>9. Telling'
  <2>1. \A p \in IDs : p # Nobody
    BY MuxAssumption DEF IDs, Nobody
  <2>q. QED  BY <1>0, <1>1, <1>3, <2>1 DEF Calm, CalmKeeps, Telling
<1>10. Committed'
  <2>1. \A p \in IDs : barrier[p].pc = "commit" => barrier[p].from \in Made \cup {Nobody}
    BY <1>0, <1>1, MuxAssumption DEF Calm, MuxTypeOK, Known, NobodyOrMade, Made, Nobody
  <2>2. ASSUME NEW id \in Made \cup {Nobody}, Left(id)
        PROVE  Left(id)'
    <3>1. ~\E p \in IDs : sw.mutex = p
      BY <1>3, MuxAssumption DEF IDs, Nobody
    <3>2. CASE id = Nobody
      BY <1>0, <1>1, <2>2, <3>1, <3>2 DEF Left
    <3>3. CASE id # Nobody /\ id # c
      <4>1. output[id].closed
        BY <1>0, <2>2, <3>1, <3>3 DEF Left
      <4>2. output'[id] = output[id]
        BY <1>0, <1>1, <1>4, <2>2, <3>3
      <4>q. QED  BY <3>3, <4>1, <4>2 DEF Left
    <3>4. CASE id = c
      <4>1. closer'.id = c \/ output'[c].closed
        BY <1>0, <1>1, <1>2, <1>3
      <4>q. QED  BY <1>0, <1>1, <3>4, <4>1 DEF Left
    <3>q. QED  BY <2>2, <3>2, <3>3, <3>4
  <2>q. QED  BY <1>0, <1>1, <1>3, <2>1, <2>2, NothingToCommit DEF Committed
<1>11. Replaced'
  <2>1. CASE closer' = [pc |-> "mark", id |-> c] /\ redo' = redo
    BY <1>0, <1>1, <1>3, <1>5, <2>1 DEF Replaced
  <2>2. CASE closer' = [pc |-> "end", id |-> c] /\ redo' = redo /\ output'[c].closed
    BY <1>0, <1>1, <1>3, <1>5, <2>2 DEF Replaced
  <2>3. CASE closer.pc = "end" /\ closer' = [pc |-> "none", id |-> Nobody] /\ redo' = redo \cup {c}
    BY <1>0, <1>1, <1>3, <1>5, <2>3 DEF Replaced
  <2>q. QED  BY <1>2, <2>1, <2>2, <2>3
<1>12. Kept'
  <2>1. closer'.id = c \/ (output'[c].closed /\ c \in redo')
    BY <1>0, <1>1, <1>2, <1>3
  <2>2. ASSUME NEW p \in Made', ~output'[p].closed
        PROVE  output'[p].pushed \/ closer'.id = p
    <3>1. CASE p = c
      BY <2>1, <2>2, <3>1
    <3>2. CASE p # c
      BY <1>0, <1>1, <1>4, <2>2, <3>2 DEF Calm, CalmKeeps, Kept
    <3>q. QED  BY <3>1, <3>2
  <2>3. ASSUME NEW k \in Keys, outputsMap'[k] # Nobody
        PROVE  ~output'[outputsMap'[k]].closed \/ closer'.id = outputsMap'[k] \/ outputsMap'[k] \in redo'
    <3>1. CASE outputsMap[k] = c
      BY <1>0, <1>1, <2>1, <3>1
    <3>2. CASE outputsMap[k] # c
      <4>1. outputsMap[k] \in IDs \ {c}
        BY <1>0, <1>1, <1>4, <2>3, <3>2 DEF Calm, Mapped
      <4>2. ~output[outputsMap[k]].closed
        BY <1>0, <1>1, <1>3, <2>3, <3>2 DEF Calm, CalmKeeps, Kept
      <4>q. QED  BY <1>0, <1>1, <4>1, <4>2
    <3>q. QED  BY <3>1, <3>2
  <2>q. QED  BY <2>2, <2>3 DEF Kept
<1>q. QED  BY <1>0, <1>1, <1>7, <1>8, <1>9, <1>10, <1>11, <1>12 DEF Calm, CalmKeeps

\* While an output is configured and no switch is on its way, the good ones
\* stay good and what was left stays left, if the key has no closed output
\* that somebody still needs.
LEMMA ConfigureKeeps ==
  ASSUME Calm, NEW key \in Keys, NEW setting \in Keys, NEW o, Configures(key, setting, o),
         \/ setting = key
         \/ outputsMap[key] # Nobody /\ output[outputsMap[key]].closed,
         sw.mutex = Nobody, UNCHANGED <<sw, closer, barrier>>
  PROVE  /\ \A p : Good(p) => Good(p)'
         /\ \A p \in Made : output[p].closed /\ Configured(p) /\ output[p].key # key => output'[p].closed /\ Configured(p)'
         /\ \A id \in NobodyOrMade : Left(id) => Left(id)'
<1>1. /\ o \in IDs /\ o \in Made' /\ Made' = Made \cup {o}
      /\ \A p \in IDs \ {o} : output'[p] = output[p]
      /\ output'[o].key = key /\ output'[o].config = setting /\ ~output'[o].closed
      /\ outputsMap'[key] = o /\ \A k \in Keys \ {key} : outputsMap'[k] = outputsMap[k]
      /\ \/ o \in Made /\ o = outputsMap[key] /\ ~output[o].closed /\ (output'[o].pushed <=> output[o].pushed)
         \/ o \notin Made /\ (outputsMap[key] = Nobody \/ output[outputsMap[key]].closed) /\ output'[o].pushed
  BY ConfiguredKnown DEF Calm
<1>2. Made \subseteq IDs /\ Nobody \notin Made /\ \A p \in Made : output[p].key \in Keys
  BY MuxAssumption DEF Calm, MuxTypeOK, Known, Made, IDs, Nobody
<1>3. ASSUME NEW p \in Made, Configured(p), output[p].key # key
      PROVE  Configured(p)' /\ output'[p] = output[p]
  <2>1. p # o
    BY <1>1, <1>2, <1>3 DEF Calm, Mapped
  <2>2. output'[p] = output[p] /\ outputsMap'[output[p].key] = p
    BY <1>1, <1>2, <1>3, <2>1 DEF Configured
  <2>3. p \in Made'
    BY <1>1
  <2>q. QED  BY <1>3, <2>2, <2>3 DEF Configured
<1>4. ASSUME NEW p, Good(p)
      PROVE  Good(p)'
  <2>1. p \in Made /\ Configured(p) /\ ~output[p].closed /\ output[p].pushed
    BY <1>4 DEF Good, Configured
  <2>2. CASE output[p].key # key
    BY <1>3, <2>1, <2>2 DEF Good
  <2>3. CASE output[p].key = key
    <3>1. outputsMap[key] = p
      BY <2>1, <2>3 DEF Configured
    <3>2. p = o /\ setting = key
      BY <1>1, <1>2, <2>1, <3>1
    <3>3. output'[p].pushed
      BY <1>1, <2>1, <3>2
    <3>q. QED  BY <1>1, <3>2, <3>3 DEF Good, Configured
  <2>q. QED  BY <2>2, <2>3
<1>5. ASSUME NEW id \in NobodyOrMade, Left(id)
      PROVE  Left(id)'
  <2>1. ~\E p \in IDs : sw.mutex = p
    BY MuxAssumption DEF IDs, Nobody
  <2>2. CASE id = Nobody \/ closer.id = id
    BY <1>5, <2>1, <2>2 DEF Left
  <2>3. CASE id # Nobody /\ output[id].closed
    <3>1. id \in Made
      BY <2>3, MuxAssumption DEF Calm, MuxTypeOK, NobodyOrMade, Made, Nobody
    <3>2. id # o
      BY <1>1, <2>3, <3>1
    <3>3. output'[id].closed
      BY <1>1, <1>2, <2>3, <3>1, <3>2
    <3>q. QED  BY <2>3, <3>3 DEF Left
  <2>q. QED  BY <1>5, <2>1, <2>2, <2>3 DEF Left
<1>q. QED  BY <1>3, <1>4, <1>5

\* A request finds or makes its output.
LEMMA CalmCreate ==
  ASSUME Calm, CreateRequested
  PROVE  CalmKeeps'
<1>0. PICK key, o : key = request.key /\ o = OutputOfKey(request.key)
  OBVIOUS
<1>1. key \in Keys /\ Configures(key, key, o)
  BY <1>0, WhoConfigures DEF Calm
<1>2. request.pc = "create" /\ UNCHANGED <<sw, barrier, input, closer, redo, failure>>
  BY DEF CreateRequested, nodes
<1>3. request'.pc = "synced" /\ request'.id = o
  BY <1>0 DEF CreateRequested, Calm, MuxTypeOK, RequestType
<1>4. sw.next = Nobody /\ sw.mutex = Nobody /\ closer.pc = "none" /\ closer.id = Nobody /\ redo = {}
  BY <1>2 DEF Calm, CalmKeeps, OnePhase, Known
<1>5. /\ o \in IDs /\ o \in Made' /\ Made' = Made \cup {o}
      /\ \A p \in IDs \ {o} : output'[p] = output[p]
      /\ output'[o].key = key /\ output'[o].config = key /\ ~output'[o].closed
      /\ outputsMap'[key] = o /\ \A k \in Keys \ {key} : outputsMap'[k] = outputsMap[k]
      /\ \/ o \in Made /\ o = outputsMap[key] /\ ~output[o].closed /\ (output'[o].pushed <=> output[o].pushed)
         \/ o \notin Made /\ (outputsMap[key] = Nobody \/ output[outputsMap[key]].closed) /\ output'[o].pushed
  BY <1>1, ConfiguredKnown DEF Calm
<1>6. Made \subseteq IDs /\ Nobody \notin Made
  BY MuxAssumption DEF Calm, MuxTypeOK, Made, IDs, Nobody
<1>7. /\ \A p : Good(p) => Good(p)'
      /\ \A id \in NobodyOrMade : Left(id) => Left(id)'
  BY <1>1, <1>2, <1>4, ConfigureKeeps
<1>8. output'[o].pushed
  BY <1>4, <1>5, <1>6 DEF Calm, CalmKeeps, Kept
<1>9. OnePhase'
  BY <1>2, <1>4 DEF OnePhase
<1>10. RequestGood'
  BY <1>3, <1>5, <1>8 DEF RequestGood, Good, Configured
<1>11. Switched'
  BY <1>2, <1>4, <1>7 DEF Calm, CalmKeeps, Switched
<1>12. Telling'
  <2>1. \A p \in IDs : p # Nobody
    BY MuxAssumption DEF IDs, Nobody
  <2>q. QED  BY <1>2, <1>4, <2>1 DEF Calm, CalmKeeps, Telling
<1>13. Committed'
  <2>1. \A p \in IDs : barrier[p].from \in NobodyOrMade
    BY DEF Calm, Known
  <2>q. QED  BY <1>2, <1>4, <1>7, <2>1, NothingToCommit DEF Committed
<1>14. Replaced'
  BY <1>2, <1>4 DEF Replaced
<1>15. Kept'
  <2>1. ASSUME NEW p \in Made', ~output'[p].closed
        PROVE  output'[p].pushed
    <3>1. CASE p = o
      BY <1>8, <3>1
    <3>2. CASE p # o
      BY <1>4, <1>5, <1>6, <2>1, <3>2 DEF Calm, CalmKeeps, Kept
    <3>q. QED  BY <3>1, <3>2
  <2>2. ASSUME NEW k \in Keys, outputsMap'[k] # Nobody
        PROVE  ~output'[outputsMap'[k]].closed
    <3>1. CASE k = key
      BY <1>5, <3>1
    <3>2. CASE k # key
      <4>0. outputsMap'[k] = outputsMap[k] /\ outputsMap[k] # Nobody
        BY <1>5, <2>2, <3>2
      <4>1. outputsMap[k] \in Made /\ ~output[outputsMap[k]].closed /\ output[outputsMap[k]].key = k
        <5>1. outputsMap[k] \in Made /\ output[outputsMap[k]].key = k
          BY <4>0 DEF Calm, Mapped
        <5>2. ~output[outputsMap[k]].closed
          BY <1>4, <4>0 DEF Calm, CalmKeeps, Kept
        <5>q. QED  BY <5>1, <5>2
      <4>2. outputsMap[k] # o
        <5>1. CASE o \in Made
          <6>1. outputsMap[key] = o /\ o # Nobody
            BY <1>5, <1>6, <5>1
          <6>2. output[o].key = key
            BY <1>1, <6>1 DEF Calm, Mapped
          <6>q. QED  BY <3>2, <4>1, <6>2
        <5>2. CASE o \notin Made
          BY <4>1, <5>2
        <5>q. QED  BY <5>1, <5>2
      <4>q. QED  BY <1>5, <1>6, <4>0, <4>1, <4>2
    <3>q. QED  BY <3>1, <3>2
  <2>q. QED  BY <2>1, <2>2 DEF Kept
<1>q. QED  BY <1>2, <1>9, <1>10, <1>11, <1>12, <1>13, <1>14, <1>15 DEF Calm, CalmKeeps

\* A closed output is replaced by a new one.
LEMMA CalmRecreate ==
  ASSUME Calm, NEW c \in IDs, Recreate(c)
  PROVE  CalmKeeps'
<1>0. PICK key, setting, o : key = output[c].config /\ setting = props /\ o = OutputOfKey(output[c].config)
  OBVIOUS
<1>1. key \in Keys /\ setting \in Keys /\ Configures(key, setting, o)
  BY <1>0, WhoConfigures DEF Calm
<1>2. c \in redo /\ redo' = redo \ {c} /\ UNCHANGED <<sw, barrier, input, request, closer, failure>>
  BY DEF Recreate, nodes
<1>3. sw.next = Nobody /\ sw.mutex = Nobody /\ closer.pc = "none" /\ closer.id = Nobody /\ request.pc = "idle"
  BY <1>2 DEF Calm, CalmKeeps, OnePhase, Known
<1>4. Configured(c) /\ output[c].closed /\ output[c].key = key /\ outputsMap[key] = c /\ c \in Made
  BY <1>0, <1>2 DEF Calm, CalmKeeps, Replaced, Configured
<1>5. /\ o \in IDs /\ o \in Made' /\ Made' = Made \cup {o}
      /\ \A p \in IDs \ {o} : output'[p] = output[p]
      /\ output'[o].key = key /\ ~output'[o].closed
      /\ outputsMap'[key] = o /\ \A k \in Keys \ {key} : outputsMap'[k] = outputsMap[k]
      /\ o \notin Made /\ output'[o].pushed
  BY <1>1, <1>4, ConfiguredKnown DEF Calm
<1>6. Made \subseteq IDs /\ Nobody \notin Made
  BY MuxAssumption DEF Calm, MuxTypeOK, Made, IDs, Nobody
<1>7. /\ \A p : Good(p) => Good(p)'
      /\ \A p \in Made : output[p].closed /\ Configured(p) /\ output[p].key # key => output'[p].closed /\ Configured(p)'
      /\ \A id \in NobodyOrMade : Left(id) => Left(id)'
  BY <1>1, <1>2, <1>3, <1>4, <1>6, ConfigureKeeps
<1>8. OnePhase' /\ RequestGood'
  BY <1>2, <1>3 DEF OnePhase, RequestGood
<1>9. Switched'
  BY <1>2, <1>3, <1>7 DEF Calm, CalmKeeps, Switched
<1>10. Telling'
  <2>1. \A p \in IDs : p # Nobody
    BY MuxAssumption DEF IDs, Nobody
  <2>q. QED  BY <1>2, <1>3, <2>1 DEF Calm, CalmKeeps, Telling
<1>11. Committed'
  <2>1. \A p \in IDs : barrier[p].from \in NobodyOrMade
    BY DEF Calm, Known
  <2>q. QED  BY <1>2, <1>3, <1>7, <2>1, NothingToCommit DEF Committed
<1>12. Replaced'
  <2>1. ASSUME NEW p \in redo'
        PROVE  Configured(p)' /\ output'[p].closed
    <3>1. Configured(p) /\ output[p].closed /\ p # c /\ p \in Made
      BY <1>2, <2>1 DEF Calm, CalmKeeps, Replaced, Configured
    <3>2. output[p].key # key
      BY <1>4, <3>1 DEF Configured
    <3>q. QED  BY <1>7, <3>1, <3>2
  <2>q. QED  BY <1>2, <1>3, <2>1 DEF Replaced
<1>13. Kept'
  <2>1. ASSUME NEW p \in Made', ~output'[p].closed
        PROVE  output'[p].pushed
    <3>1. CASE p = o
      BY <1>5, <3>1
    <3>2. CASE p # o
      BY <1>3, <1>5, <1>6, <2>1, <3>2 DEF Calm, CalmKeeps, Kept
    <3>q. QED  BY <3>1, <3>2
  <2>2. ASSUME NEW k \in Keys, outputsMap'[k] # Nobody
        PROVE  ~output'[outputsMap'[k]].closed \/ outputsMap'[k] \in redo'
    <3>1. CASE k = key
      BY <1>5, <3>1
    <3>2. CASE k # key
      <4>1. outputsMap[k] \in Made /\ outputsMap'[k] = outputsMap[k] /\ output[outputsMap[k]].key = k
            /\ (~output[outputsMap[k]].closed \/ outputsMap[k] \in redo)
        BY <1>3, <1>5, <1>6, <2>2, <3>2 DEF Calm, CalmKeeps, Kept, Mapped
      <4>2. outputsMap[k] # o /\ outputsMap[k] # c
        BY <1>4, <1>5, <3>2, <4>1
      <4>q. QED  BY <1>2, <1>5, <1>6, <4>1, <4>2
    <3>q. QED  BY <3>1, <3>2
  <2>q. QED  BY <2>1, <2>2 DEF Kept
<1>q. QED  BY <1>2, <1>8, <1>9, <1>10, <1>11, <1>12, <1>13 DEF Calm, CalmKeeps

\* Every step of a calm run.
LEMMA CalmStep ==
  ASSUME Calm, calm, MuxNext \/ UNCHANGED mux
  PROVE  CalmKeeps'
<1>1. CASE (\E frame \in Frames : Arrive(frame)) \/ UNCHANGED mux
  <2>1. UNCHANGED <<output, outputsMap, lastID, sw, request, closer, redo, failure, barrier>>
    BY <1>1 DEF Arrive, mux, nodes
  <2>2. \A o : (Configured(o)' <=> Configured(o)) /\ (Good(o)' <=> Good(o))
    BY <2>1, SameOutputs
  <2>3. OnePhase' /\ RequestGood' /\ Switched'
    BY <2>1, <2>2 DEF Calm, CalmKeeps, OnePhase, RequestGood, Switched
  <2>4. Committed'
    <3>1. \A id : Left(id) => Left(id)'
      BY <2>1, SameRest
    <3>q. QED  BY <2>1, <3>1 DEF Calm, CalmKeeps, Committed
  <2>q. QED  BY <2>1, <2>3, <2>4, SameRest DEF CalmKeeps
<1>2. ASSUME NEW o \in IDs, PushTo(o) \/ Look(o) \/ Pass(o)
      PROVE  CalmKeeps'
  <2>1. /\ UNCHANGED <<output, outputsMap, lastID, sw, request, closer, redo, failure>>
        /\ \A p \in IDs \ {o} : barrier'[p] = barrier[p]
    <3>1. UNCHANGED <<output, outputsMap, lastID, sw, request, closer, redo, failure>>
      BY <1>2 DEF PushTo, Look, Pass
    <3>q. QED  BY <1>2, <3>1, BarrierMoves DEF Calm, BarrierStep
  <2>2. barrier[o].pc \notin {"commit", "sync", "lock"} \/ UNCHANGED barrier
    BY <1>2 DEF PushTo, Look, Pass, At
  <2>3. CASE UNCHANGED barrier
    <3>1. \A p : (Configured(p)' <=> Configured(p)) /\ (Good(p)' <=> Good(p))
      BY <2>1, SameOutputs
    <3>2. OnePhase' /\ RequestGood' /\ Switched'
      BY <2>1, <3>1 DEF Calm, CalmKeeps, OnePhase, RequestGood, Switched
    <3>3. Committed'
      <4>1. \A id : Left(id) => Left(id)'
        BY <2>1, <2>3, SameRest
      <4>q. QED  BY <2>1, <2>3, <4>1 DEF Calm, CalmKeeps, Committed
    <3>q. QED  BY <2>1, <2>3, <3>2, <3>3, SameRest DEF CalmKeeps
  <2>4. CASE barrier[o].pc \notin {"commit", "sync", "lock"}
    <3>1. barrier'[o].pc \in {"commit", "sync", "lock"} =>
            barrier'[o].to = sw.next /\ barrier'[o].from = sw.current /\ Look(o)
      BY <1>2, <2>4, BarrierMoves DEF Calm, BarrierStep
    <3>2. Look(o) => barrier'[o].pc \in {"commit", "pass", "idle"}
      <4>1. barrier \in [IDs -> BarrierType] /\ barrier[o] \in BarrierType
        BY DEF Calm, MuxTypeOK
      <4>2. CASE Look(o) /\ barrier' = [barrier EXCEPT ![o] = [@ EXCEPT !.pc = "commit", !.from = sw.current, !.to = sw.next]]
        BY <4>1, <4>2 DEF BarrierType
      <4>3. CASE Look(o) /\ Go(o, "pass")
        BY <4>1, <4>3 DEF Go, BarrierType
      <4>4. CASE Look(o) /\ Leave(o)
        BY <4>1, <4>4 DEF Leave, Idle
      <4>q. QED  BY <4>2, <4>3, <4>4 DEF Look
    <3>3. barrier'[o].pc \notin {"sync", "lock"}
      BY <3>1, <3>2
    <3>q. QED  BY <2>1, <2>4, <3>1, <3>3, CalmPackets
  <2>q. QED  BY <2>2, <2>3, <2>4
<1>3. ~FailureStep /\ \A o \in IDs : ~OutputFails(o)
  BY DEF FailureStep, Forget, CloseFailed, EndFailed, OutputFails, Calm, CalmKeeps
<1>4. CASE (\E key \in Keys, persistent \in BOOLEAN : Request(key, persistent)) \/ RequestStep
  BY <1>4, CalmRequest, CalmCreate, CalmPrefer DEF RequestStep
<1>5. CASE CloserStep
  BY <1>5, CalmClose
<1>6. ASSUME NEW o \in IDs, Commit(o) \/ SyncOutput(o) \/ AfterSwitch(o) \/ Recreate(o)
      PROVE  CalmKeeps'
  BY <1>6, CalmCommit, CalmSync, CalmAfter, CalmRecreate
<1>q. QED  BY <1>1, <1>2, <1>3, <1>4, <1>5, <1>6 DEF MuxNext, BarrierStep

\* Whether the run is calm does not change.
LEMMA StaysCalm ==
  ASSUME MuxTypeOK, Known, MuxNext \/ UNCHANGED mux
  PROVE  calm' = calm
BY BarrierMoves, CloserMoves, FailureMoves, RequestMoves
   DEF MuxNext, RequestStep, mux, counted, Request, Arrive, Recreate, OutputFails, CreateRequested

----------------------------------------------------------------------------
(* The theorem.                                                             *)

\* The invariant is inductive.
LEMMA MuxStep == MuxInv /\ (MuxNext \/ UNCHANGED mux) => MuxInv'
BY MuxTypesStep, KnownStep, MappedStep, StartedStep, CalmStep, StaysCalm DEF MuxInv, Calm

\* It holds at the start.
LEMMA MuxInitially == MuxInit => MuxInv
<1> SUFFICES ASSUME MuxInit PROVE MuxInv
  OBVIOUS
<1>1. Made = {} /\ \A o \in IDs : barrier[o] = Idle /\ o # Nobody
  BY MuxAssumption DEF MuxInit, Made, IDs, Nobody
<1>2. OnePhase /\ RequestGood /\ Switched
  BY DEF MuxInit, OnePhase, RequestGood, Switched, NoRequest
<1>3. Telling /\ Committed
  BY <1>1 DEF MuxInit, Telling, Committed, Idle
<1>4. Replaced /\ Kept
  BY <1>1 DEF MuxInit, Replaced, Kept
<1>q. QED  BY <1>2, <1>3, <1>4, MuxTypesInitially, MuxKnownInitially DEF MuxInit, MuxInv, CalmKeeps

\* It says all that is wanted.
LEMMA MuxInvImplies == MuxInv => MuxSafe
<1> SUFFICES ASSUME MuxInv PROVE MuxSafe
  OBVIOUS
<1>1. \A o : Open(o) <=> o \in Made /\ ~output[o].closed
  BY DEF Open, Made
<1>2. OneOpenPerKey
  BY <1>1 DEF MuxInv, Mapped, OneOpenPerKey, Made
<1>3. ActiveOpen /\ SyncerFollows /\ ActiveConfigured
  BY <1>1 DEF MuxInv, CalmKeeps, Switched, Telling, Good, Configured, ActiveOpen, SyncerFollows, ActiveConfigured
<1>4. ReadyAgain
  BY <1>1 DEF MuxInv, CalmKeeps, Kept, Mapped, Known, Settled, ReadyAgain
<1>q. QED  BY <1>2, <1>3, <1>4 DEF MuxSafe

MuxHolds == MuxTypeOK /\ MuxSafe

\* Whatever is requested, fails, is closed and remade, and in whatever order:
\* a key keeps a single open output, and in a calm run the active output stays
\* open and configured, the syncer follows, and closed outputs are replaced.
THEOREM MuxHoldsAlways == MuxSpec => []MuxHolds
<1>1. MuxInv => MuxHolds
  BY MuxInvImplies DEF MuxInv, MuxHolds
<1>q. QED  BY <1>1, MuxInitially, MuxStep, PTL DEF MuxSpec

----------------------------------------------------------------------------
(* The automatic bitrate.                                                   *)

Ages == 0..Cap
Changes == [dir : {"none", "up", "down"}, age : Ages, idle : Ages]

BitRateAges ==
  /\ change \in Changes
  /\ raised \in Ages /\ decreased \in Ages
WishOutlived ==
  /\ change.dir = "down" => change.age <= raised
  /\ change.dir = "up" => change.age <= decreased
BitRateInv == BitRateAges /\ WishOutlived /\ NoHaste

\* Ages stay within their bound and in their order.
LEMMA OlderAge ==
  /\ \A a \in Ages : Older(a) \in Ages
  /\ \A a, b \in Ages : a <= b => Older(a) <= Older(b)
  /\ 0 \in Ages /\ Cap \in Nat
BY BitRateAssumption DEF Ages, Cap, Older

\* The invariant holds at the start.
LEMMA BitRateInitially == BitRateInit => BitRateInv
BY BitRateAssumption DEF BitRateInit, BitRateInv, BitRateAges, WishOutlived, NoHaste, Changes, Ages, Cap, NoChange

\* A decision about a wish: what is left of the wish is the wish itself, as old
\* as it is, or a new one; and an unforced change was wished for long enough.
Justified(decision, dir, wish, critical) ==
  /\ decision.wish \in Changes
  /\ decision.wish.dir = "none" \/ decision.wish.age = 0
       \/ (decision.wish.dir = wish.dir /\ decision.wish.age = wish.age)
  /\ decision.result = "done" /\ ~critical => wish.dir = dir /\ wish.age >= Delay(dir)

\* Decide decides so.
LEMMA DecideWish ==
  ASSUME NEW res, NEW wish \in Changes, NEW critical
  PROVE  Justified(Decide(res, wish, critical), Direction(res), wish, critical)
<1> DEFINE dir == Direction(res)
<1>1. dir \in {"up", "down"}
  BY DEF Direction
<1>2. [dir |-> dir, age |-> 0, idle |-> 0] \in Changes /\ NoChange \in Changes /\ Restarted(wish) \in Changes
  BY <1>1, OlderAge DEF Changes, NoChange, Restarted
<1>3. Restarted(wish).dir = wish.dir /\ Restarted(wish).age = wish.age
  BY DEF Restarted, Changes
<1>4. Delay(dir) \in Nat /\ wish.age \in Nat
  BY BitRateAssumption, OlderAge DEF Delay, Changes, Ages
<1> HIDE DEF dir
<1> DEFINE decision == Decide(res, wish, critical)
<1>5. \/ decision.wish = wish /\ decision.result = "error"
      \/ critical /\ decision.wish = NoChange
      \/ decision.wish = [dir |-> dir, age |-> 0, idle |-> 0] /\ decision.result = "later"
      \/ decision.wish = Restarted(wish) /\ decision.result = "later"
      \/ decision.wish = NoChange /\ wish.dir = dir /\ ~(wish.age < Delay(dir))
  BY DEF Decide, Continues, dir
<1>6. NoChange.dir = "none"
  BY DEF NoChange
<1> HIDE DEF decision
<1>7. decision.wish \in Changes
  BY <1>2, <1>5
<1>8. decision.wish.dir = "none" \/ decision.wish.age = 0
        \/ (decision.wish.dir = wish.dir /\ decision.wish.age = wish.age)
  BY <1>3, <1>5, <1>6
<1>9. decision.result = "done" /\ ~critical => wish.dir = dir /\ wish.age >= Delay(dir)
  BY <1>4, <1>5
<1>q. QED  BY <1>7, <1>8, <1>9 DEF Justified, decision, dir

\* A change that is acted upon was wished for as long as its delay.
LEMMA ActedJustly ==
  ASSUME NEW res, NEW wish, NEW critical, NEW decision,
         decision.result = "none" \/ Justified(decision, Direction(res), wish, critical)
  PROVE  LET did == Acted(res, decision, critical)
         IN did # "none" => did \in {"up", "down"} /\ wish.dir = did /\ wish.age >= Delay(did)
<1>1. Direction(res) \in {"up", "down"}
  BY DEF Direction
<1>2. CASE decision.result = "done" /\ ~AlreadySet(res) /\ ~critical
  BY <1>1, <1>2 DEF Acted, Justified
<1>3. CASE ~(decision.result = "done" /\ ~AlreadySet(res) /\ ~critical)
  BY <1>3 DEF Acted
<1>q. QED  BY <1>2, <1>3

\* Every step of a check keeps the invariant, and so does every other.
LEMMA BitRateStep ==
  ASSUME BitRateInv, BitRateNext \/ UNCHANGED bitrate
  PROVE  BitRateInv'
<1> USE DEF BitRateInv, BitRateAges
<1>1. CASE UNCHANGED <<change, raised, decreased>> /\ (acted' = "none" \/ acted' = acted)
  BY <1>1 DEF WishOutlived, NoHaste
<1>2. Aged \in Changes /\ Aged.dir = change.dir
      /\ (Aged.dir = "down" => Aged.age <= Older(raised)) /\ (Aged.dir = "up" => Aged.age <= Older(decreased))
  BY OlderAge DEF Aged, Changes, WishOutlived
<1>3. ASSUME NEW rate, NEW critical, SkipIncrease(rate)
      PROVE  BitRateInv'
  BY <1>2, <1>3, OlderAge DEF SkipIncrease, WishOutlived, NoHaste
<1>4. ASSUME NEW rate \in Rates, NEW critical \in BOOLEAN, TrySetVideoBitrate(rate, critical)
      PROVE  BitRateInv'
  <2> DEFINE wish == AfterMove(Aged, rate, Current)
             target == Bypass(rate)
             decision == IF target = 0 THEN [result |-> "none", wish |-> wish] ELSE Decide(target, wish, critical)
  <2>1. wish \in Changes
    BY <1>2, OlderAge DEF AfterMove, NoChange, Changes
  <2>2. /\ change' = decision.wish /\ acted' = Acted(target, decision, critical)
        /\ decreased' = (IF rate < Current THEN 0 ELSE Older(decreased))
        /\ raised' = (IF rate > Current THEN 0 ELSE Older(raised))
    BY <1>4 DEF TrySetVideoBitrate
  <2>3. wish.dir # "none" => wish = Aged
    BY DEF AfterMove, NoChange
  <2>4. (wish.dir = "down" => wish.age <= raised') /\ (wish.dir = "up" => wish.age <= decreased')
    <3>1. CASE wish.dir = "down"
      <4>1. ~(rate > Current)
        BY <3>1 DEF AfterMove, NoChange
      <4>q. QED  BY <3>1, <4>1, <2>2, <2>3, <1>2
    <3>2. CASE wish.dir = "up"
      <4>1. ~(rate < Current)
        BY <3>2 DEF AfterMove, NoChange
      <4>q. QED  BY <3>2, <4>1, <2>2, <2>3, <1>2
    <3>q. QED  BY <3>1, <3>2
  <2>5. raised' \in Ages /\ decreased' \in Ages
    BY <2>2, OlderAge
  <2> HIDE DEF wish, target
  <2>6. (decision.wish = wish /\ decision.result = "none") \/ Justified(decision, Direction(target), wish, critical)
    BY <2>1, DecideWish
  <2>7. acted' # "none" => acted' \in {"up", "down"} /\ wish.dir = acted' /\ wish.age >= Delay(acted')
    BY <2>2, <2>6, ActedJustly
  <2>8. /\ change' \in Changes
        /\ (change'.dir = "none" \/ change'.age = 0 \/ (change'.dir = wish.dir /\ change'.age = wish.age))
    BY <2>1, <2>2, <2>6 DEF Justified
  <2> HIDE DEF decision
  <2>9. WishOutlived'
    BY <2>4, <2>5, <2>8 DEF WishOutlived, Ages
  <2>10. NoHaste'
    BY <2>4, <2>5, <2>7, <2>1, BitRateAssumption, OlderAge DEF NoHaste, Delay, Changes, Ages
  <2>q. QED  BY <2>5, <2>8, <2>9, <2>10
<1>5. CASE ChangeResolution
  <2> DEFINE rate == Clamped(check.rate)
             target == Wanted(active.res, rate)
             critical == check.critical
             decision == IF target = active.res THEN [result |-> "none", wish |-> change]
                         ELSE Decide(target, change, critical)
  <2>1. UNCHANGED <<raised, decreased>>
    BY <1>5 DEF ChangeResolution
  <2>2. CASE UNCHANGED change /\ acted' = "none"
    BY <1>1, <2>1, <2>2
  <2>3. CASE change' = decision.wish /\ acted' = Acted(target, decision, critical)
    <3> HIDE DEF target, rate, critical
    <3>1. (decision.wish = change /\ decision.result = "none")
            \/ Justified(decision, Direction(target), change, critical)
      BY DecideWish
    <3>2. acted' # "none" => acted' \in {"up", "down"} /\ change.dir = acted' /\ change.age >= Delay(acted')
      BY <2>3, <3>1, ActedJustly
    <3>3. /\ change' \in Changes
          /\ (change'.dir = "none" \/ change'.age = 0 \/ (change'.dir = change.dir /\ change'.age = change.age))
      BY <2>3, <3>1 DEF Justified
    <3> HIDE DEF decision
    <3>4. WishOutlived'
      BY <2>1, <3>3 DEF WishOutlived, Ages
    <3>5. NoHaste'
      BY <2>1, <3>2, BitRateAssumption, OlderAge DEF WishOutlived, NoHaste, Delay, Changes, Ages
    <3>q. QED  BY <2>1, <3>3, <3>4, <3>5
  <2>q. QED  BY <1>5, <2>2, <2>3 DEF ChangeResolution
<1>6. CASE UNCHANGED bitrate
  BY <1>6, <1>1 DEF bitrate
<1>7. CASE SetQuality \/ OnOutputSwitch \/ (\E rate \in InputRates : MeasureInput(rate))
           \/ (\E rate \in Rates : BecomeSteady(rate))
  BY <1>7, <1>1 DEF SetQuality, OnOutputSwitch, MeasureInput, BecomeSteady
<1>8. CASE CheckStep
  BY <1>8, <1>3, <1>4 DEF CheckStep, Check
<1>q. QED  BY <1>5, <1>6, <1>7, <1>8 DEF BitRateNext

\* What an encoder is told is within the bounds.
LEMMA ClampedWithin ==
  ASSUME inputRate \in InputRates, NEW rate \in Nat
  PROVE  Clamped(rate) \in MinBitRate..MaxBitRate
<1> DEFINE max == IF inputRate > 2 * MinBitRate /\ 3 * inputRate < 2 * MaxBitRate THEN (3 * inputRate) \div 2 ELSE MaxBitRate
<1>1. inputRate \in Nat /\ MinBitRate \in Nat /\ MaxBitRate \in Nat /\ MinBitRate <= MaxBitRate
  BY RatesAssumption
<1>2. max \in MinBitRate..MaxBitRate
  <2>1. CASE inputRate > 2 * MinBitRate /\ 3 * inputRate < 2 * MaxBitRate
    <3> DEFINE half == (3 * inputRate) \div 2
    <3>1. half \in Int /\ 2 * half <= 3 * inputRate /\ 3 * inputRate <= 2 * half + 1
      BY <1>1
    <3>2. max = half
      BY <2>1
    <3> HIDE DEF half, max
    <3>q. QED  BY <1>1, <2>1, <3>1, <3>2
  <2>2. CASE ~(inputRate > 2 * MinBitRate /\ 3 * inputRate < 2 * MaxBitRate)
    BY <1>1, <2>2
  <2>q. QED  BY <2>1, <2>2
<1>3. Clamped(rate) = IF rate < MinBitRate THEN MinBitRate ELSE IF rate > max THEN max ELSE rate
  BY DEF Clamped
<1> HIDE DEF max
<1>q. QED  BY <1>1, <1>2, <1>3

\* The resolution that a bitrate asks for is one there is.
LEMMA WantedExists ==
  ASSUME NEW res \in Resolutions, NEW rate
  PROVE  Wanted(res, rate) \in Resolutions
<1> DEFINE suiting == Suiting(rate)
<1>1. suiting \subseteq Resolutions /\ Resolutions # {}
  BY DEF Suiting
<1> HIDE DEF suiting
<1>2. \A set \in SUBSET Resolutions \ {{}} : Best(set) \in set /\ Worst(set) \in set
  BY RatesAssumption DEF Best, Worst
<1>3. Best(Resolutions) \in Resolutions /\ Worst(Resolutions) \in Resolutions
  BY <1>1, <1>2
<1>4. suiting # {} => Best(suiting) \in Resolutions /\ Worst(suiting) \in Resolutions
  BY <1>1, <1>2
<1>q. QED  BY <1>3, <1>4 DEF Wanted, suiting

\* What is requested is an output there is, or stays.
LEMMA RequestedTyped ==
  ASSUME NEW res \in Outputs, NEW rate \in BitRates, NEW decision, BitRateTypeOK
  PROVE  /\ Requested(res, rate, decision) \in [res : Outputs \cup {0}, rate : BitRates]
         /\ \A critical : Acted(res, decision, critical) \in {"none", "up", "down"}
BY DEF Requested, Acted, Direction, BitRateTypeOK, BitRates

\* The bitrate of the active output is one there may be.
LEMMA CurrentTyped == BitRateTypeOK => Current \in BitRates \cup InputRates
BY DEF Current, BitRateTypeOK

\* Every step keeps the types.
LEMMA BitRateTypesStep ==
  ASSUME BitRateTypeOK, BitRateAges', BitRateNext \/ UNCHANGED bitrate
  PROVE  BitRateTypeOK'
<1> DEFINE NextType == [res : Outputs \cup {0}, rate : BitRates]
           CheckType == [pc : {"idle", "change", "quality"}, rate : Rates \cup {0}, old : BitRates \cup InputRates, critical : BOOLEAN]
<1>1. change' \in [dir : {"none", "up", "down"}, age : 0..Cap, idle : 0..Cap] /\ {decreased', raised'} \subseteq 0..Cap
  BY DEF BitRateAges, Changes, Ages
<1>2. MinBitRate..MaxBitRate \subseteq BitRates /\ 0 \in BitRates
      /\ (\A rate \in InputRates : (9 * rate) \div 10 \in BitRates)
  BY DEF BitRates
<1>3. Original \in Outputs /\ Copy \in Outputs /\ Outputs = Resolutions \cup {Copy}
  BY BitRateAssumption DEF Outputs
<1>4. NoCheck \in CheckType /\ NoNext \in NextType
  BY <1>2 DEF NoCheck, NoNext
<1>5. Rates \cup {0} \subseteq Nat
  BY RatesAssumption
<1>6. /\ split \in BOOLEAN /\ reduced \in BOOLEAN /\ active \in [res : Outputs, rate : BitRates]
      /\ next \in NextType /\ inputRate \in InputRates /\ goal \in Rates \cup {0} /\ check \in CheckType
      /\ acted \in {"none", "up", "down"}
  BY DEF BitRateTypeOK
<1>7. ASSUME NEW rate \in Rates, NEW critical \in BOOLEAN, Check(rate, critical)
      PROVE  BitRateTypeOK'
  <2>1. CASE SkipIncrease(rate)
    BY <1>1, <1>6, <2>1 DEF SkipIncrease, BitRateTypeOK
  <2>2. CASE TrySetVideoBitrate(rate, critical)
    <3> DEFINE wish == AfterMove(Aged, rate, Current)
               target == Bypass(rate)
               decision == IF target = 0 THEN [result |-> "none", wish |-> wish] ELSE Decide(target, wish, critical)
               low == (9 * inputRate) \div 10
               new == [pc |-> "change", rate |-> rate, old |-> Current, critical |-> critical]
    <3>1. /\ next' = Requested(target, low, decision) /\ acted' = Acted(target, decision, critical)
          /\ check' = NoCheck \/ check' = new
          /\ UNCHANGED <<split, active, inputRate, goal, reduced>>
      BY <2>2 DEF TrySetVideoBitrate
    <3>2. new \in CheckType
      BY CurrentTyped
    <3>3. low \in BitRates
      BY <1>2, <1>6
    <3>4. target \in Outputs \cup {0}
      BY <1>3 DEF Bypass
    <3>5. target = 0 => decision.result = "none"
      OBVIOUS
    <3> HIDE DEF target, low, new, wish
    <3> HIDE DEF decision
    <3>6. next' \in NextType /\ acted' \in {"none", "up", "down"}
      <4>1. CASE target = 0
        BY <3>1, <3>5, <4>1, <1>6 DEF Requested, Acted
      <4>2. CASE target \in Outputs
        BY <3>1, <3>3, <4>2, RequestedTyped
      <4>q. QED  BY <3>4, <4>1, <4>2
    <3>7. check' \in CheckType
      BY <3>1, <3>2, <1>4
    <3>q. QED  BY <1>1, <1>6, <3>1, <3>6, <3>7 DEF BitRateTypeOK
  <2>q. QED  BY <1>7, <2>1, <2>2 DEF Check
<1>8. CASE ChangeResolution
  <2>1. UNCHANGED <<split, active, inputRate, goal>>
    BY <1>8 DEF ChangeResolution
  <2>2. CASE check' = NoCheck /\ acted' = "none" /\ UNCHANGED <<next, reduced>>
    BY <1>1, <1>4, <1>6, <2>1, <2>2 DEF BitRateTypeOK
  <2>3. CASE active.res # Copy /\ ~(check' = NoCheck /\ acted' = "none" /\ UNCHANGED <<next, reduced>>)
    <3> DEFINE rate == Clamped(check.rate)
               target == Wanted(active.res, rate)
               decision == IF target = active.res THEN [result |-> "none", wish |-> change]
                           ELSE Decide(target, change, check.critical)
    <3>1. /\ next' = Requested(target, rate, decision) /\ acted' = Acted(target, decision, check.critical)
          /\ check' = [check EXCEPT !.pc = "quality"]
          /\ reduced' = (IF decision.result = "later" /\ rate < Low[active.res] THEN TRUE ELSE reduced /\ next'.res # 0)
      BY <1>8, <2>3 DEF ChangeResolution
    <3>2. rate \in BitRates
      BY <1>2, <1>5, <1>6, ClampedWithin
    <3>3. active.res \in Resolutions
      BY <1>3, <1>6, <2>3
    <3>4. target \in Outputs
      BY <1>3, <3>3, WantedExists
    <3> HIDE DEF target, rate
    <3> HIDE DEF decision
    <3>5. next' \in NextType /\ acted' \in {"none", "up", "down"}
      BY <3>1, <3>2, <3>4, RequestedTyped
    <3>6. check' \in CheckType
      BY <3>1, <1>6
    <3>7. reduced' \in BOOLEAN
      BY <3>1, <1>6, Zenon
    <3>q. QED  BY <1>1, <1>6, <2>1, <3>5, <3>6, <3>7 DEF BitRateTypeOK
  <2>q. QED  BY <1>8, <2>2, <2>3 DEF ChangeResolution
<1>9. CASE SetQuality
  <2>1. Clamped(check.rate) \in BitRates
    BY <1>2, <1>5, <1>6, ClampedWithin
  <2>2. active' \in [res : Outputs, rate : BitRates]
    BY <1>9, <2>1, <1>6 DEF SetQuality
  <2>q. QED  BY <1>1, <1>4, <1>6, <1>9, <2>2 DEF SetQuality, BitRateTypeOK
<1>10. CASE OnOutputSwitch
  <2>1. active' \in [res : Outputs, rate : BitRates]
    BY <1>10, <1>6 DEF OnOutputSwitch
  <2>2. reduced' \in BOOLEAN
    BY <1>10 DEF OnOutputSwitch
  <2>q. QED  BY <1>1, <1>4, <1>6, <1>10, <2>1, <2>2 DEF OnOutputSwitch, BitRateTypeOK
<1>11. CASE (\E rate \in InputRates : MeasureInput(rate)) \/ (\E rate \in Rates : BecomeSteady(rate))
  BY <1>1, <1>6, <1>11 DEF MeasureInput, BecomeSteady, BitRateTypeOK
<1>12. CASE UNCHANGED bitrate
  BY <1>6, <1>12, <1>1 DEF bitrate, BitRateTypeOK
<1>q. QED  BY <1>7, <1>8, <1>9, <1>10, <1>11, <1>12 DEF BitRateNext, CheckStep

\* The types at the start.
LEMMA BitRateTypesInitially == BitRateInit => BitRateTypeOK
<1> SUFFICES ASSUME BitRateInit PROVE BitRateTypeOK
  OBVIOUS
<1>1. Original \in Outputs /\ Low[Original] \in BitRates /\ 0 \in BitRates
  BY BitRateAssumption DEF Outputs, BitRates
<1>2. Cap \in Nat
  BY OlderAge
<1>3. active \in [res : Outputs, rate : BitRates] /\ next \in [res : Outputs \cup {0}, rate : BitRates]
  BY <1>1 DEF BitRateInit, NoNext
<1>4. check \in [pc : {"idle", "change", "quality"}, rate : Rates \cup {0}, old : BitRates \cup InputRates, critical : BOOLEAN]
  BY <1>1 DEF BitRateInit, NoCheck
<1>5. change \in [dir : {"none", "up", "down"}, age : 0..Cap, idle : 0..Cap]
  BY <1>2 DEF BitRateInit, NoChange
<1>6. split \in BOOLEAN /\ reduced \in BOOLEAN
  BY DEF BitRateInit
<1>7. inputRate \in InputRates /\ goal \in Rates \cup {0} /\ acted \in {"none", "up", "down"}
  BY DEF BitRateInit
<1>8. {decreased, raised} \subseteq 0..Cap
  BY <1>2 DEF BitRateInit
<1>q. QED  BY <1>3, <1>4, <1>5, <1>6, <1>7, <1>8 DEF BitRateTypeOK

----------------------------------------------------------------------------
(* The transcoder with passthrough: the inductive invariant.                *)

Tasks == [at : {"idle", "load", "store", "swap", "after"}, switch : Switches,
          current : Values, next : Values \cup {None}, key : BOOLEAN, packet : 0..MaxPackets]
SwitchValues == [current : Values, next : Values \cup {None}]
Settings == [wanted : Values, call : {"none", "set", "reset"}, was : Values]

SoundTask(t) ==
  /\ t \in Tasks
  /\ t.at # "idle" => t.packet \in 1..MaxPackets
  /\ t.at \in {"store", "swap", "after"} => t.next \in Values
  /\ t.at = "after" => t.switch = "pre"

TasksSound == task \in [Evaluators -> Tasks] /\ \A e \in Evaluators : SoundTask(task[e])
WaysTyped == onWay \in [Ways -> Seq(1..MaxPackets)]
ValuesTyped == value \in [Switches -> SwitchValues]
RestTyped ==
  /\ sharedConnection \in BOOLEAN /\ patient \in BOOLEAN /\ hurried \in BOOLEAN
  /\ sent \in 0..MaxPackets /\ config \in Settings
PassTypes == TasksSound /\ WaysTyped /\ ValuesTyped /\ RestTyped

\* Whoever commits the first switch commits what is wanted.
Commits(e, s) == task[e].switch = s /\ Committing(e)
PreSettles ==
  /\ value["pre"].next \in {None, config.wanted}
  /\ value["pre"].next = None => value["pre"].current = config.wanted
  /\ \A e \in Evaluators : Commits(e, "pre") =>
       task[e].next = config.wanted /\ (task[e].at # "store" => value["pre"].current = config.wanted)

\* The second switch goes where the first is, or somebody will tell it to.
PostGoal == IF value["post"].next # None THEN value["post"].next ELSE value["post"].current
Announces(e) ==
  /\ task[e].switch = "pre"
  /\ task[e].at = "after" \/ (task[e].at = "swap" /\ value["pre"].next = task[e].next)
PostSettles ==
  /\ \A e \in Evaluators : Commits(e, "post") =>
       task[e].next = PostGoal /\ (task[e].at # "store" => value["post"].current = PostGoal)
  /\ PostGoal = value["pre"].current \/ \E e \in Evaluators : Announces(e)
Settling == ~hurried => PreSettles /\ PostSettles

\* Who is patient asks when nothing is pending, so that what is pending at the
\* second switch is what is wanted.
Patience ==
  /\ \A e \in Evaluators : Commits(e, "post") => task[e].next = config.wanted
  /\ Pending("post") => value["post"].next = config.wanted
  /\ config.call = "set" => (\A s \in Switches : ~Pending(s)) /\ (\A e \in Evaluators : ~Committing(e))
Patient == patient => ~hurried /\ Patience

\* A way has packets in order, and before the one that its condition looks at.
Ordered(w) ==
  /\ InOrder(onWay[w]) /\ \A i \in DOMAIN onWay[w] : onWay[w][i] <= sent
  /\ task[Fronts[w]].at # "idle" =>
       task[Fronts[w]].packet = sent /\ \A i \in DOMAIN onWay[w] : onWay[w][i] < sent
WaysOrdered == \A w \in Ways : Ordered(w)

PassthroughInv == PassTypes /\ Settling /\ Patient /\ WaysOrdered

----------------------------------------------------------------------------
(* The transcoder with passthrough: types.                                  *)

\* The types of the proof are those of the module.
LEMMA PassTypesImply == PassTypes => PassthroughTypeOK
<1> SUFFICES ASSUME PassTypes PROVE PassthroughTypeOK
  OBVIOUS
<1>1. task \in [Evaluators -> Tasks] /\ value \in [Switches -> SwitchValues] /\ onWay \in [Ways -> Seq(1..MaxPackets)]
  BY DEF PassTypes, TasksSound, ValuesTyped, WaysTyped
<1>2. {sharedConnection, patient, hurried} \subseteq BOOLEAN /\ sent \in 0..MaxPackets /\ config \in Settings
  BY DEF PassTypes, RestTyped
<1>q. QED  BY <1>1, <1>2 DEF PassthroughTypeOK, Tasks, SwitchValues, Settings

\* A condition that nobody looks at is sound.
LEMMA IdleIsSound == SoundTask(NoTask) /\ NoTask.at = "idle"
<1>1. NewTask(0, FALSE) \in Tasks
  BY PassthroughAssumption DEF NewTask, Tasks, Switches, Values, None
<1>2. NoTask \in Tasks /\ NoTask.at = "idle"
  BY <1>1 DEF NoTask, Tasks
<1>q. QED  BY <1>2 DEF SoundTask

\* One that is begun with a packet is sound.
LEMMA NewTaskSound ==
  ASSUME NEW packet \in 1..MaxPackets, NEW key \in BOOLEAN
  PROVE  LET t == NewTask(packet, key)
         IN SoundTask(t) /\ t.at = "load" /\ t.switch = "pre" /\ t.packet = packet
BY PassthroughAssumption DEF SoundTask, NewTask, Tasks, Switches, Values, None

\* The types at the start.
LEMMA PassTypesInitially == PassthroughInit => PassTypes
<1> SUFFICES ASSUME PassthroughInit PROVE PassTypes
  OBVIOUS
<1>1. task = [e \in Evaluators |-> NoTask]
  BY DEF PassthroughInit
<1>2. TasksSound
  BY <1>1, IdleIsSound DEF TasksSound, SoundTask
<1>3. WaysTyped
  BY DEF PassthroughInit, WaysTyped
<1>4. ValuesTyped
  BY DEF PassthroughInit, ValuesTyped, SwitchValues, Values
<1>5. RestTyped
  <2>1. sharedConnection \in BOOLEAN /\ patient \in BOOLEAN /\ hurried \in BOOLEAN
    BY DEF PassthroughInit
  <2>2. sent \in 0..MaxPackets /\ config \in Settings
    BY PassthroughAssumption DEF PassthroughInit, Settings, Values
  <2>q. QED  BY <2>1, <2>2 DEF RestTyped
<1>q. QED  BY <1>2, <1>3, <1>4, <1>5 DEF PassTypes

\* A step of one condition keeps the others sound.
LEMMA OneTask ==
  ASSUME TasksSound, NEW e \in Evaluators, NEW t, SoundTask(t), task' = [task EXCEPT ![e] = t]
  PROVE  TasksSound' /\ task'[e] = t /\ \A p \in Evaluators \ {e} : task'[p] = task[p]
<1>1. task \in [Evaluators -> Tasks] /\ t \in Tasks
  BY DEF TasksSound, SoundTask
<1>2. task'[e] = t /\ \A p \in Evaluators \ {e} : task'[p] = task[p]
  BY <1>1
<1>3. task' \in [Evaluators -> Tasks]
  BY <1>1
<1>4. \A p \in Evaluators : SoundTask(task'[p])
  BY <1>2 DEF TasksSound
<1>q. QED  BY <1>2, <1>3, <1>4 DEF TasksSound, SoundTask

\* What a verdict does: the packet is dropped or the second switch is asked,
\* unless the packet is let onto the way.
Aside(t, old) == t = NoTask \/ t = [old EXCEPT !.at = "load", !.switch = "post"]
Ruled(e) ==
  /\ \E t : Aside(t, task[e]) /\ task' = [task EXCEPT ![e] = t]
  /\ \/ UNCHANGED onWay
     \/ /\ e[1] = "to" /\ task' = [task EXCEPT ![e] = NoTask]
        /\ onWay' = [onWay EXCEPT ![e[2]] = Append(@, task[e].packet)]

\* Verdict does so.
LEMMA VerdictRules ==
  ASSUME TasksSound, NEW e \in Evaluators, NEW current, Verdict(e, current)
  PROVE  Ruled(e)
<1>1. task \in [Evaluators -> Tasks] /\ task[e] \in Tasks
  BY DEF TasksSound
<1>2. CASE task' = [task EXCEPT ![e] = NoTask]
  <2>1. \E t : Aside(t, task[e]) /\ task' = [task EXCEPT ![e] = t]
    BY <1>2 DEF Aside
  <2>2. \/ UNCHANGED onWay
        \/ e[1] = "to" /\ onWay' = [onWay EXCEPT ![e[2]] = Append(@, task[e].packet)]
    BY <1>2, <1>1 DEF Verdict, Tasks
  <2>q. QED  BY <1>2, <2>1, <2>2 DEF Ruled
<1>3. CASE task' = [task EXCEPT ![e] = [@ EXCEPT !.at = "load", !.switch = "post"]] /\ UNCHANGED onWay
  <2>1. task' = [task EXCEPT ![e] = [task[e] EXCEPT !.at = "load", !.switch = "post"]]
    BY <1>1, <1>3
  <2>q. QED  BY <1>3, <2>1 DEF Ruled, Aside
<1>q. QED  BY <1>2, <1>3 DEF Verdict

\* A verdict keeps the types.
LEMMA RuledKeepsTypes ==
  ASSUME TasksSound, WaysTyped, NEW e \in Evaluators, task[e].at # "idle", Ruled(e)
  PROVE  /\ TasksSound' /\ WaysTyped'
         /\ task'[e].at \in {"idle", "load"} /\ \A p \in Evaluators \ {e} : task'[p] = task[p]
<1>1. PICK t : Aside(t, task[e]) /\ task' = [task EXCEPT ![e] = t]
  BY DEF Ruled
<1>2. SoundTask(t) /\ t.at \in {"idle", "load"}
  BY <1>1, IdleIsSound DEF Aside, TasksSound, SoundTask, Tasks, Switches
<1>3. TasksSound' /\ task'[e] = t /\ \A p \in Evaluators \ {e} : task'[p] = task[p]
  BY <1>1, <1>2, OneTask
<1>4. WaysTyped'
  <2>1. task[e].packet \in 1..MaxPackets /\ e[2] \in Ways
    BY DEF TasksSound, SoundTask, Evaluators
  <2>2. \A w \in Ways : onWay[w] \in Seq(1..MaxPackets)
    BY DEF WaysTyped
  <2>3. Append(onWay[e[2]], task[e].packet) \in Seq(1..MaxPackets)
    BY <2>1, <2>2, AppendProperties
  <2>q. QED  BY <2>1, <2>3 DEF Ruled, WaysTyped
<1>q. QED  BY <1>2, <1>3, <1>4

\* What a step of a condition does: it moves this condition only.
Looks(e) == LoadValues(e) \/ StoreCurrentValue(e) \/ SwapNextValue(e) \/ OnAfterSwitch(e)

\* A verdict, the start of a commit, or the next step of one.
LoadMoves(e) ==
  /\ value' = value /\ hurried' = hurried
  /\ \/ Ruled(e)
     \/ /\ Pending(task[e].switch) /\ onWay' = onWay
        /\ task' = [task EXCEPT ![e] = [@ EXCEPT !.at = "store", !.current = value[task[e].switch].current,
                                                  !.next = value[task[e].switch].next]]
StoreMoves(e) ==
  /\ hurried' = hurried /\ onWay' = onWay
  /\ value' = [value EXCEPT ![task[e].switch] = [@ EXCEPT !.current = task[e].next]]
  /\ task' = [task EXCEPT ![e] = [@ EXCEPT !.at = "swap"]]
SwapMoves(e) ==
  LET s == task[e].switch
  IN /\ hurried' = hurried
     /\ \/ /\ value[s].next # task[e].next /\ value' = value /\ Ruled(e)
        \/ /\ value[s].next = task[e].next /\ value' = [value EXCEPT ![s] = [@ EXCEPT !.next = None]]
           /\ \/ s = "post" /\ Ruled(e)
              \/ s = "pre" /\ onWay' = onWay /\ task' = [task EXCEPT ![e] = [@ EXCEPT !.at = "after"]]
AfterMoves(e) ==
  /\ value' = [value EXCEPT !["post"] = [@ EXCEPT !.next = task[e].next]]
  /\ Hurry("post", task[e].next) /\ Ruled(e)

\* These are the steps.
LEMMA LooksMove ==
  ASSUME PassTypes, NEW e \in Evaluators, Looks(e)
  PROVE  /\ UNCHANGED <<mode, config, sent, configs>>
         /\ \/ task[e].at = "load" /\ LoadMoves(e)
            \/ task[e].at = "store" /\ StoreMoves(e)
            \/ task[e].at = "swap" /\ SwapMoves(e)
            \/ task[e].at = "after" /\ AfterMoves(e)
<1>1. /\ task \in [Evaluators -> Tasks] /\ task[e] \in Tasks /\ task[e].switch \in Switches
      /\ value \in [Switches -> SwitchValues] /\ TasksSound
  BY DEF PassTypes, TasksSound, ValuesTyped, Tasks
<1>2. \A current : Verdict(e, current) => Ruled(e)
  BY <1>1, VerdictRules
<1>3. ASSUME LoadValues(e) PROVE task[e].at = "load" /\ LoadMoves(e)
  BY <1>1, <1>2, <1>3 DEF LoadValues, LoadMoves, Pending
<1>4. ASSUME StoreCurrentValue(e) PROVE task[e].at = "store" /\ StoreMoves(e)
  BY <1>1, <1>4 DEF StoreCurrentValue, StoreMoves
<1>5. ASSUME SwapNextValue(e) PROVE task[e].at = "swap" /\ SwapMoves(e)
  <2>1. task[e].switch \in {"pre", "post"}
    BY <1>1 DEF Switches
  <2>q. QED  BY <1>1, <1>2, <1>5, <2>1 DEF SwapNextValue, SwapMoves
<1>6. ASSUME OnAfterSwitch(e) PROVE task[e].at = "after" /\ AfterMoves(e)
  BY <1>1, <1>2, <1>6 DEF OnAfterSwitch, AfterMoves, Switches
<1>7. UNCHANGED <<mode, config, sent, configs>>
  BY DEF Looks, LoadValues, StoreCurrentValue, SwapNextValue, OnAfterSwitch
<1>q. QED  BY <1>3, <1>4, <1>5, <1>6, <1>7 DEF Looks

\* They keep the types, move no other condition, and move one that commits on.
LEMMA LooksKeepTypes ==
  ASSUME PassTypes, NEW e \in Evaluators, Looks(e)
  PROVE  /\ TasksSound' /\ WaysTyped' /\ ValuesTyped'
         /\ \A p \in Evaluators \ {e} : task'[p] = task[p]
<1>1. /\ task \in [Evaluators -> Tasks] /\ task[e] \in Tasks /\ task[e].switch \in Switches
      /\ value \in [Switches -> SwitchValues] /\ TasksSound /\ WaysTyped /\ SoundTask(task[e])
  BY DEF PassTypes, TasksSound, ValuesTyped, Tasks
<1>2. task[e].at # "idle"
  BY LooksMove
<1>3. CASE Ruled(e)
  <2>1. TasksSound' /\ WaysTyped' /\ \A p \in Evaluators \ {e} : task'[p] = task[p]
    BY <1>1, <1>2, <1>3, RuledKeepsTypes
  <2>2. value' \in [Switches -> SwitchValues]
    <3>1. task[e].at = "after" => task[e].next \in Values
      BY <1>1 DEF SoundTask
    <3>2. PICK s, v : s \in Switches /\ (value' = value \/ (v \in SwitchValues /\ value' = [value EXCEPT ![s] = v]))
      <4>1. CASE value' = value
        BY <1>1, <4>1
      <4>2. CASE value' = [value EXCEPT ![task[e].switch] = [@ EXCEPT !.next = None]]
        <5>1. [value[task[e].switch] EXCEPT !.next = None] \in SwitchValues
          BY <1>1 DEF SwitchValues
        <5>q. QED  BY <1>1, <4>2, <5>1
      <4>3. CASE task[e].at = "after" /\ value' = [value EXCEPT !["post"] = [@ EXCEPT !.next = task[e].next]]
        <5>1. [value["post"] EXCEPT !.next = task[e].next] \in SwitchValues /\ "post" \in Switches
          BY <1>1, <3>1, <4>3 DEF SwitchValues, Switches
        <5>q. QED  BY <1>1, <4>3, <5>1
      <4>4. CASE task[e].at = "store" /\ StoreMoves(e)
        <5>1. [value[task[e].switch] EXCEPT !.current = task[e].next] \in SwitchValues
          BY <1>1, <4>4 DEF SwitchValues, SoundTask
        <5>q. QED  BY <1>1, <4>4, <5>1 DEF StoreMoves
      <4>q. QED  BY <4>1, <4>2, <4>3, <4>4, LooksMove DEF LoadMoves, SwapMoves, AfterMoves
    <3>q. QED  BY <1>1, <3>2
  <2>q. QED  BY <2>1, <2>2 DEF ValuesTyped
<1>4. CASE ~Ruled(e)
  <2>1. PICK t : task' = [task EXCEPT ![e] = t] /\ SoundTask(t)
    <3>1. CASE LoadMoves(e)
      <4>1. value[task[e].switch].next \in Values /\ value[task[e].switch].current \in Values
        BY <1>1, <1>4, <3>1 DEF LoadMoves, Pending, SwitchValues
      <4>2. SoundTask([task[e] EXCEPT !.at = "store", !.current = value[task[e].switch].current,
                                      !.next = value[task[e].switch].next])
        BY <1>1, <1>2, <4>1 DEF SoundTask, Tasks
      <4>q. QED  BY <1>4, <3>1, <4>2 DEF LoadMoves
    <3>2. CASE task[e].at = "store" /\ StoreMoves(e)
      <4>1. SoundTask([task[e] EXCEPT !.at = "swap"])
        BY <1>1, <3>2 DEF SoundTask, Tasks
      <4>q. QED  BY <3>2, <4>1 DEF StoreMoves
    <3>3. CASE task[e].at = "swap" /\ SwapMoves(e)
      <4>1. task[e].switch = "pre" => SoundTask([task[e] EXCEPT !.at = "after"])
        BY <1>1, <3>3 DEF SoundTask, Tasks
      <4>q. QED  BY <1>4, <3>3, <4>1 DEF SwapMoves
    <3>q. QED  BY <1>4, <3>1, <3>2, <3>3, LooksMove DEF AfterMoves
  <2>2. TasksSound' /\ \A p \in Evaluators \ {e} : task'[p] = task[p]
    BY <1>1, <2>1, OneTask
  <2>3. onWay' = onWay
    BY <1>4, LooksMove DEF LoadMoves, StoreMoves, SwapMoves, AfterMoves
  <2>4. value' \in [Switches -> SwitchValues]
    <3>1. \/ value' = value
          \/ value' = [value EXCEPT ![task[e].switch] = [@ EXCEPT !.next = None]]
          \/ /\ task[e].at = "store"
             /\ value' = [value EXCEPT ![task[e].switch] = [@ EXCEPT !.current = task[e].next]]
      BY <1>4, LooksMove DEF LoadMoves, StoreMoves, SwapMoves, AfterMoves
    <3>2. [value[task[e].switch] EXCEPT !.next = None] \in SwitchValues
      BY <1>1 DEF SwitchValues
    <3>3. task[e].at = "store" => [value[task[e].switch] EXCEPT !.current = task[e].next] \in SwitchValues
      BY <1>1 DEF SwitchValues, SoundTask
    <3>q. QED  BY <1>1, <3>1, <3>2, <3>3
  <2>q. QED  BY <1>1, <2>2, <2>3, <2>4 DEF ValuesTyped, WaysTyped
<1>q. QED  BY <1>3, <1>4

\* A packet begins to be looked at.
LEMMA PacketBegins ==
  ASSUME PassTypes, Push \/ \E w \in Ways, key \in BOOLEAN : GiveOut(w, key)
  PROVE  /\ TasksSound' /\ WaysTyped'
         /\ \A e \in Evaluators : task'[e] = task[e] \/ (task[e].at = "idle" /\ task'[e].at = "load")
<1>1. task \in [Evaluators -> Tasks] /\ \A w \in Ways : onWay[w] \in Seq(1..MaxPackets)
  BY DEF PassTypes, TasksSound, WaysTyped
<1>2. CASE Push
  <2>1. sent + 1 \in 1..MaxPackets /\ (sent + 1 \in KeyFrames) \in BOOLEAN
    BY <1>2, PassthroughAssumption DEF Push, PassTypes, RestTyped
  <2>2. PICK t : t = NewTask(sent + 1, sent + 1 \in KeyFrames)
    OBVIOUS
  <2>3. SoundTask(t) /\ t.at = "load"
    BY <2>1, <2>2, NewTaskSound
  <2>4. task' = [e \in Evaluators |-> IF e[1] = "to" THEN t ELSE task[e]] /\ onWay' = onWay
    BY <1>2, <2>2 DEF Push
  <2>5. \A e \in Evaluators : e[1] = "to" => task[e].at = "idle"
    <3>1. \A e \in Evaluators : e[1] = "to" => \E w \in Ways : e = Fronts[w]
      BY DEF Evaluators, Fronts
    <3>q. QED  BY <1>2, <3>1 DEF Push
  <2>6. TasksSound'
    BY <2>3, <2>4 DEF PassTypes, TasksSound, SoundTask
  <2>q. QED  BY <2>3, <2>4, <2>5, <2>6 DEF PassTypes, WaysTyped
<1>3. ASSUME NEW w \in Ways, NEW key \in BOOLEAN, GiveOut(w, key)
      PROVE  /\ TasksSound' /\ WaysTyped'
             /\ \A e \in Evaluators : task'[e] = task[e] \/ (task[e].at = "idle" /\ task'[e].at = "load")
  <2>1. Head(onWay[w]) \in 1..MaxPackets /\ Tail(onWay[w]) \in Seq(1..MaxPackets)
    BY <1>1, <1>3, HeadTailProperties DEF GiveOut
  <2>2. PICK t : t = NewTask(Head(onWay[w]), key)
    OBVIOUS
  <2>3. SoundTask(t) /\ t.at = "load"
    BY <2>1, <2>2, NewTaskSound
  <2>4. WaysTyped'
    BY <1>1, <1>3, <2>1 DEF GiveOut, PassTypes, WaysTyped
  <2>5. <<"from", w>> \in Evaluators /\ task[<<"from", w>>].at = "idle"
    BY <1>3 DEF GiveOut, Evaluators
  <2>6. task' = task \/ task' = [task EXCEPT ![<<"from", w>>] = t]
    BY <1>3, <2>2 DEF GiveOut
  <2>7. TasksSound' /\ \A e \in Evaluators : task'[e] = task[e] \/ (task[e].at = "idle" /\ task'[e].at = "load")
    <3>1. CASE task' = task
      BY <3>1 DEF PassTypes, TasksSound, SoundTask
    <3>2. CASE task' = [task EXCEPT ![<<"from", w>>] = t]
      BY <2>3, <2>5, <3>2, OneTask DEF PassTypes
    <3>q. QED  BY <2>6, <3>1, <3>2
  <2>q. QED  BY <2>4, <2>7
<1>q. QED  BY <1>2, <1>3

\* A call asks the first switch for a value, or does not.
Asks(v) ==
  /\ value' = [value EXCEPT !["pre"] = [@ EXCEPT !.next = v]] /\ Hurry("pre", v)
  /\ config'.wanted = v
Calls == Reconfigure \/ ReconfigureCopy \/ SetPassthrough \/ ResetTranscoder

\* What the calls do.
LEMMA CallsAsk ==
  ASSUME PassTypes, Calls
  PROVE  /\ UNCHANGED <<mode, task, sent>> /\ config' \in Settings /\ WaysTyped' /\ ValuesTyped'
         /\ \/ Asks(0) /\ Reconfigure /\ config'.call = config.call
            \/ Asks(1) /\ SetPassthrough /\ config'.call # "set"
            \/ /\ UNCHANGED <<value, hurried>> /\ config'.wanted = config.wanted
               /\ config'.call = "set" => config.call = "set" \/ ReconfigureCopy
<1>1. /\ config \in Settings /\ value \in [Switches -> SwitchValues]
      /\ \A w \in Ways : onWay[w] \in Seq(1..MaxPackets)
  BY DEF PassTypes, RestTyped, ValuesTyped, WaysTyped
<1>2. UNCHANGED <<mode, task, sent>>
  BY DEF Calls, Reconfigure, ReconfigureCopy, SetPassthrough, ResetTranscoder
<1>3. WaysTyped'
  <2>1. CASE ResetTranscoder
    <3>1. PICK held \in 0..Len(onWay["transcoder"]) :
            onWay' = [onWay EXCEPT !["transcoder"] = SubSeq(@, held + 1, Len(@))]
      BY <2>1 DEF ResetTranscoder
    <3>2. PICK s : s = onWay["transcoder"]
      OBVIOUS
    <3>3. s \in Seq(1..MaxPackets)
      BY <1>1, <3>2 DEF Ways
    <3>4. Len(s) \in Nat /\ \A i \in 1..Len(s) : s[i] \in 1..MaxPackets
      BY <3>3, LenProperties, ElementOfSeq
    <3>5. held \in Nat /\ \A i \in held + 1..Len(s) : s[i] \in 1..MaxPackets
      BY <3>2, <3>4
    <3>6. SubSeq(s, held + 1, Len(s)) \in Seq(1..MaxPackets)
      BY <3>4, <3>5, SubSeqProperties
    <3>q. QED  BY <1>1, <3>1, <3>2, <3>6 DEF PassTypes, WaysTyped
  <2>2. CASE ~ResetTranscoder
    BY <2>2 DEF Calls, Reconfigure, ReconfigureCopy, SetPassthrough, PassTypes, WaysTyped
  <2>q. QED  BY <2>1, <2>2
<1>4. CASE Reconfigure
  BY <1>1, <1>2, <1>3, <1>4 DEF Reconfigure, Asks, Settings, SwitchValues, Switches, Values, ValuesTyped
<1>5. CASE SetPassthrough
  BY <1>1, <1>2, <1>3, <1>5 DEF SetPassthrough, Asks, Settings, SwitchValues, Switches, Values, ValuesTyped
<1>6. CASE ReconfigureCopy
  BY <1>1, <1>2, <1>3, <1>6 DEF ReconfigureCopy, Settings, SwitchValues, Switches, Values, ValuesTyped
<1>7. CASE ResetTranscoder
  BY <1>1, <1>2, <1>3, <1>7 DEF ResetTranscoder, Settings, SwitchValues, Switches, Values, ValuesTyped
<1>q. QED  BY <1>4, <1>5, <1>6, <1>7 DEF Calls

\* The next-state relation, by what it does.
LEMMA PassthroughSteps ==
  PassthroughNext <=> \/ Push \/ \E w \in Ways, key \in BOOLEAN : GiveOut(w, key)
                      \/ \E e \in Evaluators : Looks(e)
                      \/ Calls
BY DEF PassthroughNext, Looks, Calls

\* The types are kept.
LEMMA PassTypesStep ==
  ASSUME PassTypes, PassthroughNext \/ UNCHANGED passthrough
  PROVE  PassTypes'
<1>1. CASE UNCHANGED passthrough
  BY <1>1 DEF passthrough, PassTypes, TasksSound, SoundTask, WaysTyped, ValuesTyped, RestTyped
<1>2. CASE Push \/ \E w \in Ways, key \in BOOLEAN : GiveOut(w, key)
  <2>1. UNCHANGED <<value, hurried, config>> /\ UNCHANGED mode /\ sent' \in 0..MaxPackets
    <3>1. UNCHANGED <<value, hurried, config>> /\ UNCHANGED mode
      BY <1>2 DEF Push, GiveOut
    <3>2. sent' = sent \/ (sent < MaxPackets /\ sent' = sent + 1)
      BY <1>2 DEF Push, GiveOut
    <3>3. sent \in 0..MaxPackets /\ MaxPackets \in Nat
      BY PassthroughAssumption DEF PassTypes, RestTyped
    <3>q. QED  BY <3>1, <3>2, <3>3
  <2>2. RestTyped' /\ ValuesTyped'
    BY <2>1 DEF mode, PassTypes, RestTyped, ValuesTyped
  <2>q. QED  BY <1>2, <2>2, PacketBegins DEF PassTypes
<1>3. ASSUME NEW e \in Evaluators, Looks(e) PROVE PassTypes'
  <2>1. UNCHANGED <<config, sent>> /\ UNCHANGED mode /\ hurried' \in BOOLEAN
    <3>1. hurried' = hurried \/ \E v : Hurry("post", v)
      BY <1>3, LooksMove DEF LoadMoves, StoreMoves, SwapMoves, AfterMoves
    <3>2. hurried' \in BOOLEAN
      BY <3>1, Zenon DEF PassTypes, RestTyped, Hurry
    <3>q. QED  BY <1>3, <3>2, LooksMove
  <2>q. QED  BY <1>3, <2>1, LooksKeepTypes DEF mode, PassTypes, RestTyped
<1>4. CASE Calls
  <2>1. hurried' \in BOOLEAN
    <3>1. hurried' = hurried \/ \E v : Hurry("pre", v)
      BY <1>4, CallsAsk DEF Asks
    <3>q. QED  BY <3>1, Zenon DEF PassTypes, RestTyped, Hurry
  <2>q. QED  BY <1>4, <2>1, CallsAsk DEF mode, PassTypes, RestTyped, TasksSound, SoundTask
<1>q. QED  BY <1>1, <1>2, <1>3, <1>4, PassthroughSteps

----------------------------------------------------------------------------
(* The transcoder with passthrough: both switches get the value.            *)

\* The invariant implies that the switches agree.
LEMMA SettlingImplies ==
  ASSUME PassTypes, Settling, Patient
  PROVE  SwitchesAgree /\ PatienceSuffices
<1>1. ASSUME Quiet, ~hurried, ~Pending("pre"), ~Pending("post")
      PROVE  value["pre"].current = config.wanted /\ value["post"].current = config.wanted
  <2>1. PreSettles /\ PostSettles
    BY <1>1 DEF Settling
  <2>2. value["pre"].current = config.wanted
    BY <1>1, <2>1 DEF PreSettles, Pending
  <2>3. \A e \in Evaluators : ~Announces(e)
    BY <1>1 DEF Quiet, Announces
  <2>4. PostGoal = value["pre"].current
    BY <2>1, <2>3 DEF PostSettles
  <2>5. PostGoal = value["post"].current
    BY <1>1 DEF PostGoal, Pending
  <2>q. QED  BY <2>2, <2>4, <2>5
<1>q. QED  BY <1>1 DEF SwitchesAgree, PatienceSuffices, Patient

\* It holds at the start.
LEMMA SettlesInitially == PassthroughInit => Settling /\ Patient
<1> SUFFICES ASSUME PassthroughInit PROVE Settling /\ Patient
  OBVIOUS
<1>1. \A e \in Evaluators : ~Committing(e)
  BY IdleIsSound DEF PassthroughInit, Committing
<1>2. \A s \in Switches : value[s].current = 0 /\ value[s].next = 0
  BY DEF PassthroughInit
<1>3. PreSettles /\ PostSettles
  BY <1>1, <1>2 DEF PassthroughInit, PreSettles, PostSettles, PostGoal, Commits, None, Switches
<1>4. Patience
  BY <1>1, <1>2 DEF PassthroughInit, Patience, Pending, Commits, Switches
<1>q. QED  BY <1>3, <1>4 DEF PassthroughInit, Settling, Patient

PassSound == PassTypes /\ PreSettles /\ PostSettles
SettlesOn == PreSettles' /\ PostSettles' /\ (patient /\ Patience => Patience')

\* Only condition e moves, and to where it commits nothing.
StandsAside(e) == ~Committing(e)' /\ \A p \in Evaluators \ {e} : task'[p] = task[p]

\* A verdict lets a condition stand aside.
LEMMA RuledAside ==
  ASSUME PassTypes, NEW e \in Evaluators, task[e].at # "idle", Ruled(e)
  PROVE  StandsAside(e)
BY RuledKeepsTypes DEF PassTypes, StandsAside, Committing

\* A condition that neither commits nor announces anything moves aside.
LEMMA LoadSettles ==
  ASSUME PassSound, NEW e \in Evaluators, task[e].at = "load", LoadMoves(e), UNCHANGED config,
         \A p \in Evaluators \ {e} : task'[p] = task[p]
  PROVE  SettlesOn
<1>1. value' = value /\ config' = config /\ PostGoal' = PostGoal
  BY DEF LoadMoves, PostGoal
<1>2. \A p \in Evaluators : Announces(p) => Announces(p)'
  BY <1>1 DEF Announces
<1>3. \A s \in Switches, p \in Evaluators : Commits(p, s)' =>
         \/ Commits(p, s) /\ task'[p] = task[p]
         \/ p = e /\ task'[e].at = "store" /\ value[s].next = task'[e].next /\ Pending(s)
  <2>1. task \in [Evaluators -> Tasks] /\ task[e] \in Tasks
    BY DEF PassSound, PassTypes, TasksSound
  <2>2. CASE Ruled(e)
    BY <2>2, RuledAside DEF PassSound, StandsAside, Commits, Committing
  <2>3. CASE ~Ruled(e)
    <3>1. /\ task'[e].at = "store" /\ task'[e].switch = task[e].switch
          /\ task'[e].next = value[task[e].switch].next /\ Pending(task[e].switch)
      <4>1. task'[e] = [task[e] EXCEPT !.at = "store", !.current = value[task[e].switch].current,
                                       !.next = value[task[e].switch].next]
        BY <2>1, <2>3 DEF LoadMoves
      <4>q. QED  BY <2>1, <2>3, <4>1 DEF LoadMoves, Tasks
    <3>q. QED  BY <3>1 DEF Commits, Committing
  <2>q. QED  BY <2>2, <2>3
<1>4. PreSettles'
  BY <1>1, <1>3 DEF PassSound, PreSettles, Pending, Switches
<1>5. PostSettles'
  BY <1>1, <1>2, <1>3 DEF PassSound, PostSettles, PostGoal, Pending, Switches
<1>6. ASSUME patient, Patience PROVE Patience'
  <2>1. \A s \in Switches : Pending(s)' <=> Pending(s)
    BY <1>1 DEF Pending
  <2>2. \A p \in Evaluators : Commits(p, "post")' => task'[p].next = config'.wanted
    BY <1>1, <1>3, <1>6 DEF Patience, Switches
  <2>3. \A p \in Evaluators : Committing(p) <=> \E s \in Switches : Commits(p, s)
    BY DEF PassSound, PassTypes, TasksSound, Tasks, Commits
  <2>4. ASSUME config'.call = "set", NEW p \in Evaluators PROVE ~Committing(p)'
    <3>1. \A s \in Switches : ~Commits(p, s)'
      BY <1>1, <1>3, <1>6, <2>3, <2>4 DEF Patience
    <3>2. task'[p].switch \in Switches
      <4>1. TasksSound'
        <5>1. CASE Ruled(e)
          BY <5>1, RuledKeepsTypes DEF PassSound, PassTypes
        <5>2. CASE ~Ruled(e)
          BY <1>1, <1>6, <2>4, <5>2 DEF LoadMoves, Patience, PassSound, PassTypes, TasksSound, Tasks
        <5>q. QED  BY <5>1, <5>2
      <4>q. QED  BY <4>1 DEF TasksSound, Tasks
    <3>q. QED  BY <3>1, <3>2 DEF Commits
  <2>q. QED  BY <1>1, <1>6, <2>1, <2>2, <2>4 DEF Patience, Pending
<1>q. QED  BY <1>4, <1>5, <1>6 DEF SettlesOn

\* The new value is stored: it is the wanted one, and who stored it will tell,
\* or has lost to somebody who has the same value.
LEMMA StoreSettles ==
  ASSUME PassSound, NEW e \in Evaluators, task[e].at = "store", StoreMoves(e), UNCHANGED config,
         \A p \in Evaluators \ {e} : task'[p] = task[p]
  PROVE  SettlesOn
<1>1. /\ task \in [Evaluators -> Tasks] /\ task[e] \in Tasks /\ task[e].switch \in {"pre", "post"}
      /\ value \in [Switches -> SwitchValues] /\ task[e].next \in Values
  BY DEF PassSound, PassTypes, TasksSound, ValuesTyped, SoundTask, Tasks, Switches
<1>2. PICK s : s = task[e].switch
  OBVIOUS
<1>3. s \in Switches /\ Commits(e, s) /\ \A r \in Switches \ {s} : ~Commits(e, r)
  BY <1>1, <1>2 DEF Commits, Committing, Switches
<1>4. task'[e] = [task[e] EXCEPT !.at = "swap"]
  BY <1>1 DEF StoreMoves
<1>5. task'[e].at = "swap" /\ task'[e].switch = s /\ task'[e].next = task[e].next
  BY <1>1, <1>2, <1>4 DEF Tasks
<1>6. value' = [value EXCEPT ![s] = [@ EXCEPT !.current = task[e].next]]
  BY <1>2 DEF StoreMoves
<1>7. /\ value'[s].next = value[s].next /\ value'[s].current = task[e].next
      /\ \A r \in Switches \ {s} : value'[r] = value[r]
  BY <1>1, <1>3, <1>6 DEF SwitchValues
<1>8. \A r \in Switches, p \in Evaluators : Commits(p, r)' =>
        Commits(p, r) /\ task'[p].next = task[p].next /\ (task'[p].at # "store" => p = e \/ task[p].at # "store")
  BY <1>1, <1>3, <1>5 DEF Commits, Committing
<1>9. CASE s = "pre"
  <2>1. task[e].next = config.wanted
    BY <1>3, <1>9 DEF PassSound, PreSettles
  <2>2. PreSettles'
    BY <1>3, <1>7, <1>8, <1>9, <2>1 DEF PassSound, PreSettles, Switches
  <2>3. PostGoal' = PostGoal /\ \A p \in Evaluators : Commits(p, "post")' => task'[p] = task[p]
    BY <1>3, <1>5, <1>7, <1>9 DEF PostGoal, Switches, Commits
  <2>4. PostGoal' = value'["pre"].current \/ \E p \in Evaluators : Announces(p)'
    <3>1. CASE value["pre"].next = task[e].next
      BY <1>5, <1>7, <1>9, <3>1 DEF Announces
    <3>2. CASE value["pre"].next # task[e].next
      <4>1. value["pre"].current = config.wanted
        BY <2>1, <3>2 DEF PassSound, PreSettles
      <4>2. \A p \in Evaluators : Announces(p) => Announces(p)'
        BY <1>1, <1>5, <1>7, <1>9 DEF Announces
      <4>q. QED  BY <1>7, <1>9, <2>1, <2>3, <4>1, <4>2 DEF PassSound, PostSettles
    <3>q. QED  BY <3>1, <3>2
  <2>5. PostSettles'
    BY <1>7, <1>8, <1>9, <2>3, <2>4 DEF PassSound, PostSettles, Switches
  <2>6. ASSUME patient, Patience PROVE Patience'
    BY <1>3, <1>7, <1>8, <1>9, <2>6 DEF Patience, Pending, Switches, Commits
  <2>q. QED  BY <2>2, <2>5, <2>6 DEF SettlesOn
<1>10. CASE s = "post"
  <2>1. task[e].next = PostGoal
    BY <1>3, <1>10 DEF PassSound, PostSettles
  <2>2. PreSettles'
    BY <1>3, <1>7, <1>8, <1>10 DEF PassSound, PreSettles, Switches
  <2>3. PostGoal' = PostGoal
    BY <1>7, <1>10, <2>1 DEF PostGoal
  <2>4. \A p \in Evaluators : Announces(p) => Announces(p)'
    BY <1>1, <1>2, <1>7, <1>10 DEF Announces, Switches
  <2>5. value'["pre"] = value["pre"]
    BY <1>7, <1>10 DEF Switches
  <2>6. PostSettles'
    BY <1>3, <1>7, <1>8, <1>10, <2>1, <2>3, <2>4, <2>5 DEF PassSound, PostSettles, Switches
  <2>7. ASSUME patient, Patience PROVE Patience'
    <3>1. task[e].next = config.wanted
      BY <1>3, <1>10, <2>7 DEF Patience
    <3>2. value["post"].next \in {None, config.wanted}
      BY <2>1, <3>1 DEF PostGoal
    <3>q. QED  BY <1>3, <1>7, <1>8, <1>10, <2>7, <3>1, <3>2 DEF Patience, Pending, Switches, Commits
  <2>q. QED  BY <2>2, <2>6, <2>7 DEF SettlesOn
<1>q. QED  BY <1>1, <1>2, <1>9, <1>10

\* Who swaps the first switch has still to tell the second; who swaps the
\* second has stored its value.
LEMMA SwapSettles ==
  ASSUME PassSound, NEW e \in Evaluators, task[e].at = "swap", SwapMoves(e), UNCHANGED config,
         \A p \in Evaluators \ {e} : task'[p] = task[p]
  PROVE  SettlesOn
<1>1. /\ task \in [Evaluators -> Tasks] /\ task[e] \in Tasks /\ task[e].switch \in {"pre", "post"}
      /\ value \in [Switches -> SwitchValues] /\ task[e].next \in Values
  BY DEF PassSound, PassTypes, TasksSound, ValuesTyped, SoundTask, Tasks, Switches
<1>2. PICK s : s = task[e].switch
  OBVIOUS
<1>3. s \in {"pre", "post"} /\ Commits(e, s) /\ \A r \in Switches \ {s} : ~Commits(e, r)
  BY <1>1, <1>2 DEF Commits, Committing
<1>4. CASE value[s].next # task[e].next
  <2>1. value' = value /\ config' = config /\ PostGoal' = PostGoal /\ StandsAside(e)
    BY <1>2, <1>4, RuledAside DEF SwapMoves, PostGoal, PassSound
  <2>2. \A p \in Evaluators : Announces(p) => Announces(p)'
    BY <1>2, <1>4, <2>1 DEF Announces, StandsAside
  <2>3. \A r \in Switches, p \in Evaluators : Commits(p, r)' => Commits(p, r) /\ task'[p] = task[p]
    BY <2>1 DEF Commits, Committing, StandsAside
  <2>4. \A p \in Evaluators : Committing(p)' => Committing(p)
    BY <2>1 DEF StandsAside, Committing
  <2>5. PreSettles' /\ PostSettles'
    BY <2>1, <2>2, <2>3 DEF PassSound, PreSettles, PostSettles, Switches
  <2>6. patient /\ Patience => Patience'
    BY <2>1, <2>3, <2>4 DEF Patience, Pending, Switches
  <2>q. QED  BY <2>5, <2>6 DEF SettlesOn
<1>5. CASE value[s].next = task[e].next /\ s = "pre"
  <2>1. /\ value' = [value EXCEPT !["pre"] = [@ EXCEPT !.next = None]]
        /\ task' = [task EXCEPT ![e] = [@ EXCEPT !.at = "after"]]
    BY <1>2, <1>5 DEF SwapMoves
  <2>2. /\ value'["pre"].next = None /\ value'["pre"].current = value["pre"].current
        /\ value'["post"] = value["post"]
    BY <1>1, <2>1 DEF SwitchValues, Switches
  <2>3. task'[e].at = "after" /\ task'[e].switch = "pre" /\ task'[e].next = task[e].next
    BY <1>1, <1>2, <1>5, <2>1 DEF Tasks
  <2>4. \A r \in Switches, p \in Evaluators : Commits(p, r)' =>
          Commits(p, r) /\ task'[p].next = task[p].next /\ (task[p].at = "store" => task'[p].at = "store")
    BY <1>3, <1>5, <2>3 DEF Commits, Committing
  <2>5. task[e].next = config.wanted /\ value["pre"].current = config.wanted
    BY <1>3, <1>5 DEF PassSound, PreSettles
  <2>6. PreSettles'
    BY <2>2, <2>4, <2>5 DEF PassSound, PreSettles, Switches
  <2>7. Announces(e)' /\ PostGoal' = PostGoal
    BY <2>2, <2>3 DEF Announces, PostGoal
  <2>8. PostSettles'
    BY <2>2, <2>4, <2>7 DEF PassSound, PostSettles, Switches
  <2>9. patient /\ Patience => Patience'
    BY <1>3, <2>2, <2>4 DEF Patience, Pending, Switches, Commits
  <2>q. QED  BY <2>6, <2>8, <2>9 DEF SettlesOn
<1>6. CASE value[s].next = task[e].next /\ s = "post"
  <2>1. value' = [value EXCEPT !["post"] = [@ EXCEPT !.next = None]] /\ Ruled(e)
    BY <1>2, <1>6 DEF SwapMoves
  <2>2. /\ value'["post"].next = None /\ value'["post"].current = value["post"].current
        /\ value'["pre"] = value["pre"]
    BY <1>1, <2>1 DEF SwitchValues, Switches
  <2>3. StandsAside(e)
    BY <2>1, RuledAside DEF PassSound
  <2>4. \A r \in Switches, p \in Evaluators : Commits(p, r)' => Commits(p, r) /\ task'[p] = task[p]
    BY <2>3 DEF Commits, Committing, StandsAside
  <2>5. \A p \in Evaluators : Announces(p) => Announces(p)'
    BY <1>2, <1>6, <2>2, <2>3 DEF Announces, StandsAside
  <2>6. PreSettles'
    BY <2>2, <2>4 DEF PassSound, PreSettles, Switches
  <2>7. value["post"].current = PostGoal /\ PostGoal' = PostGoal
    BY <1>3, <1>6, <2>2 DEF PassSound, PostSettles, PostGoal
  <2>8. PostSettles'
    BY <2>2, <2>4, <2>5, <2>7 DEF PassSound, PostSettles, Switches
  <2>9. \A p \in Evaluators : Committing(p)' => Committing(p)
    BY <2>3 DEF StandsAside, Committing
  <2>10. patient /\ Patience => Patience'
    BY <2>2, <2>4, <2>9 DEF Patience, Pending, Switches
  <2>q. QED  BY <2>6, <2>8, <2>10 DEF SettlesOn
<1>q. QED  BY <1>3, <1>4, <1>5, <1>6

\* The second switch is told: it is going where the first is.
LEMMA AfterSettles ==
  ASSUME PassSound, NEW e \in Evaluators, task[e].at = "after", AfterMoves(e), UNCHANGED config,
         \A p \in Evaluators \ {e} : task'[p] = task[p]
  PROVE  /\ ~hurried' => SettlesOn
         /\ patient /\ ~hurried /\ Patience => ~hurried'
<1>1. /\ task \in [Evaluators -> Tasks] /\ task[e] \in Tasks /\ task[e].switch = "pre"
      /\ value \in [Switches -> SwitchValues] /\ task[e].next \in Values
  BY DEF PassSound, PassTypes, TasksSound, ValuesTyped, SoundTask, Tasks, Switches
<1>2. StandsAside(e)
  BY RuledAside DEF AfterMoves, PassSound
<1>3. \A r \in Switches, p \in Evaluators : Commits(p, r)' => Commits(p, r) /\ task'[p] = task[p]
  BY <1>2 DEF Commits, Committing, StandsAside
<1>4. task[e].next = config.wanted /\ value["pre"].current = config.wanted /\ config.wanted # None
  <2>1. Commits(e, "pre")
    BY <1>1 DEF Commits, Committing
  <2>2. task[e].next # None
    BY <1>1 DEF Values, None
  <2>q. QED  BY <2>1, <2>2 DEF PassSound, PreSettles
<1>5. /\ value'["post"].next = config.wanted /\ value'["post"].current = value["post"].current
      /\ value'["pre"] = value["pre"]
  BY <1>1, <1>4 DEF AfterMoves, SwitchValues, Switches
<1>6. ASSUME ~hurried' PROVE SettlesOn
  <2>1. \A p \in Evaluators : Commits(p, "post") => task[p].next = config.wanted
    BY <1>4, <1>6 DEF AfterMoves, Hurry, Commits
  <2>2. PreSettles'
    BY <1>3, <1>5 DEF PassSound, PreSettles, Switches
  <2>3. PostGoal' = config.wanted
    BY <1>4, <1>5 DEF PostGoal
  <2>4. \A p \in Evaluators : Commits(p, "post") => PostGoal = config.wanted
    BY <2>1 DEF PassSound, PostSettles
  <2>5. PostSettles'
    BY <1>3, <1>4, <1>5, <2>3, <2>4 DEF PassSound, PostSettles, Switches
  <2>6. ASSUME patient, Patience PROVE Patience'
    <3>1. config.call # "set"
      BY <2>6 DEF Patience, Committing
    <3>q. QED  BY <1>3, <1>5, <2>1, <3>1 DEF Patience, Pending, Switches
  <2>q. QED  BY <2>2, <2>5, <2>6 DEF SettlesOn
<1>7. patient /\ ~hurried /\ Patience => ~hurried'
  BY <1>4 DEF AfterMoves, Hurry, Patience, Commits
<1>q. QED  BY <1>6, <1>7

\* A call asks for a value: whoever commits another one has been hurried.
LEMMA AskSettles ==
  ASSUME PassSound, NEW v \in Values, Asks(v), UNCHANGED task
  PROVE  /\ ~hurried' => PreSettles' /\ PostSettles'
         /\ patient /\ ~hurried /\ (\A e \in Evaluators : ~Committing(e)) => ~hurried'
<1>1. value \in [Switches -> SwitchValues]
  BY DEF PassSound, PassTypes, ValuesTyped
<1>2. /\ value'["pre"].next = v /\ value'["pre"].current = value["pre"].current
      /\ value'["post"] = value["post"] /\ config'.wanted = v /\ v # None
  BY <1>1 DEF Asks, SwitchValues, Switches, Values, None
<1>3. ASSUME ~hurried' PROVE PreSettles' /\ PostSettles'
  <2>1. \A e \in Evaluators : Commits(e, "pre") => task[e].next = v
    BY <1>3 DEF Asks, Hurry, Commits
  <2>2. \A s : \A e \in Evaluators : Commits(e, s)' <=> Commits(e, s)
    BY DEF Commits, Committing
  <2>3. PreSettles'
    BY <1>2, <2>1, <2>2 DEF PassSound, PreSettles
  <2>4. \A e \in Evaluators : Announces(e) => Announces(e)'
    BY <1>2, <2>1 DEF Announces, Commits, Committing
  <2>5. PostGoal' = PostGoal
    BY <1>2 DEF PostGoal
  <2>6. PostSettles'
    BY <1>2, <2>2, <2>4, <2>5 DEF PassSound, PostSettles
  <2>q. QED  BY <2>3, <2>6
<1>4. patient /\ ~hurried /\ (\A e \in Evaluators : ~Committing(e)) => ~hurried'
  BY DEF Asks, Hurry
<1>q. QED  BY <1>3, <1>4

\* Every step keeps both switches on their way.
LEMMA SettlingStep ==
  ASSUME PassTypes, Settling, Patient, PassthroughNext \/ UNCHANGED passthrough
  PROVE  Settling' /\ Patient'
<1>1. ASSUME NEW e \in Evaluators, Looks(e) PROVE Settling' /\ Patient'
  <2>1. (\A p \in Evaluators \ {e} : task'[p] = task[p]) /\ UNCHANGED config /\ UNCHANGED patient
    BY <1>1, LooksKeepTypes, LooksMove DEF mode
  <2>2. hurried => hurried'
    BY <1>1, LooksMove DEF LoadMoves, StoreMoves, SwapMoves, AfterMoves, Hurry
  <2>3. ASSUME ~hurried PROVE (~hurried' => SettlesOn) /\ (patient /\ Patience => ~hurried')
    <3>1. PassSound
      BY <2>3 DEF PassSound, Settling
    <3>2. CASE task[e].at = "load" /\ LoadMoves(e)
      BY <2>1, <2>3, <3>1, <3>2, LoadSettles DEF LoadMoves
    <3>3. CASE task[e].at = "store" /\ StoreMoves(e)
      BY <2>1, <2>3, <3>1, <3>3, StoreSettles DEF StoreMoves
    <3>4. CASE task[e].at = "swap" /\ SwapMoves(e)
      BY <2>1, <2>3, <3>1, <3>4, SwapSettles DEF SwapMoves
    <3>5. CASE task[e].at = "after" /\ AfterMoves(e)
      BY <2>1, <2>3, <3>1, <3>5, AfterSettles
    <3>q. QED  BY <1>1, <3>2, <3>3, <3>4, <3>5, LooksMove
  <2>q. QED  BY <2>1, <2>2, <2>3 DEF Settling, Patient, SettlesOn
<1>2. CASE Push \/ \E w \in Ways, key \in BOOLEAN : GiveOut(w, key)
  <2>1. UNCHANGED <<value, hurried, config, patient>>
    BY <1>2 DEF Push, GiveOut, mode
  <2>2. \A e \in Evaluators : task'[e] = task[e] \/ (task[e].at = "idle" /\ task'[e].at = "load")
    BY <1>2, PacketBegins
  <2>3. \A e \in Evaluators : /\ Committing(e)' <=> Committing(e)
                              /\ Committing(e) => task'[e] = task[e]
                              /\ Announces(e) => Announces(e)'
    BY <2>1, <2>2 DEF Committing, Announces
  <2>4. \A s : \A e \in Evaluators : Commits(e, s)' => Commits(e, s) /\ task'[e] = task[e]
    BY <2>3 DEF Commits
  <2>5. PostGoal' = PostGoal /\ \A s : Pending(s)' <=> Pending(s)
    BY <2>1 DEF PostGoal, Pending
  <2>6. PreSettles /\ PostSettles => PreSettles' /\ PostSettles'
    BY <2>1, <2>3, <2>4, <2>5 DEF PreSettles, PostSettles
  <2>7. Patience => Patience'
    BY <2>1, <2>3, <2>4, <2>5 DEF Patience
  <2>q. QED  BY <2>1, <2>6, <2>7 DEF Settling, Patient
<1>3. CASE UNCHANGED passthrough
  <2>1. /\ PostGoal' = PostGoal /\ \A s : Pending(s)' <=> Pending(s)
        /\ \A e, s : (Commits(e, s)' <=> Commits(e, s)) /\ (Committing(e)' <=> Committing(e))
        /\ \A e : Announces(e)' <=> Announces(e)
    BY <1>3 DEF passthrough, PostGoal, Pending, Commits, Committing, Announces
  <2>q. QED  BY <1>3, <2>1 DEF passthrough, Settling, Patient, PreSettles, PostSettles, Patience
<1>4. CASE Calls
  <2>1. UNCHANGED <<task, patient>> /\ \A e, s : (Commits(e, s)' <=> Commits(e, s)) /\ (Committing(e)' <=> Committing(e))
    BY <1>4, CallsAsk DEF mode, Commits, Committing
  <2>2. ASSUME NEW v \in Values, Asks(v), Reconfigure \/ SetPassthrough, config'.call # "set"
        PROVE  Settling' /\ Patient'
    <3>1. hurried => hurried'
      BY <2>2 DEF Asks, Hurry
    <3>2. Settling'
      BY <2>1, <2>2, <3>1, AskSettles DEF Settling, PassSound
    <3>3. ASSUME patient PROVE ~hurried' /\ Patience'
      <4>1. ~hurried /\ PassSound /\ Patience
        BY <3>3 DEF Patient, Settling, PassSound
      <4>2. (\A s \in Switches : ~Pending(s)) /\ \A e \in Evaluators : ~Committing(e)
        BY <2>2, <3>3, <4>1 DEF Reconfigure, MayCall, SetPassthrough, Patience
      <4>3. ~hurried'
        BY <2>1, <2>2, <3>3, <4>1, <4>2, AskSettles
      <4>4. ~Pending("post")'
        <5>1. value'["post"] = value["post"] /\ "post" \in Switches
          BY <2>2 DEF Asks, Switches, PassTypes, ValuesTyped
        <5>q. QED  BY <4>2, <5>1 DEF Pending
      <4>5. Patience'
        BY <2>1, <2>2, <4>2, <4>4 DEF Patience, Commits
      <4>q. QED  BY <4>3, <4>5
    <3>q. QED  BY <2>1, <3>2, <3>3 DEF Patient
  <2>3. CASE UNCHANGED <<value, hurried>> /\ config'.wanted = config.wanted
             /\ (config'.call = "set" => config.call = "set" \/ ReconfigureCopy)
    <3>1. PostGoal' = PostGoal /\ (\A s : Pending(s)' <=> Pending(s)) /\ \A e : Announces(e)' <=> Announces(e)
      BY <2>1, <2>3 DEF PostGoal, Pending, Announces
    <3>2. Settling'
      BY <2>1, <2>3, <3>1 DEF Settling, PreSettles, PostSettles
    <3>3. ASSUME patient, Patience PROVE Patience'
      <4>1. config'.call = "set" => (\A s \in Switches : ~Pending(s)) /\ (\A e \in Evaluators : ~Committing(e))
        BY <2>3, <3>3 DEF ReconfigureCopy, MayCall, Patience
      <4>q. QED  BY <2>1, <2>3, <3>1, <3>3, <4>1 DEF Patience
    <3>q. QED  BY <2>1, <2>3, <3>2, <3>3 DEF Patient
  <2>4. CASE Asks(0) /\ Reconfigure /\ config'.call # "set"
    BY <2>2, <2>4 DEF Values
  <2>5. CASE Asks(1) /\ SetPassthrough /\ config'.call # "set"
    BY <2>2, <2>5 DEF Values
  <2>6. Reconfigure => config.call # "set"
    BY DEF Reconfigure, MayCall
  <2>q. QED  BY <1>4, <2>3, <2>4, <2>5, <2>6, CallsAsk
<1>q. QED  BY <1>1, <1>2, <1>3, <1>4, PassthroughSteps

----------------------------------------------------------------------------
(* The transcoder with passthrough: order.                                  *)

\* A later packet at the end keeps the order.
LEMMA AppendInOrder ==
  ASSUME NEW s \in Seq(1..MaxPackets), NEW n \in 1..MaxPackets, InOrder(s), \A i \in DOMAIN s : s[i] < n
  PROVE  InOrder(Append(s, n)) /\ \A i \in DOMAIN Append(s, n) : Append(s, n)[i] <= n
<1>1. Len(s) \in Nat /\ DOMAIN s = 1..Len(s) /\ \A i \in 1..Len(s) : s[i] \in 1..MaxPackets
  BY LenProperties, ElementOfSeq
<1>2. /\ Len(Append(s, n)) = Len(s) + 1 /\ DOMAIN Append(s, n) = 1..Len(s) + 1
      /\ Append(s, n)[Len(s) + 1] = n
      /\ \A i \in 1..Len(s) : Append(s, n)[i] = s[i]
  BY AppendProperties, LenProperties
<1>q. QED  BY <1>1, <1>2 DEF InOrder

\* What is left behind the first packets keeps the order, and has no others.
LEMMA RestInOrder ==
  ASSUME NEW s \in Seq(1..MaxPackets), NEW t \in Seq(1..MaxPackets), NEW held \in Nat, InOrder(s),
         Len(s) = held + Len(t), \A i \in 1..Len(t) : t[i] = s[held + i]
  PROVE  InOrder(t) /\ \A i \in DOMAIN t : \E j \in DOMAIN s : t[i] = s[j]
<1>1. /\ Len(s) \in Nat /\ DOMAIN s = 1..Len(s)
      /\ Len(t) \in Nat /\ DOMAIN t = 1..Len(t)
  BY LenProperties
<1>2. \A i \in DOMAIN t : held + i \in DOMAIN s /\ t[i] = s[held + i]
  BY <1>1
<1>3. ASSUME NEW i \in DOMAIN t, NEW j \in DOMAIN t, i < j PROVE t[i] < t[j]
  <2>1. held + i < held + j
    BY <1>1, <1>3
  <2>q. QED  BY <1>2, <2>1 DEF InOrder
<1>q. QED  BY <1>2, <1>3 DEF InOrder

\* A way that keeps its packets, and maybe loses the first of them, keeps its
\* order, unless its first condition gets another packet.
LEMMA ShorterInOrder ==
  ASSUME NEW w \in Ways, Ordered(w), sent' = sent, InOrder(onWay'[w]),
         \A i \in DOMAIN onWay'[w] : \E j \in DOMAIN onWay[w] : onWay'[w][i] = onWay[w][j],
         task'[Fronts[w]].at # "idle" => task[Fronts[w]].at # "idle" /\ task'[Fronts[w]].packet = task[Fronts[w]].packet
  PROVE  Ordered(w)'
BY DEF Ordered

\* The order of packets is kept.
LEMMA OrderStep ==
  ASSUME PassTypes, WaysOrdered, PassthroughNext \/ UNCHANGED passthrough
  PROVE  WaysOrdered'
<1> SUFFICES ASSUME NEW w \in Ways PROVE Ordered(w)'
  BY DEF WaysOrdered
<1>1. /\ onWay[w] \in Seq(1..MaxPackets) /\ Ordered(w) /\ InOrder(onWay[w]) /\ Fronts[w] \in Evaluators
      /\ Fronts[w] = <<"to", w>> /\ task \in [Evaluators -> Tasks]
  BY DEF PassTypes, TasksSound, WaysTyped, WaysOrdered, Ordered, Fronts, Evaluators
<1>2. CASE UNCHANGED passthrough
  BY <1>1, <1>2 DEF passthrough, Ordered
<1>3. CASE Push
  <2>1. onWay' = onWay /\ sent' = sent + 1 /\ task'[Fronts[w]] = NewTask(sent + 1, sent + 1 \in KeyFrames)
    BY <1>1, <1>3 DEF Push
  <2>2. task'[Fronts[w]].packet = sent + 1
    BY <2>1 DEF NewTask
  <2>3. sent \in Nat /\ \A i \in DOMAIN onWay[w] : onWay[w][i] \in Int
    BY <1>1, LenProperties, ElementOfSeq, PassthroughAssumption DEF PassTypes, RestTyped
  <2>q. QED  BY <1>1, <2>1, <2>2, <2>3 DEF Ordered
<1>4. ASSUME NEW v \in Ways, NEW key \in BOOLEAN, GiveOut(v, key) PROVE Ordered(w)'
  <2>1. sent' = sent /\ task'[Fronts[w]] = task[Fronts[w]]
    BY <1>1, <1>4 DEF GiveOut
  <2>2. CASE v # w
    <3>1. onWay'[w] = onWay[w]
      BY <1>4, <2>2 DEF GiveOut
    <3>q. QED  BY <1>1, <2>1, <3>1 DEF Ordered
  <2>3. CASE v = w
    <3>1. onWay[w] # <<>> /\ onWay'[w] = Tail(onWay[w])
      BY <1>4, <2>3 DEF GiveOut, PassTypes, WaysTyped
    <3>2. PICK s, t : s = onWay[w] /\ t = Tail(onWay[w])
      OBVIOUS
    <3>3. s \in Seq(1..MaxPackets) /\ s # <<>> /\ t = Tail(s) /\ InOrder(s)
      BY <1>1, <3>1, <3>2
    <3>4. t \in Seq(1..MaxPackets) /\ Len(t) = Len(s) - 1 /\ \A i \in 1..Len(t) : t[i] = s[i + 1]
      BY <3>3, HeadTailProperties
    <3>5. Len(t) \in Nat /\ Len(s) \in Nat
      BY <3>3, <3>4, LenProperties
    <3>6. Len(s) = 1 + Len(t) /\ \A i \in 1..Len(t) : t[i] = s[1 + i]
      BY <3>4, <3>5
    <3>7. InOrder(t) /\ \A i \in DOMAIN t : \E j \in DOMAIN s : t[i] = s[j]
      <4>1. s \in Seq(1..MaxPackets) /\ t \in Seq(1..MaxPackets) /\ 1 \in Nat
        BY <3>3, <3>4
      <4>2. InOrder(s)
        BY <3>3
      <4>3. Len(s) = 1 + Len(t)
        BY <3>6
      <4>4. \A i \in 1..Len(t) : t[i] = s[1 + i]
        BY <3>6
      <4>q. QED  BY <4>1, <4>2, <4>3, <4>4, RestInOrder, Zenon
    <3>8. t = onWay'[w]
      BY <3>1, <3>2
    <3>q. QED  BY <1>1, <2>1, <3>2, <3>7, <3>8, ShorterInOrder
  <2>q. QED  BY <2>2, <2>3
<1>5. ASSUME NEW e \in Evaluators, Looks(e) PROVE Ordered(w)'
  <2>1. sent' = sent /\ \A p \in Evaluators \ {e} : task'[p] = task[p]
    BY <1>5, LooksKeepTypes, LooksMove
  <2>2. CASE onWay' = onWay
    <3>1. task'[Fronts[w]].at # "idle" => task[Fronts[w]].at # "idle" /\ task'[Fronts[w]].packet = task[Fronts[w]].packet
      <4>1. CASE e # Fronts[w]
        BY <1>1, <2>1, <4>1
      <4>2. CASE e = Fronts[w]
        <5>1. task[e] \in Tasks
          BY <1>1
        <5>2. CASE Ruled(e)
          <6>1. PICK t : Aside(t, task[e]) /\ task' = [task EXCEPT ![e] = t]
            BY <5>2 DEF Ruled
          <6>2. t.at # "idle" => t.packet = task[e].packet
            BY <5>1, <6>1, IdleIsSound DEF Aside, Tasks
          <6>q. QED  BY <1>1, <1>5, <4>2, <6>1, <6>2, LooksMove
        <5>3. CASE ~Ruled(e)
          <6>1. \/ LoadMoves(e) \/ StoreMoves(e) \/ SwapMoves(e)
            BY <1>5, <5>3, LooksMove DEF AfterMoves
          <6>2. task'[e].packet = task[e].packet
            <7>1. \/ task' = [task EXCEPT ![e] = [@ EXCEPT !.at = "store", !.current = value[task[e].switch].current,
                                                           !.next = value[task[e].switch].next]]
                  \/ task' = [task EXCEPT ![e] = [@ EXCEPT !.at = "swap"]]
                  \/ task' = [task EXCEPT ![e] = [@ EXCEPT !.at = "after"]]
              BY <5>3, <6>1 DEF LoadMoves, StoreMoves, SwapMoves
            <7>2. \/ task'[e] = [task[e] EXCEPT !.at = "store", !.current = value[task[e].switch].current,
                                                !.next = value[task[e].switch].next]
                  \/ task'[e] = [task[e] EXCEPT !.at = "swap"]
                  \/ task'[e] = [task[e] EXCEPT !.at = "after"]
              BY <1>1, <7>1
            <7>q. QED  BY <5>1, <7>2 DEF Tasks
          <6>q. QED  BY <1>5, <4>2, <6>2, LooksMove
        <5>q. QED  BY <5>2, <5>3
      <4>q. QED  BY <4>1, <4>2
    <3>q. QED  BY <1>1, <2>1, <2>2, <3>1, ShorterInOrder
  <2>3. CASE onWay' # onWay
    <3>1. /\ e[1] = "to" /\ e[2] \in Ways /\ task' = [task EXCEPT ![e] = NoTask] /\ task[e].at # "idle"
          /\ onWay' = [onWay EXCEPT ![e[2]] = Append(@, task[e].packet)]
      BY <1>5, <2>3, LooksMove DEF LoadMoves, StoreMoves, SwapMoves, AfterMoves, Ruled, Evaluators
    <3>2. e = Fronts[e[2]]
      BY <3>1 DEF Fronts, Evaluators
    <3>3. CASE e[2] # w
      <4>1. onWay'[w] = onWay[w] /\ Fronts[w] # e
        BY <1>1, <3>1, <3>3 DEF PassTypes, WaysTyped
      <4>q. QED  BY <1>1, <2>1, <4>1 DEF Ordered
    <3>4. CASE e[2] = w
      <4>1. e = Fronts[w] /\ task'[e].at = "idle" /\ onWay'[w] = Append(onWay[w], task[e].packet)
        BY <1>1, <3>1, <3>2, <3>4, IdleIsSound DEF PassTypes, WaysTyped
      <4>2. task[e].packet = sent /\ sent \in 1..MaxPackets /\ \A i \in DOMAIN onWay[w] : onWay[w][i] < sent
        BY <1>1, <3>1, <4>1 DEF Ordered, PassTypes, TasksSound, SoundTask
      <4>3. InOrder(onWay'[w]) /\ \A i \in DOMAIN onWay'[w] : onWay'[w][i] <= sent
        BY <1>1, <4>1, <4>2, AppendInOrder
      <4>q. QED  BY <2>1, <4>1, <4>3 DEF Ordered
    <3>q. QED  BY <3>3, <3>4
  <2>q. QED  BY <2>2, <2>3
<1>6. CASE Calls
  <2>1. UNCHANGED <<sent, task>>
    BY <1>6, CallsAsk
  <2>2. CASE onWay'[w] = onWay[w]
    BY <1>1, <2>1, <2>2 DEF Ordered
  <2>3. CASE onWay'[w] # onWay[w]
    <3>1. w = "transcoder" /\ ResetTranscoder
      BY <1>6, <2>3 DEF Calls, Reconfigure, ReconfigureCopy, SetPassthrough, ResetTranscoder, PassTypes, WaysTyped
    <3>2. PICK held \in 0..Len(onWay[w]) : onWay'[w] = SubSeq(onWay[w], held + 1, Len(onWay[w]))
      BY <3>1 DEF ResetTranscoder, PassTypes, WaysTyped
    <3>3. PICK s, t : s = onWay[w] /\ t = onWay'[w]
      OBVIOUS
    <3>4. s \in Seq(1..MaxPackets) /\ InOrder(s) /\ held \in 0..Len(s) /\ t = SubSeq(s, held + 1, Len(s))
      BY <1>1, <3>2, <3>3
    <3>5. Len(s) \in Nat /\ \A i \in 1..Len(s) : s[i] \in 1..MaxPackets
      BY <3>4, LenProperties, ElementOfSeq
    <3>6. PICK n : n = Len(s)
      OBVIOUS
    <3>7. n \in Nat /\ held \in Nat /\ held <= n /\ t = SubSeq(s, held + 1, n)
      BY <3>4, <3>5, <3>6
    <3>8. /\ t \in Seq(1..MaxPackets) /\ Len(t) = IF held + 1 <= n THEN n - (held + 1) + 1 ELSE 0
          /\ \A i \in 1..n - (held + 1) + 1 : t[i] = s[held + 1 + i - 1]
      BY <3>5, <3>6, <3>7, SubSeqProperties
    <3>9. n = held + Len(t) /\ \A i \in 1..Len(t) : t[i] = s[held + i]
      BY <3>7, <3>8
    <3>10. InOrder(t) /\ \A i \in DOMAIN t : \E j \in DOMAIN s : t[i] = s[j]
      <4>1. /\ s \in Seq(1..MaxPackets) /\ t \in Seq(1..MaxPackets) /\ held \in Nat /\ InOrder(s)
            /\ Len(s) = held + Len(t) /\ \A i \in 1..Len(t) : t[i] = s[held + i]
        BY <3>4, <3>6, <3>7, <3>8, <3>9
      <4>q. QED  BY <4>1, RestInOrder
    <3>q. QED  BY <1>1, <2>1, <3>3, <3>10, ShorterInOrder
  <2>q. QED  BY <2>2, <2>3
<1>q. QED  BY <1>2, <1>3, <1>4, <1>5, <1>6, PassthroughSteps

----------------------------------------------------------------------------
(* The transcoder with passthrough: the invariant.                          *)

\* It holds at the start.
LEMMA PassthroughInitially == PassthroughInit => PassthroughInv
<1> SUFFICES ASSUME PassthroughInit PROVE PassthroughInv
  OBVIOUS
<1>1. WaysOrdered
  BY IdleIsSound DEF PassthroughInit, WaysOrdered, Ordered, InOrder, Fronts, Evaluators
<1>q. QED  BY <1>1, PassTypesInitially, SettlesInitially DEF PassthroughInv

\* Every step keeps it.
LEMMA PassthroughStep == PassthroughInv /\ (PassthroughNext \/ UNCHANGED passthrough) => PassthroughInv'
BY PassTypesStep, SettlingStep, OrderStep DEF PassthroughInv

\* It says all that is wanted.
LEMMA PassthroughInvImplies == PassthroughInv => PassthroughTypeOK /\ PassthroughSafe
<1>1. PassthroughInv => \A w \in Ways : InOrder(onWay[w])
  BY DEF PassthroughInv, WaysOrdered, Ordered
<1>q. QED  BY <1>1, PassTypesImply, SettlingImplies DEF PassthroughInv, PassthroughSafe

----------------------------------------------------------------------------
(* All of them.                                                             *)

SwitchingInv == MuxInv /\ BitRateTypeOK /\ BitRateInv /\ PassthroughInv

\* All invariants hold at the start.
LEMMA SwitchingInitially == Init => SwitchingInv
BY MuxInitially, BitRateTypesInitially, BitRateInitially, PassthroughInitially DEF Init, SwitchingInv

\* A step is one of the parts', and the others stay as they are.
LEMMA SwitchingStep == SwitchingInv /\ [Next]_vars => SwitchingInv'
<1> SUFFICES ASSUME SwitchingInv, [Next]_vars PROVE SwitchingInv'
  OBVIOUS
<1>1. /\ MuxNext \/ UNCHANGED mux
      /\ BitRateNext \/ UNCHANGED bitrate
      /\ PassthroughNext \/ UNCHANGED passthrough
  BY DEF Next, InMux, InBitRate, InPassthrough, vars
<1>2. MuxInv'
  BY <1>1, MuxStep DEF SwitchingInv
<1>3. BitRateInv'
  BY <1>1, BitRateStep DEF SwitchingInv
<1>4. BitRateTypeOK'
  BY <1>1, <1>3, BitRateTypesStep DEF SwitchingInv, BitRateInv
<1>5. PassthroughInv'
  BY <1>1, PassthroughStep DEF SwitchingInv
<1>q. QED  BY <1>2, <1>3, <1>4, <1>5 DEF SwitchingInv

\* They always hold.
LEMMA SwitchingInvAlways == Spec => []SwitchingInv
BY SwitchingInitially, SwitchingStep, PTL DEF Spec

\* Every variable of the three keeps its type, whatever is requested and however
\* it is interleaved.
THEOREM SwitchingTypes == Spec => []TypeOK
<1>1. SwitchingInv => TypeOK
  BY PassthroughInvImplies DEF SwitchingInv, MuxInv, TypeOK
<1>q. QED  BY <1>1, SwitchingInvAlways, PTL

\* A key has a single open output; in a calm run what is active is open and
\* configured, the syncer follows, and whatever was closed is replaced; and the
\* two switches of the preset end at the value that was asked for last, whoever
\* commits them in whatever order, unless the caller was hurried and asked for
\* another in the middle of it, which one that waits never does; with the packets
\* of each way in order.
THEOREM SwitchingSafeAlways == Spec => []SwitchingSafe
<1>1. SwitchingInv => SwitchingSafe
  BY MuxInvImplies, PassthroughInvImplies DEF SwitchingInv, SwitchingSafe
<1>q. QED  BY <1>1, SwitchingInvAlways, PTL

\* The bitrate is not raised shortly after it was lowered, nor lowered shortly
\* after it was raised.
THEOREM NoHasteAlways == Spec => []NoHaste
<1>1. SwitchingInv => NoHaste
  BY DEF SwitchingInv, BitRateInv
<1>q. QED  BY <1>1, SwitchingInvAlways, PTL

=============================================================================
