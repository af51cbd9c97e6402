--------------------------- MODULE BarrierSwitch ---------------------------
(***************************************************************************)
(* The multi-way Switch of kernel/barrier/stategetter and the Barrier      *)
(* kernel that waits on it (kernel/barrier.go).                            *)
(*                                                                         *)
(* A Switch holds the number of the output that is active.  Every output   *)
(* has barriers, which ask GetState for each packet whether to pass, drop  *)
(* or hold it.  SetValue requests another output: at once if there is no   *)
(* KeepUnless condition, else at the first packet that matches it, and the *)
(* barrier that meets this packet commits the switch.                      *)
(*                                                                         *)
(* CommitMutex serialises the writers only.  GetState reads the three      *)
(* atomics one by one without it, so each of its loads, and each store     *)
(* under the mutex, is a step of its own here.                             *)
(***************************************************************************)
EXTENDS Integers

CONSTANTS
  Outputs,            \* the output numbers
  None,               \* math.MinInt32, "no value"
  InitialValues,      \* what CurrentValue may be stored as before the start
  Barriers,           \* the goroutines of the barrier kernels
  OutputOf,           \* [Barriers -> Outputs], SwitchOutput.OutputID
  Requesters,         \* the goroutines that call SetValue
  Packets,            \* identities (pointers) of packets in flight
  NoPacket,           \* the nil packet
  KeyPackets,         \* the packets the KeepUnless condition matches
  Free,               \* CommitMutex is not held
  KeepUnless,         \* a KeepUnless condition is set
  RequestHook,        \* an OnSwitchRequest hook is set
  PassBothOutputs,    \* SwitchFlagFirstPacketAfterSwitchPassBothOutputs
  ForbidTakeover,     \* SwitchFlagForbidTakeoverInKeepUnless
  NextOutputBlock,    \* SwitchFlagNextOutputStateBlock
  InactiveBlock       \* SwitchFlagInactiveBlock

Procs == Barriers \cup Requesters
Values == Outputs \cup {None}

ASSUME OutputsAssumption == /\ None \notin Outputs
                            /\ InitialValues \subseteq Values
                            /\ InitialValues # {}
ASSUME ProcsAssumption == /\ Barriers \cap Requesters = {}
                          /\ Free \notin Procs
                          /\ OutputOf \in [Barriers -> Outputs]
ASSUME PacketsAssumption == /\ NoPacket \notin Packets
                            /\ KeyPackets \subseteq Packets
ASSUME FlagsAssumption ==
  {KeepUnless, RequestHook, PassBothOutputs, ForbidTakeover,
   NextOutputBlock, InactiveBlock} \subseteq BOOLEAN

VARIABLES
  current,    \* CurrentValue
  next,       \* NextValue
  previous,   \* PreviousValue
  first,      \* FirstPacketOrFrameAfterSwitch
  mutex,      \* the holder of CommitMutex
  pc,         \* the next step of each goroutine
  from,       \* its local currentValue (a barrier) or old (a requester)
  to,         \* its local nextValue (a barrier) or idx (a requester)
  back,       \* its local previousValue
  packet,     \* the packet a barrier is deciding about
  signal      \* the ChangeSignal a barrier waits for: "none", "open", "closed"

\* What the properties compare the code's variables with; no action reads it.
VARIABLES
  reported,   \* the "to" of the last OnAfterSwitch call
  raced,      \* the channel was rotated since the barrier's "from" was current
  extra       \* packets a previous output passed since the last switch

shared == <<current, next, previous, first, mutex>>
locals == <<from, to, back, packet, signal>>
history == <<reported, raced, extra>>
vars == <<shared, pc, locals, history>>

Goto(p, label) == pc' = [pc EXCEPT ![p] = label]
At(p, label) == pc[p] = label

\* The goroutine returns, and its local variables go out of scope.
Return(p) ==
  /\ Goto(p, "idle")
  /\ from' = [from EXCEPT ![p] = None]
  /\ to' = [to EXCEPT ![p] = None]
  /\ back' = [back EXCEPT ![p] = None]
  /\ packet' = [packet EXCEPT ![p] = NoPacket]
  /\ raced' = [b \in Barriers |-> b # p /\ raced[b]]

Lock(p) == mutex = Free /\ mutex' = p
Unlock == mutex' = Free

----------------------------------------------------------------------------
(* Barrier: processInput and GetState.                                     *)

\* A packet reaches the barrier.  A packet pointer is unique while something
\* refers to it: a barrier that handles it, or FirstPacketOrFrameAfterSwitch.
Deliver(b) ==
  /\ At(b, "idle")
  /\ \E p \in Packets \ ({packet[c] : c \in Barriers} \cup {first}) :
       packet' = [packet EXCEPT ![b] = p]
  /\ Goto(b, "load_current")
  /\ UNCHANGED <<shared, from, to, back, signal, history>>

LoadCurrent(b) ==
  /\ At(b, "load_current")
  /\ from' = [from EXCEPT ![b] = current]
  /\ raced' = [raced EXCEPT ![b] = FALSE]
  /\ Goto(b, "load_next")
  /\ UNCHANGED <<shared, to, back, packet, signal, reported, extra>>

LoadNext(b) ==
  /\ At(b, "load_next")
  /\ to' = [to EXCEPT ![b] = next]
  /\ Goto(b, "load_previous")
  /\ UNCHANGED <<shared, from, back, packet, signal, history>>

LoadPrevious(b) ==
  /\ At(b, "load_previous")
  /\ back' = [back EXCEPT ![b] = previous]
  /\ Goto(b, IF PassBothOutputs THEN "check_first" ELSE "decide")
  /\ UNCHANGED <<shared, from, to, packet, signal, history>>

\* The first packet after a direct switch is noted without the mutex: the
\* nil check and the assignment are two accesses.
CheckFirst(b) ==
  /\ At(b, "check_first")
  /\ Goto(b, IF back[b] # None /\ first = NoPacket THEN "note_first" ELSE "decide")
  /\ UNCHANGED <<shared, locals, history>>

NoteFirst(b) ==
  /\ At(b, "note_first")
  /\ first' = packet[b]
  /\ Goto(b, "decide")
  /\ UNCHANGED <<current, next, previous, mutex, locals, history>>

\* May this packet be the entrance of the pending switch?
Matches(b) == KeepUnless => packet[b] \in KeyPackets
EntranceInverted(b) == to[b] # None /\ to[b] = from[b] /\ Matches(b)
Entrance(b) ==
  /\ ForbidTakeover => from[b] = OutputOf[b]
  /\ to[b] # None
  /\ to[b] # from[b]
  /\ Matches(b)

Decide(b) ==
  /\ At(b, "decide")
  /\ Goto(b, IF Entrance(b) THEN "commit_current" ELSE "construct")
  /\ UNCHANGED <<shared, locals, history>>

\* commitToNextValue: CurrentValue.CompareAndSwap; a loser unlocks,
\* calls OnInterruptedSwitch and starts over.
CommitCurrent(b) ==
  /\ At(b, "commit_current")
  /\ mutex = Free
  /\ \/ /\ current = from[b]
        /\ current' = to[b]
        /\ mutex' = b
        /\ Goto(b, "commit_next")
     \/ /\ current # from[b]
        /\ Goto(b, "load_current")
        /\ UNCHANGED <<current, mutex>>
  /\ UNCHANGED <<next, previous, first, locals, history>>

Committed(b) == Goto(b, IF PassBothOutputs THEN "store_previous" ELSE "rotate")
CommitNextStore(b) ==
  /\ At(b, "commit_next")
  /\ next' = None
  /\ Committed(b)
  /\ UNCHANGED <<current, previous, first, mutex, locals, history>>

\* commitToNextValue: NextValue.CompareAndSwap; a loser leaves CurrentValue
\* changed, and neither rotates the channel nor calls OnAfterSwitch.
CommitNext(b) ==
  /\ At(b, "commit_next")
  /\ \/ /\ next = to[b]
        /\ next' = None
        /\ Committed(b)
        /\ UNCHANGED mutex
     \/ /\ next # to[b]
        /\ Unlock
        /\ Goto(b, "load_current")
        /\ UNCHANGED next
  /\ UNCHANGED <<current, previous, first, locals, history>>

\* constructState: pass, drop (ErrSkip) or hold the packet of barrier b.
IsFirst(b) == PassBothOutputs /\ back[b] = OutputOf[b] /\ packet[b] = first
Holds(b) == (from[b] = to[b] /\ NextOutputBlock) \/ InactiveBlock

Pass(b) ==
  /\ At(b, "construct")
  /\ from[b] = OutputOf[b]
  /\ Return(b)
  /\ UNCHANGED <<shared, signal, reported, extra>>

PassFirst(b) ==
  /\ At(b, "construct")
  /\ from[b] # OutputOf[b] /\ IsFirst(b)
  /\ Goto(b, "clear_first")
  /\ UNCHANGED <<shared, locals, history>>

Block(b) ==
  /\ At(b, "construct")
  /\ from[b] # OutputOf[b] /\ ~IsFirst(b) /\ Holds(b)
  /\ Goto(b, "load_signal")
  /\ UNCHANGED <<shared, locals, history>>

Drop(b) ==
  /\ At(b, "construct")
  /\ from[b] # OutputOf[b] /\ ~IsFirst(b) /\ ~Holds(b)
  /\ Return(b)
  /\ UNCHANGED <<shared, signal, reported, extra>>

ClearFirst(b) ==
  /\ At(b, "clear_first")
  /\ Lock(b)
  /\ first' = NoPacket
  /\ Goto(b, "clear_previous")
  /\ UNCHANGED <<current, next, previous, locals, history>>

PassedFirst(b) ==
  /\ At(b, "clear_previous")
  /\ Unlock
  /\ Return(b)
  /\ extra' = [extra EXCEPT ![b] = TRUE]
  /\ UNCHANGED <<current, next, first, signal, reported>>
ClearPreviousNot(b) == PassedFirst(b) /\ UNCHANGED previous
ClearPrevious(b) == PassedFirst(b) /\ previous' = None

\* GetChangeChan is the last thing GetState evaluates.
LoadSignal(b) ==
  /\ At(b, "load_signal")
  /\ signal' = [signal EXCEPT ![b] = "open"]
  /\ Goto(b, "wait")
  /\ UNCHANGED <<shared, from, to, back, packet, history>>

\* The barrier's select: the channel was closed, so ask GetState again...
Wake(b) ==
  /\ At(b, "wait")
  /\ signal[b] = "closed"
  /\ signal' = [signal EXCEPT ![b] = "none"]
  /\ Goto(b, "load_current")
  /\ UNCHANGED <<shared, from, to, back, packet, history>>

\* ... or the context was cancelled.
Cancel(b) ==
  /\ At(b, "wait")
  /\ Return(b)
  /\ signal' = [signal EXCEPT ![b] = "none"]
  /\ UNCHANGED <<shared, reported, extra>>

----------------------------------------------------------------------------
(* The tail of setValueNow and of a successful commitToNextValue, both     *)
(* under the mutex.                                                        *)

StorePrevious(p) ==
  /\ At(p, "store_previous")
  /\ previous' = from[p]
  /\ Goto(p, "store_first")
  /\ UNCHANGED <<current, next, first, mutex, locals, history>>

\* A barrier stores its packet; setValueNow has none and stores nil.
StoreFirst(p) ==
  /\ At(p, "store_first")
  /\ first' = packet[p]
  /\ Goto(p, "rotate")
  /\ UNCHANGED <<current, next, previous, mutex, locals, history>>

\* rotateChangeChan closes the channel that everybody loaded so far.
Closed(state) == IF state = "open" THEN "closed" ELSE state
CloseSignals ==
  /\ signal' = [b \in Barriers |-> Closed(signal[b])]
  /\ raced' = [b \in Barriers |-> ~At(b, "idle")]

Rotated(p) ==
  /\ At(p, "rotate")
  /\ extra' = [b \in Barriers |-> FALSE]
  /\ Goto(p, "after")
  /\ UNCHANGED <<shared, from, to, back, packet, reported>>
RotateUnclosed(p) == Rotated(p) /\ UNCHANGED <<signal, raced>>
Rotate(p) == Rotated(p) /\ CloseSignals

\* OnAfterSwitch and unlock.  A barrier moves its local values on and goes
\* to constructState, a requester returns.
After(p) ==
  /\ At(p, "after")
  /\ reported' = to[p]
  /\ Unlock
  /\ \/ /\ p \in Barriers
        /\ from' = [from EXCEPT ![p] = to[p]]
        /\ back' = [back EXCEPT ![p] = from[p]]
        /\ raced' = [raced EXCEPT ![p] = FALSE]
        /\ Goto(p, "construct")
        /\ UNCHANGED <<to, packet>>
     \/ /\ p \in Requesters
        /\ Return(p)
  /\ UNCHANGED <<current, next, previous, first, signal, extra>>

----------------------------------------------------------------------------
(* SetValue.                                                               *)

\* OnSwitchRequest accepts under the mutex.  If it refuses, SetValue returns
\* its error and nothing has changed.
Request(r) ==
  /\ At(r, "idle")
  /\ RequestHook => mutex = Free
  /\ \E v \in Outputs : to' = [to EXCEPT ![r] = v]
  /\ Goto(r, IF KeepUnless THEN "set_next" ELSE "set_current")
  /\ UNCHANGED <<shared, from, back, packet, signal, history>>

\* setValueNow: OnBeforeSwitch, the swap, and OnInterruptedSwitch if it
\* changed nothing.
SwapCurrent(r) ==
  /\ At(r, "set_current")
  /\ \/ /\ current = to[r]
        /\ Return(r)
        /\ UNCHANGED <<current, mutex>>
     \/ /\ current # to[r]
        /\ current' = to[r]
        /\ from' = [from EXCEPT ![r] = current]
        /\ mutex' = r
        /\ Goto(r, IF PassBothOutputs THEN "store_previous" ELSE "rotate")
        /\ UNCHANGED <<to, back, packet, raced>>
  /\ UNCHANGED <<next, previous, first, signal, reported, extra>>
SetCurrentUnlocked(r) == SwapCurrent(r)
SetCurrent(r) == mutex = Free /\ SwapCurrent(r)

\* setNextValueNow: the swap.  A request for the value that is current
\* withdraws the pending one, if there was one.
SetNext(r) ==
  /\ At(r, "set_next")
  /\ mutex = Free
  /\ next' = to[r]
  /\ \/ /\ next = to[r] \/ (current = to[r] /\ next = None)
        /\ Return(r)
        /\ UNCHANGED mutex
     \/ /\ next # to[r] /\ ~(current = to[r] /\ next = None)
        /\ mutex' = r
        /\ Goto(r, IF current = to[r] THEN "clear_next" ELSE "next_rotate")
        /\ UNCHANGED <<from, to, back, packet, raced>>
  /\ UNCHANGED <<current, previous, first, signal, reported, extra>>

ClearNext(r) ==
  /\ At(r, "clear_next")
  /\ next' = None
  /\ Goto(r, "next_rotate")
  /\ UNCHANGED <<current, previous, first, mutex, locals, history>>

NextRotate(r) ==
  /\ At(r, "next_rotate")
  /\ CloseSignals
  /\ Unlock
  /\ Goto(r, "idle")
  /\ to' = [to EXCEPT ![r] = None]
  /\ UNCHANGED <<current, next, previous, first, from, back, packet, reported, extra>>

----------------------------------------------------------------------------
\* NewSwitch stores "no value" as the next value, at first the zero value.
InitWith(unset) ==
  /\ current \in InitialValues
  /\ next = unset
  /\ previous = None
  /\ first = NoPacket
  /\ mutex = Free
  /\ pc = [p \in Procs |-> "idle"]
  /\ from = [p \in Procs |-> None]
  /\ to = [p \in Procs |-> None]
  /\ back = [p \in Procs |-> None]
  /\ packet = [p \in Procs |-> NoPacket]
  /\ signal = [b \in Barriers |-> "none"]
  /\ reported = current
  /\ raced = [b \in Barriers |-> FALSE]
  /\ extra = [b \in Barriers |-> FALSE]
InitZero == InitWith(0)
Init == InitWith(None)

\* The steps of GetState and of the barrier's wait, once it has a packet.
BarrierStep(b) ==
  \/ LoadCurrent(b) \/ LoadNext(b) \/ LoadPrevious(b)
  \/ CheckFirst(b) \/ NoteFirst(b) \/ Decide(b)
  \/ CommitCurrent(b) \/ CommitNext(b)
  \/ Pass(b) \/ PassFirst(b) \/ Block(b) \/ Drop(b) \/ ClearFirst(b) \/ ClearPrevious(b)
  \/ LoadSignal(b) \/ Wake(b)

SwitchStep(p) ==
  \/ StorePrevious(p) \/ StoreFirst(p) \/ Rotate(p) \/ After(p)

RequesterStep(r) ==
  \/ SetCurrent(r) \/ SetNext(r) \/ ClearNext(r) \/ NextRotate(r)

Next ==
  \/ \E b \in Barriers : Deliver(b) \/ BarrierStep(b) \/ Cancel(b)
  \/ \E p \in Procs : SwitchStep(p)
  \/ \E r \in Requesters : Request(r) \/ RequesterStep(r)

Spec == Init /\ [][Next]_vars

\* Every goroutine that can run does; CommitMutex, a sync.Mutex, starves
\* nobody; and every barrier that keeps asking for packets keeps receiving
\* some that match KeepUnless (key frames, in every use of the code).
Fairness ==
  /\ \A b \in Barriers :
       /\ WF_vars(BarrierStep(b) \/ SwitchStep(b))
       /\ SF_vars(CommitCurrent(b) \/ ClearFirst(b))
       /\ SF_vars(Deliver(b) /\ packet'[b] \in KeyPackets)
  /\ \A r \in Requesters :
       /\ WF_vars(RequesterStep(r) \/ SwitchStep(r))
       /\ SF_vars(SetCurrent(r) \/ SetNext(r))

FairSpec == Spec /\ Fairness

----------------------------------------------------------------------------
(* Properties.                                                             *)

BarrierLabels == {"load_current", "load_next", "load_previous", "check_first",
                  "note_first", "decide", "commit_current", "construct",
                  "clear_first", "load_signal", "wait"}
\* Where the mutex is held: in a switch, and elsewhere.
SwitchLabels == {"commit_next", "store_previous", "store_first", "rotate", "after"}
RequestLabels == {"set_current", "set_next"}
LockedLabels == SwitchLabels \cup {"clear_previous", "clear_next", "next_rotate"}
Labels == {"idle"} \cup BarrierLabels \cup RequestLabels \cup LockedLabels

\* Every variable has a value of its type.
TypeOK ==
  /\ {current, next, previous, reported} \subseteq Values
  /\ first \in Packets \cup {NoPacket}
  /\ mutex \in Procs \cup {Free}
  /\ pc \in [Procs -> Labels]
  /\ from \in [Procs -> Values]
  /\ to \in [Procs -> Values]
  /\ back \in [Procs -> Values]
  /\ packet \in [Procs -> Packets \cup {NoPacket}]
  /\ signal \in [Barriers -> {"none", "open", "closed"}]
  /\ raced \in [Barriers -> BOOLEAN]
  /\ extra \in [Barriers -> BOOLEAN]

\* A requested switch is never lost: NextValue is emptied only while the value
\* it held is the current one (switch.go:201, :284).
PendingNeverDropped ==
  [][next # None /\ next' = None => current' = next]_vars

\* When no switch is half done, the last OnAfterSwitch call told its listener
\* the value that is current: calls are never made out of order, and no
\* switch goes unreported.  It is what lets StreamMux and InputWithFallback
\* forward "to" to a second switch.  With a KeepUnless condition it fails: a commit
\* that finds the next value replaced is not reported.
ReportedIsCurrent ==
  (\A p \in Procs : pc[p] \notin SwitchLabels) => reported = current

\* A barrier waits on an open channel although its output is the current one
\* only if the channel was rotated between its load of CurrentValue and its
\* load of ChangeSignal, or if the switch has yet to rotate it.
HeldOnlyIfRaced ==
  \A b \in Barriers :
    At(b, "wait") /\ signal[b] = "open" /\ current = OutputOf[b] =>
      raced[b] \/ \E p \in Procs : pc[p] \in {"store_previous", "store_first", "rotate"}

\* The output that was left passes at most one packet more per switch
\* (SwitchFlagFirstPacketAfterSwitchPassBothOutputs).
OneExtraPacket ==
  [][\A b \in Barriers :
       At(b, "clear_previous") /\ pc'[b] = "idle" => ~extra[b]]_vars

\* A requested switch happens, unless it is replaced or withdrawn, as long as
\* packets that match KeepUnless keep arriving.  (setNextValueNow leaves a
\* request for the value that is already current in NextValue: switch.go:198.)
RequestSettled ==
  \A v \in Outputs : next = v ~> current = v \/ next # v

=============================================================================
