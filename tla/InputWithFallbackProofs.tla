---------------------- MODULE InputWithFallbackProofs ----------------------
(***************************************************************************)
(* For any number of inputs, failing as often as they like: every variable *)
(* keeps its type, and a paused input has no open kernel.                  *)
(***************************************************************************)
EXTENDS InputWithFallback, TLAPS

(***************************************************************************)
(* The inductive invariant.  The first part is about each Retryable alone: *)
(* who holds KernelLocker is busy, and a goroutine that opens the kernel   *)
(* has not been counted out.  The second part is KernelNeedsGate, and that *)
(* the gate stays open while a kernel that is about to be set is shown to  *)
(* OnKernelOpen: only Pause shuts it, with the lock.  The third part is    *)
(* about the switches: what a barrier wants to commit is a pair of inputs. *)
(***************************************************************************)
LockOK ==
  /\ RetryTypeOK
  /\ \A i \in Inputs : holder[i] = "free" <=> stage[i] = "idle"
  /\ \A i \in Inputs : holder[i] = "opener" => openers[i] > 0

Opening(i) == stage[i] = "opened" \/ (stage[i] \in {"ask", "swap"} /\ wish[i] = i)
GateOK == \A i \in Inputs : kernel[i] \/ Opening(i) => gate[i]

Pairs == (Inputs \X Inputs) \cup {Nothing}
SwitchOK ==
  /\ current \in Inputs /\ next \in Values
  /\ caught \in [Inputs -> Pairs]
  /\ flow \in [Inputs -> SUBSET {"plain", "flush"}]
  /\ syncCurrent \in Inputs /\ syncNext \in Values
  /\ matched \in [Inputs -> Pairs]
  /\ syncing \in BOOLEAN
  /\ switchingProcN \in Int
TaskOK ==
  /\ wish \in [Inputs -> Values]
  /\ unpausing \in [Inputs -> Nat] /\ pausing \in [Inputs -> Nat]

Inv == LockOK /\ GateOK /\ SwitchOK /\ TaskOK

----------------------------------------------------------------------------
(* What the parts of the actions do to the Retryables.                     *)

\* A GetKernel of either goroutine keeps the lock's invariant.
LEMMA StartKeeps ==
  ASSUME NEW i \in Inputs, LockOK, StartLoop(i) \/ StartOpener(i)
  PROVE  LockOK' /\ kernel' = kernel /\ gate' = gate /\ (\A j \in Inputs : stage'[j] \in {stage[j], "idle", "wait"})
<1>0. Retryables = Inputs BY InputsAssumption
<1>1. CASE StartLoop(i)
  BY <1>0, <1>1 DEF LockOK, RetryTypeOK, StartLoop, GetKernel, LeaveBy, Stage
<1>2. CASE StartOpener(i)
  <2>1. holder[i] = "free" /\ openers[i] \in Nat /\ openers[i] > 0
    BY <1>0, <1>2 DEF LockOK, RetryTypeOK, StartOpener, GetKernel
  <2>2. CASE kernel[i]
    <3>1. openers[i] - 1 \in Nat
      BY <2>1
    <3>2. /\ holder' = [holder EXCEPT ![i] = "free"] /\ stage' = [stage EXCEPT ![i] = "idle"]
          /\ openers' = [openers EXCEPT ![i] = @ - 1]
          /\ UNCHANGED <<gate, kernel, loop, failed>>
      BY <1>2, <2>2 DEF StartOpener, GetKernel, LeaveBy, Stage
    <3>3. QED BY <1>0, <2>1, <3>1, <3>2 DEF LockOK, RetryTypeOK
  <2>3. CASE ~kernel[i]
    BY <1>0, <1>2, <2>1, <2>3 DEF LockOK, RetryTypeOK, StartOpener, GetKernel, Stage
  <2>4. QED BY <2>2, <2>3
<1>3. QED BY <1>1, <1>2

\* A kernel that is set when its gate is open keeps both invariants.
LEMMA OpenedKeeps ==
  ASSUME NEW i \in Inputs, NEW s, LockOK, GateOK, OpenedWith(i, s), s # "idle", gate[i],
         \A j \in Inputs \ {i} : wish'[j] = wish[j]
  PROVE  LockOK' /\ GateOK'
<1>0. Retryables = Inputs BY InputsAssumption
<1>1. holder[i] # "free"
  BY DEF LockOK, OpenedWith
<1>2. LockOK'
  <2>1. /\ holder' = [holder EXCEPT ![i] = "free"] /\ stage' = [stage EXCEPT ![i] = "idle"]
        /\ kernel' = [kernel EXCEPT ![i] = TRUE] /\ UNCHANGED <<gate, failed>>
    BY DEF OpenedWith, LeaveBy, Stage, Set
  <2>2. CASE holder[i] = "loop"
    <3>1. loop' = [loop EXCEPT ![i] = "generate"] /\ openers' = openers
      BY <2>2 DEF OpenedWith, LeaveBy
    <3>2. QED BY <1>0, <2>1, <3>1 DEF LockOK, RetryTypeOK
  <2>3. CASE holder[i] = "opener"
    <3>1. openers' = [openers EXCEPT ![i] = @ - 1] /\ loop' = loop
      BY <2>3 DEF OpenedWith, LeaveBy
    <3>2. openers[i] - 1 \in Nat
      BY <1>0, <2>3 DEF LockOK, RetryTypeOK
    <3>3. QED BY <1>0, <2>1, <3>1, <3>2 DEF LockOK, RetryTypeOK
  <2>4. QED BY <1>0, <1>1, <2>2, <2>3 DEF LockOK, RetryTypeOK
<1>3. stage' = [stage EXCEPT ![i] = "idle"] /\ kernel' = [kernel EXCEPT ![i] = TRUE] /\ gate' = gate
  BY DEF OpenedWith, LeaveBy, Stage, Set
<1>4. GateOK'
  BY <1>0, <1>3 DEF LockOK, RetryTypeOK, GateOK, Opening
<1>5. QED BY <1>2, <1>4

\* So does forgetting the kernel, and its wish, to open another.
LEMMA RetryKeeps ==
  ASSUME NEW i \in Inputs, NEW s, LockOK, GateOK, RetryFrom(i, s), s # "idle",
         \A j \in Inputs \ {i} : wish'[j] = wish[j]
  PROVE  LockOK' /\ GateOK'
<1>0. Retryables = Inputs BY InputsAssumption
<1>1. LockOK'
  BY <1>0 DEF LockOK, RetryTypeOK, RetryFrom, Stage, Unset
<1>2. stage' = [stage EXCEPT ![i] = "wait"] /\ kernel' = [kernel EXCEPT ![i] = FALSE] /\ gate' = gate
  BY DEF RetryFrom, Stage, Unset
<1>3. GateOK'
  BY <1>0, <1>2 DEF LockOK, RetryTypeOK, GateOK, Opening
<1>4. QED BY <1>1, <1>3

\* A hook that returns leaves either a set kernel or none.
LEMMA AnsweredKeeps ==
  ASSUME NEW i \in Inputs, NEW s \in {"ask", "swap"}, LockOK, GateOK, TaskOK, Answered(i, s)
  PROVE  LockOK' /\ GateOK' /\ wish' \in [Inputs -> Values]
<1>1. wish' = [wish EXCEPT ![i] = None]
  BY DEF Answered
<1>2. wish' \in [Inputs -> Values] /\ \A j \in Inputs \ {i} : wish'[j] = wish[j]
  BY <1>1 DEF TaskOK, Values
<1>3. CASE wish[i] = i
  <2>1. OpenedWith(i, s)
    BY <1>3 DEF Answered
  <2>2. gate[i]
    BY <2>1, <1>3 DEF GateOK, Opening, OpenedWith
  <2>3. QED BY <1>2, <2>1, <2>2, OpenedKeeps
<1>4. CASE wish[i] # i
  <2>1. RetryFrom(i, s)
    BY <1>4 DEF Answered
  <2>2. QED BY <1>2, <2>1, RetryKeeps
<1>5. QED BY <1>2, <1>3, <1>4

----------------------------------------------------------------------------
(* Initially, and step by step.                                            *)

\* The invariant holds when the chains have just been served.
LEMMA InvInit == Init => Inv
<1> SUFFICES ASSUME Init PROVE Inv OBVIOUS
<1>0. Retryables = Inputs /\ 0 \in Inputs
  BY InputsAssumption DEF Inputs
<1>1. LockOK
  BY <1>0 DEF Init, RetryInit, LockOK, RetryTypeOK
<1>2. GateOK
  BY <1>0 DEF Init, RetryInit, GateOK, Opening
<1>3. SwitchOK
  <2>1. Nothing \in Pairs /\ None \in Values
    BY DEF Pairs, Values
  <2>2. caught = [i \in Inputs |-> Nothing] /\ matched = [i \in Inputs |-> Nothing]
    BY DEF Init
  <2>3. caught \in [Inputs -> Pairs] /\ matched \in [Inputs -> Pairs]
    BY <2>1, <2>2
  <2>4. /\ current = 0 /\ next = None /\ flow = [i \in Inputs |-> {}]
        /\ syncCurrent = 0 /\ syncNext = None
    BY DEF Init
  <2>5. syncing \in BOOLEAN
    BY DEF Init
  <2>6. switchingProcN = 0
    BY DEF Init
  <2>7. switchingProcN \in Int
    BY <2>6
  <2>8. QED BY <1>0, <2>1, <2>3, <2>4, <2>5, <2>7 DEF SwitchOK
<1>4. TaskOK
  BY <1>0 DEF Init, TaskOK, Values
<1>5. QED BY <1>1, <1>2, <1>3, <1>4 DEF Inv

\* A step of a Retryable alone.
LEMMA InvChain ==
  ASSUME NEW i \in Inputs, Inv, ChainStep(i)
  PROVE  Inv'
<1>0. Retryables = Inputs BY InputsAssumption
<1>1. SwitchOK' /\ TaskOK' /\ wish' = wish
  BY DEF Inv, ChainStep, SwitchOK, TaskOK, switch, syncer, tasks
<1>2. LockOK' /\ GateOK'
  <2>1. CASE StartLoop(i) \/ StartOpener(i)
    <3>1. LockOK' /\ kernel' = kernel /\ gate' = gate /\ (\A j \in Inputs : stage'[j] \in {stage[j], "idle", "wait"})
      BY <2>1, StartKeeps DEF Inv
    <3>2. QED BY <1>1, <3>1 DEF Inv, GateOK, Opening
  <2>2. CASE Open(i)
    <3>1. LockOK'
      BY <1>0, <2>2 DEF Inv, LockOK, RetryTypeOK, Open, Stage
    <3>2. kernel' = kernel /\ gate' = gate /\ gate[i]
          /\ \E s \in {"opened", "error"} : stage' = [stage EXCEPT ![i] = s]
      BY <2>2 DEF Open, Stage
    <3>3. QED BY <1>0, <1>1, <3>1, <3>2 DEF Inv, LockOK, RetryTypeOK, GateOK, Opening
  <2>3. CASE Fail(i)
    BY <1>0, <1>1, <2>3 DEF Inv, LockOK, RetryTypeOK, GateOK, Opening, Fail
  <2>4. CASE LockFailed(i)
    BY <1>0, <1>1, <2>4 DEF Inv, LockOK, RetryTypeOK, GateOK, Opening, LockFailed, Stage
  <2>5. QED BY <2>1, <2>2, <2>3, <2>4 DEF ChainStep, KernelStep
<1>3. QED BY <1>1, <1>2 DEF Inv

\* A step of a hook.
LEMMA InvHook ==
  ASSUME NEW i \in Inputs, Inv, HookStep(i)
  PROVE  Inv'
<1>0. Retryables = Inputs /\ Last \in Nat BY InputsAssumption
<1>1. CASE Opened(i)
  <2>1. SwitchOK' /\ unpausing' = unpausing /\ pausing' = pausing
    BY <1>1 DEF Inv, Opened, ChainOnly, Elsewhere, SwitchOK, syncer, tasks
  <2>2. gate[i] /\ stage[i] = "opened"
    BY <1>1 DEF Inv, GateOK, Opening, Opened
  <2>3. CASE Ask(i, i)
    <3>1. LockOK'
      BY <1>0, <2>2, <2>3 DEF Inv, LockOK, RetryTypeOK, Ask, Stage
    <3>2. GateOK'
      BY <1>0, <2>2, <2>3 DEF Inv, LockOK, RetryTypeOK, TaskOK, GateOK, Opening, Ask, Stage
    <3>3. TaskOK'
      BY <2>1, <2>3 DEF Inv, TaskOK, Ask, Values
    <3>4. QED BY <2>1, <3>1, <3>2, <3>3 DEF Inv
  <2>4. CASE OpenedWith(i, "opened") /\ UNCHANGED wish
    <3>1. LockOK' /\ GateOK'
      BY <2>2, <2>4, OpenedKeeps DEF Inv
    <3>2. QED BY <2>1, <2>4, <3>1 DEF Inv, TaskOK
  <2>5. QED BY <1>1, <2>3, <2>4 DEF Opened
<1>2. CASE Errored(i)
  <2>1. SwitchOK' /\ unpausing' = unpausing /\ pausing' = pausing
    BY <1>2 DEF Inv, Errored, ChainOnly, Elsewhere, SwitchOK, syncer, tasks
  <2>2. stage[i] = "error"
    BY <1>2 DEF Errored
  <2>3. CASE Ask(i, i + 1) /\ i < Last
    <3>1. i + 1 \in Inputs /\ i + 1 # i
      BY <1>0, <2>3 DEF Inputs
    <3>2. LockOK'
      BY <1>0, <2>2, <2>3 DEF Inv, LockOK, RetryTypeOK, Ask, Stage
    <3>3. GateOK'
      BY <1>0, <2>2, <2>3, <3>1 DEF Inv, LockOK, RetryTypeOK, TaskOK, GateOK, Opening, Ask, Stage
    <3>4. TaskOK'
      BY <2>1, <2>3, <3>1 DEF Inv, TaskOK, Ask, Values
    <3>5. QED BY <2>1, <3>2, <3>3, <3>4 DEF Inv
  <2>4. CASE RetryFrom(i, "error") /\ UNCHANGED wish
    <3>1. LockOK' /\ GateOK'
      BY <2>4, RetryKeeps DEF Inv
    <3>2. QED BY <2>1, <2>4, <3>1 DEF Inv, TaskOK
  <2>5. QED BY <1>2, <2>3, <2>4 DEF Errored
<1>3. CASE Accept(i)
  <2>1. SwitchOK'
    BY <1>3 DEF Inv, Accept, Elsewhere, SwitchOK, syncer, Count
  <2>2. /\ stage[i] = "ask" /\ stage' = [stage EXCEPT ![i] = "swap"]
        /\ UNCHANGED <<wish, gate, kernel, holder, loop, openers, failed>>
    BY <1>3 DEF Accept, MayRequest, Stage
  <2>3. LockOK'
    BY <1>0, <2>2 DEF Inv, LockOK, RetryTypeOK
  <2>4. GateOK'
    BY <1>0, <2>2 DEF Inv, LockOK, RetryTypeOK, GateOK, Opening
  <2>5. wish' = wish /\ unpausing' \in [Inputs -> Nat]
    <3>1. wish' = wish /\ unpausing' = [unpausing EXCEPT ![wish[i]] = @ + 1]
      BY <1>3 DEF Accept
    <3>2. unpausing \in [Inputs -> Nat]
      BY DEF Inv, TaskOK
    <3>3. \A j \in Inputs : unpausing[j] + 1 \in Nat
      BY <3>2
    <3>4. QED BY <3>1, <3>2, <3>3
  <2>6. pausing' \in [Inputs -> Nat]
    <3>1. pausing' = [pausing EXCEPT ![next] = @ + 1] \/ pausing' = pausing
      BY <1>3 DEF Accept
    <3>2. pausing \in [Inputs -> Nat]
      BY DEF Inv, TaskOK
    <3>3. \A j \in Inputs : pausing[j] + 1 \in Nat
      BY <3>2
    <3>4. QED BY <3>1, <3>2, <3>3
  <2>7. QED BY <2>1, <2>3, <2>4, <2>5, <2>6 DEF Inv, TaskOK
<1>4. CASE Refuse(i)
  <2>1. SwitchOK' /\ unpausing' = unpausing /\ pausing' = pausing
    BY <1>4 DEF Inv, Refuse, ChainOnly, Elsewhere, SwitchOK, syncer, tasks
  <2>2. LockOK' /\ GateOK' /\ wish' \in [Inputs -> Values]
    BY <1>4, AnsweredKeeps DEF Inv, Refuse
  <2>3. QED BY <2>1, <2>2 DEF Inv, TaskOK
<1>5. CASE SwapNext(i)
  <2>1. SwitchOK' /\ unpausing' = unpausing /\ pausing' = pausing
    BY <1>5 DEF Inv, SwapNext, NextAfter, Elsewhere, SwitchOK, TaskOK, Values, syncer, tasks
  <2>2. LockOK' /\ GateOK' /\ wish' \in [Inputs -> Values]
    BY <1>5, AnsweredKeeps DEF Inv, SwapNext
  <2>3. QED BY <2>1, <2>2 DEF Inv, TaskOK
<1>6. QED BY <1>1, <1>2, <1>3, <1>4, <1>5 DEF HookStep

\* A step of a goroutine that unpauses or pauses.
LEMMA InvTask ==
  ASSUME NEW i \in Inputs, Inv, TaskStep(i)
  PROVE  Inv'
<1>0. Retryables = Inputs BY InputsAssumption
<1>1. SwitchOK'
  BY DEF Inv, TaskStep, UnpauseTask, PauseTask, Elsewhere, SwitchOK, syncer, Count
<1>2. TaskOK' /\ wish' = wish
  BY DEF Inv, TaskStep, UnpauseTask, PauseTask, TaskOK
<1>3. CASE UnpauseTask(i)
  BY <1>0, <1>1, <1>2, <1>3 DEF Inv, LockOK, RetryTypeOK, GateOK, Opening, UnpauseTask, Unpause, OpenGate
<1>4. CASE PauseTask(i)
  <2>1. LockOK'
    BY <1>0, <1>4 DEF Inv, LockOK, RetryTypeOK, PauseTask, Pause, Unset
  <2>2. GateOK'
    BY <1>0, <1>2, <1>4 DEF Inv, LockOK, RetryTypeOK, GateOK, Opening, PauseTask, Pause, Unset
  <2>3. QED BY <1>1, <1>2, <2>1, <2>2 DEF Inv
<1>5. QED BY <1>3, <1>4 DEF TaskStep

\* A step of a Filter or of a SyncBarrier: the Retryables do not notice.
LEMMA InvBarrier ==
  ASSUME NEW i \in Inputs, Inv, FilterStep(i) \/ SyncStep(i)
  PROVE  Inv'
<1>0. Last \in Nat BY InputsAssumption
<1>1. UNCHANGED <<retryVars, wish, unpausing>>
  BY DEF FilterStep, SyncStep, Deliver, Catch, Commit, Match, Through, SyncCommit, tasks
<1>2. LockOK' /\ GateOK'
  BY <1>1 DEF Inv, LockOK, RetryTypeOK, GateOK, Opening, retryVars
<1>3. SwitchOK' /\ TaskOK'
  <2>1. CASE Deliver(i)
    BY <1>1, <2>1 DEF Inv, SwitchOK, TaskOK, Deliver, switch, tasks
  <2>2. CASE Catch(i)
    <3>1. caught' \in [Inputs -> Pairs]
      BY <2>2 DEF Inv, SwitchOK, Catch, Pairs, Values
    <3>2. QED BY <1>1, <2>2, <3>1 DEF Inv, SwitchOK, TaskOK, Catch, syncer, tasks
  <2>3. CASE Commit(i)
    <3> DEFINE from == caught[i][1]
               to == caught[i][2]
    <3>1. from \in Inputs /\ to \in Inputs
      BY <2>3 DEF Inv, SwitchOK, Commit, Pairs
    <3>2. from \in Int /\ to \in Int
      BY <1>0, <3>1 DEF Inputs
    <3>3. caught' \in [Inputs -> Pairs] /\ current' \in Inputs
          /\ syncCurrent' = syncCurrent /\ matched' = matched
      <4>1. caught' = [caught EXCEPT ![i] = Nothing] /\ current' \in {to, current}
            /\ syncCurrent' = syncCurrent /\ matched' = matched
        BY <2>3 DEF Commit
      <4>2. QED BY <3>1, <4>1 DEF Inv, SwitchOK, Pairs
    <3>4. CASE current = from /\ next = to
      <4>1. next' = None /\ AfterSwitch(i, from, to)
        BY <2>3, <3>4 DEF Commit
      <4>2. syncing' \in BOOLEAN /\ syncNext' \in Values /\ next' \in Values
            /\ flow' \in [Inputs -> SUBSET {"plain", "flush"}]
        BY <3>1, <4>1 DEF Inv, SwitchOK, AfterSwitch, NextAfter, Values
      <4>3. switchingProcN' \in Int
        BY <3>2, <4>1 DEF Inv, SwitchOK, AfterSwitch, Count
      <4>4. pausing' \in [Inputs -> Nat]
        BY <4>1 DEF Inv, TaskOK, AfterSwitch
      <4>5. QED BY <1>1, <3>3, <4>2, <4>3, <4>4 DEF Inv, SwitchOK, TaskOK
    <3>5. CASE ~(current = from /\ next = to)
      BY <1>1, <2>3, <3>3, <3>5 DEF Inv, SwitchOK, TaskOK, Commit
    <3>6. QED BY <3>4, <3>5
  <2>4. CASE Match(i)
    <3>1. matched' \in [Inputs -> Pairs]
      BY <2>4 DEF Inv, SwitchOK, Match, Pairs, Values
    <3>2. syncing' \in BOOLEAN /\ switchingProcN' \in Int
      <4>1. switchingProcN' = switchingProcN + (-1) /\ switchingProcN \in Int
        BY <2>4 DEF Inv, SwitchOK, Match, Count
      <4>2. switchingProcN' \in Int
        BY <4>1
      <4>3. syncing' \in BOOLEAN
        BY <2>4 DEF Match
      <4>4. QED BY <4>2, <4>3
    <3>3. UNCHANGED <<current, next, caught, flow, syncCurrent, syncNext, unpausing, pausing, wish>>
      BY <2>4 DEF Match, switch, tasks
    <3>4. QED BY <3>1, <3>2, <3>3 DEF Inv, SwitchOK, TaskOK
  <2>5. CASE Through(i)
    BY <1>1, <2>5 DEF Inv, SwitchOK, TaskOK, Through, switch, tasks
  <2>6. CASE SyncCommit(i)
    <3>1. syncCurrent' \in Inputs /\ syncNext' \in Values /\ matched' \in [Inputs -> Pairs]
      BY <2>6 DEF Inv, SwitchOK, SyncCommit, Pairs, Values
    <3>2. QED BY <1>1, <2>6, <3>1 DEF Inv, SwitchOK, TaskOK, SyncCommit, switch, tasks
  <2>7. QED BY <2>1, <2>2, <2>3, <2>4, <2>5, <2>6 DEF FilterStep, SyncStep
<1>4. QED BY <1>2, <1>3 DEF Inv

\* Every step keeps the invariant.
LEMMA InvNext == Inv /\ [Next]_vars => Inv'
<1> SUFFICES ASSUME Inv, [Next]_vars PROVE Inv' OBVIOUS
<1>1. CASE UNCHANGED vars
  BY <1>1 DEF Inv, LockOK, RetryTypeOK, GateOK, Opening, SwitchOK, TaskOK, vars, retryVars, switch, syncer, tasks
<1>2. CASE Next
  <2>1. PICK i \in Inputs :
          ChainStep(i) \/ HookStep(i) \/ TaskStep(i) \/ FilterStep(i) \/ SyncStep(i)
    BY <1>2 DEF Next
  <2>2. QED BY <2>1, InvChain, InvHook, InvTask, InvBarrier
<1>3. QED BY <1>1, <1>2

\* The invariant holds for ever.
LEMMA AlwaysInv == Spec => []Inv
BY InvInit, InvNext, PTL DEF Spec

----------------------------------------------------------------------------
(* The theorems.                                                           *)

\* Every variable has a value of its type, however many inputs there are.
THEOREM TypeCorrect == Spec => []TypeOK
<1>1. Inv => TypeOK
  <2> SUFFICES ASSUME Inv PROVE TypeOK OBVIOUS
  <2>1. Pairs \subseteq Values \X Values
    BY DEF Pairs, Nothing, Values
  <2>2. QED BY <2>1 DEF Inv, LockOK, SwitchOK, TaskOK, TypeOK
<1>2. QED BY <1>1, AlwaysInv, PTL

\* A paused input has no open kernel, however often inputs fail, recover and
\* are switched: Pause and all that opens the kernel exclude each other.
THEOREM PausedIsClosed == Spec => []KernelNeedsGate
<1>1. Inv => KernelNeedsGate
  BY DEF Inv, GateOK, KernelNeedsGate
<1>2. QED BY <1>1, AlwaysInv, PTL
=============================================================================
