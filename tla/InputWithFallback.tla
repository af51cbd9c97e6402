-------------------------- MODULE InputWithFallback --------------------------
(***************************************************************************)
(* Failover between inputs (preset/inputwithfallback).  Input 0 is the     *)
(* preferred one, the others are paused until they are needed.  A chain    *)
(* is a Retryable input kernel, a Filter barrier of InputSwitch, possibly  *)
(* a decoder, and a SyncBarrier of InputSyncer.                            *)
(*                                                                         *)
(* When the kernel of the active input fails, the chain requests the next  *)
(* one; when a preferred one opens, it requests itself.  A key frame that  *)
(* any Filter sees commits the switch; the packet carries a flush mark,    *)
(* and when a SyncBarrier sees that, the outputs are switched too.         *)
(* switchingProcN counts what is going on, and while it is not zero all    *)
(* requests are refused.                                                   *)
(*                                                                         *)
(* The two switches are those of BarrierSwitch in fewer steps: the values  *)
(* are loaded at once, and a commit, which holds CommitMutex, is one step  *)
(* that may find them changed.                                             *)
(***************************************************************************)
EXTENDS Retryable

CONSTANT Last     \* the last fallback; the inputs are 0..Last

Inputs == 0..Last
None == -1      \* math.MinInt32
Values == Inputs \cup {None}
Nothing == <<None, None>>

ASSUME InputsAssumption == Last \in Nat /\ Retryables = Inputs

VARIABLES
  current, next,            \* InputSwitch
  caught,                   \* <<from, to>> that the Filter of a chain will commit
  flow,                     \* what is between Filter and SyncBarrier of a chain
  syncCurrent, syncNext,    \* InputSyncer
  matched,                  \* <<from, to>> that the SyncBarrier of a chain will commit
  syncing,                  \* syncingSince is not zero
  switchingProcN,
  wish,                     \* the value a chain calls InputSwitch.SetValue with
  unpausing, pausing        \* goroutines that will unpause or pause a chain

switch == <<current, next, caught>>
syncer == <<flow, syncCurrent, syncNext, matched, syncing>>
tasks == <<unpausing, pausing>>
vars == <<retryVars, switch, syncer, switchingProcN, wish, tasks>>

Count(n) == switchingProcN' = switchingProcN + n

----------------------------------------------------------------------------
(* The hooks of the chains' Retryables, and SetValue, which they call.     *)

Elsewhere == UNCHANGED <<current, caught, syncer>>
ChainOnly == Elsewhere /\ UNCHANGED <<next, switchingProcN, tasks>>

Ask(i, v) ==
  /\ Stage(i, "ask")
  /\ wish' = [wish EXCEPT ![i] = v]
  /\ UNCHANGED <<gate, kernel, holder, loop, openers, failed>>

\* onInputChainKernelOpen
Opened(i) ==
  /\ stage[i] = "opened"
  /\ IF i < current THEN Ask(i, i) ELSE OpenedWith(i, "opened") /\ UNCHANGED wish
  /\ ChainOnly

\* onInputChainError
Wanted == IF next > current THEN next ELSE current
Errored(i) ==
  /\ stage[i] = "error"
  /\ IF i = Wanted /\ i < Last
     THEN Ask(i, i + 1)
     ELSE RetryFrom(i, "error") /\ UNCHANGED wish
  /\ ChainOnly

\* SetValue returns to the hook, and the hook to the Retryable.
Answered(i, s) ==
  /\ IF wish[i] = i THEN OpenedWith(i, s) ELSE RetryFrom(i, s)
  /\ wish' = [wish EXCEPT ![i] = None]

\* onInputChainError calls SetValue with InputChainsLocker, which the
\* goroutines need to find their chain; onInputChainKernelOpen does not.
ChainsLocked == \E i \in Inputs : stage[i] = "swap" /\ wish[i] # i
MayRequest(i) == stage[i] = "ask" /\ (wish[i] = i \/ ~ChainsLocked)

\* OnSwitchRequest: the requested input is unpaused, and the fallback that
\* was requested before it, if another, is paused again.
Accept(i) ==
  /\ MayRequest(i) /\ switchingProcN = 0
  /\ Stage(i, "swap")
  /\ unpausing' = [unpausing EXCEPT ![wish[i]] = @ + 1]
  /\ IF next > current /\ next # wish[i]
     THEN pausing' = [pausing EXCEPT ![next] = @ + 1] /\ Count(2)
     ELSE Count(1) /\ UNCHANGED pausing
  /\ Elsewhere /\ UNCHANGED <<next, wish, gate, kernel, holder, loop, openers, failed>>

Refuse(i) ==
  /\ MayRequest(i) /\ switchingProcN # 0
  /\ Answered(i, "ask")
  /\ ChainOnly

\* setNextValueNow, once the mutex has been released and locked again.
NextAfter(cur, nxt, v) == IF nxt \notin {v, None} /\ cur = v THEN None ELSE v
SwapNext(i) ==
  /\ stage[i] = "swap"
  /\ next' = NextAfter(current, next, wish[i])
  /\ Answered(i, "swap")
  /\ Elsewhere /\ UNCHANGED <<switchingProcN, tasks>>

----------------------------------------------------------------------------
(* The goroutines that OnSwitchRequest and OnAfterSwitch start.            *)

UnpauseTask(i) ==
  /\ unpausing[i] > 0 /\ ~ChainsLocked
  /\ Unpause(i)
  /\ unpausing' = [unpausing EXCEPT ![i] = @ - 1]
  /\ Count(-1)
  /\ Elsewhere /\ UNCHANGED <<next, wish, pausing>>

PauseTask(i) ==
  /\ pausing[i] > 0 /\ ~ChainsLocked
  /\ Pause(i)
  /\ pausing' = [pausing EXCEPT ![i] = @ - 1]
  /\ Count(-1)
  /\ Elsewhere /\ UNCHANGED <<next, wish, unpausing>>

----------------------------------------------------------------------------
(* Filter: GetState of InputSwitch.                                        *)

\* A packet of the active input passes, others are dropped.
Deliver(i) ==
  /\ loop[i] = "generate" /\ caught[i] = Nothing
  /\ flow' = IF current = i THEN [flow EXCEPT ![i] = @ \cup {"plain"}] ELSE flow
  /\ UNCHANGED <<retryVars, switch, syncCurrent, syncNext, matched, syncing,
                 switchingProcN, wish, tasks>>

\* A key frame finds a switch requested; it need not be of that input.
Catch(i) ==
  /\ loop[i] = "generate" /\ caught[i] = Nothing
  /\ next \notin {None, current}
  /\ caught' = [caught EXCEPT ![i] = <<current, next>>]
  /\ UNCHANGED <<retryVars, current, next, syncer, switchingProcN, wish, tasks>>

\* OnAfterSwitch.  What the barrier lets pass is marked; the syncer's
\* SetValue meets its switch as setNextValueNow does.
AfterSwitch(i, from, to) ==
  LET left == {id \in Inputs : to < id /\ id <= from}
  IN /\ syncing' = TRUE
     /\ pausing' = [id \in Inputs |-> pausing[id] + IF id \in left THEN 1 ELSE 0]
     /\ Count(1 + IF to < from THEN from - to ELSE 0)
     /\ syncNext' = NextAfter(syncCurrent, syncNext, to)
     /\ flow' = IF i = to THEN [flow EXCEPT ![i] = @ \cup {"flush"}] ELSE flow

\* commitToNextValue: the two swaps, and OnAfterSwitch, or OnInterruptedSwitch,
\* which undoes OnBeforeSwitch.
Commit(i) ==
  LET from == caught[i][1]
      to == caught[i][2]
  IN /\ caught[i] # Nothing
     /\ caught' = [caught EXCEPT ![i] = Nothing]
     /\ current' = IF current = from THEN to ELSE current
     /\ IF current = from /\ next = to
        THEN next' = None /\ AfterSwitch(i, from, to)
        ELSE UNCHANGED <<next, flow, syncNext, syncing, pausing, switchingProcN>>
     /\ UNCHANGED <<retryVars, syncCurrent, matched, wish, unpausing>>

----------------------------------------------------------------------------
(* SyncBarrier: GetState of InputSyncer.                                   *)

\* KeepUnless of InputSyncer: the flush mark, or any item (a key frame, if it
\* was not decoded) once SwitchKeepUnlessTimeout has passed since syncingSince,
\* which it has since the zero time.  How long an item is on its way is not
\* modelled, so that it may always have passed.
\* The condition has a side effect: it ends the switching.
Match(i) ==
  /\ matched[i] = Nothing
  /\ syncNext \notin {None, syncCurrent}
  /\ flow[i] # {}
  /\ matched' = [matched EXCEPT ![i] = <<syncCurrent, syncNext>>]
  /\ syncing' = FALSE
  /\ Count(-1)
  /\ UNCHANGED <<retryVars, switch, flow, syncCurrent, syncNext, wish, tasks>>

\* Nothing to switch to, or not yet: the item passes or is dropped, but an
\* inactive output blocks if the next value is the current one.
Through(i) ==
  /\ matched[i] = Nothing
  /\ syncNext = syncCurrent => i = syncCurrent
  /\ \E item \in flow[i] :
       /\ syncNext \in {None, syncCurrent} \/ item # "flush"
       /\ flow' = [flow EXCEPT ![i] = @ \ {item}]
  /\ UNCHANGED <<retryVars, switch, syncCurrent, syncNext, matched, syncing,
                 switchingProcN, wish, tasks>>

\* The syncer has no hooks.
SyncCommit(i) ==
  LET from == matched[i][1]
      to == matched[i][2]
  IN /\ matched[i] # Nothing
     /\ matched' = [matched EXCEPT ![i] = Nothing]
     /\ syncCurrent' = IF syncCurrent = from THEN to ELSE syncCurrent
     /\ syncNext' = IF syncCurrent = from /\ syncNext = to THEN None ELSE syncNext
     /\ UNCHANGED <<retryVars, switch, flow, syncing, switchingProcN, wish, tasks>>

----------------------------------------------------------------------------
\* All chains are served, and Serve has unpaused the first one.
Init ==
  /\ RetryInit
  /\ gate = [i \in Inputs |-> i = 0]
  /\ openers = [i \in Inputs |-> IF i = 0 THEN 1 ELSE 0]
  /\ current = 0 /\ next = None
  /\ caught = [i \in Inputs |-> Nothing]
  /\ flow = [i \in Inputs |-> {}]
  /\ syncCurrent = 0 /\ syncNext = None
  /\ matched = [i \in Inputs |-> Nothing]
  /\ syncing = FALSE
  /\ switchingProcN = 0
  /\ wish = [i \in Inputs |-> None]
  /\ unpausing = [i \in Inputs |-> 0]
  /\ pausing = [i \in Inputs |-> 0]

KernelStep(i) == StartLoop(i) \/ StartOpener(i) \/ Open(i) \/ Fail(i) \/ LockFailed(i)
ChainStep(i) == KernelStep(i) /\ UNCHANGED <<switch, syncer, switchingProcN, wish, tasks>>
HookStep(i) == Opened(i) \/ Errored(i) \/ Accept(i) \/ Refuse(i) \/ SwapNext(i)
TaskStep(i) == UnpauseTask(i) \/ PauseTask(i)
FilterStep(i) == Deliver(i) \/ Catch(i) \/ Commit(i)
SyncStep(i) == Match(i) \/ Through(i) \/ SyncCommit(i)

Next == \E i \in Inputs :
  ChainStep(i) \/ HookStep(i) \/ TaskStep(i) \/ FilterStep(i) \/ SyncStep(i)

Spec == Init /\ [][Next]_vars

\* All goroutines run.  KernelLocker, a channel, starves nobody.  An open
\* input keeps delivering key frames, and the timeout passes.
Running(i) ==
  \/ HookStep(i)
  \/ /\ StartLoop(i) \/ StartOpener(i) \/ Open(i) \/ LockFailed(i)
     /\ UNCHANGED <<switch, syncer, switchingProcN, wish, tasks>>

Fairness == \A i \in Inputs :
  /\ WF_vars(Running(i)) /\ WF_vars(TaskStep(i))
  /\ WF_vars(Deliver(i)) /\ WF_vars(Catch(i) \/ Commit(i))
  /\ SF_vars(Match(i) \/ SyncCommit(i))

FairSpec == Spec /\ Fairness

----------------------------------------------------------------------------
(* Properties.                                                             *)

\* Every variable has a value of its type.
TypeOK ==
  /\ RetryTypeOK
  /\ current \in Inputs /\ next \in Values
  /\ caught \in [Inputs -> Values \X Values]
  /\ flow \in [Inputs -> SUBSET {"plain", "flush"}]
  /\ syncCurrent \in Inputs /\ syncNext \in Values
  /\ matched \in [Inputs -> Values \X Values]
  /\ syncing \in BOOLEAN
  /\ switchingProcN \in Int
  /\ wish \in [Inputs -> Values]
  /\ unpausing \in [Inputs -> Nat] /\ pausing \in [Inputs -> Nat]

\* A paused input has no open kernel: it does not go on reading its source
\* while the outputs ignore it.  Pause and the goroutines that open the kernel
\* meet at KernelLocker only.
KernelNeedsGate == \A i \in Inputs : kernel[i] => gate[i]

\* An input that OnSwitchRequest has decided to unpause opens its kernel,
\* unless it is broken.  Its own goroutine holds the lock while it waits for
\* the gate.
WokenOpens == \A i \in Inputs : unpausing[i] > 0 ~> kernel[i] \/ Broken(i)

\* A kernel that has failed is opened again, unless it is paused or broken:
\* neither a refused request nor another goroutine's opening gets in the way.
FailedReopens ==
  \A i \in Inputs : loop[i] = "failed" ~> loop[i] = "generate" \/ ~gate[i] \/ Broken(i)

\* The assertion in OnAfterSwitch: the switch before this one is over.
SyncedBefore ==
  [][\A i \in Inputs : Commit(i) /\ caught[i] = <<current, next>> => ~syncing]_vars
=============================================================================
