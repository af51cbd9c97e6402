------------------------------ MODULE Retryable ------------------------------
(***************************************************************************)
(* The Retryable kernel (kernel/retryable.go): it opens a kernel with a    *)
(* factory once it is unpaused, replaces it when it fails, and closes it   *)
(* when it is paused.                                                      *)
(*                                                                         *)
(* KernelLocker is held by whoever opens the kernel, for as long as that   *)
(* takes: the goroutine in Generate, or one that Unpause has started.      *)
(* The hooks OnKernelOpen and OnError are called with it.                  *)
(***************************************************************************)
EXTENDS Integers

CONSTANTS
  Retryables,
  MaxFailures,  \* bound: how often each kernel fails
  Mortal        \* those that the last failure breaks for good

ASSUME FailuresAssumption == MaxFailures \in [Retryables -> Nat]

VARIABLES
  gate,      \* KernelOpenBarrier's channel is closed: the kernel may be opened
  kernel,    \* KernelIsSet
  holder,    \* who holds KernelLocker
  stage,     \* what the holder is doing
  loop,      \* the goroutine in Generate
  openers,   \* goroutines of Unpause that are not done
  failed     \* how often the kernel has failed

retryVars == <<gate, kernel, holder, stage, loop, openers, failed>>

\* What is wrong with the kernel is outside the code: a camera is unplugged,
\* a server does not answer.
Broken(r) == r \in Mortal /\ failed[r] = MaxFailures[r]
CanFail(r) == failed[r] < MaxFailures[r]

Set(r) == kernel' = [kernel EXCEPT ![r] = TRUE]
Unset(r) == kernel' = [kernel EXCEPT ![r] = FALSE]
Stage(r, s) == stage' = [stage EXCEPT ![r] = s]

\* The holder leaves, and the goroutine in Generate calls its kernel.
LeaveAnyhow(r, by) ==
  /\ holder' = [holder EXCEPT ![r] = "free"]
  /\ Stage(r, "idle")
  /\ loop' = [loop EXCEPT ![r] = "generate"]
  /\ openers' = [openers EXCEPT ![r] = @ - 1]
LeaveBy(r, by) ==
  /\ holder' = [holder EXCEPT ![r] = "free"]
  /\ Stage(r, "idle")
  /\ IF by = "loop"
     THEN loop' = [loop EXCEPT ![r] = "generate"] /\ UNCHANGED openers
     ELSE openers' = [openers EXCEPT ![r] = @ - 1] /\ UNCHANGED loop

\* getKernel: there is a kernel already, or it has to be opened.
GetKernel(r, by) ==
  /\ holder[r] = "free"
  /\ IF kernel[r]
     THEN LeaveBy(r, by)
     ELSE /\ holder' = [holder EXCEPT ![r] = by]
          /\ Stage(r, "wait")
          /\ UNCHANGED <<loop, openers>>
  /\ UNCHANGED <<gate, kernel, failed>>

StartLoop(r) == loop[r] = "start" /\ GetKernel(r, "loop")
StartOpener(r) == openers[r] > 0 /\ GetKernel(r, "opener")

\* The gate is passed and the factory called.
Open(r) ==
  /\ stage[r] = "wait" /\ gate[r]
  /\ \/ ~Broken(r) /\ Stage(r, "opened") /\ UNCHANGED failed
     \/ Broken(r) /\ Stage(r, "error") /\ UNCHANGED failed
     \/ CanFail(r) /\ Stage(r, "error") /\ failed' = [failed EXCEPT ![r] = @ + 1]
  /\ UNCHANGED <<gate, kernel, holder, loop, openers>>

\* OnKernelOpen has returned.
OpenedWith(r, s) ==
  /\ stage[r] = s
  /\ Set(r)
  /\ LeaveBy(r, holder[r])
  /\ UNCHANGED <<gate, failed>>

\* The kernel's Generate returns an error; retry wants the lock again.
Fail(r) ==
  /\ loop[r] = "generate" /\ CanFail(r)
  /\ loop' = [loop EXCEPT ![r] = "failed"]
  /\ failed' = [failed EXCEPT ![r] = @ + 1]
  /\ UNCHANGED <<gate, kernel, holder, stage, openers>>

LockFailed(r) ==
  /\ loop[r] = "failed" /\ holder[r] = "free"
  /\ holder' = [holder EXCEPT ![r] = "loop"]
  /\ Stage(r, "error")
  /\ UNCHANGED <<gate, kernel, loop, openers, failed>>

\* OnError has returned ErrRetry: whatever kernel is set is forgotten.
RetryLater(r, s) ==
  /\ stage[r] = s
  /\ Unset(r)
  /\ holder' = [holder EXCEPT ![r] = "free"]
  /\ Stage(r, "idle")
  /\ UNCHANGED <<gate, loop, openers, failed>>
RetryFrom(r, s) ==
  /\ stage[r] = s
  /\ Unset(r)
  /\ Stage(r, "wait")
  /\ UNCHANGED <<gate, holder, loop, openers, failed>>

\* The channel is closed without the lock, since its holder may be waiting
\* for just that.
OpenGate(r) ==
  /\ gate' = [gate EXCEPT ![r] = TRUE]
  /\ openers' = [openers EXCEPT ![r] = @ + 1]
  /\ UNCHANGED <<kernel, holder, stage, loop, failed>>
UnpauseTrying(r) ==
  IF holder[r] = "free" THEN OpenGate(r) ELSE UNCHANGED retryVars
Unpause(r) == OpenGate(r)

\* Does nothing if the kernel is not set, else closes it, which makes its
\* Generate return.
PauseUnlocked(r) ==
  /\ gate' = [gate EXCEPT ![r] = FALSE]
  /\ Unset(r)
  /\ UNCHANGED <<holder, stage, loop, openers, failed>>
Pause(r) ==
  /\ holder[r] = "free"
  /\ IF kernel[r]
     THEN /\ Unset(r)
          /\ gate' = [gate EXCEPT ![r] = FALSE]
          /\ loop' = [loop EXCEPT ![r] = IF @ = "generate" THEN "failed" ELSE @]
     ELSE UNCHANGED <<gate, kernel, loop>>
  /\ UNCHANGED <<holder, stage, openers, failed>>

\* NewRetryable with StartOnInit unset.
RetryInit ==
  /\ kernel = [r \in Retryables |-> FALSE]
  /\ holder = [r \in Retryables |-> "free"]
  /\ stage = [r \in Retryables |-> "idle"]
  /\ loop = [r \in Retryables |-> "start"]
  /\ failed = [r \in Retryables |-> 0]

RetryTypeOK ==
  /\ gate \in [Retryables -> BOOLEAN]
  /\ kernel \in [Retryables -> BOOLEAN]
  /\ holder \in [Retryables -> {"free", "loop", "opener"}]
  /\ stage \in [Retryables -> {"idle", "wait", "opened", "error", "ask", "swap"}]
  /\ loop \in [Retryables -> {"start", "generate", "failed"}]
  /\ openers \in [Retryables -> Nat]
  /\ failed \in [Retryables -> Nat]
=============================================================================
