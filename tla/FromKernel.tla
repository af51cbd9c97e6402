----------------------------- MODULE FromKernel -----------------------------
(***************************************************************************)
(* processor/from_kernel.go: the goroutines around a kernel.  A reader     *)
(* feeds the kernel from the input channels (processor/reader_loop.go), a  *)
(* generator lets it produce by itself, one forwarder per kind moves what  *)
(* it emits to the output channels, and when reader and generator are done *)
(* a finalizer closes the kernel and the channels behind it.               *)
(*                                                                         *)
(* Channels are counters: which object is in them does not matter here.    *)
(***************************************************************************)
EXTENDS Integers

CONSTANTS
  Kinds,          \* the kinds of objects: packets and frames
  QueueSize,      \* capacity of each input, inner and output channel
  ErrQueueSize,   \* OptionQueueSizeError
  IsSource,       \* the kernel generates, and Generate ends with an error
  InputFails,     \* SendInputPacket/Frame may fail
  CloseFails,     \* Kernel.Close or OnClosed may fail
  SharedContext,  \* the processor's context is a child of Serve's
  Closers         \* goroutines that may call Close

ASSUME QueueAssumption == QueueSize \in Nat \ {0} /\ ErrQueueSize \in Nat \ {0}
ASSUME KernelAssumption ==
  {IsSource, InputFails, CloseFails, SharedContext} \subseteq BOOLEAN
ASSUME KindsAssumption == Kinds # {}

VARIABLES
  cancelled,  \* Serve's context is done
  stopped,    \* Close has called the processor's cancelFn
  in,         \* objects in InputPacketCh, InputFrameCh
  pre,        \* objects in preOutputPacketsCh, preOutputFramesCh
  preClosed,  \* those two are closed
  out,        \* objects in OutputPacketCh, OutputFrameCh
  outClosed,
  errs,       \* errors in ErrorCh
  errClosed,
  kernelClosed, \* the kernel's CloseChan is closed
  reader, generator, finalizer, forwarder,   \* what each goroutine does next
  closer      \* the same for the callers of Close

queues == <<in, pre, preClosed, out, outClosed, errs, errClosed>>
procVars == <<cancelled, stopped, queues, kernelClosed,
              reader, generator, finalizer, forwarder, closer>>

ProcDone == stopped \/ (SharedContext /\ cancelled)

----------------------------------------------------------------------------
(* Channel operations.                                                     *)

Enqueue(channel, k) == channel[k] < QueueSize /\ channel' = [channel EXCEPT ![k] = @ + 1]
Dequeue(channel, k) == channel[k] > 0 /\ channel' = [channel EXCEPT ![k] = @ - 1]
SendError == errs < ErrQueueSize /\ errs' = errs + 1

\* An upstream node pushes an object (node/node_serve.go); a source has none.
Feed(k) ==
  /\ ~IsSource
  /\ Enqueue(in, k)
  /\ UNCHANGED <<cancelled, stopped, pre, preClosed, out, outClosed, errs, errClosed,
                 kernelClosed, reader, generator, finalizer, forwarder, closer>>

----------------------------------------------------------------------------
(* The forwarders.                                                         *)

Forward(k, from, to) == forwarder[k] = from /\ forwarder' = [forwarder EXCEPT ![k] = to]

Take(k) ==
  /\ Forward(k, "receive", "send")
  /\ Dequeue(pre, k)
  /\ UNCHANGED <<cancelled, stopped, in, preClosed, out, outClosed, errs, errClosed,
                 kernelClosed, reader, generator, finalizer, closer>>

Give(k) ==
  /\ Forward(k, "send", "receive")
  /\ Enqueue(out, k)
  /\ UNCHANGED <<cancelled, stopped, in, pre, preClosed, outClosed, errs, errClosed,
                 kernelClosed, reader, generator, finalizer, closer>>

\* A forwarder leaves, and closes its output channel, when the context is
\* done, whatever it holds, or when the inner channel is closed and empty.
Leave(k) ==
  /\ outClosed' = [outClosed EXCEPT ![k] = TRUE]
  /\ forwarder' = [forwarder EXCEPT ![k] = "done"]
  /\ UNCHANGED <<cancelled, stopped, in, pre, preClosed, out, errs, errClosed,
                 kernelClosed, reader, generator, finalizer, closer>>

EndForwardEarly(k) == forwarder[k] # "done" /\ (ProcDone \/ preClosed) /\ Leave(k)
EndForwardIdle(k) ==
  forwarder[k] = "receive" /\ (ProcDone \/ (preClosed /\ pre[k] = 0)) /\ Leave(k)
EndForward(k) ==
  /\ \/ forwarder[k] # "done" /\ ProcDone
     \/ forwarder[k] = "receive" /\ preClosed /\ pre[k] = 0
  /\ Leave(k)

----------------------------------------------------------------------------
(* The reader: readerLoop, its deferred loop over what is left in the      *)
(* inputs, and the end of its goroutine.                                   *)

Read(from, to) == reader = from /\ reader' = to
ReaderUnchanged == UNCHANGED <<cancelled, stopped, preClosed, out, outClosed, errClosed,
                               kernelClosed, generator, finalizer, forwarder, closer>>

ReadInput ==
  /\ Read("select", "input")
  /\ \E k \in Kinds : Dequeue(in, k)
  /\ ReaderUnchanged /\ UNCHANGED <<pre, errs>>

StopWhen(condition) ==
  /\ condition
  /\ Read("select", "drain")
  /\ ReaderUnchanged /\ UNCHANGED <<in, pre, errs>>
StopOnClosureOnly == StopWhen(kernelClosed)

\* Every way out of readerLoop is an error: the context's, io.EOF because the
\* kernel is closed, or the kernel's own.
StopReading == StopWhen(ProcDone \/ kernelClosed)

\* The deferred loop takes what is there and stops at the first error.
DrainInput ==
  /\ Read("drain", "drain_input")
  /\ \E k \in Kinds : Dequeue(in, k)
  /\ ReaderUnchanged /\ UNCHANGED <<pre, errs>>

Drained ==
  /\ \A k \in Kinds : in[k] = 0
  /\ Read("drain", "error")
  /\ ReaderUnchanged /\ UNCHANGED <<in, pre, errs>>

\* SendInputPacket/Frame returns, after it emitted at most one object.
InputDone ==
  /\ Read("input", "select") \/ Read("drain_input", "drain")
  /\ UNCHANGED pre \/ \E k \in Kinds : Enqueue(pre, k)
  /\ ReaderUnchanged /\ UNCHANGED <<in, errs>>

InputFailed ==
  /\ InputFails \/ ProcDone
  /\ Read("input", "drain") \/ Read("drain_input", "error")
  /\ ReaderUnchanged /\ UNCHANGED <<in, pre, errs>>

ReaderError ==
  /\ Read("error", "join")
  /\ SendError
  /\ ReaderUnchanged /\ UNCHANGED <<in, pre>>

Joined ==
  /\ Read("join", "done")
  /\ finalizer' = "close"
  /\ UNCHANGED <<cancelled, stopped, queues, kernelClosed, generator, forwarder, closer>>
JoinNobody == Joined

\* swg.Wait; the finalizer runs in a goroutine of its own.
JoinGenerator == generator = "done" /\ Joined

----------------------------------------------------------------------------
(* The generator.                                                          *)

GeneratorUnchanged == UNCHANGED <<cancelled, stopped, in, preClosed, out, outClosed, errClosed,
                                  reader, finalizer, forwarder, closer>>

Generate ==
  /\ generator = "run" /\ IsSource
  /\ \E k \in Kinds : Enqueue(pre, k)
  /\ GeneratorUnchanged /\ UNCHANGED <<errs, kernelClosed, generator>>

\* A source ends at its EOF or with its context, and closes its CloseChan
\* (Input.Generate); the Generate of other kernels returns nil at once.
GenerateEnds(closes) ==
  /\ generator = "run"
  /\ generator' = IF IsSource THEN "error" ELSE "done"
  /\ kernelClosed' = (kernelClosed \/ closes)
  /\ GeneratorUnchanged /\ UNCHANGED <<pre, errs>>
GenerateEndsOpen == GenerateEnds(FALSE)
GenerateReturns == GenerateEnds(IsSource)

GenerateError ==
  /\ generator = "error" /\ generator' = "done"
  /\ SendError
  /\ GeneratorUnchanged /\ UNCHANGED <<pre, kernelClosed>>

----------------------------------------------------------------------------
(* finalize, and Close.                                                    *)

\* Kernel.Close and OnClosed, then the deferred closes of the inner channels.
Finalize ==
  /\ finalizer = "close"
  /\ kernelClosed' = TRUE
  /\ preClosed' = TRUE
  /\ finalizer' \in {"close_errors"} \cup (IF CloseFails THEN {"error"} ELSE {})
  /\ UNCHANGED <<cancelled, stopped, in, pre, out, outClosed, errs, errClosed,
                 reader, generator, forwarder, closer>>

FinalizeError ==
  /\ finalizer = "error" /\ finalizer' = "close_errors"
  /\ SendError
  /\ UNCHANGED <<cancelled, stopped, in, pre, preClosed, out, outClosed, errClosed,
                 kernelClosed, reader, generator, forwarder, closer>>

CloseErrors ==
  /\ finalizer = "close_errors" /\ finalizer' = "done"
  /\ errClosed' = TRUE
  /\ UNCHANGED <<cancelled, stopped, in, pre, preClosed, out, outClosed, errs,
                 kernelClosed, reader, generator, forwarder, closer>>

\* The first caller of Close cancels and waits; closeOnce holds the others.
CloseCancel(c) ==
  /\ closer[c] = "cancel"
  /\ \A d \in Closers : closer[d] \notin {"wait", "done"}
  /\ stopped' = TRUE
  /\ closer' = [closer EXCEPT ![c] = "wait"]
  /\ UNCHANGED <<cancelled, queues, kernelClosed, reader, generator, finalizer, forwarder>>

AllDone == finalizer = "done" /\ \A k \in Kinds : forwarder[k] = "done"

CloseDone(c) ==
  /\ \/ closer[c] = "wait" /\ AllDone
     \/ closer[c] = "cancel" /\ \E d \in Closers : closer[d] = "done"
  /\ closer' = [closer EXCEPT ![c] = "done"]
  /\ UNCHANGED <<cancelled, stopped, queues, kernelClosed,
                 reader, generator, finalizer, forwarder>>

----------------------------------------------------------------------------
ProcInit ==
  /\ cancelled = FALSE
  /\ stopped = FALSE
  /\ in = [k \in Kinds |-> 0]
  /\ pre = [k \in Kinds |-> 0]
  /\ preClosed = FALSE
  /\ out = [k \in Kinds |-> 0]
  /\ outClosed = [k \in Kinds |-> FALSE]
  /\ errs = 0
  /\ errClosed = FALSE
  /\ kernelClosed = FALSE
  /\ reader = "select"
  /\ generator = "run"
  /\ finalizer = "off"
  /\ forwarder = [k \in Kinds |-> "receive"]
  /\ closer = [c \in Closers |-> "idle"]

ForwarderStep(k) == Take(k) \/ Give(k) \/ EndForward(k)
ReaderStep == ReadInput \/ StopReading \/ DrainInput \/ Drained
              \/ InputDone \/ InputFailed \/ ReaderError \/ JoinGenerator
GeneratorStep == Generate \/ GenerateReturns \/ GenerateError
FinalizerStep == Finalize \/ FinalizeError \/ CloseErrors
CloserStep(c) == CloseCancel(c) \/ CloseDone(c)

ProcNext ==
  \/ \E k \in Kinds : Feed(k) \/ ForwarderStep(k)
  \/ ReaderStep \/ GeneratorStep \/ FinalizerStep
  \/ \E c \in Closers : CloserStep(c)

\* Every variable has a value of its type.
ProcTypeOK ==
  /\ {cancelled, stopped, preClosed, errClosed, kernelClosed} \subseteq BOOLEAN
  /\ {in, pre, out} \subseteq [Kinds -> 0..QueueSize]
  /\ outClosed \in [Kinds -> BOOLEAN]
  /\ errs \in 0..ErrQueueSize
  /\ reader \in {"select", "input", "drain", "drain_input", "error", "join", "done"}
  /\ generator \in {"run", "error", "done"}
  /\ finalizer \in {"off", "close", "error", "close_errors", "done"}
  /\ forwarder \in [Kinds -> {"receive", "send", "done"}]
  /\ closer \in [Closers -> {"idle", "cancel", "wait", "done"}]
=============================================================================
