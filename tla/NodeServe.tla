------------------------------ MODULE NodeServe ------------------------------
(***************************************************************************)
(* The main loop of a node (Serve in node/node_serve.go) over a processor  *)
(* made from a kernel: it pulls the output channels, pushes what it pulls  *)
(* to the nodes downstream, reports errors, and when its context is done   *)
(* closes the processor from another goroutine and goes on pulling until   *)
(* an output channel is closed.                                            *)
(***************************************************************************)
EXTENDS FromKernel

CONSTANTS ServeCloser   \* the goroutine in which Serve calls Processor.Close

ASSUME CloserAssumption == ServeCloser \in Closers

VARIABLE serve          \* what Serve does next

vars == <<procVars, serve>>

\* The context of Serve is cancelled.
Cancel ==
  /\ ~cancelled /\ cancelled' = TRUE
  /\ UNCHANGED <<stopped, queues, kernelClosed, reader, generator, finalizer,
                 forwarder, closer, serve>>

\* Somebody else closes the processor.
CloseCall(c) ==
  /\ c # ServeCloser /\ closer[c] = "idle"
  /\ closer' = [closer EXCEPT ![c] = "cancel"]
  /\ UNCHANGED <<cancelled, stopped, queues, kernelClosed, reader, generator, finalizer,
                 forwarder, serve>>

InitiateClosing ==
  /\ serve = "select" /\ cancelled /\ closer[ServeCloser] = "idle"
  /\ closer' = [closer EXCEPT ![ServeCloser] = "cancel"]
  /\ UNCHANGED <<cancelled, stopped, queues, kernelClosed, reader, generator, finalizer,
                 forwarder, serve>>

\* A closed and empty ErrorCh yields nil, which is not reported.
ReportAny ==
  /\ serve = "select"
  /\ errs > 0 \/ errClosed
  /\ errs' = errs - 1
  /\ UNCHANGED <<cancelled, stopped, in, pre, preClosed, out, outClosed, errClosed,
                 kernelClosed, reader, generator, finalizer, forwarder, closer, serve>>
ReportError == errs > 0 /\ ReportAny

Pull(k) ==
  /\ serve = "select" /\ serve' = "push"
  /\ Dequeue(out, k)
  /\ UNCHANGED <<cancelled, stopped, in, pre, preClosed, outClosed, errs, errClosed,
                 kernelClosed, reader, generator, finalizer, forwarder, closer>>

\* pushFurther: done when the queues downstream have room or the context ends.
Push ==
  /\ serve = "push" /\ serve' = "select"
  /\ UNCHANGED procVars

\* An output channel is closed.  The deferred wg.Wait waits for the closing
\* that Serve has initiated.
Return ==
  /\ serve = "select"
  /\ \E k \in Kinds : outClosed[k] /\ out[k] = 0
  /\ serve' = IF closer[ServeCloser] = "idle" THEN "done" ELSE "join"
  /\ UNCHANGED procVars

Join ==
  /\ serve = "join" /\ closer[ServeCloser] = "done"
  /\ serve' = "done"
  /\ UNCHANGED procVars

Init == ProcInit /\ serve = "select"

ServeStep == InitiateClosing \/ ReportError \/ (\E k \in Kinds : Pull(k)) \/ Return \/ Join

Next ==
  \/ ProcNext /\ UNCHANGED serve
  \/ Cancel \/ Push \/ ServeStep
  \/ \E c \in Closers : CloseCall(c)

Spec == Init /\ [][Next]_vars

\* All goroutines of the processor run, Serve runs, no select starves a ready
\* case, and a kernel that is fed for ever after its context is done fails in
\* the end, as one that emits does.  Nobody has to cancel, to feed or to take what Serve pushes; a
\* source has to end once its context is done.
Fairness ==
  /\ WF_vars(ReaderStep /\ UNCHANGED serve) /\ WF_vars(FinalizerStep /\ UNCHANGED serve)
  /\ WF_vars(GenerateError /\ UNCHANGED serve)
  /\ WF_vars(GenerateReturns /\ (ProcDone \/ ~IsSource) /\ UNCHANGED serve)
  /\ \A k \in Kinds :
       /\ WF_vars((Take(k) \/ Give(k)) /\ UNCHANGED serve)
       /\ WF_vars(EndForward(k) /\ UNCHANGED serve)
  /\ SF_vars(StopReading /\ UNCHANGED serve)
  /\ SF_vars(InputFailed /\ ProcDone /\ reader = "drain_input" /\ UNCHANGED serve)
  /\ WF_vars(ServeStep) /\ SF_vars(InitiateClosing) /\ SF_vars(ReportError) /\ SF_vars(Return)
  /\ WF_vars(Push /\ cancelled)
  /\ \A c \in Closers : WF_vars(CloserStep(c) /\ UNCHANGED serve)

FairSpec == Spec /\ Fairness

----------------------------------------------------------------------------
(* Properties.                                                             *)

\* Every variable has a value of its type.
TypeOK == ProcTypeOK /\ serve \in {"select", "push", "join", "done"}

\* Nothing is ever sent on a closed channel, which panics: neither by the
\* kernel, from the reader or the generator, on the inner channels, nor by
\* anybody on ErrorCh.
NoSendOnClosed ==
  /\ reader \in {"input", "drain_input"} \/ (generator = "run" /\ IsSource) => ~preClosed
  /\ "error" \in {reader, generator, finalizer} => ~errClosed

\* A processor that ends by itself has handed on all that its kernel emitted:
\* only a context that is done drops objects.
NothingLost == \A k \in Kinds : outClosed[k] /\ ~ProcDone => pre[k] = 0

\* Serve returns after its context is cancelled.
ServeReturns == cancelled ~> serve = "done"

\* Close returns, whoever calls it and however often.
CloseReturns == \A c \in Closers : closer[c] = "cancel" ~> closer[c] = "done"

\* When the source is exhausted its processor ends without being told to,
\* whatever becomes of Serve: the reader sees the closed kernel, and the
\* finalizer closes the channels behind it.
EndsAtEOF == generator = "error" ~> finalizer = "done"
=============================================================================
