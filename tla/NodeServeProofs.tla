--------------------------- MODULE NodeServeProofs ---------------------------
(***************************************************************************)
(* What holds of a node and its processor whatever the kinds of objects,   *)
(* the queue sizes, the kernel and the callers of Close: types, no send on *)
(* a closed channel, and nothing lost by a processor that ends by itself.  *)
(***************************************************************************)
EXTENDS NodeServe, TLAPS

\* The order in which a processor ends: generator, reader, finalizer, and the
\* finalizer is the one that closes the inner channels and then ErrorCh.
Lifecycle ==
  /\ reader = "done" => generator = "done"
  /\ finalizer # "off" => reader = "done"
  /\ preClosed <=> finalizer \in {"error", "close_errors", "done"}
  /\ errClosed <=> finalizer = "done"

\* A forwarder that has left has left for the context, or behind the last
\* object of a closed channel.
Emptied == \A k \in Kinds : outClosed[k] => ProcDone \/ (preClosed /\ pre[k] = 0)

----------------------------------------------------------------------------

\* Every step keeps the types.
LEMMA TypeStep ==
  ASSUME TypeOK, [Next]_vars
  PROVE  TypeOK'
<1>1. ASSUME NEW k \in Kinds, Feed(k), UNCHANGED serve PROVE TypeOK'
  BY <1>1, QueueAssumption, CloserAssumption DEF Feed, Enqueue, TypeOK, ProcTypeOK
<1>2. ASSUME NEW k \in Kinds, Take(k), UNCHANGED serve PROVE TypeOK'
  BY <1>2, QueueAssumption, CloserAssumption DEF Take, Forward, Dequeue, TypeOK, ProcTypeOK
<1>3. ASSUME NEW k \in Kinds, Give(k), UNCHANGED serve PROVE TypeOK'
  BY <1>3, QueueAssumption, CloserAssumption DEF Give, Forward, Enqueue, TypeOK, ProcTypeOK
<1>4. ASSUME NEW k \in Kinds, EndForward(k), UNCHANGED serve PROVE TypeOK'
  BY <1>4, QueueAssumption, CloserAssumption DEF EndForward, Leave, TypeOK, ProcTypeOK
<1>5. ASSUME ReadInput, UNCHANGED serve PROVE TypeOK'
  BY <1>5, QueueAssumption, CloserAssumption DEF ReadInput, Read, ReaderUnchanged, Dequeue, TypeOK, ProcTypeOK
<1>6. ASSUME StopReading, UNCHANGED serve PROVE TypeOK'
  BY <1>6, QueueAssumption, CloserAssumption DEF StopReading, StopWhen, Read, ReaderUnchanged, TypeOK, ProcTypeOK
<1>7. ASSUME DrainInput, UNCHANGED serve PROVE TypeOK'
  BY <1>7, QueueAssumption, CloserAssumption DEF DrainInput, Read, ReaderUnchanged, Dequeue, TypeOK, ProcTypeOK
<1>8. ASSUME Drained, UNCHANGED serve PROVE TypeOK'
  BY <1>8, QueueAssumption, CloserAssumption DEF Drained, Read, ReaderUnchanged, TypeOK, ProcTypeOK
<1>9. ASSUME InputDone, UNCHANGED serve PROVE TypeOK'
  BY <1>9, QueueAssumption, CloserAssumption DEF InputDone, Read, ReaderUnchanged, Enqueue, TypeOK, ProcTypeOK
<1>10. ASSUME InputFailed, UNCHANGED serve PROVE TypeOK'
  BY <1>10, QueueAssumption, CloserAssumption DEF InputFailed, Read, ReaderUnchanged, TypeOK, ProcTypeOK
<1>11. ASSUME ReaderError, UNCHANGED serve PROVE TypeOK'
  BY <1>11, QueueAssumption, CloserAssumption DEF ReaderError, Read, ReaderUnchanged, SendError, TypeOK, ProcTypeOK
<1>12. ASSUME JoinGenerator, UNCHANGED serve PROVE TypeOK'
  BY <1>12, QueueAssumption, CloserAssumption DEF JoinGenerator, Joined, Read, queues, TypeOK, ProcTypeOK
<1>13. ASSUME Generate, UNCHANGED serve PROVE TypeOK'
  BY <1>13, QueueAssumption, CloserAssumption DEF Generate, GeneratorUnchanged, Enqueue, TypeOK, ProcTypeOK
<1>14. ASSUME GenerateReturns, UNCHANGED serve PROVE TypeOK'
  BY <1>14, QueueAssumption, CloserAssumption DEF GenerateReturns, GenerateEnds, GeneratorUnchanged, TypeOK, ProcTypeOK
<1>15. ASSUME GenerateError, UNCHANGED serve PROVE TypeOK'
  BY <1>15, QueueAssumption, CloserAssumption DEF GenerateError, GeneratorUnchanged, SendError, TypeOK, ProcTypeOK
<1>16. ASSUME Finalize, UNCHANGED serve PROVE TypeOK'
  BY <1>16, QueueAssumption, CloserAssumption DEF Finalize, TypeOK, ProcTypeOK
<1>17. ASSUME FinalizeError, UNCHANGED serve PROVE TypeOK'
  BY <1>17, QueueAssumption, CloserAssumption DEF FinalizeError, SendError, TypeOK, ProcTypeOK
<1>18. ASSUME CloseErrors, UNCHANGED serve PROVE TypeOK'
  BY <1>18, QueueAssumption, CloserAssumption DEF CloseErrors, TypeOK, ProcTypeOK
<1>19. ASSUME NEW c \in Closers, CloseCancel(c), UNCHANGED serve PROVE TypeOK'
  BY <1>19, QueueAssumption, CloserAssumption DEF CloseCancel, queues, TypeOK, ProcTypeOK
<1>20. ASSUME NEW c \in Closers, CloseDone(c), UNCHANGED serve PROVE TypeOK'
  BY <1>20, QueueAssumption, CloserAssumption DEF CloseDone, queues, TypeOK, ProcTypeOK
<1>21. ASSUME Cancel PROVE TypeOK'
  BY <1>21, QueueAssumption, CloserAssumption DEF Cancel, queues, TypeOK, ProcTypeOK
<1>22. ASSUME Push PROVE TypeOK'
  BY <1>22, QueueAssumption, CloserAssumption DEF Push, procVars, queues, TypeOK, ProcTypeOK
<1>23. ASSUME InitiateClosing PROVE TypeOK'
  BY <1>23, QueueAssumption, CloserAssumption DEF InitiateClosing, queues, TypeOK, ProcTypeOK
<1>24. ASSUME ReportError PROVE TypeOK'
  BY <1>24, QueueAssumption, CloserAssumption DEF ReportError, ReportAny, TypeOK, ProcTypeOK
<1>25. ASSUME NEW k \in Kinds, Pull(k) PROVE TypeOK'
  BY <1>25, QueueAssumption, CloserAssumption DEF Pull, Dequeue, TypeOK, ProcTypeOK
<1>26. ASSUME Return PROVE TypeOK'
  BY <1>26, QueueAssumption, CloserAssumption DEF Return, procVars, queues, TypeOK, ProcTypeOK
<1>27. ASSUME Join PROVE TypeOK'
  BY <1>27, QueueAssumption, CloserAssumption DEF Join, procVars, queues, TypeOK, ProcTypeOK
<1>28. ASSUME NEW c \in Closers, CloseCall(c) PROVE TypeOK'
  BY <1>28, QueueAssumption, CloserAssumption DEF CloseCall, queues, TypeOK, ProcTypeOK
<1>29. CASE UNCHANGED vars
  BY <1>29, QueueAssumption, CloserAssumption DEF vars, procVars, queues, TypeOK, ProcTypeOK
<1>q. QED
  BY <1>1, <1>2, <1>3, <1>4, <1>5, <1>6, <1>7, <1>8, <1>9, <1>10, <1>11,
     <1>12, <1>13, <1>14, <1>15, <1>16, <1>17, <1>18, <1>19, <1>20, <1>21,
     <1>22, <1>23, <1>24, <1>25, <1>26, <1>27, <1>28, <1>29 DEF Next,
     ProcNext, ForwarderStep, ReaderStep, GeneratorStep, FinalizerStep,
     CloserStep, ServeStep

\* Every variable has a value of its type, whatever the constants.
THEOREM TypeCorrect == Spec => []TypeOK
<1>1. Init => TypeOK
  <2>1. 0 \in 0..QueueSize /\ 0 \in 0..ErrQueueSize
    BY QueueAssumption
  <2>2. Init => {in, pre, out} \subseteq [Kinds -> 0..QueueSize]
    <3> SUFFICES ASSUME Init
                 PROVE  /\ in \in [Kinds -> 0..QueueSize]
                        /\ pre \in [Kinds -> 0..QueueSize]
                        /\ out \in [Kinds -> 0..QueueSize]
      OBVIOUS
    <3>q. QED  BY <2>1 DEF Init, ProcInit
  <2>3. QED  BY <2>1, <2>2 DEF Init, ProcInit, TypeOK, ProcTypeOK
<1>2. TypeOK /\ [Next]_vars => TypeOK'
  BY TypeStep
<1>3. QED  BY <1>1, <1>2, PTL DEF Spec

----------------------------------------------------------------------------

\* Every step keeps the order of ending.
LEMMA LifecycleStep ==
  ASSUME Lifecycle, [Next]_vars
  PROVE  Lifecycle'
<1>1. ASSUME NEW k \in Kinds, Feed(k), UNCHANGED serve PROVE Lifecycle'
  BY <1>1 DEF Feed, Enqueue, Lifecycle
<1>2. ASSUME NEW k \in Kinds, Take(k), UNCHANGED serve PROVE Lifecycle'
  BY <1>2 DEF Take, Forward, Dequeue, Lifecycle
<1>3. ASSUME NEW k \in Kinds, Give(k), UNCHANGED serve PROVE Lifecycle'
  BY <1>3 DEF Give, Forward, Enqueue, Lifecycle
<1>4. ASSUME NEW k \in Kinds, EndForward(k), UNCHANGED serve PROVE Lifecycle'
  BY <1>4 DEF EndForward, Leave, Lifecycle
<1>5. ASSUME ReadInput, UNCHANGED serve PROVE Lifecycle'
  BY <1>5 DEF ReadInput, Read, ReaderUnchanged, Dequeue, Lifecycle
<1>6. ASSUME StopReading, UNCHANGED serve PROVE Lifecycle'
  BY <1>6 DEF StopReading, StopWhen, Read, ReaderUnchanged, Lifecycle
<1>7. ASSUME DrainInput, UNCHANGED serve PROVE Lifecycle'
  BY <1>7 DEF DrainInput, Read, ReaderUnchanged, Dequeue, Lifecycle
<1>8. ASSUME Drained, UNCHANGED serve PROVE Lifecycle'
  BY <1>8 DEF Drained, Read, ReaderUnchanged, Lifecycle
<1>9. ASSUME InputDone, UNCHANGED serve PROVE Lifecycle'
  BY <1>9 DEF InputDone, Read, ReaderUnchanged, Enqueue, Lifecycle
<1>10. ASSUME InputFailed, UNCHANGED serve PROVE Lifecycle'
  BY <1>10 DEF InputFailed, Read, ReaderUnchanged, Lifecycle
<1>11. ASSUME ReaderError, UNCHANGED serve PROVE Lifecycle'
  BY <1>11 DEF ReaderError, Read, ReaderUnchanged, SendError, Lifecycle
<1>12. ASSUME JoinGenerator, UNCHANGED serve PROVE Lifecycle'
  BY <1>12 DEF JoinGenerator, Joined, Read, queues, Lifecycle
<1>13. ASSUME Generate, UNCHANGED serve PROVE Lifecycle'
  BY <1>13 DEF Generate, GeneratorUnchanged, Enqueue, Lifecycle
<1>14. ASSUME GenerateReturns, UNCHANGED serve PROVE Lifecycle'
  BY <1>14 DEF GenerateReturns, GenerateEnds, GeneratorUnchanged, Lifecycle
<1>15. ASSUME GenerateError, UNCHANGED serve PROVE Lifecycle'
  BY <1>15 DEF GenerateError, GeneratorUnchanged, SendError, Lifecycle
<1>16. ASSUME Finalize, UNCHANGED serve PROVE Lifecycle'
  BY <1>16 DEF Finalize, Lifecycle
<1>17. ASSUME FinalizeError, UNCHANGED serve PROVE Lifecycle'
  BY <1>17 DEF FinalizeError, SendError, Lifecycle
<1>18. ASSUME CloseErrors, UNCHANGED serve PROVE Lifecycle'
  BY <1>18 DEF CloseErrors, Lifecycle
<1>19. ASSUME NEW c \in Closers, CloseCancel(c), UNCHANGED serve PROVE Lifecycle'
  BY <1>19 DEF CloseCancel, queues, Lifecycle
<1>20. ASSUME NEW c \in Closers, CloseDone(c), UNCHANGED serve PROVE Lifecycle'
  BY <1>20 DEF CloseDone, queues, Lifecycle
<1>21. ASSUME Cancel PROVE Lifecycle'
  BY <1>21 DEF Cancel, queues, Lifecycle
<1>22. ASSUME Push PROVE Lifecycle'
  BY <1>22 DEF Push, procVars, queues, Lifecycle
<1>23. ASSUME InitiateClosing PROVE Lifecycle'
  BY <1>23 DEF InitiateClosing, queues, Lifecycle
<1>24. ASSUME ReportError PROVE Lifecycle'
  BY <1>24 DEF ReportError, ReportAny, Lifecycle
<1>25. ASSUME NEW k \in Kinds, Pull(k) PROVE Lifecycle'
  BY <1>25 DEF Pull, Dequeue, Lifecycle
<1>26. ASSUME Return PROVE Lifecycle'
  BY <1>26 DEF Return, procVars, queues, Lifecycle
<1>27. ASSUME Join PROVE Lifecycle'
  BY <1>27 DEF Join, procVars, queues, Lifecycle
<1>28. ASSUME NEW c \in Closers, CloseCall(c) PROVE Lifecycle'
  BY <1>28 DEF CloseCall, queues, Lifecycle
<1>29. CASE UNCHANGED vars
  BY <1>29 DEF vars, procVars, queues, Lifecycle
<1>q. QED
  BY <1>1, <1>2, <1>3, <1>4, <1>5, <1>6, <1>7, <1>8, <1>9, <1>10, <1>11,
     <1>12, <1>13, <1>14, <1>15, <1>16, <1>17, <1>18, <1>19, <1>20, <1>21,
     <1>22, <1>23, <1>24, <1>25, <1>26, <1>27, <1>28, <1>29 DEF Next,
     ProcNext, ForwarderStep, ReaderStep, GeneratorStep, FinalizerStep,
     CloserStep, ServeStep

\* A processor ends in that order.
LEMMA LifecycleAlways == Spec => []Lifecycle
<1>1. Init => Lifecycle
  BY DEF Init, ProcInit, Lifecycle
<1>2. Lifecycle /\ [Next]_vars => Lifecycle'
  BY LifecycleStep
<1>3. QED  BY <1>1, <1>2, PTL DEF Spec

\* Nothing is sent on a closed channel: the generator and the reader are done
\* before the finalizer closes what they send on, and it closes ErrorCh last.
THEOREM ClosedIsQuiet == Spec => []NoSendOnClosed
<1>1. Lifecycle => NoSendOnClosed
  BY DEF Lifecycle, NoSendOnClosed
<1>2. QED  BY <1>1, LifecycleAlways, PTL

----------------------------------------------------------------------------

\* A channel that is closed and empty stays so, and a context stays done.
LEMMA EmptiedStep ==
  ASSUME TypeOK, Lifecycle, Emptied, [Next]_vars
  PROVE  Emptied'
<1>1. ASSUME NEW k \in Kinds, Feed(k), UNCHANGED serve PROVE Emptied'
  BY <1>1 DEF Feed, Enqueue, Emptied, TypeOK, ProcTypeOK, Lifecycle, ProcDone
<1>2. ASSUME NEW k \in Kinds, Take(k), UNCHANGED serve PROVE Emptied'
  BY <1>2 DEF Take, Forward, Dequeue, Emptied, TypeOK, ProcTypeOK, Lifecycle, ProcDone
<1>3. ASSUME NEW k \in Kinds, Give(k), UNCHANGED serve PROVE Emptied'
  BY <1>3 DEF Give, Forward, Enqueue, Emptied, TypeOK, ProcTypeOK, Lifecycle, ProcDone
<1>4. ASSUME NEW k \in Kinds, EndForward(k), UNCHANGED serve PROVE Emptied'
  BY <1>4 DEF EndForward, Leave, Emptied, TypeOK, ProcTypeOK, Lifecycle, ProcDone
<1>5. ASSUME ReadInput, UNCHANGED serve PROVE Emptied'
  BY <1>5 DEF ReadInput, Read, ReaderUnchanged, Dequeue, Emptied, TypeOK, ProcTypeOK, Lifecycle, ProcDone
<1>6. ASSUME StopReading, UNCHANGED serve PROVE Emptied'
  BY <1>6 DEF StopReading, StopWhen, Read, ReaderUnchanged, Emptied, TypeOK, ProcTypeOK, Lifecycle, ProcDone
<1>7. ASSUME DrainInput, UNCHANGED serve PROVE Emptied'
  BY <1>7 DEF DrainInput, Read, ReaderUnchanged, Dequeue, Emptied, TypeOK, ProcTypeOK, Lifecycle, ProcDone
<1>8. ASSUME Drained, UNCHANGED serve PROVE Emptied'
  BY <1>8 DEF Drained, Read, ReaderUnchanged, Emptied, TypeOK, ProcTypeOK, Lifecycle, ProcDone
<1>9. ASSUME InputDone, UNCHANGED serve PROVE Emptied'
  BY <1>9 DEF InputDone, Read, ReaderUnchanged, Enqueue, Emptied, TypeOK, ProcTypeOK, Lifecycle, ProcDone
<1>10. ASSUME InputFailed, UNCHANGED serve PROVE Emptied'
  BY <1>10 DEF InputFailed, Read, ReaderUnchanged, Emptied, TypeOK, ProcTypeOK, Lifecycle, ProcDone
<1>11. ASSUME ReaderError, UNCHANGED serve PROVE Emptied'
  BY <1>11 DEF ReaderError, Read, ReaderUnchanged, SendError, Emptied, TypeOK, ProcTypeOK, Lifecycle, ProcDone
<1>12. ASSUME JoinGenerator, UNCHANGED serve PROVE Emptied'
  BY <1>12 DEF JoinGenerator, Joined, Read, queues, Emptied, TypeOK, ProcTypeOK, Lifecycle, ProcDone
<1>13. ASSUME Generate, UNCHANGED serve PROVE Emptied'
  BY <1>13 DEF Generate, GeneratorUnchanged, Enqueue, Emptied, TypeOK, ProcTypeOK, Lifecycle, ProcDone
<1>14. ASSUME GenerateReturns, UNCHANGED serve PROVE Emptied'
  BY <1>14 DEF GenerateReturns, GenerateEnds, GeneratorUnchanged, Emptied, TypeOK, ProcTypeOK, Lifecycle, ProcDone
<1>15. ASSUME GenerateError, UNCHANGED serve PROVE Emptied'
  BY <1>15 DEF GenerateError, GeneratorUnchanged, SendError, Emptied, TypeOK, ProcTypeOK, Lifecycle, ProcDone
<1>16. ASSUME Finalize, UNCHANGED serve PROVE Emptied'
  BY <1>16 DEF Finalize, Emptied, TypeOK, ProcTypeOK, Lifecycle, ProcDone
<1>17. ASSUME FinalizeError, UNCHANGED serve PROVE Emptied'
  BY <1>17 DEF FinalizeError, SendError, Emptied, TypeOK, ProcTypeOK, Lifecycle, ProcDone
<1>18. ASSUME CloseErrors, UNCHANGED serve PROVE Emptied'
  BY <1>18 DEF CloseErrors, Emptied, TypeOK, ProcTypeOK, Lifecycle, ProcDone
<1>19. ASSUME NEW c \in Closers, CloseCancel(c), UNCHANGED serve PROVE Emptied'
  BY <1>19 DEF CloseCancel, queues, Emptied, TypeOK, ProcTypeOK, Lifecycle, ProcDone
<1>20. ASSUME NEW c \in Closers, CloseDone(c), UNCHANGED serve PROVE Emptied'
  BY <1>20 DEF CloseDone, queues, Emptied, TypeOK, ProcTypeOK, Lifecycle, ProcDone
<1>21. ASSUME Cancel PROVE Emptied'
  BY <1>21 DEF Cancel, queues, Emptied, TypeOK, ProcTypeOK, Lifecycle, ProcDone
<1>22. ASSUME Push PROVE Emptied'
  BY <1>22 DEF Push, procVars, queues, Emptied, TypeOK, ProcTypeOK, Lifecycle, ProcDone
<1>23. ASSUME InitiateClosing PROVE Emptied'
  BY <1>23 DEF InitiateClosing, queues, Emptied, TypeOK, ProcTypeOK, Lifecycle, ProcDone
<1>24. ASSUME ReportError PROVE Emptied'
  BY <1>24 DEF ReportError, ReportAny, Emptied, TypeOK, ProcTypeOK, Lifecycle, ProcDone
<1>25. ASSUME NEW k \in Kinds, Pull(k) PROVE Emptied'
  BY <1>25 DEF Pull, Dequeue, Emptied, TypeOK, ProcTypeOK, Lifecycle, ProcDone
<1>26. ASSUME Return PROVE Emptied'
  BY <1>26 DEF Return, procVars, queues, Emptied, TypeOK, ProcTypeOK, Lifecycle, ProcDone
<1>27. ASSUME Join PROVE Emptied'
  BY <1>27 DEF Join, procVars, queues, Emptied, TypeOK, ProcTypeOK, Lifecycle, ProcDone
<1>28. ASSUME NEW c \in Closers, CloseCall(c) PROVE Emptied'
  BY <1>28 DEF CloseCall, queues, Emptied, TypeOK, ProcTypeOK, Lifecycle, ProcDone
<1>29. CASE UNCHANGED vars
  BY <1>29 DEF vars, procVars, queues, Emptied, TypeOK, ProcTypeOK, Lifecycle, ProcDone
<1>q. QED
  BY <1>1, <1>2, <1>3, <1>4, <1>5, <1>6, <1>7, <1>8, <1>9, <1>10, <1>11,
     <1>12, <1>13, <1>14, <1>15, <1>16, <1>17, <1>18, <1>19, <1>20, <1>21,
     <1>22, <1>23, <1>24, <1>25, <1>26, <1>27, <1>28, <1>29 DEF Next,
     ProcNext, ForwarderStep, ReaderStep, GeneratorStep, FinalizerStep,
     CloserStep, ServeStep

\* A processor that nobody stops forwards everything that its kernel emits.
THEOREM AllForwarded == Spec => []NothingLost
<1>1. Init => Emptied
  BY DEF Init, ProcInit, Emptied
<1>2. TypeOK /\ Lifecycle /\ Emptied /\ [Next]_vars => Emptied'
  BY EmptiedStep
<1>3. Emptied => NothingLost
  BY DEF Emptied, NothingLost
<1>4. QED  BY <1>1, <1>2, <1>3, TypeCorrect, LifecycleAlways, PTL DEF Spec
=============================================================================
