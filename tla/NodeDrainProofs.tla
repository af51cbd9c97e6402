--------------------------- MODULE NodeDrainProofs ---------------------------
(***************************************************************************)
(* What a sample of the six counters is worth, for any number of objects,  *)
(* any queue sizes and any number of waiting goroutines: it never shows    *)
(* more going out than coming in, and where it balances, that part of the  *)
(* node was empty at the moment of the last load.                          *)
(*                                                                         *)
(* The argument: the counters only grow, so what was loaded earlier is at  *)
(* most what the counter is now; and the counter that is loaded last       *)
(* exceeds the others by exactly the objects that are under way (Flow).    *)
(***************************************************************************)
EXTENDS NodeDrain, TLAPS

Bit(b) == IF b THEN 1 ELSE 0

\* Where the objects are that one counter has seen and the next has not.
Flow ==
  /\ count["addressed"] = count["missed"] + count["processed"] + offered + in
                          + Bit(reader \in Processing)
  /\ count["generated"] = count["omitted"] + count["sent"] + out
                          + Bit(forwarder = "send") + Bit(serve \in {"push_update", "push"})

\* Whoever has begun to update is still in its call.
Calling == \A u \in Updaters : at[u] # 0 => Updating(u)

\* What has been loaded is not ahead of the counters.
Behind == \A u \in Updaters, c \in Counters : sample[u][c] <= count[c]

\* An updater that has not begun has an empty sample, and one that has loaded
\* the last counter of a part has a sample of that part that adds up.
Staged ==
  \A u \in Updaters :
    /\ at[u] = 0 => sample[u] = [c \in Counters |-> 0]
    /\ at[u] > 3 => sample[u]["generated"] >= sample[u]["sent"] + sample[u]["omitted"]
    /\ at[u] = SwapAt =>
         sample[u]["addressed"] >= sample[u]["processed"] + sample[u]["missed"]

\* The loads in their order.
LEMMA TheOrder ==
  /\ Len(Order) = 6 /\ SwapAt = 7 /\ RotateAt = 8
  /\ Order[1] = "sent" /\ Order[2] = "omitted" /\ Order[3] = "generated"
  /\ Order[4] = "processed" /\ Order[5] = "missed" /\ Order[6] = "addressed"
BY DEF Order, SwapAt, RotateAt

\* A load reads the counter that is next.
LEMMA LoadOne ==
  ASSUME TypeOK, NEW u \in Updaters, Load(u)
  PROVE  /\ at[u] \in 1..6 /\ at' = [at EXCEPT ![u] = @ + 1]
         /\ Order[at[u]] \in Counters
         /\ sample' \in [Updaters -> [Counters -> Nat]]
         /\ \A v \in Updaters : v # u => sample'[v] = sample[v]
         /\ sample'[u] \in [Counters -> Nat]
         /\ sample'[u][Order[at[u]]] = count[Order[at[u]]]
         /\ \A c \in Counters : c # Order[at[u]] => sample'[u][c] = sample[u][c]
<1>1. at[u] \in 1..6
  BY TheOrder DEF Load
<1>2. Order[at[u]] \in Counters
  BY <1>1, TheOrder DEF Counters
<1>3. at' = [at EXCEPT ![u] = @ + 1]
  <2>1. (IF at[u] = Len(Order) THEN SwapAt ELSE at[u] + 1) = at[u] + 1
    BY <1>1, TheOrder
  <2>2. at' = [at EXCEPT ![u] = IF at[u] = Len(Order) THEN SwapAt ELSE at[u] + 1]
    BY DEF Load
  <2>3. QED  BY <2>1, <2>2
<1>4. sample' = [sample EXCEPT ![u] = [sample[u] EXCEPT ![Order[at[u]]] = count[Order[at[u]]]]]
  BY DEF Load
<1>5. [sample[u] EXCEPT ![Order[at[u]]] = count[Order[at[u]]]] \in [Counters -> Nat]
  BY <1>2 DEF TypeOK
<1>6. sample' \in [Updaters -> [Counters -> Nat]]
  BY <1>4, <1>5 DEF TypeOK
<1>7. sample'[u] = [sample[u] EXCEPT ![Order[at[u]]] = count[Order[at[u]]]]
  BY <1>4 DEF TypeOK
<1>8. \A v \in Updaters : v # u => sample'[v] = sample[v]
  BY <1>4 DEF TypeOK
<1>9. /\ sample'[u][Order[at[u]]] = count[Order[at[u]]]
      /\ \A c \in Counters : c # Order[at[u]] => sample'[u][c] = sample[u][c]
  BY <1>2, <1>7 DEF TypeOK
<1>10. QED  BY <1>1, <1>2, <1>3, <1>5, <1>6, <1>7, <1>8, <1>9

----------------------------------------------------------------------------

\* Every step keeps the types.
LEMMA TypeStep ==
  ASSUME TypeOK, [Next]_vars
  PROVE  TypeOK'
<1>1. ASSUME Address PROVE TypeOK'
  BY <1>1, SizeAssumption, TheOrder DEF Address, Count, OutsideUnchanged,
     update, wait, TypeOK, Counters, Updaters
<1>2. ASSUME Accept PROVE TypeOK'
  BY <1>2, SizeAssumption, TheOrder DEF Accept, OutsideUnchanged, update,
     wait, TypeOK, Counters, Updaters
<1>3. ASSUME Miss PROVE TypeOK'
  BY <1>3, SizeAssumption, TheOrder DEF Miss, Count, OutsideUnchanged, update,
     wait, TypeOK, Counters, Updaters
<1>4. ASSUME Receive PROVE TypeOK'
  BY <1>4, SizeAssumption, TheOrder DEF Receive, Read, OutsideUnchanged, ReceiveAny,
     update, wait, TypeOK, Counters, Updaters
<1>5. ASSUME Kernel PROVE TypeOK'
  BY <1>5, SizeAssumption, TheOrder DEF Kernel, Read, OutsideUnchanged, update,
     wait, TypeOK, Counters, Updaters
<1>6. ASSUME Processed PROVE TypeOK'
  BY <1>6, SizeAssumption, TheOrder DEF Processed, Read, Count, OutsideUnchanged,
     update, wait, TypeOK, Counters, Updaters
<1>7. ASSUME StopReading PROVE TypeOK'
  BY <1>7, SizeAssumption, TheOrder DEF StopReading, Read, OutsideUnchanged, update,
     wait, TypeOK, Counters, Updaters
<1>31. ASSUME EndReading PROVE TypeOK'
  BY <1>31, SizeAssumption, TheOrder DEF EndReading, Read, OutsideUnchanged, update,
     wait, TypeOK, Counters, Updaters
<1>8. ASSUME Take PROVE TypeOK'
  BY <1>8, SizeAssumption, TheOrder DEF Take, OutsideUnchanged, update, wait,
     TypeOK, Counters, Updaters
<1>9. ASSUME Generated PROVE TypeOK'
  BY <1>9, SizeAssumption, TheOrder DEF Generated, Count, OutsideUnchanged,
     update, wait, TypeOK, Counters, Updaters
<1>10. ASSUME Give PROVE TypeOK'
  BY <1>10, SizeAssumption, TheOrder DEF Give, OutsideUnchanged, update, wait,
     TypeOK, Counters, Updaters
<1>11. ASSUME Omit PROVE TypeOK'
  BY <1>11, SizeAssumption, TheOrder DEF Omit, Count, OutsideUnchanged,
     update, wait, TypeOK, Counters, Updaters
<1>12. ASSUME StopForwarding PROVE TypeOK'
  BY <1>12, SizeAssumption, TheOrder DEF StopForwarding, OutsideUnchanged,
     update, wait, TypeOK, Counters, Updaters
<1>13. ASSUME Stop PROVE TypeOK'
  BY <1>13, SizeAssumption, TheOrder DEF Stop, OutsideUnchanged, update, wait,
     TypeOK, Counters, Updaters
<1>14. ASSUME Pull PROVE TypeOK'
  BY <1>14, SizeAssumption, TheOrder DEF Pull, OutsideUnchanged, update, wait,
     TypeOK, Counters, Updaters
<1>15. ASSUME Sent PROVE TypeOK'
  BY <1>15, SizeAssumption, TheOrder DEF Sent, OutsideUnchanged, SentBy,
     Count, update, wait, TypeOK, Counters, Updaters
<1>16. ASSUME Tick PROVE TypeOK'
  BY <1>16, SizeAssumption, TheOrder DEF Tick, OutsideUnchanged, update, wait,
     pipe, TypeOK, Counters, Updaters
<1>17. ASSUME Return PROVE TypeOK'
  BY <1>17, SizeAssumption, TheOrder DEF Return, OutsideUnchanged, update,
     wait, pipe, TypeOK, Counters, Updaters
<1>18. ASSUME NEW u \in Updaters, CheckDirty(u) PROVE TypeOK'
  BY <1>18, SizeAssumption, TheOrder DEF CheckDirty, pipe, wait, TypeOK,
     Counters, Updaters
<1>19. ASSUME NEW u \in Updaters, Load(u) PROVE TypeOK'
  <2>1. sample' \in [Updaters -> [Counters -> Nat]]
    BY <1>19, LoadOne
  <2>4. at' \in [Updaters -> 0..RotateAt]
    BY <1>19, LoadOne, TheOrder DEF TypeOK
  <2>2. verdict' \in [Updaters -> BOOLEAN]
    BY <1>19 DEF Load, TypeOK
  <2>3. QED  BY <1>19, <2>1, <2>2, <2>4 DEF Load, TypeOK, pipe, wait
<1>20. ASSUME NEW u \in Updaters, Swap(u) PROVE TypeOK'
  BY <1>20, SizeAssumption, TheOrder DEF Swap, Updated, pipe, wait, TypeOK,
     Counters, Updaters
<1>21. ASSUME NEW u \in Updaters, Rotate(u) PROVE TypeOK'
  BY <1>21, SizeAssumption, TheOrder DEF Rotate, Updated, pipe, TypeOK,
     Counters, Updaters
<1>22. ASSUME CallFlush PROVE TypeOK'
  BY <1>22, SizeAssumption, TheOrder DEF CallFlush, pipe, update, wait,
     TypeOK, Counters, Updaters
<1>23. ASSUME InputDrained PROVE TypeOK'
  BY <1>23, SizeAssumption, TheOrder DEF InputDrained, pipe, update, wait,
     TypeOK, Counters, Updaters
<1>24. ASSUME FlushOne PROVE TypeOK'
  BY <1>24, SizeAssumption, TheOrder DEF FlushOne, pipe, update, wait, TypeOK,
     Counters, Updaters
<1>25. ASSUME Flushed PROVE TypeOK'
  BY <1>25, SizeAssumption, TheOrder DEF Flushed, pipe, update, wait, TypeOK,
     Counters, Updaters
<1>26. ASSUME CheckFlushed PROVE TypeOK'
  BY <1>26, SizeAssumption, TheOrder DEF CheckFlushed, pipe, update, wait,
     TypeOK, Counters, Updaters
<1>27. ASSUME NEW w \in Waiters, LoadSignal(w) PROVE TypeOK'
  BY <1>27, SizeAssumption, TheOrder DEF LoadSignal, pipe, update, TypeOK,
     Counters, Updaters
<1>28. ASSUME NEW w \in Waiters, CheckDrained(w) PROVE TypeOK'
  BY <1>28, SizeAssumption, TheOrder DEF CheckDrained, pipe, update, TypeOK,
     Counters, Updaters
<1>29. ASSUME NEW w \in Waiters, Wake(w) PROVE TypeOK'
  BY <1>29, SizeAssumption, TheOrder DEF Wake, pipe, update, TypeOK, Counters,
     Updaters
<1>30. CASE UNCHANGED vars
  BY <1>30, SizeAssumption, TheOrder DEF vars, pipe, update, wait, TypeOK,
     Counters, Updaters
<1>q. QED
  BY <1>1, <1>2, <1>3, <1>4, <1>5, <1>6, <1>7, <1>8, <1>9, <1>10, <1>11,
     <1>12, <1>13, <1>14, <1>15, <1>16, <1>17, <1>18, <1>19, <1>20, <1>21,
     <1>22, <1>23, <1>24, <1>25, <1>26, <1>27, <1>28, <1>29, <1>30, <1>31
  DEF Next,
     UpstreamStep, ReaderStep, ForwarderStep, UpdateStep, ServeStep,
     FlushStep, WaiterStep

\* Every variable has a value of its type, whatever the constants.
THEOREM TypeCorrect == Spec => []TypeOK
<1>1. Init => TypeOK
  <2> SUFFICES ASSUME Init PROVE TypeOK
    OBVIOUS
  <2>1. [c \in Counters |-> 0] \in [Counters -> Nat]
    OBVIOUS
  <2>2. sample \in [Updaters -> [Counters -> Nat]]
    BY <2>1 DEF Init
  <2>3. count \in [Counters -> Nat] /\ at \in [Updaters -> 0..RotateAt]
    BY TheOrder DEF Init
  <2>4. 0 \in 0..QueueSize
    BY SizeAssumption
  <2>5. verdict \in [Updaters -> BOOLEAN] /\ signalled \in [Waiters -> BOOLEAN]
    BY DEF Init
  <2>6. waiter \in [Waiters -> {"load", "check", "wait", "done"}]
    BY DEF Init
  <2>7. {offered, held} \subseteq Nat /\ {in, pre, out} \subseteq 0..QueueSize
    BY <2>4 DEF Init
  <2>8. {stopped, drained} \subseteq BOOLEAN
    BY DEF Init
  <2>9. /\ reader \in {"select", "kernel", "count", "closing", "last_kernel", "last_count", "done"}
        /\ forwarder \in {"receive", "count", "send", "done"}
        /\ serve \in {"update", "select", "push_update", "push", "done"}
        /\ flush \in {"idle", "drain_input", "flush", "update", "check"}
    BY DEF Init
  <2>10. QED  BY <2>2, <2>3, <2>5, <2>6, <2>7, <2>8, <2>9 DEF TypeOK
<1>2. TypeOK /\ [Next]_vars => TypeOK'
  BY TypeStep
<1>3. QED  BY <1>1, <1>2, PTL DEF Spec

----------------------------------------------------------------------------

\* Nobody leaves a call of updateProcInfoLocked but at its end.
LEMMA CallingStep ==
  ASSUME TypeOK, Calling, [Next]_vars
  PROVE  Calling'
<1>1. ASSUME Address PROVE Calling'
  BY <1>1, TheOrder DEF Address, Count, OutsideUnchanged, update, wait,
     Calling, Updating, TypeOK, Updaters
<1>2. ASSUME Accept PROVE Calling'
  BY <1>2, TheOrder DEF Accept, OutsideUnchanged, update, wait, Calling,
     Updating, TypeOK, Updaters
<1>3. ASSUME Miss PROVE Calling'
  BY <1>3, TheOrder DEF Miss, Count, OutsideUnchanged, update, wait, Calling,
     Updating, TypeOK, Updaters
<1>4. ASSUME Receive PROVE Calling'
  BY <1>4, TheOrder DEF Receive, OutsideUnchanged, ReceiveAny, update, wait,
     Calling, Updating, TypeOK, Updaters
<1>5. ASSUME Kernel PROVE Calling'
  BY <1>5, TheOrder DEF Kernel, OutsideUnchanged, update, wait, Calling,
     Updating, TypeOK, Updaters
<1>6. ASSUME Processed PROVE Calling'
  BY <1>6, TheOrder DEF Processed, Count, OutsideUnchanged, update, wait,
     Calling, Updating, TypeOK, Updaters
<1>7. ASSUME StopReading PROVE Calling'
  BY <1>7, TheOrder DEF StopReading, OutsideUnchanged, update, wait, Calling,
     Updating, TypeOK, Updaters
<1>31. ASSUME EndReading PROVE Calling'
  BY <1>31, TheOrder DEF EndReading, Read, OutsideUnchanged, update, wait, Calling,
     Updating, TypeOK, Updaters
<1>8. ASSUME Take PROVE Calling'
  BY <1>8, TheOrder DEF Take, OutsideUnchanged, update, wait, Calling,
     Updating, TypeOK, Updaters
<1>9. ASSUME Generated PROVE Calling'
  BY <1>9, TheOrder DEF Generated, Count, OutsideUnchanged, update, wait,
     Calling, Updating, TypeOK, Updaters
<1>10. ASSUME Give PROVE Calling'
  BY <1>10, TheOrder DEF Give, OutsideUnchanged, update, wait, Calling,
     Updating, TypeOK, Updaters
<1>11. ASSUME Omit PROVE Calling'
  BY <1>11, TheOrder DEF Omit, Count, OutsideUnchanged, update, wait, Calling,
     Updating, TypeOK, Updaters
<1>12. ASSUME StopForwarding PROVE Calling'
  BY <1>12, TheOrder DEF StopForwarding, OutsideUnchanged, update, wait,
     Calling, Updating, TypeOK, Updaters
<1>13. ASSUME Stop PROVE Calling'
  BY <1>13, TheOrder DEF Stop, OutsideUnchanged, update, wait, Calling,
     Updating, TypeOK, Updaters
<1>14. ASSUME Pull PROVE Calling'
  BY <1>14, TheOrder DEF Pull, OutsideUnchanged, update, wait, Calling,
     Updating, TypeOK, Updaters
<1>15. ASSUME Sent PROVE Calling'
  BY <1>15, TheOrder DEF Sent, OutsideUnchanged, SentBy, Count, update, wait,
     Calling, Updating, TypeOK, Updaters
<1>16. ASSUME Tick PROVE Calling'
  BY <1>16, TheOrder DEF Tick, OutsideUnchanged, update, wait, pipe, Calling,
     Updating, TypeOK, Updaters
<1>17. ASSUME Return PROVE Calling'
  BY <1>17, TheOrder DEF Return, OutsideUnchanged, update, wait, pipe,
     Calling, Updating, TypeOK, Updaters
<1>18. ASSUME NEW u \in Updaters, CheckDirty(u) PROVE Calling'
  BY <1>18, TheOrder DEF CheckDirty, pipe, wait, Calling, Updating, TypeOK,
     Updaters
<1>19. ASSUME NEW u \in Updaters, Load(u) PROVE Calling'
  BY <1>19, LoadOne DEF Load, pipe, Calling, Updating, TypeOK, Updaters
<1>20. ASSUME NEW u \in Updaters, Swap(u) PROVE Calling'
  BY <1>20, TheOrder DEF Swap, Updated, pipe, wait, Calling, Updating, TypeOK,
     Updaters
<1>21. ASSUME NEW u \in Updaters, Rotate(u) PROVE Calling'
  BY <1>21, TheOrder DEF Rotate, Updated, pipe, Calling, Updating, TypeOK,
     Updaters
<1>22. ASSUME CallFlush PROVE Calling'
  BY <1>22, TheOrder DEF CallFlush, pipe, update, wait, Calling, Updating,
     TypeOK, Updaters
<1>23. ASSUME InputDrained PROVE Calling'
  BY <1>23, TheOrder DEF InputDrained, pipe, update, wait, Calling, Updating,
     TypeOK, Updaters
<1>24. ASSUME FlushOne PROVE Calling'
  BY <1>24, TheOrder DEF FlushOne, pipe, update, wait, Calling, Updating,
     TypeOK, Updaters
<1>25. ASSUME Flushed PROVE Calling'
  BY <1>25, TheOrder DEF Flushed, pipe, update, wait, Calling, Updating,
     TypeOK, Updaters
<1>26. ASSUME CheckFlushed PROVE Calling'
  BY <1>26, TheOrder DEF CheckFlushed, pipe, update, wait, Calling, Updating,
     TypeOK, Updaters
<1>27. ASSUME NEW w \in Waiters, LoadSignal(w) PROVE Calling'
  BY <1>27, TheOrder DEF LoadSignal, pipe, update, Calling, Updating, TypeOK,
     Updaters
<1>28. ASSUME NEW w \in Waiters, CheckDrained(w) PROVE Calling'
  BY <1>28, TheOrder DEF CheckDrained, pipe, update, Calling, Updating,
     TypeOK, Updaters
<1>29. ASSUME NEW w \in Waiters, Wake(w) PROVE Calling'
  BY <1>29, TheOrder DEF Wake, pipe, update, Calling, Updating, TypeOK,
     Updaters
<1>30. CASE UNCHANGED vars
  BY <1>30, TheOrder DEF vars, pipe, update, wait, Calling, Updating, TypeOK,
     Updaters
<1>q. QED
  BY <1>1, <1>2, <1>3, <1>4, <1>5, <1>6, <1>7, <1>8, <1>9, <1>10, <1>11,
     <1>12, <1>13, <1>14, <1>15, <1>16, <1>17, <1>18, <1>19, <1>20, <1>21,
     <1>22, <1>23, <1>24, <1>25, <1>26, <1>27, <1>28, <1>29, <1>30, <1>31
  DEF Next,
     UpstreamStep, ReaderStep, ForwarderStep, UpdateStep, ServeStep,
     FlushStep, WaiterStep


\* An object that moves on is counted where it leaves.
LEMMA FlowStep ==
  ASSUME TypeOK, Calling, Flow, [Next]_vars
  PROVE  Flow'
<1>1. ASSUME Address PROVE Flow'
  BY <1>1 DEF Address, Count, OutsideUnchanged, update, wait, TypeOK, Flow,
     Bit, Counters, Updaters
<1>2. ASSUME Accept PROVE Flow'
  BY <1>2 DEF Accept, OutsideUnchanged, update, wait, TypeOK, Flow, Bit,
     Counters, Updaters
<1>3. ASSUME Miss PROVE Flow'
  BY <1>3 DEF Miss, Count, OutsideUnchanged, update, wait, TypeOK, Flow, Bit,
     Counters, Updaters
<1>4. ASSUME Receive PROVE Flow'
  BY <1>4 DEF Receive, Read, Processing, OutsideUnchanged, ReceiveAny, update, wait, TypeOK,
     Flow, Bit, Counters, Updaters
<1>5. ASSUME Kernel PROVE Flow'
  BY <1>5 DEF Kernel, Read, Processing, OutsideUnchanged, update, wait, TypeOK, Flow, Bit,
     Counters, Updaters
<1>6. ASSUME Processed PROVE Flow'
  BY <1>6 DEF Processed, Read, Processing, Count, OutsideUnchanged, update, wait, TypeOK, Flow,
     Bit, Counters, Updaters
<1>7. ASSUME StopReading PROVE Flow'
  BY <1>7 DEF StopReading, Read, Processing, OutsideUnchanged, update, wait, TypeOK, Flow, Bit,
     Counters, Updaters
<1>31. ASSUME EndReading PROVE Flow'
  BY <1>31 DEF EndReading, Read, Processing, OutsideUnchanged, update, wait, TypeOK, Flow, Bit,
     Counters, Updaters
<1>8. ASSUME Take PROVE Flow'
  BY <1>8 DEF Take, OutsideUnchanged, update, wait, TypeOK, Flow, Bit,
     Counters, Updaters
<1>9. ASSUME Generated PROVE Flow'
  BY <1>9 DEF Generated, Count, OutsideUnchanged, update, wait, TypeOK, Flow,
     Bit, Counters, Updaters
<1>10. ASSUME Give PROVE Flow'
  BY <1>10 DEF Give, OutsideUnchanged, update, wait, TypeOK, Flow, Bit,
     Counters, Updaters
<1>11. ASSUME Omit PROVE Flow'
  BY <1>11 DEF Omit, Count, OutsideUnchanged, update, wait, TypeOK, Flow, Bit,
     Counters, Updaters
<1>12. ASSUME StopForwarding PROVE Flow'
  BY <1>12 DEF StopForwarding, OutsideUnchanged, update, wait, TypeOK, Flow,
     Bit, Counters, Updaters
<1>13. ASSUME Stop PROVE Flow'
  BY <1>13 DEF Stop, OutsideUnchanged, update, wait, TypeOK, Flow, Bit,
     Counters, Updaters
<1>14. ASSUME Pull PROVE Flow'
  BY <1>14 DEF Pull, OutsideUnchanged, update, wait, TypeOK, Flow, Bit,
     Counters, Updaters
<1>15. ASSUME Sent PROVE Flow'
  BY <1>15 DEF Sent, OutsideUnchanged, SentBy, Count, update, wait, TypeOK,
     Flow, Bit, Counters, Updaters
<1>16. ASSUME Tick PROVE Flow'
  BY <1>16 DEF Tick, OutsideUnchanged, update, wait, pipe, TypeOK, Flow, Bit,
     Counters, Updaters
<1>17. ASSUME Return PROVE Flow'
  BY <1>17 DEF Return, OutsideUnchanged, update, wait, pipe, TypeOK, Flow,
     Bit, Counters, Updaters
<1>18. ASSUME NEW u \in Updaters, CheckDirty(u) PROVE Flow'
  BY <1>18 DEF CheckDirty, pipe, wait, TypeOK, Flow, Bit, Counters, Updaters
<1>19. ASSUME NEW u \in Updaters, Load(u) PROVE Flow'
  BY <1>19 DEF Load, pipe, wait, TypeOK, Flow, Bit, Counters, Updaters
<1>20. ASSUME NEW u \in Updaters, Swap(u) PROVE Flow'
  <2>1. Updating(u)
    BY <1>20, TheOrder DEF Swap, Calling
  <2>2. UNCHANGED pipe
    BY <1>20 DEF Swap
  <2>3. serve' \in {"push_update", "push"} <=> serve \in {"push_update", "push"}
    BY <1>20, <2>1 DEF Swap, Updated, Updating
  <2>4. QED  BY <2>2, <2>3 DEF pipe, Flow, Bit
<1>21. ASSUME NEW u \in Updaters, Rotate(u) PROVE Flow'
  <2>1. Updating(u)
    BY <1>21, TheOrder DEF Rotate, Calling
  <2>2. UNCHANGED pipe
    BY <1>21 DEF Rotate
  <2>3. serve' \in {"push_update", "push"} <=> serve \in {"push_update", "push"}
    BY <1>21, <2>1 DEF Rotate, Updated, Updating
  <2>4. QED  BY <2>2, <2>3 DEF pipe, Flow, Bit
<1>22. ASSUME CallFlush PROVE Flow'
  BY <1>22 DEF CallFlush, pipe, update, wait, TypeOK, Flow, Bit, Counters,
     Updaters
<1>23. ASSUME InputDrained PROVE Flow'
  BY <1>23 DEF InputDrained, pipe, update, wait, TypeOK, Flow, Bit, Counters,
     Updaters
<1>24. ASSUME FlushOne PROVE Flow'
  BY <1>24 DEF FlushOne, pipe, update, wait, TypeOK, Flow, Bit, Counters,
     Updaters
<1>25. ASSUME Flushed PROVE Flow'
  BY <1>25 DEF Flushed, pipe, update, wait, TypeOK, Flow, Bit, Counters,
     Updaters
<1>26. ASSUME CheckFlushed PROVE Flow'
  BY <1>26 DEF CheckFlushed, pipe, update, wait, TypeOK, Flow, Bit, Counters,
     Updaters
<1>27. ASSUME NEW w \in Waiters, LoadSignal(w) PROVE Flow'
  BY <1>27 DEF LoadSignal, pipe, update, TypeOK, Flow, Bit, Counters, Updaters
<1>28. ASSUME NEW w \in Waiters, CheckDrained(w) PROVE Flow'
  BY <1>28 DEF CheckDrained, pipe, update, TypeOK, Flow, Bit, Counters,
     Updaters
<1>29. ASSUME NEW w \in Waiters, Wake(w) PROVE Flow'
  BY <1>29 DEF Wake, pipe, update, TypeOK, Flow, Bit, Counters, Updaters
<1>30. CASE UNCHANGED vars
  BY <1>30 DEF vars, pipe, update, wait, TypeOK, Flow, Bit, Counters, Updaters
<1>q. QED
  BY <1>1, <1>2, <1>3, <1>4, <1>5, <1>6, <1>7, <1>8, <1>9, <1>10, <1>11,
     <1>12, <1>13, <1>14, <1>15, <1>16, <1>17, <1>18, <1>19, <1>20, <1>21,
     <1>22, <1>23, <1>24, <1>25, <1>26, <1>27, <1>28, <1>29, <1>30, <1>31
  DEF Next,
     UpstreamStep, ReaderStep, ForwarderStep, UpdateStep, ServeStep,
     FlushStep, WaiterStep

\* The counters only grow.
LEMMA BehindStep ==
  ASSUME TypeOK, Behind, [Next]_vars
  PROVE  Behind'
<1>1. ASSUME Address PROVE Behind'
  BY <1>1 DEF Address, Count, OutsideUnchanged, update, wait, Behind, TypeOK,
     Counters, Updaters
<1>2. ASSUME Accept PROVE Behind'
  BY <1>2 DEF Accept, OutsideUnchanged, update, wait, Behind, TypeOK,
     Counters, Updaters
<1>3. ASSUME Miss PROVE Behind'
  BY <1>3 DEF Miss, Count, OutsideUnchanged, update, wait, Behind, TypeOK,
     Counters, Updaters
<1>4. ASSUME Receive PROVE Behind'
  BY <1>4 DEF Receive, OutsideUnchanged, ReceiveAny, update, wait, Behind,
     TypeOK, Counters, Updaters
<1>5. ASSUME Kernel PROVE Behind'
  BY <1>5 DEF Kernel, OutsideUnchanged, update, wait, Behind, TypeOK,
     Counters, Updaters
<1>6. ASSUME Processed PROVE Behind'
  BY <1>6 DEF Processed, Count, OutsideUnchanged, update, wait, Behind,
     TypeOK, Counters, Updaters
<1>7. ASSUME StopReading PROVE Behind'
  BY <1>7 DEF StopReading, OutsideUnchanged, update, wait, Behind, TypeOK,
     Counters, Updaters
<1>31. ASSUME EndReading PROVE Behind'
  BY <1>31 DEF EndReading, Read, OutsideUnchanged, update, wait, Behind, TypeOK,
     Counters, Updaters
<1>8. ASSUME Take PROVE Behind'
  BY <1>8 DEF Take, OutsideUnchanged, update, wait, Behind, TypeOK, Counters,
     Updaters
<1>9. ASSUME Generated PROVE Behind'
  BY <1>9 DEF Generated, Count, OutsideUnchanged, update, wait, Behind,
     TypeOK, Counters, Updaters
<1>10. ASSUME Give PROVE Behind'
  BY <1>10 DEF Give, OutsideUnchanged, update, wait, Behind, TypeOK, Counters,
     Updaters
<1>11. ASSUME Omit PROVE Behind'
  BY <1>11 DEF Omit, Count, OutsideUnchanged, update, wait, Behind, TypeOK,
     Counters, Updaters
<1>12. ASSUME StopForwarding PROVE Behind'
  BY <1>12 DEF StopForwarding, OutsideUnchanged, update, wait, Behind, TypeOK,
     Counters, Updaters
<1>13. ASSUME Stop PROVE Behind'
  BY <1>13 DEF Stop, OutsideUnchanged, update, wait, Behind, TypeOK, Counters,
     Updaters
<1>14. ASSUME Pull PROVE Behind'
  BY <1>14 DEF Pull, OutsideUnchanged, update, wait, Behind, TypeOK, Counters,
     Updaters
<1>15. ASSUME Sent PROVE Behind'
  BY <1>15 DEF Sent, OutsideUnchanged, SentBy, Count, update, wait, Behind,
     TypeOK, Counters, Updaters
<1>16. ASSUME Tick PROVE Behind'
  BY <1>16 DEF Tick, OutsideUnchanged, update, wait, pipe, Behind, TypeOK,
     Counters, Updaters
<1>17. ASSUME Return PROVE Behind'
  BY <1>17 DEF Return, OutsideUnchanged, update, wait, pipe, Behind, TypeOK,
     Counters, Updaters
<1>18. ASSUME NEW u \in Updaters, CheckDirty(u) PROVE Behind'
  BY <1>18 DEF CheckDirty, pipe, wait, Behind, TypeOK, Counters, Updaters
<1>19. ASSUME NEW u \in Updaters, Load(u) PROVE Behind'
  <2>1. count' = count
    BY <1>19 DEF Load, pipe
  <2>2. ASSUME NEW v \in Updaters, NEW c \in Counters
        PROVE  sample'[v][c] <= count[c]
    <3>1. CASE v # u
      BY <1>19, <3>1, LoadOne DEF Behind
    <3>2. CASE v = u /\ c = Order[at[u]]
      BY <1>19, <3>2, LoadOne DEF TypeOK
    <3>3. CASE v = u /\ c # Order[at[u]]
      BY <1>19, <3>3, LoadOne DEF Behind
    <3>4. QED  BY <3>1, <3>2, <3>3
  <2>3. QED  BY <2>1, <2>2 DEF Behind
<1>20. ASSUME NEW u \in Updaters, Swap(u) PROVE Behind'
  <2>1. count' = count
    BY <1>20 DEF Swap, Updated, pipe
  <2>2. \A v \in Updaters : \/ sample'[v] = sample[v]
                           \/ sample'[v] = [c \in Counters |-> 0]
    BY <1>20 DEF Swap, Updated, pipe, TypeOK
  <2>3. QED  BY <2>1, <2>2 DEF Behind, TypeOK
<1>21. ASSUME NEW u \in Updaters, Rotate(u) PROVE Behind'
  <2>1. count' = count
    BY <1>21 DEF Rotate, Updated, pipe
  <2>2. \A v \in Updaters : \/ sample'[v] = sample[v]
                           \/ sample'[v] = [c \in Counters |-> 0]
    BY <1>21 DEF Rotate, Updated, pipe, TypeOK
  <2>3. QED  BY <2>1, <2>2 DEF Behind, TypeOK
<1>22. ASSUME CallFlush PROVE Behind'
  BY <1>22 DEF CallFlush, pipe, update, wait, Behind, TypeOK, Counters,
     Updaters
<1>23. ASSUME InputDrained PROVE Behind'
  BY <1>23 DEF InputDrained, pipe, update, wait, Behind, TypeOK, Counters,
     Updaters
<1>24. ASSUME FlushOne PROVE Behind'
  BY <1>24 DEF FlushOne, pipe, update, wait, Behind, TypeOK, Counters,
     Updaters
<1>25. ASSUME Flushed PROVE Behind'
  BY <1>25 DEF Flushed, pipe, update, wait, Behind, TypeOK, Counters, Updaters
<1>26. ASSUME CheckFlushed PROVE Behind'
  BY <1>26 DEF CheckFlushed, pipe, update, wait, Behind, TypeOK, Counters,
     Updaters
<1>27. ASSUME NEW w \in Waiters, LoadSignal(w) PROVE Behind'
  BY <1>27 DEF LoadSignal, pipe, update, Behind, TypeOK, Counters, Updaters
<1>28. ASSUME NEW w \in Waiters, CheckDrained(w) PROVE Behind'
  BY <1>28 DEF CheckDrained, pipe, update, Behind, TypeOK, Counters, Updaters
<1>29. ASSUME NEW w \in Waiters, Wake(w) PROVE Behind'
  BY <1>29 DEF Wake, pipe, update, Behind, TypeOK, Counters, Updaters
<1>30. CASE UNCHANGED vars
  BY <1>30 DEF vars, pipe, update, wait, Behind, TypeOK, Counters, Updaters
<1>q. QED
  BY <1>1, <1>2, <1>3, <1>4, <1>5, <1>6, <1>7, <1>8, <1>9, <1>10, <1>11,
     <1>12, <1>13, <1>14, <1>15, <1>16, <1>17, <1>18, <1>19, <1>20, <1>21,
     <1>22, <1>23, <1>24, <1>25, <1>26, <1>27, <1>28, <1>29, <1>30, <1>31
  DEF Next,
     UpstreamStep, ReaderStep, ForwarderStep, UpdateStep, ServeStep,
     FlushStep, WaiterStep

\* Each load is made when what it is compared with is behind its counter.
LEMMA StagedStep ==
  ASSUME TypeOK, Flow, Behind, Staged, [Next]_vars
  PROVE  Staged'
<1>1. ASSUME Address PROVE Staged'
  BY <1>1, TheOrder DEF Address, Count, OutsideUnchanged, update, wait, Staged
<1>2. ASSUME Accept PROVE Staged'
  BY <1>2, TheOrder DEF Accept, OutsideUnchanged, update, wait, Staged
<1>3. ASSUME Miss PROVE Staged'
  BY <1>3, TheOrder DEF Miss, Count, OutsideUnchanged, update, wait, Staged
<1>4. ASSUME Receive PROVE Staged'
  BY <1>4, TheOrder DEF Receive, OutsideUnchanged, ReceiveAny, update, wait,
     Staged
<1>5. ASSUME Kernel PROVE Staged'
  BY <1>5, TheOrder DEF Kernel, OutsideUnchanged, update, wait, Staged
<1>6. ASSUME Processed PROVE Staged'
  BY <1>6, TheOrder DEF Processed, Count, OutsideUnchanged, update, wait,
     Staged
<1>7. ASSUME StopReading PROVE Staged'
  BY <1>7, TheOrder DEF StopReading, OutsideUnchanged, update, wait, Staged
<1>31. ASSUME EndReading PROVE Staged'
  BY <1>31, TheOrder DEF EndReading, Read, OutsideUnchanged, update, wait, Staged
<1>8. ASSUME Take PROVE Staged'
  BY <1>8, TheOrder DEF Take, OutsideUnchanged, update, wait, Staged
<1>9. ASSUME Generated PROVE Staged'
  BY <1>9, TheOrder DEF Generated, Count, OutsideUnchanged, update, wait,
     Staged
<1>10. ASSUME Give PROVE Staged'
  BY <1>10, TheOrder DEF Give, OutsideUnchanged, update, wait, Staged
<1>11. ASSUME Omit PROVE Staged'
  BY <1>11, TheOrder DEF Omit, Count, OutsideUnchanged, update, wait, Staged
<1>12. ASSUME StopForwarding PROVE Staged'
  BY <1>12, TheOrder DEF StopForwarding, OutsideUnchanged, update, wait,
     Staged
<1>13. ASSUME Stop PROVE Staged'
  BY <1>13, TheOrder DEF Stop, OutsideUnchanged, update, wait, Staged
<1>14. ASSUME Pull PROVE Staged'
  BY <1>14, TheOrder DEF Pull, OutsideUnchanged, update, wait, Staged
<1>15. ASSUME Sent PROVE Staged'
  BY <1>15, TheOrder DEF Sent, OutsideUnchanged, SentBy, Count, update, wait,
     Staged
<1>16. ASSUME Tick PROVE Staged'
  BY <1>16, TheOrder DEF Tick, OutsideUnchanged, update, wait, pipe, Staged
<1>17. ASSUME Return PROVE Staged'
  BY <1>17, TheOrder DEF Return, OutsideUnchanged, update, wait, pipe, Staged
<1>18. ASSUME NEW u \in Updaters, CheckDirty(u) PROVE Staged'
  <2>1. sample' = sample /\ sample[u] = [c \in Counters |-> 0]
    BY <1>18 DEF CheckDirty, Staged
  <2>2. \A v \in Updaters : v # u => at'[v] = at[v]
    BY <1>18 DEF CheckDirty, TypeOK
  <2>3. at'[u] # 0
    BY <1>18, TheOrder DEF CheckDirty, TypeOK
  <2>4. QED  BY <2>1, <2>2, <2>3, TheOrder DEF Staged, Counters
<1>19. ASSUME NEW u \in Updaters, Load(u) PROVE Staged'
  <2>1. ASSUME NEW v \in Updaters, v # u
        PROVE  sample'[v] = sample[v] /\ at'[v] = at[v]
    BY <1>19, <2>1, LoadOne DEF TypeOK
  <2>2. at'[u] = at[u] + 1 /\ at[u] \in 1..6
    BY <1>19, LoadOne DEF TypeOK
  <2>3. /\ Order[at[u]] \in Counters /\ sample'[u] \in [Counters -> Nat]
        /\ sample'[u][Order[at[u]]] = count[Order[at[u]]]
        /\ \A c \in Counters : c # Order[at[u]] => sample'[u][c] = sample[u][c]
    BY <1>19, LoadOne
  <2>4. at'[u] > 3 => sample'[u]["generated"] >= sample'[u]["sent"] + sample'[u]["omitted"]
    <3>1. CASE at[u] = 3
      <4>1. /\ sample'[u]["generated"] = count["generated"]
            /\ sample'[u]["sent"] = sample[u]["sent"]
            /\ sample'[u]["omitted"] = sample[u]["omitted"]
        BY <3>1, <2>3, TheOrder DEF Counters
      <4>2. count["generated"] >= count["sent"] + count["omitted"]
        BY DEF Flow, Bit, TypeOK, Counters
      <4>3. sample[u]["sent"] <= count["sent"] /\ sample[u]["omitted"] <= count["omitted"]
        BY DEF Behind, Counters
      <4>4. QED  BY <4>1, <4>2, <4>3 DEF TypeOK, Counters
    <3>2. CASE at[u] > 3
      <4>1. /\ sample'[u]["generated"] = sample[u]["generated"]
            /\ sample'[u]["sent"] = sample[u]["sent"]
            /\ sample'[u]["omitted"] = sample[u]["omitted"]
        BY <3>2, <2>2, <2>3, TheOrder DEF Counters
      <4>2. QED  BY <4>1, <3>2 DEF Staged
    <3>3. QED  BY <3>1, <3>2, <2>2
  <2>5. at'[u] = SwapAt =>
          sample'[u]["addressed"] >= sample'[u]["processed"] + sample'[u]["missed"]
    <3> SUFFICES ASSUME at[u] = 6
                 PROVE  sample'[u]["addressed"] >= sample'[u]["processed"] + sample'[u]["missed"]
      BY <2>2, TheOrder
    <3>1. /\ sample'[u]["addressed"] = count["addressed"]
          /\ sample'[u]["processed"] = sample[u]["processed"]
          /\ sample'[u]["missed"] = sample[u]["missed"]
      BY <2>3, TheOrder DEF Counters
    <3>2. count["addressed"] >= count["processed"] + count["missed"]
      BY DEF Flow, Bit, TypeOK, Counters
    <3>3. sample[u]["processed"] <= count["processed"] /\ sample[u]["missed"] <= count["missed"]
      BY DEF Behind, Counters
    <3>4. QED  BY <3>1, <3>2, <3>3 DEF TypeOK, Counters
  <2>6. ASSUME NEW v \in Updaters
        PROVE  /\ at'[v] = 0 => sample'[v] = [c \in Counters |-> 0]
               /\ at'[v] > 3 => sample'[v]["generated"] >= sample'[v]["sent"] + sample'[v]["omitted"]
               /\ at'[v] = SwapAt =>
                    sample'[v]["addressed"] >= sample'[v]["processed"] + sample'[v]["missed"]
    <3>1. CASE v = u
      BY <3>1, <2>2, <2>4, <2>5
    <3>2. CASE v # u
      BY <3>2, <2>1 DEF Staged
    <3>3. QED  BY <3>1, <3>2
  <2>7. QED  BY <2>6 DEF Staged, SwapAt
<1>20. ASSUME NEW u \in Updaters, Swap(u) PROVE Staged'
  <2>1. ASSUME NEW v \in Updaters
        PROVE  \/ sample'[v] = sample[v] /\ at'[v] = at[v]
               \/ sample'[v] = sample[v] /\ at'[v] = 8 /\ at[v] = 7
               \/ sample'[v] = [c \in Counters |-> 0] /\ at'[v] = 0
    BY <1>20, <2>1, TheOrder DEF Swap, Updated, TypeOK
  <2>2. ASSUME NEW v \in Updaters
        PROVE  /\ at'[v] = 0 => sample'[v] = [c \in Counters |-> 0]
               /\ at'[v] > 3 => sample'[v]["generated"] >= sample'[v]["sent"] + sample'[v]["omitted"]
               /\ at'[v] = 7 =>
                    sample'[v]["addressed"] >= sample'[v]["processed"] + sample'[v]["missed"]
    BY <2>1, TheOrder DEF Staged
  <2>3. QED  BY <2>2, TheOrder DEF Staged
<1>21. ASSUME NEW u \in Updaters, Rotate(u) PROVE Staged'
  <2>1. ASSUME NEW v \in Updaters
        PROVE  \/ sample'[v] = sample[v] /\ at'[v] = at[v]
               \/ sample'[v] = sample[v] /\ at'[v] = 8 /\ at[v] = 7
               \/ sample'[v] = [c \in Counters |-> 0] /\ at'[v] = 0
    BY <1>21, <2>1, TheOrder DEF Rotate, Updated, TypeOK
  <2>2. ASSUME NEW v \in Updaters
        PROVE  /\ at'[v] = 0 => sample'[v] = [c \in Counters |-> 0]
               /\ at'[v] > 3 => sample'[v]["generated"] >= sample'[v]["sent"] + sample'[v]["omitted"]
               /\ at'[v] = 7 =>
                    sample'[v]["addressed"] >= sample'[v]["processed"] + sample'[v]["missed"]
    BY <2>1, TheOrder DEF Staged
  <2>3. QED  BY <2>2, TheOrder DEF Staged
<1>22. ASSUME CallFlush PROVE Staged'
  BY <1>22, TheOrder DEF CallFlush, pipe, update, wait, Staged
<1>23. ASSUME InputDrained PROVE Staged'
  BY <1>23, TheOrder DEF InputDrained, pipe, update, wait, Staged
<1>24. ASSUME FlushOne PROVE Staged'
  BY <1>24, TheOrder DEF FlushOne, pipe, update, wait, Staged
<1>25. ASSUME Flushed PROVE Staged'
  BY <1>25, TheOrder DEF Flushed, pipe, update, wait, Staged
<1>26. ASSUME CheckFlushed PROVE Staged'
  BY <1>26, TheOrder DEF CheckFlushed, pipe, update, wait, Staged
<1>27. ASSUME NEW w \in Waiters, LoadSignal(w) PROVE Staged'
  BY <1>27, TheOrder DEF LoadSignal, pipe, update, Staged
<1>28. ASSUME NEW w \in Waiters, CheckDrained(w) PROVE Staged'
  BY <1>28, TheOrder DEF CheckDrained, pipe, update, Staged
<1>29. ASSUME NEW w \in Waiters, Wake(w) PROVE Staged'
  BY <1>29, TheOrder DEF Wake, pipe, update, Staged
<1>30. CASE UNCHANGED vars
  BY <1>30, TheOrder DEF vars, pipe, update, wait, Staged
<1>q. QED
  BY <1>1, <1>2, <1>3, <1>4, <1>5, <1>6, <1>7, <1>8, <1>9, <1>10, <1>11,
     <1>12, <1>13, <1>14, <1>15, <1>16, <1>17, <1>18, <1>19, <1>20, <1>21,
     <1>22, <1>23, <1>24, <1>25, <1>26, <1>27, <1>28, <1>29, <1>30, <1>31
  DEF Next,
     UpstreamStep, ReaderStep, ForwarderStep, UpdateStep, ServeStep,
     FlushStep, WaiterStep

\* The inductive invariant.
LEMMA InvariantAlways == Spec => [](TypeOK /\ Calling /\ Flow /\ Behind /\ Staged)
<1>1. Init => Calling /\ Flow /\ Behind /\ Staged
  BY TheOrder DEF Init, Calling, Flow, Processing, Behind, Staged, Bit, Counters
<1>2. TypeOK /\ Calling /\ Flow /\ Behind /\ Staged /\ [Next]_vars
        => Calling' /\ Flow' /\ Behind' /\ Staged'
  BY CallingStep, FlowStep, BehindStep, StagedStep
<1>3. QED  BY <1>1, <1>2, TypeCorrect, PTL DEF Spec

\* The assertions of allWentInAndOut hold, however the counters move while
\* they are read.
THEOREM AssertionsHold == Spec => []SamplesAddUp
<1>1. Staged => SamplesAddUp
  BY TheOrder DEF Staged, SamplesAddUp
<1>2. QED  BY <1>1, InvariantAlways, PTL

----------------------------------------------------------------------------
\* Only a load moves an updater on from 3 or from 6.
LEMMA LoadMoves ==
  ASSUME TypeOK, [Next]_vars, NEW u \in Updaters, at[u] \in 1..6, at'[u] # at[u]
  PROVE  Load(u)
<1>1. ASSUME NEW v \in Updaters, CheckDirty(v) \/ Swap(v) \/ Rotate(v)
      PROVE  at'[u] = at[u]
  BY <1>1, TheOrder DEF CheckDirty, Swap, Rotate, Updated, TypeOK
<1>2. ASSUME NEW v \in Updaters, Load(v), v # u
      PROVE  at'[u] = at[u]
  BY <1>2 DEF Load, TypeOK
<1>3. CASE \E v \in Updaters : UpdateStep(v)
  BY <1>1, <1>2, <1>3 DEF UpdateStep
<1>4. CASE UNCHANGED at
  BY <1>4
<1>5. [Next]_vars => UNCHANGED at \/ \E v \in Updaters : UpdateStep(v)
  BY DEF Next, vars, pipe, update, wait, UpstreamStep, ReaderStep, ForwarderStep,
         ServeStep, FlushStep, WaiterStep, OutsideUnchanged, Address, Accept, Miss,
         Receive, ReceiveAny, Kernel, Processed, StopReading, EndReading, Read, Take, Generated, Give, Omit,
         StopForwarding, Stop, Pull, Sent, SentBy, Tick, Return, CallFlush, InputDrained,
         FlushOne, Flushed, CheckFlushed, LoadSignal, CheckDrained, Wake
<1>6. QED  BY <1>3, <1>4, <1>5

\* Loads that balance leave no room for objects under way.
LEMMA NothingBetween ==
  ASSUME NEW first \in Nat, NEW second \in Nat, NEW now1 \in Nat, NEW now2 \in Nat,
         NEW last, NEW a \in Nat, NEW b \in Nat, NEW c \in Nat,
         first <= now1, second <= now2, first + second = last, last = now2 + now1 + a + b + c
  PROVE  a = 0 /\ b = 0 /\ c = 0
OBVIOUS

\* Where a sample balances, that part of the node was empty at the load.
LEMMA BalanceStep ==
  ASSUME TypeOK, Flow, Behind, [Next]_vars, NEW u \in Updaters,
         at[u] \in 1..6, at'[u] # at[u]
  PROVE  /\ Order[at[u]] = "generated" /\ OutputBalanced(sample'[u]) => OutputEmpty
         /\ Order[at[u]] = "addressed" /\ InputBalanced(sample'[u]) => InputEmpty
<1>1. /\ sample'[u][Order[at[u]]] = count[Order[at[u]]]
      /\ \A c \in Counters : c # Order[at[u]] => sample'[u][c] = sample[u][c]
  BY LoadMoves, LoadOne
<1>2. ASSUME Order[at[u]] = "generated", OutputBalanced(sample'[u])
      PROVE  OutputEmpty
  <2>1. sample[u]["sent"] + sample[u]["omitted"] = count["generated"]
    BY <1>1, <1>2 DEF OutputBalanced, TypeOK, Counters
  <2>2. sample[u]["sent"] <= count["sent"] /\ sample[u]["omitted"] <= count["omitted"]
    BY DEF Behind, Counters
  <2>3. count["generated"] = count["omitted"] + count["sent"] + out
                             + Bit(forwarder = "send") + Bit(serve \in {"push_update", "push"})
    BY DEF Flow
  <2>4. /\ {count["sent"], count["omitted"], count["generated"]} \subseteq Nat
        /\ {sample[u]["sent"], sample[u]["omitted"]} \subseteq Nat
    BY DEF TypeOK, Counters
  <2>5. {out, Bit(forwarder = "send"), Bit(serve \in {"push_update", "push"})} \subseteq Nat
    BY DEF TypeOK, Bit
  <2> DEFINE sending == Bit(forwarder = "send")
             pushing == Bit(serve \in {"push_update", "push"})
  <2>6. out = 0 /\ sending = 0 /\ pushing = 0
    <3>1. count["generated"] = count["omitted"] + count["sent"] + out + sending + pushing
      BY <2>3
    <3>2. sending \in Nat /\ pushing \in Nat /\ out \in Nat
      BY <2>5
    <3> HIDE DEF sending, pushing
    <3>3. QED  BY <2>1, <2>2, <2>4, <3>1, <3>2, NothingBetween
  <2>7. QED  BY <2>6 DEF Bit, OutputEmpty
<1>3. ASSUME Order[at[u]] = "addressed", InputBalanced(sample'[u])
      PROVE  InputEmpty
  <2>1. sample[u]["processed"] + sample[u]["missed"] = count["addressed"]
    BY <1>1, <1>3 DEF InputBalanced, TypeOK, Counters
  <2>2. sample[u]["processed"] <= count["processed"] /\ sample[u]["missed"] <= count["missed"]
    BY DEF Behind, Counters
  <2>3. count["addressed"] = count["missed"] + count["processed"] + offered + in
                             + Bit(reader \in Processing)
    BY DEF Flow
  <2>4. /\ {count["processed"], count["missed"], count["addressed"]} \subseteq Nat
        /\ {sample[u]["processed"], sample[u]["missed"]} \subseteq Nat
    BY DEF TypeOK, Counters
  <2>5. {offered, in, Bit(reader \in Processing)} \subseteq Nat
    BY DEF TypeOK, Bit
  <2>6. offered = 0 /\ in = 0 /\ Bit(reader \in Processing) = 0
    BY <2>1, <2>2, <2>3, <2>4, <2>5
  <2>7. QED  BY <2>6 DEF Bit, InputEmpty
<1>4. QED  BY <1>2, <1>3

\* A balance of the output counters means that nothing was between a forwarder
\* and a finished push, one of the input counters that nothing was on its way
\* into the kernel.
THEOREM BalanceIsSound == Spec => BalanceMeansEmpty
<1>1. TypeOK /\ Flow /\ Behind /\ [Next]_vars =>
        \A u \in Updaters :
          /\ at[u] \in 1..Len(Order) /\ Order[at[u]] = "generated"
               /\ at'[u] # at[u] /\ OutputBalanced(sample'[u]) => OutputEmpty
          /\ at[u] \in 1..Len(Order) /\ Order[at[u]] = "addressed"
               /\ at'[u] # at[u] /\ InputBalanced(sample'[u]) => InputEmpty
  BY BalanceStep, TheOrder
<1>2. QED  BY <1>1, InvariantAlways, PTL DEF Spec, BalanceMeansEmpty
=============================================================================
