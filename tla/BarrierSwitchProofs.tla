------------------------ MODULE BarrierSwitchProofs ------------------------
(* Theorems about BarrierSwitch, for any number of outputs, barriers,      *)
(* requesters and packets.                                                 *)
EXTENDS BarrierSwitch, TLAPS

\* Every step keeps the types.
LEMMA TypeStep ==
  ASSUME TypeOK, [Next]_vars
  PROVE  TypeOK'
<1> USE OutputsAssumption, PacketsAssumption, ProcsAssumption
  DEF At, Goto, shared, locals, history, Procs, Values, TypeOK, Labels,
      BarrierLabels, RequestLabels, SwitchLabels, LockedLabels
<1>1. ASSUME NEW b \in Barriers, Deliver(b)
      PROVE  TypeOK'
  BY <1>1 DEF Deliver
<1>2. ASSUME NEW b \in Barriers, LoadCurrent(b)
      PROVE  TypeOK'
  BY <1>2 DEF LoadCurrent
<1>3. ASSUME NEW b \in Barriers, LoadNext(b)
      PROVE  TypeOK'
  BY <1>3 DEF LoadNext
<1>4. ASSUME NEW b \in Barriers, LoadPrevious(b)
      PROVE  TypeOK'
  BY <1>4 DEF LoadPrevious
<1>5. ASSUME NEW b \in Barriers, CheckFirst(b)
      PROVE  TypeOK'
  BY <1>5 DEF CheckFirst
<1>6. ASSUME NEW b \in Barriers, NoteFirst(b)
      PROVE  TypeOK'
  BY <1>6 DEF NoteFirst
<1>7. ASSUME NEW b \in Barriers, Decide(b)
      PROVE  TypeOK'
  BY <1>7 DEF Decide
<1>8. ASSUME NEW b \in Barriers, CommitCurrent(b)
      PROVE  TypeOK'
  BY <1>8 DEF CommitCurrent
<1>9. ASSUME NEW b \in Barriers, CommitNext(b)
      PROVE  TypeOK'
  BY <1>9 DEF CommitNext, Committed, Unlock
<1>10. ASSUME NEW b \in Barriers, Pass(b)
      PROVE  TypeOK'
  BY <1>10 DEF Pass, Return
<1>11. ASSUME NEW b \in Barriers, PassFirst(b)
      PROVE  TypeOK'
  BY <1>11 DEF PassFirst
<1>12. ASSUME NEW b \in Barriers, Block(b)
      PROVE  TypeOK'
  BY <1>12 DEF Block
<1>13. ASSUME NEW b \in Barriers, Drop(b)
      PROVE  TypeOK'
  BY <1>13 DEF Drop, Return
<1>14. ASSUME NEW b \in Barriers, ClearFirst(b)
      PROVE  TypeOK'
  BY <1>14 DEF ClearFirst, Lock
<1>15. ASSUME NEW b \in Barriers, ClearPrevious(b)
      PROVE  TypeOK'
  BY <1>15 DEF ClearPrevious, PassedFirst, Unlock, Return
<1>16. ASSUME NEW b \in Barriers, LoadSignal(b)
      PROVE  TypeOK'
  BY <1>16 DEF LoadSignal
<1>17. ASSUME NEW b \in Barriers, Wake(b)
      PROVE  TypeOK'
  BY <1>17 DEF Wake
<1>18. ASSUME NEW b \in Barriers, Cancel(b)
      PROVE  TypeOK'
  BY <1>18 DEF Cancel, Return
<1>19. ASSUME NEW p \in Procs, StorePrevious(p)
      PROVE  TypeOK'
  BY <1>19 DEF StorePrevious
<1>20. ASSUME NEW p \in Procs, StoreFirst(p)
      PROVE  TypeOK'
  BY <1>20 DEF StoreFirst
<1>21. ASSUME NEW p \in Procs, Rotate(p)
      PROVE  TypeOK'
  BY <1>21 DEF Rotate, Rotated, CloseSignals, Closed
<1>22. ASSUME NEW p \in Procs, After(p)
      PROVE  TypeOK'
  <2> USE <1>22 DEF After, Unlock, Return
  <2>1. CASE p \in Barriers
    <3>1. /\ from' = [from EXCEPT ![p] = to[p]]
          /\ back' = [back EXCEPT ![p] = from[p]]
          /\ raced' = [raced EXCEPT ![p] = FALSE]
          /\ UNCHANGED <<to, packet>>
          /\ pc' = [pc EXCEPT ![p] = "construct"]
      BY <2>1
    <3> QED
      BY <3>1
  <2>2. CASE p \in Requesters
    BY <2>2
  <2> QED
    BY <2>1, <2>2
<1>23. ASSUME NEW r \in Requesters, Request(r)
      PROVE  TypeOK'
  BY <1>23 DEF Request
<1>24. ASSUME NEW r \in Requesters, SetCurrent(r)
      PROVE  TypeOK'
  BY <1>24 DEF SetCurrent, SwapCurrent, Return
<1>25. ASSUME NEW r \in Requesters, SetNext(r)
      PROVE  TypeOK'
  BY <1>25 DEF SetNext, Return
<1>26. ASSUME NEW r \in Requesters, ClearNext(r)
      PROVE  TypeOK'
  BY <1>26 DEF ClearNext
<1>27. ASSUME NEW r \in Requesters, NextRotate(r)
      PROVE  TypeOK'
  BY <1>27 DEF NextRotate, CloseSignals, Closed, Unlock
<1>28. CASE UNCHANGED vars
  BY <1>28 DEF vars
<1> QED
  BY <1>1, <1>2, <1>3, <1>4, <1>5, <1>6, <1>7, <1>8, <1>9, <1>10, <1>11,
     <1>12, <1>13, <1>14, <1>15, <1>16, <1>17, <1>18, <1>19, <1>20,
     <1>21, <1>22, <1>23, <1>24, <1>25, <1>26, <1>27, <1>28
  DEF Next, BarrierStep, SwitchStep, RequesterStep

\* Every variable keeps its type.
THEOREM TypeCorrect == Spec => []TypeOK
<1>1. Init => TypeOK
  BY OutputsAssumption DEF Init, InitWith, TypeOK, Values, Procs, Labels
<1>2. TypeOK /\ [Next]_vars => TypeOK'
  BY TypeStep
<1> QED
  BY <1>1, <1>2, PTL DEF Spec

----------------------------------------------------------------------------
(* CommitMutex.                                                            *)

\* The holder of the mutex is the goroutine that is in a critical section.
LockInv == \A p \in Procs : pc[p] \in LockedLabels <=> mutex = p

\* Every step keeps the mutex with the critical sections.
LEMMA LockStep ==
  ASSUME TypeOK, LockInv, [Next]_vars
  PROVE  LockInv'
<1> USE ProcsAssumption
  DEF At, Goto, shared, locals, history, Procs, TypeOK, LockInv,
      LockedLabels, SwitchLabels
<1>1. ASSUME NEW b \in Barriers, Deliver(b)
      PROVE  LockInv'
  BY <1>1 DEF Deliver
<1>2. ASSUME NEW b \in Barriers, LoadCurrent(b)
      PROVE  LockInv'
  BY <1>2 DEF LoadCurrent
<1>3. ASSUME NEW b \in Barriers, LoadNext(b)
      PROVE  LockInv'
  BY <1>3 DEF LoadNext
<1>4. ASSUME NEW b \in Barriers, LoadPrevious(b)
      PROVE  LockInv'
  BY <1>4 DEF LoadPrevious
<1>5. ASSUME NEW b \in Barriers, CheckFirst(b)
      PROVE  LockInv'
  BY <1>5 DEF CheckFirst
<1>6. ASSUME NEW b \in Barriers, NoteFirst(b)
      PROVE  LockInv'
  BY <1>6 DEF NoteFirst
<1>7. ASSUME NEW b \in Barriers, Decide(b)
      PROVE  LockInv'
  BY <1>7 DEF Decide
<1>8. ASSUME NEW b \in Barriers, CommitCurrent(b)
      PROVE  LockInv'
  BY <1>8 DEF CommitCurrent
<1>9. ASSUME NEW b \in Barriers, CommitNext(b)
      PROVE  LockInv'
  BY <1>9 DEF CommitNext, Committed, Unlock
<1>10. ASSUME NEW b \in Barriers, Pass(b)
      PROVE  LockInv'
  BY <1>10 DEF Pass, Return
<1>11. ASSUME NEW b \in Barriers, PassFirst(b)
      PROVE  LockInv'
  BY <1>11 DEF PassFirst
<1>12. ASSUME NEW b \in Barriers, Block(b)
      PROVE  LockInv'
  BY <1>12 DEF Block
<1>13. ASSUME NEW b \in Barriers, Drop(b)
      PROVE  LockInv'
  BY <1>13 DEF Drop, Return
<1>14. ASSUME NEW b \in Barriers, ClearFirst(b)
      PROVE  LockInv'
  BY <1>14 DEF ClearFirst, Lock
<1>15. ASSUME NEW b \in Barriers, ClearPrevious(b)
      PROVE  LockInv'
  BY <1>15 DEF ClearPrevious, PassedFirst, Unlock, Return
<1>16. ASSUME NEW b \in Barriers, LoadSignal(b)
      PROVE  LockInv'
  BY <1>16 DEF LoadSignal
<1>17. ASSUME NEW b \in Barriers, Wake(b)
      PROVE  LockInv'
  BY <1>17 DEF Wake
<1>18. ASSUME NEW b \in Barriers, Cancel(b)
      PROVE  LockInv'
  BY <1>18 DEF Cancel, Return
<1>19. ASSUME NEW p \in Procs, StorePrevious(p)
      PROVE  LockInv'
  BY <1>19 DEF StorePrevious
<1>20. ASSUME NEW p \in Procs, StoreFirst(p)
      PROVE  LockInv'
  BY <1>20 DEF StoreFirst
<1>21. ASSUME NEW p \in Procs, Rotate(p)
      PROVE  LockInv'
  BY <1>21 DEF Rotate, Rotated, CloseSignals, Closed
<1>22. ASSUME NEW p \in Procs, After(p)
      PROVE  LockInv'
  BY <1>22 DEF After, Unlock, Return
<1>23. ASSUME NEW r \in Requesters, Request(r)
      PROVE  LockInv'
  BY <1>23 DEF Request
<1>24. ASSUME NEW r \in Requesters, SetCurrent(r)
      PROVE  LockInv'
  BY <1>24 DEF SetCurrent, SwapCurrent, Return
<1>25. ASSUME NEW r \in Requesters, SetNext(r)
      PROVE  LockInv'
  BY <1>25 DEF SetNext, Return
<1>26. ASSUME NEW r \in Requesters, ClearNext(r)
      PROVE  LockInv'
  BY <1>26 DEF ClearNext
<1>27. ASSUME NEW r \in Requesters, NextRotate(r)
      PROVE  LockInv'
  BY <1>27 DEF NextRotate, CloseSignals, Closed, Unlock
<1>28. CASE UNCHANGED vars
  BY <1>28 DEF vars
<1> QED
  BY <1>1, <1>2, <1>3, <1>4, <1>5, <1>6, <1>7, <1>8, <1>9, <1>10, <1>11,
     <1>12, <1>13, <1>14, <1>15, <1>16, <1>17, <1>18, <1>19, <1>20,
     <1>21, <1>22, <1>23, <1>24, <1>25, <1>26, <1>27, <1>28
  DEF Next, BarrierStep, SwitchStep, RequesterStep

\* CommitMutex excludes: no two goroutines are in its critical sections.
THEOREM MutualExclusion ==
  Spec => [](\A p, q \in Procs :
               pc[p] \in LockedLabels /\ pc[q] \in LockedLabels => p = q)
<1>1. Init => TypeOK /\ LockInv
  BY OutputsAssumption, ProcsAssumption
  DEF Init, InitWith, TypeOK, LockInv, Values, Procs, Labels, LockedLabels, SwitchLabels
<1>2. TypeOK /\ LockInv /\ [Next]_vars => (TypeOK /\ LockInv)'
  BY TypeStep, LockStep
<1>3. LockInv => \A p, q \in Procs :
                   pc[p] \in LockedLabels /\ pc[q] \in LockedLabels => p = q
  BY DEF LockInv
<1> QED
  BY <1>1, <1>2, <1>3, PTL DEF Spec

----------------------------------------------------------------------------
(* Requests.                                                               *)

\* What a writer of NextValue knows of the two values while it holds the mutex.
AgreeInv ==
  /\ \A b \in Barriers : At(b, "commit_next") => current = to[b]
  /\ \A r \in Requesters :
       /\ At(r, "set_next") => to[r] # None
       /\ At(r, "clear_next") => current = to[r] /\ next = to[r]

\* Every step keeps the values that agree under the mutex.
LEMMA AgreeStep ==
  ASSUME TypeOK, LockInv, AgreeInv, [Next]_vars
  PROVE  AgreeInv'
<1> USE OutputsAssumption, ProcsAssumption
  DEF At, Goto, shared, locals, history, Procs, TypeOK, LockInv,
      LockedLabels, SwitchLabels, AgreeInv
<1>1. ASSUME NEW b \in Barriers, Deliver(b)
      PROVE  AgreeInv'
  BY <1>1 DEF Deliver
<1>2. ASSUME NEW b \in Barriers, LoadCurrent(b)
      PROVE  AgreeInv'
  BY <1>2 DEF LoadCurrent
<1>3. ASSUME NEW b \in Barriers, LoadNext(b)
      PROVE  AgreeInv'
  BY <1>3 DEF LoadNext
<1>4. ASSUME NEW b \in Barriers, LoadPrevious(b)
      PROVE  AgreeInv'
  BY <1>4 DEF LoadPrevious
<1>5. ASSUME NEW b \in Barriers, CheckFirst(b)
      PROVE  AgreeInv'
  BY <1>5 DEF CheckFirst
<1>6. ASSUME NEW b \in Barriers, NoteFirst(b)
      PROVE  AgreeInv'
  BY <1>6 DEF NoteFirst
<1>7. ASSUME NEW b \in Barriers, Decide(b)
      PROVE  AgreeInv'
  BY <1>7 DEF Decide
<1>8. ASSUME NEW b \in Barriers, CommitCurrent(b)
      PROVE  AgreeInv'
  BY <1>8 DEF CommitCurrent
<1>9. ASSUME NEW b \in Barriers, CommitNext(b)
      PROVE  AgreeInv'
  BY <1>9 DEF CommitNext, Committed, Unlock
<1>10. ASSUME NEW b \in Barriers, Pass(b)
      PROVE  AgreeInv'
  BY <1>10 DEF Pass, Return
<1>11. ASSUME NEW b \in Barriers, PassFirst(b)
      PROVE  AgreeInv'
  BY <1>11 DEF PassFirst
<1>12. ASSUME NEW b \in Barriers, Block(b)
      PROVE  AgreeInv'
  BY <1>12 DEF Block
<1>13. ASSUME NEW b \in Barriers, Drop(b)
      PROVE  AgreeInv'
  BY <1>13 DEF Drop, Return
<1>14. ASSUME NEW b \in Barriers, ClearFirst(b)
      PROVE  AgreeInv'
  BY <1>14 DEF ClearFirst, Lock
<1>15. ASSUME NEW b \in Barriers, ClearPrevious(b)
      PROVE  AgreeInv'
  BY <1>15 DEF ClearPrevious, PassedFirst, Unlock, Return
<1>16. ASSUME NEW b \in Barriers, LoadSignal(b)
      PROVE  AgreeInv'
  BY <1>16 DEF LoadSignal
<1>17. ASSUME NEW b \in Barriers, Wake(b)
      PROVE  AgreeInv'
  BY <1>17 DEF Wake
<1>18. ASSUME NEW b \in Barriers, Cancel(b)
      PROVE  AgreeInv'
  BY <1>18 DEF Cancel, Return
<1>19. ASSUME NEW p \in Procs, StorePrevious(p)
      PROVE  AgreeInv'
  BY <1>19 DEF StorePrevious
<1>20. ASSUME NEW p \in Procs, StoreFirst(p)
      PROVE  AgreeInv'
  BY <1>20 DEF StoreFirst
<1>21. ASSUME NEW p \in Procs, Rotate(p)
      PROVE  AgreeInv'
  BY <1>21 DEF Rotate, Rotated, CloseSignals, Closed
<1>22. ASSUME NEW p \in Procs, After(p)
      PROVE  AgreeInv'
  BY <1>22 DEF After, Unlock, Return
<1>23. ASSUME NEW r \in Requesters, Request(r)
      PROVE  AgreeInv'
  BY <1>23 DEF Request
<1>24. ASSUME NEW r \in Requesters, SetCurrent(r)
      PROVE  AgreeInv'
  BY <1>24 DEF SetCurrent, SwapCurrent, Return
<1>25. ASSUME NEW r \in Requesters, SetNext(r)
      PROVE  AgreeInv'
  BY <1>25 DEF SetNext, Return
<1>26. ASSUME NEW r \in Requesters, ClearNext(r)
      PROVE  AgreeInv'
  BY <1>26 DEF ClearNext
<1>27. ASSUME NEW r \in Requesters, NextRotate(r)
      PROVE  AgreeInv'
  BY <1>27 DEF NextRotate, CloseSignals, Closed, Unlock
<1>28. CASE UNCHANGED vars
  BY <1>28 DEF vars
<1> QED
  BY <1>1, <1>2, <1>3, <1>4, <1>5, <1>6, <1>7, <1>8, <1>9, <1>10, <1>11,
     <1>12, <1>13, <1>14, <1>15, <1>16, <1>17, <1>18, <1>19, <1>20,
     <1>21, <1>22, <1>23, <1>24, <1>25, <1>26, <1>27, <1>28
  DEF Next, BarrierStep, SwitchStep, RequesterStep


\* The invariant the properties of the requests follow from.
LEMMA Inductive ==
  Spec => [](TypeOK /\ LockInv /\ AgreeInv)
<1>1. Init => TypeOK /\ LockInv /\ AgreeInv
  BY OutputsAssumption, ProcsAssumption
  DEF Init, InitWith, TypeOK, LockInv, AgreeInv, Values, Procs, Labels, LockedLabels,
      SwitchLabels, At
<1>2. TypeOK /\ LockInv /\ AgreeInv /\ [Next]_vars => (TypeOK /\ LockInv /\ AgreeInv)'
  BY TypeStep, LockStep, AgreeStep
<1> QED
  BY <1>1, <1>2, PTL DEF Spec

\* No step empties NextValue while its value is not the current one.
LEMMA PendingStep ==
  ASSUME TypeOK, LockInv, AgreeInv, [Next]_vars
  PROVE  next # None /\ next' = None => current' = next
<1> USE OutputsAssumption, ProcsAssumption
  DEF At, Goto, shared, locals, history, Procs, TypeOK, AgreeInv
<1>1. ASSUME NEW b \in Barriers, Deliver(b)
      PROVE  next # None /\ next' = None => current' = next
  BY <1>1 DEF Deliver
<1>2. ASSUME NEW b \in Barriers, LoadCurrent(b)
      PROVE  next # None /\ next' = None => current' = next
  BY <1>2 DEF LoadCurrent
<1>3. ASSUME NEW b \in Barriers, LoadNext(b)
      PROVE  next # None /\ next' = None => current' = next
  BY <1>3 DEF LoadNext
<1>4. ASSUME NEW b \in Barriers, LoadPrevious(b)
      PROVE  next # None /\ next' = None => current' = next
  BY <1>4 DEF LoadPrevious
<1>5. ASSUME NEW b \in Barriers, CheckFirst(b)
      PROVE  next # None /\ next' = None => current' = next
  BY <1>5 DEF CheckFirst
<1>6. ASSUME NEW b \in Barriers, NoteFirst(b)
      PROVE  next # None /\ next' = None => current' = next
  BY <1>6 DEF NoteFirst
<1>7. ASSUME NEW b \in Barriers, Decide(b)
      PROVE  next # None /\ next' = None => current' = next
  BY <1>7 DEF Decide
<1>8. ASSUME NEW b \in Barriers, CommitCurrent(b)
      PROVE  next # None /\ next' = None => current' = next
  BY <1>8 DEF CommitCurrent
<1>9. ASSUME NEW b \in Barriers, CommitNext(b)
      PROVE  next # None /\ next' = None => current' = next
  BY <1>9 DEF CommitNext, Committed, Unlock
<1>10. ASSUME NEW b \in Barriers, Pass(b)
      PROVE  next # None /\ next' = None => current' = next
  BY <1>10 DEF Pass, Return
<1>11. ASSUME NEW b \in Barriers, PassFirst(b)
      PROVE  next # None /\ next' = None => current' = next
  BY <1>11 DEF PassFirst
<1>12. ASSUME NEW b \in Barriers, Block(b)
      PROVE  next # None /\ next' = None => current' = next
  BY <1>12 DEF Block
<1>13. ASSUME NEW b \in Barriers, Drop(b)
      PROVE  next # None /\ next' = None => current' = next
  BY <1>13 DEF Drop, Return
<1>14. ASSUME NEW b \in Barriers, ClearFirst(b)
      PROVE  next # None /\ next' = None => current' = next
  BY <1>14 DEF ClearFirst, Lock
<1>15. ASSUME NEW b \in Barriers, ClearPrevious(b)
      PROVE  next # None /\ next' = None => current' = next
  BY <1>15 DEF ClearPrevious, PassedFirst, Unlock, Return
<1>16. ASSUME NEW b \in Barriers, LoadSignal(b)
      PROVE  next # None /\ next' = None => current' = next
  BY <1>16 DEF LoadSignal
<1>17. ASSUME NEW b \in Barriers, Wake(b)
      PROVE  next # None /\ next' = None => current' = next
  BY <1>17 DEF Wake
<1>18. ASSUME NEW b \in Barriers, Cancel(b)
      PROVE  next # None /\ next' = None => current' = next
  BY <1>18 DEF Cancel, Return
<1>19. ASSUME NEW p \in Procs, StorePrevious(p)
      PROVE  next # None /\ next' = None => current' = next
  BY <1>19 DEF StorePrevious
<1>20. ASSUME NEW p \in Procs, StoreFirst(p)
      PROVE  next # None /\ next' = None => current' = next
  BY <1>20 DEF StoreFirst
<1>21. ASSUME NEW p \in Procs, Rotate(p)
      PROVE  next # None /\ next' = None => current' = next
  BY <1>21 DEF Rotate, Rotated, CloseSignals, Closed
<1>22. ASSUME NEW p \in Procs, After(p)
      PROVE  next # None /\ next' = None => current' = next
  BY <1>22 DEF After, Unlock, Return
<1>23. ASSUME NEW r \in Requesters, Request(r)
      PROVE  next # None /\ next' = None => current' = next
  BY <1>23 DEF Request
<1>24. ASSUME NEW r \in Requesters, SetCurrent(r)
      PROVE  next # None /\ next' = None => current' = next
  BY <1>24 DEF SetCurrent, SwapCurrent, Return
<1>25. ASSUME NEW r \in Requesters, SetNext(r)
      PROVE  next # None /\ next' = None => current' = next
  BY <1>25 DEF SetNext, Return
<1>26. ASSUME NEW r \in Requesters, ClearNext(r)
      PROVE  next # None /\ next' = None => current' = next
  BY <1>26 DEF ClearNext
<1>27. ASSUME NEW r \in Requesters, NextRotate(r)
      PROVE  next # None /\ next' = None => current' = next
  BY <1>27 DEF NextRotate, CloseSignals, Closed, Unlock
<1>28. CASE UNCHANGED vars
  BY <1>28 DEF vars
<1> QED
  BY <1>1, <1>2, <1>3, <1>4, <1>5, <1>6, <1>7, <1>8, <1>9, <1>10, <1>11,
     <1>12, <1>13, <1>14, <1>15, <1>16, <1>17, <1>18, <1>19, <1>20,
     <1>21, <1>22, <1>23, <1>24, <1>25, <1>26, <1>27, <1>28
  DEF Next, BarrierStep, SwitchStep, RequesterStep

\* A requested switch is never lost, whatever the flags and however many
\* barriers and requesters there are.
THEOREM RequestsAreKept == Spec => PendingNeverDropped
<1>1. TypeOK /\ LockInv /\ AgreeInv /\ [Next]_vars =>
        [next # None /\ next' = None => current' = next]_vars
  BY PendingStep
<1> QED
  BY <1>1, Inductive, PTL DEF Spec, PendingNeverDropped

----------------------------------------------------------------------------
(* A switch without a KeepUnless condition.                                *)

\* Nothing but SetValue changes the value then, and it changes it at once.
DirectInv ==
  /\ next = None
  /\ \A b \in Barriers :
       /\ to[b] = None
       /\ pc[b] \in ({"idle", "clear_previous"} \cup BarrierLabels) \ {"commit_current"}
  /\ \A r \in Requesters :
       pc[r] \in {"idle", "set_current", "store_previous", "store_first", "rotate", "after"}

\* The listener lags behind the current value only during a switch.
ReportInv ==
  /\ \A r \in Requesters :
       pc[r] \in {"store_previous", "store_first", "rotate", "after"} => current = to[r]
  /\ (\A p \in Procs : pc[p] \notin SwitchLabels) => reported = current

\* No step without KeepUnless requests or commits a next value.
LEMMA DirectStep ==
  ASSUME ~KeepUnless, TypeOK, DirectInv, [Next]_vars
  PROVE  DirectInv'
<1> USE ProcsAssumption
  DEF At, Goto, shared, locals, history, Procs, TypeOK, DirectInv,
      BarrierLabels
<1>1. ASSUME NEW b \in Barriers, Deliver(b)
      PROVE  DirectInv'
  BY <1>1 DEF Deliver
<1>2. ASSUME NEW b \in Barriers, LoadCurrent(b)
      PROVE  DirectInv'
  BY <1>2 DEF LoadCurrent
<1>3. ASSUME NEW b \in Barriers, LoadNext(b)
      PROVE  DirectInv'
  BY <1>3 DEF LoadNext
<1>4. ASSUME NEW b \in Barriers, LoadPrevious(b)
      PROVE  DirectInv'
  BY <1>4 DEF LoadPrevious
<1>5. ASSUME NEW b \in Barriers, CheckFirst(b)
      PROVE  DirectInv'
  BY <1>5 DEF CheckFirst
<1>6. ASSUME NEW b \in Barriers, NoteFirst(b)
      PROVE  DirectInv'
  BY <1>6 DEF NoteFirst
<1>7. ASSUME NEW b \in Barriers, Decide(b)
      PROVE  DirectInv'
  BY <1>7 DEF Decide, Entrance
<1>8. ASSUME NEW b \in Barriers, CommitCurrent(b)
      PROVE  DirectInv'
  BY <1>8 DEF CommitCurrent
<1>9. ASSUME NEW b \in Barriers, CommitNext(b)
      PROVE  DirectInv'
  BY <1>9 DEF CommitNext, Committed, Unlock
<1>10. ASSUME NEW b \in Barriers, Pass(b)
      PROVE  DirectInv'
  BY <1>10 DEF Pass, Return
<1>11. ASSUME NEW b \in Barriers, PassFirst(b)
      PROVE  DirectInv'
  BY <1>11 DEF PassFirst
<1>12. ASSUME NEW b \in Barriers, Block(b)
      PROVE  DirectInv'
  BY <1>12 DEF Block
<1>13. ASSUME NEW b \in Barriers, Drop(b)
      PROVE  DirectInv'
  BY <1>13 DEF Drop, Return
<1>14. ASSUME NEW b \in Barriers, ClearFirst(b)
      PROVE  DirectInv'
  BY <1>14 DEF ClearFirst, Lock
<1>15. ASSUME NEW b \in Barriers, ClearPrevious(b)
      PROVE  DirectInv'
  BY <1>15 DEF ClearPrevious, PassedFirst, Unlock, Return
<1>16. ASSUME NEW b \in Barriers, LoadSignal(b)
      PROVE  DirectInv'
  BY <1>16 DEF LoadSignal
<1>17. ASSUME NEW b \in Barriers, Wake(b)
      PROVE  DirectInv'
  BY <1>17 DEF Wake
<1>18. ASSUME NEW b \in Barriers, Cancel(b)
      PROVE  DirectInv'
  BY <1>18 DEF Cancel, Return
<1>19. ASSUME NEW p \in Procs, StorePrevious(p)
      PROVE  DirectInv'
  BY <1>19 DEF StorePrevious
<1>20. ASSUME NEW p \in Procs, StoreFirst(p)
      PROVE  DirectInv'
  BY <1>20 DEF StoreFirst
<1>21. ASSUME NEW p \in Procs, Rotate(p)
      PROVE  DirectInv'
  BY <1>21 DEF Rotate, Rotated, CloseSignals, Closed
<1>22. ASSUME NEW p \in Procs, After(p)
      PROVE  DirectInv'
  BY <1>22 DEF After, Unlock, Return
<1>23. ASSUME NEW r \in Requesters, Request(r)
      PROVE  DirectInv'
  BY <1>23 DEF Request
<1>24. ASSUME NEW r \in Requesters, SetCurrent(r)
      PROVE  DirectInv'
  BY <1>24 DEF SetCurrent, SwapCurrent, Return
<1>25. ASSUME NEW r \in Requesters, SetNext(r)
      PROVE  DirectInv'
  BY <1>25 DEF SetNext, Return
<1>26. ASSUME NEW r \in Requesters, ClearNext(r)
      PROVE  DirectInv'
  BY <1>26 DEF ClearNext
<1>27. ASSUME NEW r \in Requesters, NextRotate(r)
      PROVE  DirectInv'
  BY <1>27 DEF NextRotate, CloseSignals, Closed, Unlock
<1>28. CASE UNCHANGED vars
  BY <1>28 DEF vars
<1> QED
  BY <1>1, <1>2, <1>3, <1>4, <1>5, <1>6, <1>7, <1>8, <1>9, <1>10, <1>11,
     <1>12, <1>13, <1>14, <1>15, <1>16, <1>17, <1>18, <1>19, <1>20,
     <1>21, <1>22, <1>23, <1>24, <1>25, <1>26, <1>27, <1>28
  DEF Next, BarrierStep, SwitchStep, RequesterStep
\* Only a switch comes between the current value and the reported one.
LEMMA ReportStep ==
  ASSUME ~KeepUnless, TypeOK, LockInv, DirectInv, ReportInv, [Next]_vars
  PROVE  ReportInv'
<1> USE ProcsAssumption
  DEF At, Goto, shared, locals, history, Procs, TypeOK, LockInv, DirectInv,
      ReportInv, BarrierLabels, LockedLabels, SwitchLabels
<1>1. ASSUME NEW b \in Barriers, Deliver(b)
      PROVE  ReportInv'
  BY <1>1 DEF Deliver
<1>2. ASSUME NEW b \in Barriers, LoadCurrent(b)
      PROVE  ReportInv'
  BY <1>2 DEF LoadCurrent
<1>3. ASSUME NEW b \in Barriers, LoadNext(b)
      PROVE  ReportInv'
  BY <1>3 DEF LoadNext
<1>4. ASSUME NEW b \in Barriers, LoadPrevious(b)
      PROVE  ReportInv'
  BY <1>4 DEF LoadPrevious
<1>5. ASSUME NEW b \in Barriers, CheckFirst(b)
      PROVE  ReportInv'
  BY <1>5 DEF CheckFirst
<1>6. ASSUME NEW b \in Barriers, NoteFirst(b)
      PROVE  ReportInv'
  BY <1>6 DEF NoteFirst
<1>7. ASSUME NEW b \in Barriers, Decide(b)
      PROVE  ReportInv'
  BY <1>7 DEF Decide
<1>8. ASSUME NEW b \in Barriers, CommitCurrent(b)
      PROVE  ReportInv'
  BY <1>8 DEF CommitCurrent
<1>9. ASSUME NEW b \in Barriers, CommitNext(b)
      PROVE  ReportInv'
  BY <1>9 DEF CommitNext, Committed, Unlock
<1>10. ASSUME NEW b \in Barriers, Pass(b)
      PROVE  ReportInv'
  BY <1>10 DEF Pass, Return
<1>11. ASSUME NEW b \in Barriers, PassFirst(b)
      PROVE  ReportInv'
  BY <1>11 DEF PassFirst
<1>12. ASSUME NEW b \in Barriers, Block(b)
      PROVE  ReportInv'
  BY <1>12 DEF Block
<1>13. ASSUME NEW b \in Barriers, Drop(b)
      PROVE  ReportInv'
  BY <1>13 DEF Drop, Return
<1>14. ASSUME NEW b \in Barriers, ClearFirst(b)
      PROVE  ReportInv'
  BY <1>14 DEF ClearFirst, Lock
<1>15. ASSUME NEW b \in Barriers, ClearPrevious(b)
      PROVE  ReportInv'
  BY <1>15 DEF ClearPrevious, PassedFirst, Unlock, Return
<1>16. ASSUME NEW b \in Barriers, LoadSignal(b)
      PROVE  ReportInv'
  BY <1>16 DEF LoadSignal
<1>17. ASSUME NEW b \in Barriers, Wake(b)
      PROVE  ReportInv'
  BY <1>17 DEF Wake
<1>18. ASSUME NEW b \in Barriers, Cancel(b)
      PROVE  ReportInv'
  BY <1>18 DEF Cancel, Return
<1>19. ASSUME NEW p \in Procs, StorePrevious(p)
      PROVE  ReportInv'
  BY <1>19 DEF StorePrevious
<1>20. ASSUME NEW p \in Procs, StoreFirst(p)
      PROVE  ReportInv'
  BY <1>20 DEF StoreFirst
<1>21. ASSUME NEW p \in Procs, Rotate(p)
      PROVE  ReportInv'
  BY <1>21 DEF Rotate, Rotated, CloseSignals, Closed
<1>22. ASSUME NEW p \in Procs, After(p)
      PROVE  ReportInv'
  BY <1>22 DEF After, Unlock, Return
<1>23. ASSUME NEW r \in Requesters, Request(r)
      PROVE  ReportInv'
  BY <1>23 DEF Request
<1>24. ASSUME NEW r \in Requesters, SetCurrent(r)
      PROVE  ReportInv'
  BY <1>24 DEF SetCurrent, SwapCurrent, Return
<1>25. ASSUME NEW r \in Requesters, SetNext(r)
      PROVE  ReportInv'
  BY <1>25 DEF SetNext, Return
<1>26. ASSUME NEW r \in Requesters, ClearNext(r)
      PROVE  ReportInv'
  BY <1>26 DEF ClearNext
<1>27. ASSUME NEW r \in Requesters, NextRotate(r)
      PROVE  ReportInv'
  BY <1>27 DEF NextRotate, CloseSignals, Closed, Unlock
<1>28. CASE UNCHANGED vars
  BY <1>28 DEF vars
<1> QED
  BY <1>1, <1>2, <1>3, <1>4, <1>5, <1>6, <1>7, <1>8, <1>9, <1>10, <1>11,
     <1>12, <1>13, <1>14, <1>15, <1>16, <1>17, <1>18, <1>19, <1>20,
     <1>21, <1>22, <1>23, <1>24, <1>25, <1>26, <1>27, <1>28
  DEF Next, BarrierStep, SwitchStep, RequesterStep

\* The invariant of a switch without a KeepUnless condition.
LEMMA DirectInductive ==
  ASSUME ~KeepUnless
  PROVE  Spec => [](TypeOK /\ LockInv /\ DirectInv /\ ReportInv)
<1>1. Init => TypeOK /\ LockInv /\ DirectInv /\ ReportInv
  BY OutputsAssumption, ProcsAssumption
  DEF Init, InitWith, TypeOK, LockInv, DirectInv, ReportInv, Values, Procs, Labels,
      LockedLabels, SwitchLabels
<1>2. TypeOK /\ LockInv /\ DirectInv /\ ReportInv /\ [Next]_vars =>
        (TypeOK /\ LockInv /\ DirectInv /\ ReportInv)'
  BY TypeStep, LockStep, DirectStep, ReportStep
<1> QED
  BY <1>1, <1>2, PTL DEF Spec

\* Without a KeepUnless condition the OnAfterSwitch calls follow the current
\* value, so that whoever mirrors it (StreamMux, InputWithFallback) ends up
\* with the value of the switch.
THEOREM ReportsFollow ==
  ASSUME ~KeepUnless
  PROVE  Spec => []ReportedIsCurrent
<1>1. ReportInv => ReportedIsCurrent
  BY DEF ReportInv, ReportedIsCurrent
<1> QED
  BY <1>1, DirectInductive, PTL

----------------------------------------------------------------------------
(* Barriers that wait.                                                     *)

\* Has CurrentValue changed and ChangeSignal not yet?
Rotating == \E p \in Procs : pc[p] \in {"store_previous", "store_first", "rotate"}

\* What a barrier loaded is what is current, or it was told, or will be.
HeldInv ==
  \A b \in Barriers :
    /\ pc[b] \in BarrierLabels \ {"load_current"} =>
         from[b] = current \/ raced[b] \/ Rotating
    /\ pc[b] \in {"load_signal", "wait"} => from[b] # OutputOf[b]

\* Every step keeps what the barriers know of the current value.
LEMMA HeldStep ==
  ASSUME ~KeepUnless, TypeOK, LockInv, DirectInv, HeldInv, [Next]_vars
  PROVE  HeldInv'
<1> USE ProcsAssumption
  DEF At, Goto, shared, locals, history, Procs, TypeOK, LockInv, DirectInv,
      HeldInv, BarrierLabels, LockedLabels, SwitchLabels, Rotating
<1>1. ASSUME NEW b \in Barriers, Deliver(b)
      PROVE  HeldInv'
  BY <1>1 DEF Deliver
<1>2. ASSUME NEW b \in Barriers, LoadCurrent(b)
      PROVE  HeldInv'
  BY <1>2 DEF LoadCurrent
<1>3. ASSUME NEW b \in Barriers, LoadNext(b)
      PROVE  HeldInv'
  BY <1>3 DEF LoadNext
<1>4. ASSUME NEW b \in Barriers, LoadPrevious(b)
      PROVE  HeldInv'
  BY <1>4 DEF LoadPrevious
<1>5. ASSUME NEW b \in Barriers, CheckFirst(b)
      PROVE  HeldInv'
  BY <1>5 DEF CheckFirst
<1>6. ASSUME NEW b \in Barriers, NoteFirst(b)
      PROVE  HeldInv'
  BY <1>6 DEF NoteFirst
<1>7. ASSUME NEW b \in Barriers, Decide(b)
      PROVE  HeldInv'
  BY <1>7 DEF Decide
<1>8. ASSUME NEW b \in Barriers, CommitCurrent(b)
      PROVE  HeldInv'
  BY <1>8 DEF CommitCurrent
<1>9. ASSUME NEW b \in Barriers, CommitNext(b)
      PROVE  HeldInv'
  BY <1>9 DEF CommitNext, Committed, Unlock
<1>10. ASSUME NEW b \in Barriers, Pass(b)
      PROVE  HeldInv'
  BY <1>10 DEF Pass, Return
<1>11. ASSUME NEW b \in Barriers, PassFirst(b)
      PROVE  HeldInv'
  BY <1>11 DEF PassFirst
<1>12. ASSUME NEW b \in Barriers, Block(b)
      PROVE  HeldInv'
  BY <1>12 DEF Block
<1>13. ASSUME NEW b \in Barriers, Drop(b)
      PROVE  HeldInv'
  BY <1>13 DEF Drop, Return
<1>14. ASSUME NEW b \in Barriers, ClearFirst(b)
      PROVE  HeldInv'
  BY <1>14 DEF ClearFirst, Lock
<1>15. ASSUME NEW b \in Barriers, ClearPrevious(b)
      PROVE  HeldInv'
  BY <1>15 DEF ClearPrevious, PassedFirst, Unlock, Return
<1>16. ASSUME NEW b \in Barriers, LoadSignal(b)
      PROVE  HeldInv'
  BY <1>16 DEF LoadSignal
<1>17. ASSUME NEW b \in Barriers, Wake(b)
      PROVE  HeldInv'
  BY <1>17 DEF Wake
<1>18. ASSUME NEW b \in Barriers, Cancel(b)
      PROVE  HeldInv'
  BY <1>18 DEF Cancel, Return
<1>19. ASSUME NEW p \in Procs, StorePrevious(p)
      PROVE  HeldInv'
  BY <1>19 DEF StorePrevious
<1>20. ASSUME NEW p \in Procs, StoreFirst(p)
      PROVE  HeldInv'
  BY <1>20 DEF StoreFirst
<1>21. ASSUME NEW p \in Procs, Rotate(p)
      PROVE  HeldInv'
  BY <1>21 DEF Rotate, Rotated, CloseSignals, Closed
<1>22. ASSUME NEW p \in Procs, After(p)
      PROVE  HeldInv'
  BY <1>22 DEF After, Unlock, Return
<1>23. ASSUME NEW r \in Requesters, Request(r)
      PROVE  HeldInv'
  BY <1>23 DEF Request
<1>24. ASSUME NEW r \in Requesters, SetCurrent(r)
      PROVE  HeldInv'
  BY <1>24 DEF SetCurrent, SwapCurrent, Return
<1>25. ASSUME NEW r \in Requesters, SetNext(r)
      PROVE  HeldInv'
  BY <1>25 DEF SetNext, Return
<1>26. ASSUME NEW r \in Requesters, ClearNext(r)
      PROVE  HeldInv'
  BY <1>26 DEF ClearNext
<1>27. ASSUME NEW r \in Requesters, NextRotate(r)
      PROVE  HeldInv'
  BY <1>27 DEF NextRotate, CloseSignals, Closed, Unlock
<1>28. CASE UNCHANGED vars
  BY <1>28 DEF vars
<1> QED
  BY <1>1, <1>2, <1>3, <1>4, <1>5, <1>6, <1>7, <1>8, <1>9, <1>10, <1>11,
     <1>12, <1>13, <1>14, <1>15, <1>16, <1>17, <1>18, <1>19, <1>20,
     <1>21, <1>22, <1>23, <1>24, <1>25, <1>26, <1>27, <1>28
  DEF Next, BarrierStep, SwitchStep, RequesterStep

\* A barrier that was held although its output is the current one was raced
\* by a switch between two loads of one GetState call: a switch that begins
\* after GetState returned never leaves a barrier waiting.
THEOREM HeldOnlyByRace ==
  ASSUME ~KeepUnless
  PROVE  Spec => []HeldOnlyIfRaced
<1>1. Init => HeldInv
  BY ProcsAssumption DEF Init, InitWith, HeldInv, BarrierLabels, Procs
<1>2. /\ TypeOK /\ LockInv /\ DirectInv /\ HeldInv
      /\ [Next]_vars
      => HeldInv'
  BY HeldStep
<1>3. HeldInv => HeldOnlyIfRaced
  BY DEF HeldInv, HeldOnlyIfRaced, Rotating, BarrierLabels, At
<1> QED
  BY <1>1, <1>2, <1>3, DirectInductive, PTL DEF Spec

----------------------------------------------------------------------------
(* The packet that passes both outputs.                                    *)

\* A barrier that let its extra packet pass does not believe any more that
\* its output is the previous one, unless the next switch is under way.
ExtraInv ==
  \A b \in Barriers :
    /\ pc[b] \in {"clear_first", "clear_previous"} => back[b] = OutputOf[b]
    /\ extra[b] => \A p \in Procs : pc[p] # "after"
    /\ extra[b] =>
         \/ Rotating
         \/ /\ previous # OutputOf[b]
            /\ pc[b] \notin {"idle", "load_current", "load_next", "load_previous"} =>
                 back[b] # OutputOf[b]

\* Every step keeps a barrier from a second extra packet.
LEMMA ExtraStep ==
  ASSUME TypeOK, LockInv, ExtraInv, [Next]_vars
  PROVE  ExtraInv'
<1> USE OutputsAssumption, ProcsAssumption
  DEF At, Goto, shared, locals, history, Procs, TypeOK, LockInv, ExtraInv,
      LockedLabels, SwitchLabels, Rotating
<1>1. ASSUME NEW b \in Barriers, Deliver(b)
      PROVE  ExtraInv'
  BY <1>1 DEF Deliver
<1>2. ASSUME NEW b \in Barriers, LoadCurrent(b)
      PROVE  ExtraInv'
  BY <1>2 DEF LoadCurrent
<1>3. ASSUME NEW b \in Barriers, LoadNext(b)
      PROVE  ExtraInv'
  BY <1>3 DEF LoadNext
<1>4. ASSUME NEW b \in Barriers, LoadPrevious(b)
      PROVE  ExtraInv'
  BY <1>4 DEF LoadPrevious
<1>5. ASSUME NEW b \in Barriers, CheckFirst(b)
      PROVE  ExtraInv'
  BY <1>5 DEF CheckFirst
<1>6. ASSUME NEW b \in Barriers, NoteFirst(b)
      PROVE  ExtraInv'
  BY <1>6 DEF NoteFirst
<1>7. ASSUME NEW b \in Barriers, Decide(b)
      PROVE  ExtraInv'
  BY <1>7 DEF Decide
<1>8. ASSUME NEW b \in Barriers, CommitCurrent(b)
      PROVE  ExtraInv'
  BY <1>8 DEF CommitCurrent
<1>9. ASSUME NEW b \in Barriers, CommitNext(b)
      PROVE  ExtraInv'
  BY <1>9 DEF CommitNext, Committed, Unlock
<1>10. ASSUME NEW b \in Barriers, Pass(b)
      PROVE  ExtraInv'
  BY <1>10 DEF Pass, Return
<1>11. ASSUME NEW b \in Barriers, PassFirst(b)
      PROVE  ExtraInv'
  BY <1>11 DEF PassFirst, IsFirst
<1>12. ASSUME NEW b \in Barriers, Block(b)
      PROVE  ExtraInv'
  BY <1>12 DEF Block
<1>13. ASSUME NEW b \in Barriers, Drop(b)
      PROVE  ExtraInv'
  BY <1>13 DEF Drop, Return
<1>14. ASSUME NEW b \in Barriers, ClearFirst(b)
      PROVE  ExtraInv'
  BY <1>14 DEF ClearFirst, Lock
<1>15. ASSUME NEW b \in Barriers, ClearPrevious(b)
      PROVE  ExtraInv'
  BY <1>15 DEF ClearPrevious, PassedFirst, Unlock, Return
<1>16. ASSUME NEW b \in Barriers, LoadSignal(b)
      PROVE  ExtraInv'
  BY <1>16 DEF LoadSignal
<1>17. ASSUME NEW b \in Barriers, Wake(b)
      PROVE  ExtraInv'
  BY <1>17 DEF Wake
<1>18. ASSUME NEW b \in Barriers, Cancel(b)
      PROVE  ExtraInv'
  BY <1>18 DEF Cancel, Return
<1>19. ASSUME NEW p \in Procs, StorePrevious(p)
      PROVE  ExtraInv'
  BY <1>19 DEF StorePrevious
<1>20. ASSUME NEW p \in Procs, StoreFirst(p)
      PROVE  ExtraInv'
  BY <1>20 DEF StoreFirst
<1>21. ASSUME NEW p \in Procs, Rotate(p)
      PROVE  ExtraInv'
  BY <1>21 DEF Rotate, Rotated, CloseSignals, Closed
<1>22. ASSUME NEW p \in Procs, After(p)
      PROVE  ExtraInv'
  <2> USE <1>22
  <2>1. \A b \in Barriers : ~extra[b]
    BY DEF After
  <2>2. extra' = extra
    BY DEF After
  <2>3. ASSUME NEW b \in Barriers
        PROVE  pc'[b] \in {"clear_first", "clear_previous"} => back'[b] = OutputOf[b]
    BY DEF After, Unlock, Return
  <2> QED
    BY <2>1, <2>2, <2>3
<1>23. ASSUME NEW r \in Requesters, Request(r)
      PROVE  ExtraInv'
  BY <1>23 DEF Request
<1>24. ASSUME NEW r \in Requesters, SetCurrent(r)
      PROVE  ExtraInv'
  BY <1>24 DEF SetCurrent, SwapCurrent, Return
<1>25. ASSUME NEW r \in Requesters, SetNext(r)
      PROVE  ExtraInv'
  BY <1>25 DEF SetNext, Return
<1>26. ASSUME NEW r \in Requesters, ClearNext(r)
      PROVE  ExtraInv'
  BY <1>26 DEF ClearNext
<1>27. ASSUME NEW r \in Requesters, NextRotate(r)
      PROVE  ExtraInv'
  BY <1>27 DEF NextRotate, CloseSignals, Closed, Unlock
<1>28. CASE UNCHANGED vars
  BY <1>28 DEF vars
<1> QED
  BY <1>1, <1>2, <1>3, <1>4, <1>5, <1>6, <1>7, <1>8, <1>9, <1>10, <1>11,
     <1>12, <1>13, <1>14, <1>15, <1>16, <1>17, <1>18, <1>19, <1>20,
     <1>21, <1>22, <1>23, <1>24, <1>25, <1>26, <1>27, <1>28
  DEF Next, BarrierStep, SwitchStep, RequesterStep

\* Per switch, a barrier of the output that was left passes one packet at most.
THEOREM ExtraPacketIsOne == Spec => OneExtraPacket
<1>1. Init => ExtraInv
  BY ProcsAssumption DEF Init, InitWith, ExtraInv, Procs
<1>2. TypeOK /\ LockInv /\ ExtraInv /\ [Next]_vars => ExtraInv'
  BY ExtraStep
<1>3. TypeOK /\ LockInv /\ ExtraInv =>
        \A b \in Barriers : At(b, "clear_previous") => ~extra[b]
  <2> SUFFICES ASSUME TypeOK, LockInv, ExtraInv, NEW b \in Barriers, At(b, "clear_previous")
               PROVE  ~extra[b]
    OBVIOUS
  <2>1. mutex = b /\ ~Rotating
    BY ProcsAssumption DEF LockInv, LockedLabels, SwitchLabels, Rotating, At, Procs
  <2> QED
    BY <2>1 DEF ExtraInv, At
<1>4. TypeOK /\ LockInv /\ ExtraInv =>
        [\A b \in Barriers :
           At(b, "clear_previous") /\ pc'[b] = "idle" => ~extra[b]]_vars
  BY <1>3
<1> QED
  BY <1>1, <1>2, <1>4, Inductive, PTL DEF Spec, OneExtraPacket

=============================================================================
