---------------------------- MODULE ReorderByDTS ----------------------------
(***************************************************************************)
(* kernel/reorder_monotonic_dts.go: the items of several streams wait in a *)
(* queue ordered by DTS until every stream has one there, and the oldest is*)
(* sent.  Beside the queue, each stream has a heap of the DTSs of its items*)
(* and a counter says how many of these heaps are empty.                   *)
(*                                                                         *)
(* pushToQueue holds Locker from its first step to its last; Generate, once*)
(* the kernel is closed, and NotifyAboutPacketSource do not take it.       *)
(***************************************************************************)
EXTENDS Integers, Sequences, FiniteSets

CONSTANTS
  Streams,            \* the streams of the sources
  Announced,          \* those NotifyAboutPacketSource may tell of
  DTSs,               \* the timestamps, 1..
  MaxBufferSize, MaxDTSDifference,
  MaxItems            \* bounds the items

ASSUME ReorderAssumption ==
  /\ IsFiniteSet(Streams) /\ Streams # {} /\ Announced \subseteq Streams
  /\ DTSs \subseteq Nat /\ {MaxBufferSize, MaxDTSDifference, MaxItems} \subseteq Nat

VARIABLES
  itemQueue,          \* a set: items differ in n
  streamDTSs,         \* per known stream its heap, as a sequence in order
  emptyQueuesCount, started, prevDTS, discards, closed,
  pushed,             \* the items so far
  item,               \* the item of the call of pushToQueue that runs
  at,                 \* where it is: "none", "enforce", "full", "push", "pull"
  flushing,           \* Generate flushes the queue
  reorderGone,        \* the context is done
  assertFailed,       \* an assertion has failed: a panic
  wentBackwards,      \* an item was older than the one sent before
  excuse,             \* what may make it so: see NoDisorderOfItsOwn
  newest              \* per stream, the greatest DTS that has come

reorder == <<itemQueue, streamDTSs, emptyQueuesCount, started, prevDTS, discards, closed, pushed, item, at,
             flushing, reorderGone, assertFailed, wentBackwards, excuse, newest>>

Known == DOMAIN streamDTSs
NoItem == [n |-> 0, stream |-> CHOOSE s \in Streams : TRUE, dts |-> 0]
Oldest == {i \in itemQueue : \A j \in itemQueue : i.dts <= j.dts}
\* A heap in order stays so.
Insert(heap, dts) ==
  [k \in 1..Len(heap) + 1 |->
     IF k <= Len(heap) /\ heap[k] <= dts THEN heap[k] ELSE IF k = 1 \/ heap[k - 1] <= dts THEN dts ELSE heap[k - 1]]

----------------------------------------------------------------------------
(* sendOneItemFromQueue, also where it fails.                              *)

\* The item leaves the queue and its stream's heap; the smallest DTS of the
\* heap must be the item's.
Take(i) ==
  /\ itemQueue' = itemQueue \ {i}
  /\ LET heap == streamDTSs[i.stream]
     IN IF heap # <<>> /\ Head(heap) = i.dts
        THEN /\ streamDTSs' = [streamDTSs EXCEPT ![i.stream] = Tail(@)]
             /\ emptyQueuesCount' = emptyQueuesCount + (IF Len(heap) = 1 THEN 1 ELSE 0)
             /\ UNCHANGED assertFailed
        ELSE assertFailed' = TRUE /\ UNCHANGED <<streamDTSs, emptyQueuesCount>>

\* An item that is older than the one sent before is dropped: that is an error
\* unless the kernel discards such items.
SendOk ==
  \E i \in Oldest :
    /\ Take(i)
    /\ IF prevDTS > i.dts
       THEN discards /\ wentBackwards' = TRUE /\ UNCHANGED prevDTS
       ELSE prevDTS' = i.dts /\ UNCHANGED wentBackwards

SendFails ==
  \E i \in Oldest :
    /\ Take(i)
    /\ \/ prevDTS > i.dts /\ ~discards /\ wentBackwards' = TRUE /\ UNCHANGED prevDTS
       \/ prevDTS <= i.dts /\ (reorderGone \/ closed) /\ prevDTS' = i.dts /\ UNCHANGED wentBackwards

Kept == <<started, discards, closed, pushed, reorderGone, newest>>
Return == at' = "none" /\ item' = NoItem
Excuse(e) == excuse' = excuse \cup {e}

----------------------------------------------------------------------------
(* pushToQueue.                                                            *)

Push(s, d) ==
  /\ at = "none" /\ pushed < MaxItems /\ pushed' = pushed + 1
  /\ item' = [n |-> pushed', stream |-> s, dts |-> d] /\ at' = "enforce"
  /\ newest' = [newest EXCEPT ![s] = IF d > @ THEN d ELSE @]
  /\ excuse' = excuse \cup (IF d < newest[s] THEN {"disordered"} ELSE {})
  /\ UNCHANGED <<itemQueue, streamDTSs, emptyQueuesCount, started, prevDTS, discards, closed, flushing,
                 reorderGone, assertFailed, wentBackwards>>

\* enforceLowDTSDifference: an item that is too old is dropped; what is too
\* old against it is sent.
TooOld == \E i \in Oldest : i.dts - item.dts > MaxDTSDifference
TooNew == \E i \in Oldest : i.dts + MaxDTSDifference < item.dts
NotSending == UNCHANGED <<itemQueue, streamDTSs, emptyQueuesCount, prevDTS, assertFailed, wentBackwards>>

EnforceLowDTSDifference ==
  /\ at = "enforce"
  /\ \/ TooOld /\ Return /\ NotSending /\ UNCHANGED excuse
     \/ TooNew /\ SendOk /\ Excuse("forced") /\ UNCHANGED <<at, item>>
     \/ TooNew /\ SendFails /\ Return /\ Excuse("forced")
     \/ ~TooOld /\ ~TooNew /\ at' = "full" /\ NotSending /\ UNCHANGED <<item, excuse>>
  /\ UNCHANGED <<Kept, flushing>>

QueueFullByOne == Cardinality(itemQueue) > MaxBufferSize
QueueFull == Cardinality(itemQueue) >= MaxBufferSize

\* A full queue loses its oldest item or sends it.  When that fails the new
\* item is lost with it, and no error is returned.
MakeRoom ==
  /\ at = "full"
  /\ \/ ~QueueFull /\ at' = "push" /\ NotSending /\ UNCHANGED <<item, excuse>>
     \/ /\ QueueFull /\ Excuse("forced")
        /\ \/ discards /\ at' = "push" /\ UNCHANGED item
              /\ \E i \in Oldest : itemQueue' = itemQueue \ {i}
              /\ UNCHANGED <<streamDTSs, emptyQueuesCount, prevDTS, assertFailed, wentBackwards>>
           \/ ~discards /\ SendOk /\ at' = "push" /\ UNCHANGED item
           \/ ~discards /\ SendFails /\ Return
  /\ UNCHANGED <<Kept, flushing>>

\* The counter: one more for a new stream, one less when an empty heap gets
\* its first DTS.
AddedUncounted(s) == emptyQueuesCount
Added(s) ==
  emptyQueuesCount + (IF s \notin Known THEN 1 ELSE 0)
                   - (IF s \notin Known \/ streamDTSs[s] = <<>> THEN 1 ELSE 0)

Enqueue ==
  LET s == item.stream
      heap == IF s \in Known THEN streamDTSs[s] ELSE <<>>
  IN /\ at = "push"
     /\ itemQueue' = itemQueue \cup {item}
     /\ streamDTSs' = [t \in Known \cup {s} |-> IF t = s THEN Insert(heap, item.dts) ELSE streamDTSs[t]]
     /\ emptyQueuesCount' = Added(s)
     /\ excuse' = excuse \cup (IF s \notin Known /\ prevDTS > 0 THEN {"late stream"} ELSE {})
     /\ IF emptyQueuesCount' # 0
        THEN Return /\ UNCHANGED started
        ELSE \/ started' = TRUE /\ at' = "pull" /\ UNCHANGED item
             \/ ~started /\ Return /\ UNCHANGED started  \* StartCondition does not hold
     /\ UNCHANGED <<prevDTS, discards, closed, pushed, flushing, reorderGone, assertFailed, wentBackwards, newest>>

\* pullAndSendPendingItems asserts that the queue has an item.
HeldBack == emptyQueuesCount # 0

Pull ==
  /\ at = "pull"
  /\ \/ HeldBack /\ Return /\ NotSending
     \/ ~HeldBack /\ itemQueue = {} /\ assertFailed' = TRUE
        /\ UNCHANGED <<at, item, itemQueue, streamDTSs, emptyQueuesCount, prevDTS, wentBackwards>>
     \/ ~HeldBack /\ SendOk /\ UNCHANGED <<at, item>>
     \/ ~HeldBack /\ SendFails /\ Return
  /\ UNCHANGED <<Kept, flushing, excuse>>

----------------------------------------------------------------------------
(* The others.                                                             *)

CloseReorder ==
  /\ at = "none" /\ ~closed /\ closed' = TRUE /\ flushing' = TRUE
  /\ UNCHANGED <<itemQueue, streamDTSs, emptyQueuesCount, started, prevDTS, discards, pushed, item, at,
                 reorderGone, assertFailed, wentBackwards, excuse, newest>>

\* Generate waits for Close and sends what is left; an error ends it.
Flush ==
  /\ flushing /\ Excuse("forced")
  /\ \/ SendOk /\ UNCHANGED flushing
     \/ (SendFails \/ (itemQueue = {} /\ NotSending)) /\ flushing' = FALSE
  /\ UNCHANGED <<Kept, item, at>>

ReorderNotified(s) ==
  /\ s \in Announced \ Known
  /\ streamDTSs' = [t \in Known \cup {s} |-> IF t = s THEN <<>> ELSE streamDTSs[t]]
  /\ emptyQueuesCount' = emptyQueuesCount + 1
  /\ excuse' = excuse \cup (IF prevDTS > 0 THEN {"late stream"} ELSE {})
  /\ UNCHANGED <<itemQueue, started, prevDTS, discards, closed, pushed, item, at, flushing, reorderGone,
                 assertFailed, wentBackwards, newest>>

CtxDone ==
  /\ ~reorderGone /\ reorderGone' = TRUE
  /\ UNCHANGED <<itemQueue, streamDTSs, emptyQueuesCount, started, prevDTS, discards, closed, pushed, item, at,
                 flushing, assertFailed, wentBackwards, excuse, newest>>

ReorderInit ==
  /\ itemQueue = {} /\ streamDTSs = <<>> /\ emptyQueuesCount = 0 /\ started = FALSE /\ prevDTS = 0
  /\ discards \in BOOLEAN /\ closed = FALSE /\ pushed = 0 /\ item = NoItem /\ at = "none"
  /\ flushing = FALSE /\ reorderGone = FALSE /\ assertFailed = FALSE /\ wentBackwards = FALSE
  /\ excuse = {} /\ newest = [s \in Streams |-> 0]

ReorderNext ==
  /\ ~assertFailed
  /\ \/ EnforceLowDTSDifference \/ MakeRoom \/ Enqueue \/ Pull \/ CloseReorder \/ Flush \/ CtxDone
     \/ \E s \in Streams : ReorderNotified(s) \/ \E d \in DTSs : Push(s, d)

ReorderTypeOK ==
  /\ Known \subseteq Streams /\ \A s \in Known : streamDTSs[s] \in Seq(DTSs)
  /\ \A i \in itemQueue \cup {item} : i.n \in 0..MaxItems /\ i.stream \in Streams
  /\ emptyQueuesCount \in Nat /\ prevDTS \in Nat /\ Cardinality(itemQueue) <= MaxBufferSize
  /\ at \in {"none", "enforce", "full", "push", "pull"}
  /\ {started, discards, closed, flushing, reorderGone, assertFailed, wentBackwards} \subseteq BOOLEAN
  /\ excuse \subseteq {"forced", "disordered", "late stream"}

----------------------------------------------------------------------------
(* Properties.                                                             *)

\* The counter counts the streams whose heap is empty.
EmptyCountRight == emptyQueuesCount = Cardinality({s \in Known : streamDTSs[s] = <<>>})

\* No item waits while every stream has one, once the kernel has started.
NothingWaitsInVain ==
  at = "none" /\ started /\ ~reorderGone /\ ~closed /\ ~wentBackwards /\ ~assertFailed => emptyQueuesCount > 0

\* The kernel does not put items out of order by itself: a stream came
\* disordered or late, or the queue was full, the difference too large, or it
\* was closed.
NoDisorderOfItsOwn == wentBackwards => excuse # {}

\* The heap of a stream and the queue agree on its oldest item, so that no
\* assertion fails, unless the kernel discards: then a full queue loses its
\* oldest item and the heap does not.
AssertionsHold == assertFailed => discards

\* The items wait for one another as long as they have to and not longer, and
\* leave in order.
ReorderSafe == EmptyCountRight /\ NothingWaitsInVain /\ NoDisorderOfItsOwn /\ AssertionsHold
=============================================================================
