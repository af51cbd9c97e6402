------------------------------ MODULE NodeDrain ------------------------------
(***************************************************************************)
(* How a node knows that it is drained (node/drain.go).  Nobody looks at   *)
(* the queues: six counters are incremented along the way of an object,    *)
(* Serve and Flush sample them one after the other, without stopping those *)
(* who increment them, and publish the verdict in IsDrainedValue, for      *)
(* which WaitForDrain waits.                                               *)
(*                                                                         *)
(* One media type of one sub-section: the verdicts on all of them are      *)
(* conjoined.                                                              *)
(***************************************************************************)
EXTENDS Integers, Sequences

CONSTANTS
  MaxObjects,   \* bound: objects that are addressed to the node
  QueueSize,    \* capacity of the input, inner and output channel
  MaxHeld,      \* objects that the kernel can buffer
  MayStop,      \* the processor may be cancelled
  Waiters       \* goroutines in WaitForDrain

ASSUME SizeAssumption ==
  MaxObjects \in Nat /\ QueueSize \in Nat \ {0} /\ MaxHeld \in Nat
ASSUME StopAssumption == MayStop \in BOOLEAN

Counters == {"sent", "omitted", "generated", "processed", "missed", "addressed"}
Updaters == {"serve", "flush"}   \* those who call updateProcInfoLocked

VARIABLES
  count,      \* the counters of the node and of its processor
  offered,    \* objects addressed that no queue has taken yet
  in,         \* objects in the input channel
  reader,     \* the reader loop
  held,       \* objects that the kernel buffers
  pre,        \* objects in the inner channel
  forwarder,
  out,        \* objects in the output channel
  serve,      \* Serve
  flush,      \* a goroutine that calls Flush
  stopped,    \* the processor's context is done
  at,         \* how far each updater is
  sample,     \* what it has read
  verdict,    \* what it concludes
  drained,    \* IsDrainedValue
  waiter,     \* each goroutine in WaitForDrain
  signalled   \* the channel it loaded has been closed

pipe == <<count, offered, in, reader, held, pre, forwarder, out, stopped>>
update == <<at, sample, verdict, drained>>
wait == <<waiter, signalled>>
vars == <<pipe, serve, flush, update, wait>>

Count(c) == count' = [count EXCEPT ![c] = @ + 1]

----------------------------------------------------------------------------
(* An object's way through the node.                                       *)

OutsideUnchanged == UNCHANGED <<flush, update, wait>>

\* pushToDestination of an upstream node counts before it offers.
Address ==
  /\ count["addressed"] < MaxObjects
  /\ offered' = offered + 1
  /\ Count("addressed")
  /\ UNCHANGED <<in, reader, held, pre, forwarder, out, stopped, serve>> /\ OutsideUnchanged

Accept ==
  /\ offered > 0 /\ in < QueueSize
  /\ offered' = offered - 1 /\ in' = in + 1
  /\ UNCHANGED <<count, reader, held, pre, forwarder, out, stopped, serve>> /\ OutsideUnchanged

\* The context, the input filter, the discarding channel, or a full queue
\* with frame dropping.
Miss ==
  /\ offered > 0
  /\ offered' = offered - 1
  /\ Count("missed")
  /\ UNCHANGED <<in, reader, held, pre, forwarder, out, stopped, serve>> /\ OutsideUnchanged

Read(from, to) == reader = from /\ reader' = to
ReceiveAny ==
  /\ Read("select", "kernel") \/ Read("closing", "last_kernel")
  /\ in' = in - 1
  /\ UNCHANGED <<count, offered, held, pre, forwarder, out, stopped, serve>> /\ OutsideUnchanged
Receive == in > 0 /\ ReceiveAny

\* SendInput drops the object, buffers it or emits one.
Kernel ==
  /\ Read("kernel", "count") \/ Read("last_kernel", "last_count")
  /\ \/ UNCHANGED <<held, pre>>
     \/ held < MaxHeld /\ held' = held + 1 /\ UNCHANGED pre
     \/ pre < QueueSize /\ pre' = pre + 1 /\ UNCHANGED held
  /\ UNCHANGED <<count, offered, in, forwarder, out, stopped, serve>> /\ OutsideUnchanged

\* The object is counted, whatever SendInput has returned.  Here the kernel fails
\* only because the context is done, which ends the loop; any error ends the
\* deferred one.
Processed ==
  /\ \/ Read("count", "select")
     \/ stopped /\ Read("count", "closing")
     \/ Read("last_count", "closing")
     \/ Read("last_count", "done")
  /\ Count("processed")
  /\ UNCHANGED <<offered, in, held, pre, forwarder, out, stopped, serve>> /\ OutsideUnchanged

StopReading ==
  /\ stopped /\ Read("select", "closing")
  /\ UNCHANGED <<count, offered, in, held, pre, forwarder, out, stopped, serve>> /\ OutsideUnchanged

\* The deferred loop takes what is left in the input, and does not wait for more.
EndReading ==
  /\ in = 0 /\ Read("closing", "done")
  /\ UNCHANGED <<count, offered, in, held, pre, forwarder, out, stopped, serve>> /\ OutsideUnchanged

Take ==
  /\ pre > 0 /\ pre' = pre - 1
  /\ forwarder = "receive" /\ forwarder' = "count"
  /\ UNCHANGED <<count, offered, in, reader, held, out, stopped, serve>> /\ OutsideUnchanged

Generated ==
  /\ forwarder = "count" /\ forwarder' = "send"
  /\ Count("generated")
  /\ UNCHANGED <<offered, in, reader, held, pre, out, stopped, serve>> /\ OutsideUnchanged

Give ==
  /\ forwarder = "send" /\ forwarder' = "receive"
  /\ out < QueueSize /\ out' = out + 1
  /\ UNCHANGED <<count, offered, in, reader, held, pre, stopped, serve>> /\ OutsideUnchanged

Omit ==
  /\ stopped /\ forwarder = "send" /\ forwarder' = "done"
  /\ Count("omitted")
  /\ UNCHANGED <<offered, in, reader, held, pre, out, stopped, serve>> /\ OutsideUnchanged

StopForwarding ==
  /\ stopped /\ forwarder = "receive" /\ forwarder' = "done"
  /\ UNCHANGED <<count, offered, in, reader, held, pre, out, stopped, serve>> /\ OutsideUnchanged

Stop ==
  /\ MayStop /\ ~stopped /\ stopped' = TRUE
  /\ UNCHANGED <<count, offered, in, reader, held, pre, forwarder, out, serve>> /\ OutsideUnchanged

----------------------------------------------------------------------------
(* Serve: an update at the top of its loop, another one before each push,  *)
(* and Sent is counted behind the push.                                    *)

Pull ==
  /\ serve = "select" /\ serve' = "push_update"
  /\ out > 0 /\ out' = out - 1
  /\ UNCHANGED <<count, offered, in, reader, held, pre, forwarder, stopped>> /\ OutsideUnchanged

SentBy(from) ==
  /\ serve = from /\ serve' = IF from = "push" THEN "update" ELSE "push"
  /\ Count("sent")
  /\ UNCHANGED <<offered, in, reader, held, pre, forwarder, out, stopped>> /\ OutsideUnchanged

SentFirst == \/ at["serve"] = 0 /\ SentBy("push_update")
             \/ serve = "push" /\ serve' = "update" /\ UNCHANGED pipe /\ OutsideUnchanged
Sent == SentBy("push")

\* The ticker of the loop.
NoTick == FALSE /\ UNCHANGED vars
Tick ==
  /\ serve = "select" /\ serve' = "update"
  /\ UNCHANGED pipe /\ OutsideUnchanged

Return ==
  /\ serve = "select" /\ serve' = "done"
  /\ forwarder = "done" /\ out = 0
  /\ UNCHANGED pipe /\ OutsideUnchanged

----------------------------------------------------------------------------
(* updateProcInfoLocked: IsDirty, six loads, a Swap and, if it changed the *)
(* value, the rotation of the channel.                                     *)

OrderForward == <<"addressed", "missed", "processed", "generated", "omitted", "sent">>
Order == <<"sent", "omitted", "generated", "processed", "missed", "addressed">>

SwapAt == Len(Order) + 1
RotateAt == SwapAt + 1

Updating(u) == IF u = "serve" THEN serve \in {"update", "push_update"} ELSE flush = "update"

CheckDirty(u) ==
  /\ Updating(u) /\ at[u] = 0
  /\ at' = [at EXCEPT ![u] = IF held > 0 THEN SwapAt ELSE 1]
  /\ verdict' = [verdict EXCEPT ![u] = FALSE]
  /\ UNCHANGED <<pipe, serve, flush, sample, drained, wait>>

OutputBalanced(s) == s["sent"] + s["omitted"] = s["generated"]
InputBalanced(s) == s["processed"] + s["missed"] = s["addressed"]

\* allWentInAndOut
Load(u) ==
  /\ at[u] \in 1..Len(Order)
  /\ sample' = [sample EXCEPT ![u][Order[at[u]]] = count[Order[at[u]]]]
  /\ at' = [at EXCEPT ![u] = IF @ = Len(Order) THEN SwapAt ELSE @ + 1]
  /\ verdict' = [verdict EXCEPT ![u] =
                   at[u] = Len(Order) /\ OutputBalanced(sample'[u]) /\ InputBalanced(sample'[u])]
  /\ UNCHANGED <<pipe, serve, flush, drained, wait>>

\* The caller goes on.
Updated(u) ==
  /\ at' = [at EXCEPT ![u] = 0]
  /\ sample' = [sample EXCEPT ![u] = [c \in Counters |-> 0]]
  /\ IF u = "serve"
     THEN serve' = (IF serve = "update" THEN "select" ELSE "push") /\ UNCHANGED flush
     ELSE flush' = "check" /\ UNCHANGED serve

Swap(u) ==
  /\ at[u] = SwapAt
  /\ drained' = verdict[u]
  /\ IF drained = verdict[u]
     THEN Updated(u)
     ELSE at' = [at EXCEPT ![u] = RotateAt] /\ UNCHANGED <<sample, serve, flush>>
  /\ UNCHANGED <<pipe, verdict, wait>>

Rotate(u) ==
  /\ at[u] = RotateAt
  /\ signalled' = [w \in Waiters |-> TRUE]
  /\ Updated(u)
  /\ UNCHANGED <<pipe, verdict, drained, waiter>>

----------------------------------------------------------------------------
(* Flush: drain the input, flush the kernel, update without the lock, and  *)
(* start over if the node is not drained.                                  *)

CallFlush ==
  /\ flush = "idle" /\ flush' = "drain_input"
  /\ UNCHANGED <<pipe, serve, update, wait>>

InputDrained ==
  /\ flush = "drain_input" /\ flush' = "flush"
  /\ in = 0
  /\ UNCHANGED <<pipe, serve, update, wait>>

FlushOne ==
  /\ flush = "flush" /\ held > 0 /\ held' = held - 1
  /\ pre < QueueSize /\ pre' = pre + 1
  /\ UNCHANGED <<count, offered, in, reader, forwarder, out, stopped, serve, flush, update, wait>>

Flushed ==
  /\ flush = "flush" /\ flush' = "update"
  /\ held = 0
  /\ UNCHANGED <<pipe, serve, update, wait>>

CheckFlushed ==
  /\ flush = "check"
  /\ flush' = IF drained THEN "idle" ELSE "drain_input"
  /\ UNCHANGED <<pipe, serve, update, wait>>

----------------------------------------------------------------------------
(* WaitForDrain loads the channel before it looks at the value.            *)

LoadSignal(w) ==
  /\ waiter[w] = "load"
  /\ waiter' = [waiter EXCEPT ![w] = "check"]
  /\ signalled' = [signalled EXCEPT ![w] = FALSE]
  /\ UNCHANGED <<pipe, serve, flush, update>>

CheckDrained(w) ==
  /\ waiter[w] = "check"
  /\ waiter' = [waiter EXCEPT ![w] = IF drained THEN "done" ELSE "wait"]
  /\ UNCHANGED <<pipe, serve, flush, update, signalled>>

Wake(w) ==
  /\ waiter[w] = "wait" /\ signalled[w]
  /\ waiter' = [waiter EXCEPT ![w] = "load"]
  /\ UNCHANGED <<pipe, serve, flush, update, signalled>>

----------------------------------------------------------------------------
\* A new node is drained, until the first update finds something in it.
Init ==
  /\ count = [c \in Counters |-> 0]
  /\ offered = 0 /\ in = 0 /\ held = 0 /\ pre = 0 /\ out = 0
  /\ reader = "select"
  /\ forwarder = "receive"
  /\ serve = "update"
  /\ flush = "idle"
  /\ stopped = FALSE
  /\ at = [u \in Updaters |-> 0]
  /\ sample = [u \in Updaters |-> [c \in Counters |-> 0]]
  /\ verdict = [u \in Updaters |-> FALSE]
  /\ drained = TRUE
  /\ waiter = [w \in Waiters |-> "load"]
  /\ signalled = [w \in Waiters |-> FALSE]

UpstreamStep == Accept \/ Miss
ReaderStep == Receive \/ Kernel \/ Processed \/ StopReading \/ EndReading
ForwarderStep == Take \/ Generated \/ Give \/ Omit \/ StopForwarding
UpdateStep(u) == CheckDirty(u) \/ Load(u) \/ Swap(u) \/ Rotate(u)
ServeStep == Pull \/ Sent \/ Tick \/ Return
FlushStep == InputDrained \/ FlushOne \/ Flushed \/ CheckFlushed
WaiterStepLate(w) ==
  \/ /\ waiter[w] = "load"
     /\ waiter' = [waiter EXCEPT ![w] = IF drained THEN "done" ELSE "check"]
     /\ UNCHANGED <<pipe, serve, flush, update, signalled>>
  \/ /\ waiter[w] = "check"
     /\ waiter' = [waiter EXCEPT ![w] = "wait"] /\ signalled' = [signalled EXCEPT ![w] = FALSE]
     /\ UNCHANGED <<pipe, serve, flush, update>>
  \/ Wake(w)
WaiterStep(w) == LoadSignal(w) \/ CheckDrained(w) \/ Wake(w)

Next ==
  \/ Address \/ UpstreamStep \/ ReaderStep \/ ForwarderStep \/ Stop
  \/ ServeStep \/ CallFlush \/ FlushStep
  \/ \E u \in Updaters : UpdateStep(u)
  \/ \E w \in Waiters : WaiterStep(w)

Spec == Init /\ [][Next]_vars

\* Every goroutine runs and the node downstream takes what is pushed.  The
\* kernel emits what it can, so a full inner channel does not starve Flush.
\* Nobody has to address, to flush or to stop.
Fairness ==
  /\ WF_vars(UpstreamStep) /\ WF_vars(ReaderStep) /\ WF_vars(ForwarderStep)
  /\ WF_vars(ServeStep) /\ SF_vars(Pull) /\ SF_vars(FlushStep)
  /\ \A u \in Updaters : WF_vars(UpdateStep(u))
  /\ \A w \in Waiters : WF_vars(WaiterStep(w))

FairSpec == Spec /\ Fairness

----------------------------------------------------------------------------
(* Properties.                                                             *)

\* Every variable has a value of its type.
TypeOK ==
  /\ count \in [Counters -> Nat]
  /\ {offered, held} \subseteq Nat
  /\ {in, pre, out} \subseteq 0..QueueSize
  /\ reader \in {"select", "kernel", "count", "closing", "last_kernel", "last_count", "done"}
  /\ forwarder \in {"receive", "count", "send", "done"}
  /\ serve \in {"update", "select", "push_update", "push", "done"}
  /\ flush \in {"idle", "drain_input", "flush", "update", "check"}
  /\ {stopped, drained} \subseteq BOOLEAN
  /\ at \in [Updaters -> 0..RotateAt]
  /\ sample \in [Updaters -> [Counters -> Nat]]
  /\ verdict \in [Updaters -> BOOLEAN]
  /\ waiter \in [Waiters -> {"load", "check", "wait", "done"}]
  /\ signalled \in [Waiters -> BOOLEAN]

\* The assertions of allWentInAndOut: though the counters move while they are
\* read, no sample shows more going out of a part of the node than into it.
SamplesAddUp ==
  \A u \in Updaters : at[u] = SwapAt =>
    /\ sample[u]["addressed"] >= sample[u]["processed"] + sample[u]["missed"]
    /\ sample[u]["generated"] >= sample[u]["sent"] + sample[u]["omitted"]

OutputEmpty ==
  forwarder # "send" /\ out = 0 /\ serve \notin {"push_update", "push"}
Processing == {"kernel", "count", "last_kernel", "last_count"}
InputEmpty == offered = 0 /\ in = 0 /\ reader \notin Processing

\* What a sample proves: if its output counters balance, then there was
\* nothing between a forwarder and a finished push when Generated was loaded,
\* and if its input counters do, then no object was on its way into the kernel
\* when Addressed was.
BalanceMeansEmpty ==
  [][\A u \in Updaters :
       /\ at[u] \in 1..Len(Order) /\ Order[at[u]] = "generated"
            /\ at'[u] # at[u] /\ OutputBalanced(sample'[u])
          => OutputEmpty
       /\ at[u] \in 1..Len(Order) /\ Order[at[u]] = "addressed"
            /\ at'[u] # at[u] /\ InputBalanced(sample'[u])
          => InputEmpty]_vars

\* A running node that has nothing more to do is found to be drained, by Serve's own
\* updates or its ticker, and everybody who waits for it is told.
WaitersReturn ==
  <>[](held = 0 /\ ~stopped) => \A w \in Waiters : <>(waiter[w] = "done")

\* A sample that is still current when it is published, and says drained,
\* means that there is nothing in the node.
NeverFalselyDrained ==
  [][\A u \in Updaters :
       at[u] = SwapAt /\ at'[u] # SwapAt /\ verdict[u] /\ sample[u] = count
         => InputEmpty /\ held = 0 /\ pre = 0 /\ forwarder \notin {"count", "send"} /\ OutputEmpty]_vars
=============================================================================
