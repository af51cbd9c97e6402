----------------------------- MODULE KernelChain -----------------------------
(***************************************************************************)
(* Chains of kernels (kernel/chain.go, chain_of_two.go, chain_of_three.go):*)
(* SendInput gives one object to the first kernel, Generate lets all of    *)
(* them generate.  Between two kernels are two channels without a buffer,  *)
(* and for each a goroutine that feeds the next kernel.                    *)
(*                                                                         *)
(* A task is a call of a kernel: <<i, "gen">> is Generate of kernel i (in  *)
(* SendInput, the call of the first kernel), <<i, k>> the goroutine that   *)
(* feeds it with objects of kind k.  A kernel passes on what it is given,  *)
(* one object at a time, and gives up when its context is done; the kernels*)
(* that send without looking at it (kernel.Wait, kernel.PacketFilter) are  *)
(* not modelled.                                                           *)
(***************************************************************************)
EXTENDS Integers, Sequences, FiniteSets

CONSTANTS
  Length,       \* the number of kernels
  Kinds,        \* packets and frames
  Makes,        \* per kernel, what it generates; for the first also what is sent
  KindOf,       \* of an object
  Failing,      \* kernels that may fail
  ClosedEarly   \* kernels whose outputs are closed without waiting for their Generate

ASSUME LengthAssumption == Length \in Nat /\ Length > 1

Kernels == 0..(Length - 1)

ASSUME KindsAssumption == IsFiniteSet(Kinds) /\ "gen" \notin Kinds

\* An object is made by one kernel, and is a packet or a frame.
ASSUME MakesAssumption ==
  /\ Makes \in [Kernels -> Seq(Nat \ {0})]
  /\ \A i, j \in Kernels : \A m \in DOMAIN Makes[i], n \in DOMAIN Makes[j] : Makes[i][m] = Makes[j][n] => i = j
  /\ \A i \in Kernels : \A n \in DOMAIN Makes[i] : KindOf[Makes[i][n]] \in Kinds

Tasks == (Kernels \X {"gen"}) \cup (1..(Length - 1)) \X Kinds
Feeders(i) == {i} \X Kinds
First == <<0, "gen">>
Nothing == 0

VARIABLES
  mode,          \* "send" or "generate"
  chainCtxDone,  \* the context of the call is done
  call,          \* "idle", "run", "done", "failed"
  closedLinks,   \* kernels whose input channels are closed
  task,          \* of each task: "off", "run", "done"
  hand,          \* the object it has taken and not passed on
  generated,     \* how many objects each kernel has generated, or was sent
  due,           \* what the current call has to pass on
  errors,        \* how many errors the call has collected
  leaked,        \* goroutines that earlier calls have left behind
  delivered,     \* all that came out of the last kernel
  sentOnClosed   \* somebody has sent on a closed channel: a panic

chain == <<mode, chainCtxDone, call, closedLinks, task, hand, generated, due, errors, leaked, delivered, sentOnClosed>>

Runs(t) == call = "run" /\ task[t] = "run"
Idle(t) == Runs(t) /\ hand[t] = Nothing
Holds(t) == Runs(t) /\ hand[t] # Nothing
End(t) == task' = [task EXCEPT ![t] = "done"]
Drop(t) == hand' = [hand EXCEPT ![t] = Nothing]
\* The first kernel has returned: what it writes to is closed.
CloseAfterNever(t) == UNCHANGED closedLinks
CloseAfter(t) == closedLinks' = IF t = First THEN closedLinks \cup {1} ELSE closedLinks

----------------------------------------------------------------------------

StartGenerate ==
  /\ mode = "generate" /\ call = "idle" /\ call' = "run"
  /\ task' = [t \in Tasks |-> "run"]
  /\ UNCHANGED <<mode, chainCtxDone, closedLinks, hand, generated, due, errors, leaked, delivered, sentOnClosed>>

\* SendInput holds the chain's Locker: one call after the other.
StartSend ==
  /\ mode = "send" /\ call # "run" /\ call' = "run"
  /\ generated[0] < Len(Makes[0]) /\ generated' = [generated EXCEPT ![0] = @ + 1]
  /\ due' = {Makes[0][generated'[0]]} /\ hand' = [hand EXCEPT ![First] = Makes[0][generated'[0]]]
  /\ closedLinks' = {} /\ errors' = 0
  /\ task' = [t \in Tasks |-> IF t = First \/ t[2] # "gen" THEN "run" ELSE "off"]
  /\ UNCHANGED <<mode, chainCtxDone, leaked, delivered, sentOnClosed>>

Produce(i) ==
  LET g == <<i, "gen">>
  IN /\ mode = "generate" /\ Idle(g) /\ generated[i] < Len(Makes[i])
     /\ generated' = [generated EXCEPT ![i] = @ + 1]
     /\ hand' = [hand EXCEPT ![g] = Makes[i][generated'[i]]]
     /\ due' = due \cup {Makes[i][generated'[i]]}
     /\ UNCHANGED <<mode, chainCtxDone, call, closedLinks, task, errors, leaked, delivered, sentOnClosed>>

\* An object goes from one goroutine to the next, or out of the chain.
ReadersAny(i, k) == Feeders(i)
Readers(i, k) == {<<i, k>>}

PassOn(t) ==
  LET next == t[1] + 1
  IN /\ Holds(t) /\ next \notin closedLinks
     /\ \/ /\ next = Length
           /\ delivered' = Append(delivered, hand[t])
           /\ Drop(t)
        \/ /\ next < Length
           /\ \E r \in Readers(next, KindOf[hand[t]]) :
                Idle(r) /\ hand' = [hand EXCEPT ![t] = Nothing, ![r] = hand[t]]
           /\ UNCHANGED delivered
     /\ UNCHANGED <<mode, chainCtxDone, call, closedLinks, task, generated, due, errors, leaked, sentOnClosed>>

SendOnClosed(t) ==
  /\ Holds(t) /\ t[1] + 1 \in closedLinks
  /\ sentOnClosed' = TRUE
  /\ UNCHANGED <<mode, chainCtxDone, call, closedLinks, task, hand, generated, due, errors, leaked, delivered>>

----------------------------------------------------------------------------
(* Failures: of a kernel, or because the context is done.                  *)

MayFail(t) == Holds(t) /\ (chainCtxDone \/ t[1] \in Failing)

\* In Generate the goroutine returns, and cancels all others.
FailSilently(t) ==
  /\ mode = "generate" /\ MayFail(t)
  /\ End(t) /\ Drop(t) /\ CloseAfter(t)
  /\ chainCtxDone' = TRUE
  /\ UNCHANGED <<mode, call, generated, due, errors, leaked, delivered, sentOnClosed>>

Fail(t) ==
  /\ mode = "generate" /\ MayFail(t)
  /\ End(t) /\ Drop(t) /\ CloseAfter(t)
  /\ errors' = errors + 1 /\ chainCtxDone' = TRUE
  /\ UNCHANGED <<mode, call, generated, due, leaked, delivered, sentOnClosed>>

\* In SendInput it notes the error, and goes on with the next object unless
\* select notices that the context is done.
FeedFails(t) ==
  /\ mode = "send" /\ t # First /\ MayFail(t) /\ Drop(t)
  /\ \/ errors' = errors + 1 /\ UNCHANGED task
     \/ chainCtxDone /\ End(t) /\ UNCHANGED errors
  /\ UNCHANGED <<mode, chainCtxDone, call, closedLinks, generated, due, leaked, delivered, sentOnClosed>>

\* When the first kernel fails SendInput returns at once, and closes nothing:
\* the other goroutines wait for ever.
FirstFails ==
  /\ mode = "send" /\ MayFail(First)
  /\ call' = "failed" /\ Drop(First)
  /\ leaked' = leaked + Cardinality(Tasks \ (Kernels \X {"gen"}))
  /\ UNCHANGED <<mode, chainCtxDone, closedLinks, task, generated, due, errors, delivered, sentOnClosed>>

----------------------------------------------------------------------------
(* The end of the goroutines.                                              *)

\* A kernel has nothing more to generate, with an error or without; the first
\* one has handled the object that was sent.
GenEnds(i) ==
  LET g == <<i, "gen">>
  IN /\ Idle(g) /\ End(g) /\ CloseAfter(g)
     /\ \/ UNCHANGED <<chainCtxDone, errors>>
        \/ mode = "generate" /\ chainCtxDone' = TRUE /\ errors' = errors + 1
     /\ UNCHANGED <<mode, call, hand, generated, due, leaked, delivered, sentOnClosed>>

FeederEnds(t) ==
  /\ t \notin Kernels \X {"gen"} /\ Idle(t) /\ t[1] \in closedLinks
  /\ End(t)
  /\ UNCHANGED <<mode, chainCtxDone, call, closedLinks, hand, generated, due, errors, leaked, delivered, sentOnClosed>>


\* All that could write to the next channels has ended.  ChainOfThree waits
\* for the goroutines that feed the middle kernel, and not for its Generate.
CloseStage(i) ==
  /\ call = "run" /\ i + 1 < Length /\ i + 1 \notin closedLinks
  /\ \A t \in Feeders(i) : task[t] = "done"
  /\ task[<<i, "gen">>] \in {"off", "done"} \/ i \in ClosedEarly
  /\ closedLinks' = closedLinks \cup {i + 1}
  /\ UNCHANGED <<mode, chainCtxDone, call, task, hand, generated, due, errors, leaked, delivered, sentOnClosed>>

ChainReturns ==
  /\ call = "run" /\ \A t \in Tasks : task[t] # "run"
  /\ call' = "done"
  /\ UNCHANGED <<mode, chainCtxDone, closedLinks, task, hand, generated, due, errors, leaked, delivered, sentOnClosed>>

CancelChain ==
  /\ call = "run" /\ ~chainCtxDone /\ chainCtxDone' = TRUE
  /\ UNCHANGED <<mode, call, closedLinks, task, hand, generated, due, errors, leaked, delivered, sentOnClosed>>

----------------------------------------------------------------------------

ChainInit ==
  /\ mode \in {"send", "generate"}
  /\ chainCtxDone = FALSE /\ call = "idle" /\ closedLinks = {}
  /\ task = [t \in Tasks |-> "off"] /\ hand = [t \in Tasks |-> Nothing]
  /\ generated = [i \in Kernels |-> 0] /\ due = {} /\ errors = 0 /\ leaked = 0
  /\ delivered = <<>> /\ sentOnClosed = FALSE

\* SendInput: only its start and its failures are its own.
SendingStep == StartSend \/ FirstFails \/ \E t \in Tasks : FeedFails(t)

\* Generate of the kernels.
GeneratingStep ==
  \/ StartGenerate \/ \E i \in Kernels : Produce(i) \/ GenEnds(i)
  \/ \E t \in Tasks : Fail(t)

\* What the goroutines between the kernels do in both.
TaskStep(t) == PassOn(t) \/ SendOnClosed(t) \/ FeederEnds(t)

ChainNext ==
  \/ SendingStep \/ GeneratingStep \/ ChainReturns \/ CancelChain
  \/ \E i \in Kernels \ {0} : CloseStage(i)
  \/ \E t \in Tasks : TaskStep(t)

\* The goroutines run, what leaves the chain is taken, and a kernel whose
\* context is done returns.
ChainProgress ==
  \/ \E t \in Tasks : PassOn(t) \/ FeederEnds(t) \/ (chainCtxDone /\ (Fail(t) \/ FeedFails(t)))
  \/ (chainCtxDone /\ FirstFails) \/ (\E i \in Kernels : GenEnds(i) /\ (chainCtxDone \/ mode = "send"))
  \/ (\E i \in Kernels \ {0} : CloseStage(i)) \/ ChainReturns

ChainTypeOK ==
  /\ mode \in {"send", "generate"} /\ call \in {"idle", "run", "done", "failed"}
  /\ {chainCtxDone, sentOnClosed} \subseteq BOOLEAN
  /\ closedLinks \subseteq Kernels \ {0}
  /\ task \in [Tasks -> {"off", "run", "done"}] /\ hand \in [Tasks -> Nat]
  /\ generated \in [Kernels -> Nat] /\ due \subseteq Nat /\ {errors, leaked} \subseteq Nat
  /\ delivered \in Seq(Nat)

----------------------------------------------------------------------------
(* Properties.                                                             *)

\* Nobody sends on a channel between two kernels that is closed, which panics:
\* neither a kernel that generates nor one that is fed.
NoSendOnClosedLink == ~sentOnClosed

\* A call that reports no error has passed on all that entered the chain.
LossIsReported ==
  call = "done" /\ errors = 0 /\ (mode = "send" => ~chainCtxDone) =>
    \A o \in due : \E i \in DOMAIN delivered : delivered[i] = o

\* When a kernel fails, or the context is done, Generate and SendInput return:
\* no goroutine is left sending to one that has gone.  When nobody generates any
\* more the chain empties itself and returns.
ChainMustEnd ==
  \/ (mode = "generate" /\ errors > 0) \/ chainCtxDone
  \/ call = "run" /\ \A i \in Kernels : task[<<i, "gen">>] # "run"
ChainEnded == call # "run"

\* A chain loses nothing in silence.
ChainSafe == NoSendOnClosedLink /\ LossIsReported

\* Seen from outside the chain is a Pipe for what enters at the front.
FromFront(o) == \E i \in DOMAIN Makes[0] : Makes[0][i] = o
InHand(t) == IF FromFront(hand[t]) THEN <<hand[t]>> ELSE <<>>
Stacked(held) ==
  LET upTo[i \in Kernels] == IF i = 0 THEN <<>> ELSE held[i] \o upTo[i - 1]
  IN upTo[Length - 1]
Inside(k) == Stacked([i \in Kernels \ {0} |-> InHand(<<i, k>>)])
Abstract ==
  INSTANCE Pipe WITH Objects <- {Makes[0][i] : i \in DOMAIN Makes[0]},
                     queue <- [k \in Kinds |-> Inside(k)],
                     broken <- chainCtxDone \/ errors > 0 \/ call = "failed"
ImplementsPipe == Abstract!PipeSpec
=============================================================================
