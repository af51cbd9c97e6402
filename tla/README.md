# avpipeline in TLA+

avpipeline moves audio and video packets and frames through a graph of nodes.
A node serves a processor, a processor runs a kernel, a kernel changes the
objects. Nearly every part has goroutines of its own, and the parts meet at
channels, atomics and a few locks. These modules model the parts whose
correctness depends on the order in which those goroutines run, and the
sequential parts that keep a state over many packets; TLC checks them on small
instances, and TLAPS proves the safety of most of them for all sizes.

Contents: [the system](#the-system) · [modules](#the-modules) ·
[runs](#the-runs) · [proofs](#the-proofs) · [findings](#where-the-code-and-its-words-differ) ·
[what the modules show of the code](#what-the-modules-show-of-the-code) ·
[not modelled](#what-is-not-modelled) · [plan](#plan)

To check: `tlc -config <cfg> <module>` as PROJECT.json lists them, and
`tlapm <module>Proofs.tla`.

## The system

| component | state | operations | talks to | hard | correct when |
|---|---|---|---|---|---|
| Barrier and Switch (`kernel/barrier*`) | three atomics, the first packet, a change channel, a mutex | GetState, SetValue | barriers of all outputs; hooks | lock-free readers, a half-done commit | requests are never lost, reports are in order, nobody waits for ever |
| Processor (`processor/from_kernel.go`, `reader_loop.go`) | six channels, a reader, a generator, a forwarder per kind, a finalizer | SendInput via channel, Close | the node's Serve, the kernel | who closes which channel when; errors with nobody to take them | no send on a closed channel, nothing lost, everything ends |
| Node serving (`node/node_serve.go`) | a select loop, push lists | Serve | its processor, nodes downstream | cancellation while pushing, lists that change | returns once cancelled |
| Drain accounting (`node/drain.go`) | six counters, a cached verdict, a channel | updateProcInfo, WaitForDrain, Flush | all goroutines of the node | counters read one by one | never drained with an object inside; waiters are told |
| Retryable kernel (`kernel/retryable.go`) | a gate channel, a kernel, a lock | Generate, Pause, Unpause, retry | its factory and hooks | opening waits inside the lock | a paused kernel is closed, a failed one is reopened |
| Input failover (`preset/inputwithfallback`) | two switches, a counter, a time | the hooks of both switches and of each input | all of the above | a chain of asynchronous steps, each allowed by a check made earlier | the outputs follow an input that works |
| Push lists and cache (`node/node.go`, `node/cachehandler`) | destinations with filters, change channels, remembered packets | Add, Set, Remove, With; RememberPacket, GetPending | Serve, hooks | changed while an object is pushed | every destination gets what it should, once |
| Tree serving (`serve.go`) | visited set, contexts | Serve | all nodes | new nodes while serving, order of the end | upstream ends before downstream |
| Kernel chains (`kernel/chain*.go`, `tee.go`) | inner channels, goroutines | SendInput, Generate, Close | kernels | an error in the middle | all goroutines end, order is kept |
| Kernel switch (`kernel/switch.go`) | two indices, a verification | SetKernelIndex, SendInput | kernels, a condition | a request while one is verified | the last request is the one in use |
| DTS reordering (`kernel/reorder_monotonic_dts.go`) | a queue, a heap per stream, a counter | SendInput, Close | | the bound, and three structures that must agree | output is monotonic, nothing is left |
| Output (`kernel/output.go`) | streams, kept packets, a header | SendInput, NotifyAboutPacketSource, Close | libav, sources | streams that appear late | the file can be read |
| Input (`kernel/input.go`) | a format context, held packets, a WaitGroup | open, Generate, Close | libav | closing while opening or reading | nothing is read after it is closed, everything ends |
| Encoder, Decoder, Transcoder (`kernel`, `codec`) | a table of codecs, a lock each, what libav holds back | SendInput, Flush, reset, Close | libav, each other | a codec changes between the two locks | nothing with frames in it is taken for clean |
| Stream multiplexer (`preset/streammux`) | outputs, two switches per input, codec resources, a bitrate handler | set the preferred output, add and close outputs | barriers, nodes, codecs | outputs closed while switching | one output per key is open, the requested one becomes active |
| Automatic bitrate (`preset/streammux/autobitrate_handler.go`) | the last change and its time, a reduced frame rate | a check at every tick | the multiplexer | switches that complete later | no haste, and rest once the input rests |
| Transcoder with passthrough (`preset/transcoderwithpassthrough`, `packet/condition/switch.go`) | two switches, each two atomics; the last configuration | SetTranscoderConfig; Match of a switch, wherever a packet is looked at | the multiplexer's outputs, codecs | four goroutines may commit the same switch, and no lock | packets go one way, the one that was asked for last |
| Router (`router`) | routes, publishers, forwarders | get, publish, forward | nodes | waiting for a route that appears or goes | a forwarder follows its publisher |
| Forwarding between nodes (`router/stream_forwarder_copy.go`, `preset/autofix`, `kernel/map_stream_indices.go`, `router/node_kernel.go`) | a header decision, two maps of indices, shifts of timestamps | start, stop, serve | nodes | two sources on one route | indices never collide, nothing is sent to what is gone |

The rest keeps no state that goroutines share (data types, parsing,
conversions), is generated (`protobuf`, the gRPC server), or is a call into
libav. `PROJECT.json` lists every component.

How an object travels: an upstream node addresses it, puts it into the input
channel of the processor, whose reader loop gives it to the kernel; the kernel
puts what it makes into an inner channel, a forwarder moves that to the output
channel, and Serve of the node takes it and pushes it on. A barrier is a kernel
that may hold or drop the object on the way, as its switch says.

## The modules

| layer | modules | composed in |
|---|---|---|
| switching | BarrierSwitch | MCBarrierSwitch, BarrierSwitchProofs |
| one node | FromKernel, NodeServe (extends it), NodeDrain | NodeServeProofs, NodeDrainProofs |
| the graph of nodes | PushLists, ServeTree and PushFurther (both extend PushLists), Router, ForwardPath | MCGraph, GraphProofs |
| kernels | Pipe, KernelChain (implements it), KernelSwitch, Fanout, ReorderByDTS, OutputKernel, InputKernel, CodecKernel, TranscoderKernel | MCKernels, CodecProofs, KernelsProofs |
| failover | Retryable, InputWithFallback (extends it) | MCInputWithFallback, InputWithFallbackProofs |
| multiplexer | StreamMux, AutoBitRate, Passthrough | MCStreamMux, MultiplexerProofs |

MCGraph, MCKernels and MCStreamMux hold modules that share no state. Their variable
`part` says which of them runs, so that one run asks the questions of all, and
an invariant of the run is the conjunction of theirs.

### BarrierSwitch

`kernel/barrier/stategetter/switch.go` and `kernel/barrier.go`. `current`,
`next`, `previous`, `first` are the fields of Switch, `mutex` is CommitMutex,
`signal[b]` is the change channel that barrier b has loaded. Each `pc` label is
the next access of a goroutine to shared state: `LoadCurrent`, `LoadNext`,
`LoadPrevious`, `Decide`, `CommitCurrent`, `CommitNext`, `Rotate`, `Construct`
and so on follow GetState line by line, because it takes no lock. All flags are
CONSTANTS. A packet is an identity; whether KeepUnless matches it is membership
of `KeyPackets`. The ghosts `reported`, `raced` and `extra` record the last
OnAfterSwitch, a rotation between two loads, and a packet passed in addition.

### FromKernel and NodeServe

`FromKernel` is `processor/from_kernel.go` with `reader_loop.go`: channels are
numbers of objects with a capacity and a `closed` flag; `reader`, `generator`,
`forwarder[k]`, `finalizer` and `closer[c]` are the goroutines. `IsSource`,
`InputFails` and `CloseFails` say what kernel it is. `NodeServe` extends it
with the loop of `Serve`: the select, the push (one step), the goroutine that
closes the processor, and the two ways to return. `SharedContext` says whether
the processor's context is that of Serve.

### NodeDrain

`node/drain.go` and every increment of the six counters, which are spread over
the node and the processor. An object is counted where it is, never identified.
An updater (Serve, under the node's lock, or Flush) loads the counters in
`Order`, one per step, then swaps `drained`, then rotates the channel. A waiter
loads the channel, then the verdict, then waits. A new node is drained. When the
processor stops the reader takes what is left in the input first (`closing`, then
`last_kernel` and `last_count`); that a kernel fails otherwise is FromKernel's.

### Retryable

`kernel/retryable.go` as an input uses it. `gate` is KernelOpenBarrier, `holder`
and `stage` say who holds KernelLocker and what for; the lock is held while the
gate is waited for, during the factory, and during the hooks. `loop` is the
goroutine in Generate, `openers` those that Unpause has started. A kernel fails
at most `MaxFailures` times, and those in `Mortal` for good.

### InputWithFallback

Extends Retryable by the switches and hooks of `preset/inputwithfallback`.
Requests are made from inside the hooks, with KernelLocker held: `Opened` and
`Errored` decide, `Accept` or `Refuse` is OnSwitchRequest, `SwapNext` is what
SetValue does after it. `UnpauseTask` and `PauseTask` are the goroutines the
hooks start. `Catch` and `Commit` are the filter barriers of the chains; between
the two the value may change. `Match` and `SyncCommit` are the sync barriers.
InputChainsLocker is held from `Accept` to `SwapNext` when an error is the
reason, so that the goroutines wait (`ChainsLocked`). The switches are those of
BarrierSwitch in fewer steps: here their values are loaded together, since the
hazards of this component lie between the steps, not in them. Of the packets
between the barriers only their kinds are kept.

### PushLists, PushFurther, ServeTree

`lists` holds what a node keeps: its two push lists, and for each a counter of
the channel that is closed when the list changes. An edit is one step, since it
is made under the node's Locker. PushFurther is one object's way through
pushFurther: `TakeList` under the lock, a `PushTask` per destination outside it,
with the cache of packets (`cache`, `marked`) whose marks are set under the
lock but read without it (`GiveUp`: whether a full queue drops is a matter of
`object`, even if `rest` is of the cache); `doubled` is a history variable: destinations that were
in the list twice. ServeTree is the walk of `serve.go`: `work` is the call
stack of a walker, a node has a server goroutine and a watcher, and
`NodeCtxDone` follows the nested contexts.

### Router and ForwardPath

Router has one record per route, publisher and source. A critical section is one
step, except where a lock is held while something else is waited for, which is
the point of `stuck`. `TakeOver`, `AddPublisher`, `CloseRoute`, `WaitForRoute` and
`ForwardStep` have the names of the code. ForwardPath is what one forwarding puts
between two nodes: an AutoFixer (a node that decides by its first packet whether
to convert headers, a node that maps indices) and the kernel of the route, which
shifts the timestamps of each source.

### Kernels

KernelChain gives each kernel of a chain a task per kind of object, and a link
(two unbuffered channels) between neighbours. `Pipe` is what a chain promises,
in two actions: an object enters, an object leaves in order; `Lose` and `Renew` are
what a failure adds. The mapping is in KernelChain: `INSTANCE Pipe WITH ...` takes the
objects inside all kernels one behind the other, those of the last first. A step of the
chain in which a kernel fails loses at most the one object it had at hand, and the pipe
is `broken` from then on. Fanout is one call that becomes several. KernelSwitch,
ReorderByDTS, OutputKernel and InputKernel follow the code's functions, one
action for each stretch under one lock. In CodecKernel a call takes the codec
under the kernel's Locker and works under the codec's; the codec of libav is
external: it holds back up to `delay` objects, gives the rest when told to end,
and refuses everything after that until it is flushed. TranscoderKernel is a
decoder and an encoder with the three channels and three goroutines between them.

### StreamMux and AutoBitRate

StreamMux has the mode with an output per key. `RequestStep` is GetOrCreateOutput
and SetValue, `BarrierStep` a packet at the head of an output, `CloserStep` the
goroutine that OnAfterSwitch starts, `Recreate` the output made in place of the
closed one. Locks are explicit (`sLocker`, `outputsLocker`, `commitMutex`), since
they are taken in different orders. The switch has the steps that matter here,
not the loads of BarrierSwitch. AutoBitRate is one check of the handler from the
calculator's answer on; what a check decides is applied by a switch that
completes between any two of its steps.

### Passthrough

`preset/transcoderwithpassthrough` and the switch of `packet/condition/switch.go`.
An evaluator is a goroutine that asks whether a packet may go a way: the first
node's, for each of the two ways, and those behind the last node of each, unless
the two share a connection. `task[e]` is how far its Match is, `LoadValues`,
`StoreCurrentValue`, `SwapNextValue` and `OnAfterSwitch` are its accesses to the
two atomics. `Push` is the first node, which waits for both its pushes; `GiveOut`
what comes out of a way. `Reconfigure`, `ReconfigureCopy`, `SetPassthrough` and
`ResetTranscoder` are the branches of SetTranscoderConfig. `hurried` is a history
variable: a switch was given another value while one was being committed.
`patient` restricts the caller to what never hurries.

## The runs

| run | instance | question |
|---|---|---|
| `switch_direct` | 2 outputs, 2 barriers, 2 requesters, 3 packets, both flags that matter | no KeepUnless: are reports in order (`ReportedIsCurrent`), is a barrier held only in the one known race (`HeldOnlyIfRaced`), does the left output pass at most one more packet (`OneExtraPacket`)? |
| `switch_keep` | 2 outputs, 2 barriers, 1 requester, a key packet and another | KeepUnless: is a request never dropped (`PendingNeverDropped`) and settled in the end (`RequestSettled`)? |
| `serve_filter` | one kind of objects, queues of 1, kernel that fails, two closers | is all that was emitted handed on (`NothingLost`); does Close return (`CloseReturns`)? |
| `serve_source` | both kinds, three errors | is nothing sent on a closed channel (`NoSendOnClosed`); does Serve return (`ServeReturns`); does a source end at EOF (`EndsAtEOF`)? |
| `drain_run` | one object, one that the kernel may hold, queues of 1 | do the assertions hold (`SamplesAddUp`); what does a balance mean (`BalanceMeansEmpty`); are waiters told (`WaitersReturn`)? |
| `fallback_run` | two inputs, one failure and two | is a paused kernel closed (`KernelNeedsGate`), a requested one opened (`WokenOpens`), a failed one reopened (`FailedReopens`)? |
| `graph` | a tree of five nodes, two late branches; a push list under two edits, of a node that pushes two packets of video, another one that may be dropped, and video again; two publishers, a forwarder and a consumer on two routes; two sources of three and two packets | does a node outlive those upstream (`EndsAfterItsSource`), is a late branch served (`NewBranchServed`) and everything ended (`TreeEnds`); is an addressed object accounted for (`AddressedIsAccounted`), no packet missed by the cache (`CacheLeavesNoGap`), no push stuck (`PushMoves`); does who pushes to a route publish there, is an exclusive publisher alone, do forwarded packets arrive once, in order and with a time that does not go back, nor stand still when the source changes (`RouterKeeps`), does waiting for a publisher end (`RoutingEnds`)? |
| `kernels` | chain of 3 with 4 objects; switch of 2; fan-out of 3; 2 streams; 3 sources; one codec and a pair of calls; two calls of a transcoder; two files | does a chain implement a pipe (`ImplementsPipe`); is no error or object lost (`CallsSafe`); do switch, queue, file, codec and input keep what they must (`KernelsSafe`); do calls and Close end (`CallsEnd`); is the last request the one used (`LastRequestUsed`)? |
| `mux` | 2 keys, 4 outputs, 3 events; 3 resolutions; 3 packets, 2 configurations | is one output open per key, the active one open, do the two switches of the preset end at what was asked for last, with the packets of each way in order (`SwitchingSafe`); is no resolution changed in haste (`NoHaste`); is a requested output reached (`RequestReached`); does the control loop come to rest (`Settles`)? |

Every passing run also checks `TypeOK`, once per module.
The violation runs are listed [below](#where-the-code-and-its-words-differ).

**Bounds.** The races of a switch are between two barriers, or a barrier and a
requester, or two requesters; two of each show them all, and two outputs are
enough for ABA, the value that changes and returns. A queue of one is full and
empty in turn; larger queues only delay that. One object is enough for the
counters to be read on either side of each increment; the theorems cover any
number. For failover, two inputs and failures of both give recovery in both
directions; that an input requested earlier is paused again needs three, and is
reached in `fallback_assert`. With three inputs that recover the state space
exceeds what a run can take.

The tree of `graph` has a node with two children, one of them skipped with a child
of its own, and a node that ends by itself; `MaxEdits` 2 lets an edit fall
between two others' halves. The pushing node starts with nobody to push to; one
edit adds a destination that takes everything, another puts in its place one that
refuses the first object, filters the second and leaves the rest to the full queue.
Of the four objects the third may be dropped while the video around it may not, so
that a replay of cached video is caused by either kind. The router runs with the casts {s1, s2}, {s1, f} and
{f, c} instead of all four at once, which is all that a takeover, a forwarding or
a waiter meets; `MaxRemovals` 1, and `MaxRoutes` 6 is never reached. In `kernels`
a chain of three has a first, an inner and a last kernel; a switch of two has no
third value to confuse; the transcoder's second stream comes in the first
or in the second call, so that the start falls before, in and after a call, with
`KeptLimit` 2 and `MaxErrors` 1. In `mux`, `MaxOutputs` 4 lets an output be
remade twice, and `MaxEvents` 3 is two requests and a failure in any order.
A raced mux (requests and failures at any time) is asked only whether a key has
one open output; the rest is asked of the `calm` one, since the races listed
below break it. AutoBitRate's three resolutions with two that suit one bitrate
give a choice; delays of 2 and 1 ticks are crossed and missed. Passthrough has three
packets, two of them key frames, so that one commit may begin while another is
half done, and two configurations: there and back. A patient caller has conditions
behind both ways, an impatient one the shared connection.

**Fairness.** Every goroutine runs (weak fairness of its steps). What the Go
runtime does fairly is strong fairness: a mutex (`CommitCurrent`, `SetNext`, ...;
xsync's are channels or sync.Mutex, which do not starve), and a select that is
taken again and again with the same case ready (`StopReading`,
`InitiateClosing`, `ReportError`, `Return`, `Pull`, `FlushStep`). From outside
we assume that key packets keep arriving at the barriers (`RequestSettled`,
`RequestReached`), that a source ends once its context is done and a kernel that
is fed for ever after that fails in the end (`ServeReturns`), and that a failover
input which is open keeps delivering (`Deliver`, `Catch`). Opening, and a
factory's return, are fair; failing is not. In NodeDrain the ticker of Serve is
fair because it is a ticker, and so are the checks of AutoBitRate.

In `graph`, what edits, cancels, pulls and consumes is not fair; the walkers, the
pushes and the forwarders are, as one condition (`Progress`), which is enough
because each of them is bounded and only one part runs. The lock for an edit is
strongly fair (`LockAndEdit`); the forwarding and the consumer may each go round
for ever while the other waits, so each has its own. In `kernels` every goroutine
of a call and of a Close is fair, the caller is not, and an output that nobody
consumes is allowed where the code must end nevertheless. In `mux` the
calculator becomes steady if it wants to: rest is promised from then on.

Deadlock is checked except where the system ends (a closed processor; a drained
node that nothing is sent to; a call that has returned).

## The proofs

All of it for any number of outputs, barriers, inputs, kernels, objects, queue sizes and
failures, from the ASSUMEs of the modules (and, in three theorems, a hypothesis, see below).

| module | says | along |
|---|---|---|
| `BarrierSwitchProofs` | types; reports are in order without KeepUnless; requests are never dropped; holding only in the known race; at most one extra packet | mutual exclusion of CommitMutex, what its holder knows about `from` and `to`, and for each ghost what the labels say |
| `NodeServeProofs` | types; no send on a closed channel; a processor that nobody stops forwards everything | `Lifecycle`: which goroutine may still run when a channel is closed; `Emptied`: a forwarder that ended by itself left nothing |
| `NodeDrainProofs` | types; the assertions of allWentInAndOut; what a balance means | `Flow`: each counter differs from the next by the objects between them; `Behind`: a sample is not ahead of the counters; `Calling` and `Staged`: which updater is where |
| `InputWithFallbackProofs` | types; a paused input has no open kernel | `LockOK`: the lock is free exactly if nobody is at work; `GateOK`: the gate stays open while a kernel is being set |
| `MultiplexerProofs`, outputs | types; one open output per key at any time; while calm, all that `MuxSafe` says | at any time, `Known` and `Mapped`: whoever names an output names one that was made, and OutputsMap has every open one; while calm, `OnePhase`: a request, its switch, the closing and the remaking follow one another; `Committed`: a barrier that is late commits only away from an output that has been left for good; `Replaced` |
| ..., all | types of all three parts; no haste; the two switches of the preset end at what was asked for last; packets stay in order | `WishOutlived`: how old a wish is against the last change of its direction; `PreSettles` and `PostSettles`: unless hurried, the value the first switch will have is the wanted one, and that of the second is announced by the first's value, by its pending one, or by whoever is about to call OnAfterSwitch; `Patience`: an evaluator that commits commits what is pending; `WaysOrdered`: a packet in a task is behind those on its way |
| `GraphProofs`, nodes | types of lists, tree and push; a node ends after its source; what is addressed is accounted for; the cache leaves no gap | `PendingOnce`, `PendingIdle`, `Served`, `UnderVia`: a node is visited once, idle until then, and then under the context of the node it was found through; `Accounted`: addressed is received, missed and what the goroutines still owe, counted with Cardinality; `GivenBelow` and `Gapless`: what the cache holds was given or is `OnItsWay` |
| ..., router | types; who pushes to a route is one of its publishers, is on its way out or was taken over; an exclusive publisher is alone; the WaitGroup covers the registered routes; a closed forwarding forwards nothing | `SourceListed` and `ForwardListed`: at which label of its Open, Close or restart a publisher is in which list; `ForwardStops`: at which labels, and once it has ended, a forwarding has no output; `WaitGroupCovers` is an invariant by itself, a path having one route at most |
| ..., forwarding | types; packets arrive once and in order; a forwarder that works loses none; a stopped one is linked nowhere; video is decoded before it is shown; its time moves forward | `OnTheirWay`, `HaveArrived`, `HavePassed`: the places of the packets of a source in its feed fall from node to node; `StagesFit`: what is linked and served at which stage; `LastKept`: LatestPTS is that of the last video, whose source is PreviousSource of its index; `ShownFirst`: only who has shown video has a shift |
| `KernelsProofs`, chains | a chain of any length implements the Pipe; what it loses is reported; nobody sends on a closed link of it | `Hands` and `Closures`: at which label a kernel has which object at hand, and which links are closed by then; `AllAccounted`: what a kernel made is what it sent, what it lost and what it has left; `Stacked` is a concatenation over the kernels, of which each step changes one summand or moves an end |
| ..., switch and tee | the last request is pending or in use, a packet is given to one kernel; a tee reports failures | `RequestPending`, `OutputsSoFar`; `Reports`: who has failed has reported or is about to |
| ..., input | packets of a stream are sent in order, all of them if nothing disturbs the input; no read after Close | `ReadIsSomewhere`: what was read is sent, held or in hand; `HeldComesAfter`, `JustRead`; `ClosesAfterGenerate` |
| ..., output | the header comes first and once; each stream of a source has one of its own; what is kept begins with a key packet | `HeaderFirst`, `WaitsOrKeeps`, `Tidy`; a lemma about the fold with which a source's streams are added |
| ..., reordering | the counter of empty heaps is right, nothing waits while every stream has an item, order, no failed assertion unless items are discarded | `Paired`: queue and heaps hold the same items; `Newness` and `Waits`: which item may be younger than one that left |
| `CodecProofs`, codecs | what a codec accepts comes out once and in order, or a Close, a reset or a failure accounts for it; a flush leaves nothing; nothing with objects inside is taken for clean; a codec in use stays | `CallPlace`, `CallCodec` and `CodecPlace`: who is where, with which codec and whose lock; `CodecHolds` and `ObjectsInOrder`: what is out, received, held and still to come follow one another |
| ..., transcoder | while nothing fails each stream is sent in order; a call loses no more than its end: at most one object before the start, at most three in the starting call | `Stations`: which goroutine may be where; `EncodedInOrder`: up to the encoder there is one way, `KeptInOrder`: behind it there are two lanes, packets and frames, each in order; `UnderWay` and `LeftBehind`: where the objects of a call are while it is under way, and after it has returned |
| `KernelsProofs`, all | types of the eight kernels; `KernelsSafe`; `CallsSafe` | follow from the invariants above |

The properties themselves are not inductive. A sample says nothing about the
counters unless they are known to grow and to be read in this order, and
`KernelNeedsGate` alone allows a kernel that is open but not yet set to be
paused under the hooks. `OneOpenPerKey` says nothing of the goroutine that still
names an output after it was replaced; `SwitchesAgree` speaks of the quiet states
only, which are what is left when the last of four evaluators has returned.

`AddressedIsAccounted` and `CacheLeavesNoGap` speak of the moments between two
pushes: in between, what is owed is a set of pairs (entry, outcome) that each step
of pushToDestination changes by one, and the packet that was remembered but not yet
sent is with Serve or with a goroutine. Where a proof needs induction on a number it
takes the least counterexample (`Least`), since the library's induction cannot be
instantiated.

What the theorems about single kernels claim has the exceptions of the properties they
name, which the code has, too (see "What the modules show of the code"): a request made in the middle of
a commit (`SwitchesAgree`), an unclear packet behind one that was held back and a Generate
that began after Close (`InputSafe`), a call that was cut off (`CodecSafe`).

The kernels share no state, so `KernelsInv` is one invariant per kernel, and a step
of one leaves the others as they are. The steps of a codec kernel come in a few shapes (a call
walks on, works with the codec it has locked, ends), about which the lemmas are stated
once. `ChainIsSafe`, and with it `CallsAreSafe`, has a hypothesis: a kernel whose outputs are closed early
(ChainOfThree closes the middle one's without waiting for its Generate) must generate
nothing, since otherwise it does send on a closed channel. The refinement
needs no such hypothesis. `RouterKeepsAlways` has one, too (`FeedsInOrder`, which the run's
sources satisfy): the video of each source is one stream with times that rise, and no
other medium shares its index. With B-frames the times a source sends go back by
themselves; with equal times the rounding of a shift (`Rounded`) may take one tick off
the second. All but the time is proved without it (`RouterIsSafe`, `ForwardingIsSafe`).

The router's invariant says of each label what the one who is there has done and has to
undo, since a list of publishers and the field that names a route are set in
different critical sections. Each step of a source, the forwarding or the consumer has
one of a few shapes: it moves one of them, adds to or takes from one list, or closes
a route. The forwarding between two nodes is about places: a packet is where it
is in its feed, each node has a later one than the next, so that nothing overtakes.

A CASE whose guards overlap may take any of the arms that hold, though TLC always
takes the first; the code's `if` and `switch` take the first. So the guards exclude
each other wherever the code has an order, or it is an IF.

AutoBitRate assumes (`RatesAssumption`) that rates are numbers and that a finite
list of resolutions has a best and a worst one; the rest are the ASSUMEs that say
that bounds are numbers and that lists are lists of nodes (`ListsAssumption`,
`TreeAssumption`, `PushAssumption`), that a cast of the router is of its publishers and each
has a mode and a path (`RouterAssumption`), that each packet of a feed is an object of its own
with times that are numbers (`PathAssumption`), that a chain has two kernels at least and what they
generate is numbered (`LengthAssumption`, `MakesAssumption`), that a file is a sequence of
packets (`FilesAssumption`), that a source has a sequence of streams of video or audio
(`OutputAssumption`) and a reordering finitely many (`ReorderAssumption`), that
kernels are numbered from 0 (`SwitchAssumption`), that a codec kernel's bounds are numbers
(`CodecAssumption`), and that what a transcoder is given is numbered in that order and a
stream of it is encoded or raw as a whole (`TranscoderAssumption`).

Only model-checked: liveness, which is out of the prover's reach (`RequestSettled`,
`ServeReturns`, `CloseReturns`, `EndsAtEOF`, `WaitersReturn`, `WokenOpens`,
`FailedReopens`, and those of the last three runs). Every safety property of a passing run
is a theorem.

## Where the code and its words differ

| run | the code | its words |
|---|---|---|
| `serve_hang` | two errors of a source, with an error queue of one, keep Serve from returning | the test stops a pipeline by cancelling and waiting |
| `drain_false` | the node says it is drained with an object in the inner channel | drain.go:111 "cannot falsely claim" |
| `fallback_assert` | a request that is accepted before a commit leads to a second commit before the outputs have followed the first | input_with_fallback.go:231 "syncingSince must be zero" |

BarrierSwitch shows three more, which the model contains and no run isolates: a
commit that finds NextValue replaced leaves CurrentValue changed, the channel not
rotated and nothing reported (switch.go:285 "supposed to be impossible"); the
active output may wait for the switch after the one that made it active
(switch_flags.go:14 "all inactive outputs"); the requested output drops its
packets (switch_flags.go:11 "the next output will be block").

## What the modules show of the code

What the models contain because the code does it, and what the properties are
therefore stated around. None of it contradicts a document, so that it is here
and among the hazards.

**Failover.** Items of two chains may both match for one switch; `switchingProcN`
is then -1 and every request is refused. With recovery, the key frame of one
input may commit the switch to another and lose the flush mark; or an input is
paused after it has been requested again.

**Graph.** SetPushPacketsTos computes what was removed after assigning the new
list, so the removal hook sees nothing. WithPushFramesTos rotates the channel of
the packets' list. A destination whose input filter refuses ends the push early.
A destination that is in
the list twice loses its mark, and so its claim to the cache, when one of the two is
removed, of which a TODO warns (node.go:364): `CacheLeavesNoGap` leaves it out. Whether
a full queue drops is decided by the object that is pushed, not by what goes in its
place (node_serve.go:319): with FrameDropAudio, a packet of audio that makes a late
destination catch up drops the video of the cache which does not fit its queue. The
property leaves that out, too, and is violated without the exception: of the packets
1 and 2 of the cache, pushed in place of 3, the second is dropped, and 4 is given. A
node with two parents stays under the context of the first; serving with a skipped
root ends only with its context.

**Router.** With exclusive takeover, Close of the source that was taken over gets
ErrPublisherNotFound and returns before its forwarder is stopped. Shared takeover
over an exclusive publisher closes it with the route's lock held, which it needs
(`stuck`). A closed route stays under its path until OnClose has run. A failed
start leaves its waiter, a failed restart is never tried again, and a consumer
loops busily on a closed route. A temporary route lives as long as the context of
whoever made it. WaitForRoute misses a route made before it loads the channel.

**Forwarding.** The channel of errors is never closed, so its goroutine stays. A
failed notification leaves the forwarder "already open" until it is stopped. An
AutoFixer that has ended is still pushed to until its queue of hundreds is full.
A source that returns with a smaller shift than before has its first packets
unshifted, although node_kernel.go:200 wants time to increase; audio is never
shifted. The route's streams are keyed by index alone, so the second source's are
described by the first's parameters. Any error of an AutoFixer silently stops
the forwarding.

**Chains and switches.** SendInput of a chain leaves goroutines behind if its first
kernel fails; ChainOfThree.Generate closes the first kernel's channels without
waiting for it. The discarding of a full queue in ReorderByDTS takes from the
queue and not from the heaps, and a failing send is reported as success.

**Output and input.** What is kept for the header is written to the stream of the
packet that starts it; a header that failed counts as sent; a key frame dropped for
its DTS still counts as the last one seen. A packet that was held back is sent
again when an "unclear" one of its stream follows. If asynchronous opening fails,
Close waits for a Generate that waits for the opening; Close during opening
closes the context under it; Generate that begins after Close reads what is closed.

**Codecs.** Closure is checked before the lock, so a call in flight makes a codec that
nobody closes. A Flush cut off by its context leaves the codec told to end: an
encoder refuses every frame from then on, a decoder answers "already flushed" with
frames inside. ResetHard holds the codec's lock and calls a Close that takes it. The
transcoder's starting call counts and sends before the reader is done, so its last
objects may be lost; Flush overtakes what is pending; Close closes the decoder first,
which waits for a codec whose holder waits for an output nobody takes.

**Multiplexer.** OnAfterSwitch waits for OutputsLocker with CommitMutex held while the
closer has the one and waits for a barrier that needs the other. A request back to
an output about to be closed gets it. A withdrawal after a commit whose target was
replaced leaves syncer and switch apart for ever (ErrSwitchAlreadyInProgress). Without
split, an automatic change is not noted in CurrentOutputProps, so the way back is
answered ErrAlreadySet. While an upgrade to the bypass waits for its delay, the check
ends with "not this time" as an error.

**Passthrough.** The packet that commits a switch is judged by the old value there and
by the new one in every condition evaluated later, so that the key frame of a change
goes both ways or neither. If the throttle's condition commits the first switch after
the transcoder's has looked at it, the second commits at the next key frame, and the
group of pictures between is dropped. Somebody who asks again before the switch is
through can leave the two at different values with nothing pending, and from then on
every packet is dropped (`PatienceSuffices` says who cannot). The codecs are reset
when the passthrough is requested, not when a key frame makes it happen.

## What is not modelled

Inside the modelled components: the counters of NodeDrain belong to one media type,
the verdicts of several are conjoined. Flush emits on channels which the processor
may have closed; the two are in different modules. When a kernel ends by itself
Serve returns at the first closed output channel, and what is still in the other one
is lost: NothingLost is about the processor. Kernels have no identity in Retryable, so
that leaks are not seen; its Close, KernelError and SendInput are left out. Adding and
closing chains, decoders and the timestamps of the output are left out of
InputWithFallback. The race on the map of visited nodes in serve.go is left out (it
ends the program). Router.Close, ResetNode, Start and Stop of a source and forwarding
to another host are left out, as are the transcoding forwarder and a restart of a
stopped one. Of the codecs, copying and raw encoders, several streams, hardware
devices and the options are left out; of the multiplexer, the modes with one output,
draining before a close, its own Close and the statistics; a filter that
panics when a packet meets a closed output (stream_mux.go:328), which a packet still
in the input filter may do. Of the transcoder with passthrough, the mode that
never passes through (it has no switches), the first configuration, failures of
Start, and the assigners of stream indices are left out. AutoBitRate takes the
calculator's answer as arbitrary.

Whole components: about 5300 of the 48000 lines are generated (protobuf, gRPC) and
2000 are demonstrations; another tenth is getters, formatting and logging, in every
file. The filters of images and sound, screen capture, the small kernels and the
codec-specific parsers are calls into libav, OpenCV or the platform on one object at a
time: a model of them would be a model of those libraries.

## Plan

Done: all modules above. The runs are at a dozen, so a new component becomes a part
of MCGraph, MCKernels or MCStreamMux.

1. Frame rate reduction and monotonic timestamps, against a reference definition.
2. How codecs are opened, reused and configured.
